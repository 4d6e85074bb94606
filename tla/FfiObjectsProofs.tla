--------------------------- MODULE FfiObjectsProofs ---------------------------
(***************************************************************************)
(* The objects of a page that own memory of the Rust library, for every set*)
(* of URLs, queries, references, host texts and inputs and every number of *)
(* search-params objects.                                                  *)
(*                                                                         *)
(* IInv: BoxesExact is not inductive by itself. A new box is only new      *)
(* because its number is above every number in use, and an update of a     *)
(* linked view writes a live box only because a linked view has a live URL.*)
(* Shape and Links say so.                                                 *)
(*                                                                         *)
(* UrlInv: the live box is a URL and every view a list of pairs, which is  *)
(* what makes a query written from a list read back as the same list. The  *)
(* join and the host setter are proved of every such URL.                  *)
(*                                                                         *)
(* StreamInv: the box of an open stream holds the decoder as the bytes fed *)
(* so far leave it, whatever the pieces, and what was returned is the text *)
(* of those bytes: the last byte and whether there was one say it all (At).*)
(*                                                                         *)
(* The recursive functions of the model run over 0 .. n; what they compute *)
(* is proved by an induction on the set of the indices where it holds.     *)
(***************************************************************************)
EXTENDS FfiObjects, TLAPS, SequenceTheorems, FiniteSetTheorems, WellFoundedInduction

-----------------------------------------------------------------------------
(* The inductive invariant.                                                *)

\* The objects are records of their kind and name boxes that were made.
Shape ==
  /\ made \in Nat
  /\ url \in [box : 0 .. made, params : Pids \union {0}]
  /\ decoder \in [fatal : BOOLEAN, ignoreBOM : BOOLEAN, box : 0 .. made,
                  bomSeen : BOOLEAN, live : BOOLEAN]
  /\ DOMAIN params = Pids
  /\ \A p \in Pids : /\ params[p].linked \in BOOLEAN /\ params[p].refs \in Int
                     /\ DOMAIN params[p] = {"list", "linked", "refs"}

\* A URL without a box is no URL; a decoder that is gone has none.
Absent ==
  /\ url.box = 0 => url = NoUrl
  /\ ~decoder.live => decoder.box = 0

\* A view is linked exactly while the URL names it.
Links == \A p \in Pids : params[p].linked <=> url.params = p

IInv == Shape /\ Absent /\ Links /\ BoxesExact

-----------------------------------------------------------------------------
(* Heaps.                                                                  *)

\* Taking a box out takes out that box only.
LEMMA WithoutDomain == \A h, b : DOMAIN Without(h, b) = DOMAIN h \ {b}
  BY DEF Without

\* Writing a box adds that box only.
LEMMA PutDomain == \A h, b, v : DOMAIN Put(h, b, v) = DOMAIN h \union {b}
  BY DEF Put

\* Without boxes there is nothing to own.
LEMMA InitInv == Init => IInv
<1> SUFFICES ASSUME Init PROVE IInv
  OBVIOUS
<1> USE DEF Init, NoUrl, NoDecoder
<1>1. DOMAIN heap = {}
  OBVIOUS
<1>2. \A p \in Pids : params[p] = Dead
  OBVIOUS
<1>3. Shape
  <2>1. /\ made \in Nat /\ url \in [box : 0 .. made, params : Pids \union {0}]
        /\ DOMAIN params = Pids
    OBVIOUS
  <2>2. decoder \in [fatal : BOOLEAN, ignoreBOM : BOOLEAN, box : 0 .. made,
                     bomSeen : BOOLEAN, live : BOOLEAN]
    OBVIOUS
  <2>3. \A p \in Pids : params[p].linked = FALSE /\ params[p].refs \in Int
    BY <1>2 DEF Dead
  <2>4. \A p \in Pids : DOMAIN params[p] = {"list", "linked", "refs"}
    BY <1>2 DEF Dead
  <2> QED
    BY <2>1, <2>2, <2>3, <2>4 DEF Shape
<1>4. Links
  BY <1>2, FfiConstants DEF Links, Dead
<1>5. Absent /\ BoxesExact
  BY <1>1 DEF Absent, BoxesExact
<1> QED
  BY <1>3, <1>4, <1>5 DEF IInv

\* A linked view has a live URL.
LEMMA LinkedLive ==
  ASSUME IInv, NEW p \in Pids, params[p].linked
  PROVE  url # NoUrl /\ url.box # 0
  BY FfiConstants DEF IInv, Shape, Absent, Links, NoUrl

-----------------------------------------------------------------------------
(* The actions.                                                            *)

\* The operations that only write the box of the URL, or nothing.
LEMMA SameObjects ==
  ASSUME IInv, made' = made, url' = url, decoder' = decoder,
         DOMAIN heap' = DOMAIN heap,
         DOMAIN params' = Pids,
         \A p \in Pids : /\ params'[p].linked = params[p].linked
                         /\ params'[p].refs \in Int
                         /\ DOMAIN params'[p] = {"list", "linked", "refs"}
  PROVE  IInv'
  BY DEF IInv, Shape, Absent, Links, BoxesExact

\* A refreshed view keeps its link.
LEMMA RefreshedKeeps ==
  ASSUME IInv, NEW q, params' = Refreshed(q)
  PROVE  /\ DOMAIN params' = Pids
         /\ \A p \in Pids : /\ params'[p].linked = params[p].linked
                            /\ params'[p].refs \in Int
                            /\ DOMAIN params'[p] = {"list", "linked", "refs"}
  BY DEF Refreshed, IInv, Shape


\* A new URL: its box is new, and it has no view.
LEMMA NewUrlStep == ASSUME IInv, NewUrl PROVE IInv'
<1>1. PICK v : Alloc(heap, v) /\ url' = [box |-> made + 1, params |-> 0]
  BY DEF NewUrl
<1>2. UNCHANGED <<params, decoder>>
  BY DEF NewUrl, textVars
<1>3. url = NoUrl
  BY DEF NewUrl
<1>4. Shape'
  BY <1>1, <1>2 DEF IInv, Shape, Alloc
<1>5. Absent' /\ Links'
  BY <1>1, <1>2, <1>3, FfiConstants DEF IInv, Shape, Absent, Links, NoUrl
<1>6. DOMAIN heap' = DOMAIN heap \union {made + 1} /\ made' = made + 1
  BY <1>1, PutDomain DEF Alloc
<1>7. BoxesExact'
  BY <1>1, <1>2, <1>3, <1>6 DEF IInv, Shape, BoxesExact, NoUrl
<1> QED
  BY <1>4, <1>5, <1>7 DEF IInv

\* The setters and the updates of a view write the box of a live URL.
LEMMA WriteStep ==
  ASSUME IInv, NEW v, url # NoUrl, heap' = Put(heap, url.box, v)
  PROVE  DOMAIN heap' = DOMAIN heap
<1>1. url.box \in DOMAIN heap
  BY DEF IInv, Absent, BoxesExact
<1>2. DOMAIN Put(heap, url.box, v) = DOMAIN heap \union {url.box}
  BY PutDomain
<1> QED
  BY <1>1, <1>2

\* Every setter of the URL but href.
LEMMA SetSteps ==
  ASSUME IInv, Set \/ (\E text \in HostTexts : SetHostTo(text)) \/ SetSearch
  PROVE  IInv'
<1>1. CASE Set \/ \E text \in HostTexts : SetHostTo(text)
  <2>1. PICK v : heap' = Put(heap, url.box, v)
    BY <1>1 DEF Set, SetHostTo
  <2>2. UNCHANGED <<made, url, params, decoder>> /\ url # NoUrl
    BY <1>1 DEF Set, SetHostTo, urlVars, textVars
  <2>3. DOMAIN heap' = DOMAIN heap
    BY <2>1, <2>2, WriteStep
  <2>4. /\ DOMAIN params' = Pids
        /\ \A p \in Pids : /\ params'[p].linked = params[p].linked
                           /\ params'[p].refs \in Int
                           /\ DOMAIN params'[p] = {"list", "linked", "refs"}
    BY <2>2 DEF IInv, Shape
  <2> QED
    BY <2>2, <2>3, <2>4, SameObjects
<1>2. CASE SetSearch
  <2>1. PICK v, q : heap' = Put(heap, url.box, v) /\ params' = Refreshed(q)
    BY <1>2 DEF SetSearch
  <2>2. UNCHANGED <<made, url, decoder>> /\ url # NoUrl
    BY <1>2 DEF SetSearch, textVars
  <2>3. DOMAIN heap' = DOMAIN heap
    BY <2>1, <2>2, WriteStep
  <2> QED
    BY <2>1, <2>2, <2>3, RefreshedKeeps, SameObjects
<1> QED
  BY <1>1, <1>2

\* A new href: a refused one changes nothing, another one replaces the box.
LEMMA SetHrefStep == ASSUME IInv, SetHref PROVE IInv'
<1>1. decoder' = decoder /\ url # NoUrl
  BY DEF SetHref, textVars
<1>2. CASE UNCHANGED <<heap, made, urlVars>>
  BY <1>1, <1>2 DEF IInv, Shape, Absent, Links, BoxesExact, urlVars
<1>3. CASE \E v, q : /\ Alloc(Without(heap, url.box), v)
                     /\ url' = [url EXCEPT !.box = made + 1]
                     /\ params' = Refreshed(q)
  <2>1. PICK v, q : /\ Alloc(Without(heap, url.box), v)
                    /\ url' = [url EXCEPT !.box = made + 1]
                    /\ params' = Refreshed(q)
    BY <1>3
  <2>2. /\ DOMAIN heap' = (DOMAIN heap \ {url.box}) \union {made + 1}
        /\ made' = made + 1
    <3>1. heap' = Put(Without(heap, url.box), made + 1, v) /\ made' = made + 1
      BY <2>1 DEF Alloc
    <3>2. DOMAIN Without(heap, url.box) = DOMAIN heap \ {url.box}
      BY WithoutDomain
    <3>3. DOMAIN Put(Without(heap, url.box), made + 1, v)
            = DOMAIN Without(heap, url.box) \union {made + 1}
      BY PutDomain
    <3> QED
      BY <3>1, <3>2, <3>3
  <2>3. url'.box = made + 1 /\ url'.params = url.params
        /\ url' \in [box : 0 .. made', params : Pids \union {0}]
    BY <2>1, <2>2 DEF IInv, Shape
  <2>4. /\ DOMAIN params' = Pids
        /\ \A p \in Pids : /\ params'[p].linked = params[p].linked
                           /\ params'[p].refs \in Int
                           /\ DOMAIN params'[p] = {"list", "linked", "refs"}
    BY <2>1, RefreshedKeeps
  <2>5. Shape'
    BY <1>1, <2>2, <2>3, <2>4 DEF IInv, Shape
  <2>6. Absent' /\ Links'
    BY <1>1, <2>2, <2>3, <2>4 DEF IInv, Shape, Absent, Links
  <2>7. BoxesExact'
    BY <1>1, <2>2, <2>3 DEF IInv, Shape, Absent, BoxesExact
  <2> QED
    BY <2>5, <2>6, <2>7 DEF IInv
<1> QED
  BY <1>2, <1>3 DEF SetHref

\* The first view links itself; later ones are references to it.
LEMMA GetParamsStep == ASSUME IInv, GetParams PROVE IInv'
<1>1. UNCHANGED <<heap, made, decoder>> /\ url # NoUrl
  BY DEF GetParams, textVars
<1>2. CASE url.params # 0
  <2>1. params' = [params EXCEPT ![url.params].refs = 2] /\ url' = url
    BY <1>2 DEF GetParams
  <2> QED
    BY <1>1, <2>1, SameObjects DEF IInv, Shape
<1>3. CASE url.params = 0
  <2> DEFINE list == ParamsOf(heap[url.box].query)
  <2>1. PICK p \in Pids :
          /\ params' = [params EXCEPT ![p] = [list |-> list, linked |-> TRUE, refs |-> 2]]
          /\ url' = [url EXCEPT !.params = p]
    BY <1>3 DEF GetParams
  <2> HIDE DEF list
  <2>2. url'.box = url.box /\ url'.params = p
        /\ url' \in [box : 0 .. made, params : Pids \union {0}]
    BY <2>1 DEF IInv, Shape
  <2>3. params'[p] = [list |-> list, linked |-> TRUE, refs |-> 2]
        /\ DOMAIN params' = Pids /\ \A q \in Pids \ {p} : params'[q] = params[q]
    BY <2>1 DEF IInv, Shape
  <2>4. Shape'
    <3>1. \A q \in Pids : DOMAIN params'[q] = {"list", "linked", "refs"}
      BY <2>3 DEF IInv, Shape
    <3>2. \A q \in Pids : params'[q].refs \in Int
      BY <2>3 DEF IInv, Shape
    <3>3. \A q \in Pids : params'[q].linked \in BOOLEAN
      <4>1. params'[p].linked = TRUE
        BY <2>3
      <4>2. \A q \in Pids \ {p} : params'[q].linked = params[q].linked
        BY <2>3
      <4>3. \A q \in Pids : params[q].linked \in BOOLEAN
        BY DEF IInv, Shape
      <4> QED
        BY <4>1, <4>2, <4>3, Zenon
    <3> QED
      BY <1>1, <2>2, <2>3, <3>1, <3>2, <3>3 DEF IInv, Shape
  <2>5. Links'
    <3>1. \A q \in Pids : ~params[q].linked
      BY <1>3, FfiConstants DEF IInv, Links
    <3> QED
      BY <2>2, <2>3, <3>1 DEF Links
  <2>6. Absent' /\ BoxesExact'
    BY <1>1, <2>2 DEF IInv, Absent, BoxesExact, NoUrl
  <2> QED
    BY <2>4, <2>5, <2>6 DEF IInv
<1> QED
  BY <1>2, <1>3

\* An update of a view reaches the URL only if the view is linked.
LEMMA UpdateParamsStep == ASSUME IInv, UpdateParams PROVE IInv'
<1>1. UNCHANGED <<made, url, decoder>>
  BY DEF UpdateParams, textVars
<1> DEFINE Written(list) == SetQuery(heap[url.box], QueryOf(list))
<1>2. PICK p \in Pids : \E list \in Updates(params[p].list) :
        /\ params' = [params EXCEPT ![p].list = list]
        /\ IF params[p].linked THEN heap' = Put(heap, url.box, Written(list)) ELSE UNCHANGED heap
  BY DEF UpdateParams
<1>3. PICK list \in Updates(params[p].list) :
        /\ params' = [params EXCEPT ![p].list = list]
        /\ IF params[p].linked THEN heap' = Put(heap, url.box, Written(list)) ELSE UNCHANGED heap
  BY <1>2
<1> HIDE DEF Written
<1>4. DOMAIN heap' = DOMAIN heap
  <2>1. CASE params[p].linked
    BY <1>3, <2>1, LinkedLive, WriteStep
  <2> QED
    BY <1>3, <2>1
<1>5. /\ DOMAIN params' = Pids
      /\ \A q \in Pids : /\ params'[q].linked = params[q].linked
                         /\ params'[q].refs \in Int
                         /\ DOMAIN params'[q] = {"list", "linked", "refs"}
  BY <1>3 DEF IInv, Shape
<1> QED
  BY <1>1, <1>4, <1>5, SameObjects

-----------------------------------------------------------------------------
(* The collector.                                                          *)

\* A reference less: the shape stays, and an object with others keeps its link.
LEMMA ReleasedShape ==
  ASSUME NEW o, DOMAIN o = {"list", "linked", "refs"}, o.linked \in BOOLEAN, o.refs \in Int
  PROVE  /\ DOMAIN Released(o) = {"list", "linked", "refs"}
         /\ Released(o).refs \in Int
         /\ Released(o).linked \in BOOLEAN
         /\ (~o.linked \/ o.refs > 1) => (Released(o).linked <=> o.linked)
<1>1. CASE o.refs = 1
  <2>1. Released(o) = [list |-> <<>>, linked |-> FALSE, refs |-> 0]
    BY <1>1 DEF Released, Dead
  <2> QED
    BY <1>1, <2>1
<1>2. CASE o.refs # 1
  <2>1. Released(o) = [o EXCEPT !.refs = o.refs - 1]
    BY <1>2 DEF Released
  <2>2. DOMAIN Released(o) = DOMAIN o /\ Released(o).linked = o.linked
    BY <2>1
  <2>3. Released(o).refs = o.refs - 1
    BY <2>1
  <2> QED
    BY <2>2, <2>3
<1> QED
  BY <1>1, <1>2

\* The URL goes: its box with it, and a view that a script holds is unlinked.
LEMMA DropUrlStep == ASSUME IInv, DropUrl PROVE IInv'
<1>1. UNCHANGED <<made, decoder>> /\ url # NoUrl /\ url' = NoUrl
  BY DEF DropUrl, textVars
<1>2. DOMAIN heap' = DOMAIN heap \ {url.box}
  BY WithoutDomain DEF DropUrl
<1>3. /\ DOMAIN params' = Pids
      /\ \A p \in Pids :
           params'[p] = IF p \in Linked THEN Released([params[p] EXCEPT !.linked = FALSE])
                        ELSE params[p]
  BY DEF DropUrl
<1>4. \A p \in Pids : p \in Linked <=> params[p].linked
  BY FfiConstants DEF Linked, IInv, Shape, Links
<1>5. ASSUME NEW p \in Pids
      PROVE  /\ params'[p].linked = FALSE /\ params'[p].refs \in Int
             /\ DOMAIN params'[p] = {"list", "linked", "refs"}
  <2>1. CASE p \in Linked
    <3> DEFINE o == [params[p] EXCEPT !.linked = FALSE]
    <3>1. /\ DOMAIN o = {"list", "linked", "refs"} /\ o.linked = FALSE
          /\ o.refs \in Int
      BY DEF IInv, Shape
    <3>2. params'[p] = Released(o)
      BY <1>3, <2>1
    <3> HIDE DEF o
    <3> QED
      BY <3>1, <3>2, ReleasedShape
  <2>2. CASE p \notin Linked
    <3>1. params'[p] = params[p] /\ ~params[p].linked
      BY <1>3, <1>4, <2>2
    <3> QED
      BY <3>1 DEF IInv, Shape
  <2> QED
    BY <2>1, <2>2
<1>6. Shape'
  <2>1. made' \in Nat /\ url' \in [box : 0 .. made', params : Pids \union {0}]
    BY <1>1 DEF IInv, Shape, NoUrl
  <2>2. decoder' \in [fatal : BOOLEAN, ignoreBOM : BOOLEAN, box : 0 .. made',
                      bomSeen : BOOLEAN, live : BOOLEAN]
    BY <1>1 DEF IInv, Shape
  <2> QED
    BY <1>3, <1>5, <2>1, <2>2 DEF Shape
<1>7. Absent' /\ Links'
  BY <1>1, <1>5, FfiConstants DEF IInv, Absent, Links, NoUrl
<1>8. BoxesExact'
  BY <1>1, <1>2 DEF IInv, Absent, BoxesExact, NoUrl
<1> QED
  BY <1>6, <1>7, <1>8 DEF IInv

\* A script's last reference to a view: the URL's own keeps a linked one.
LEMMA DropParamsStep == ASSUME IInv, DropParams PROVE IInv'
<1>1. UNCHANGED <<heap, made, url, decoder>>
  BY DEF DropParams, textVars
<1>2. PICK p \in Pids : /\ params[p].refs > IF params[p].linked THEN 1 ELSE 0
                        /\ params' = [params EXCEPT ![p] = Released(params[p])]
  BY DEF DropParams
<1>3. ~params[p].linked \/ params[p].refs > 1
  BY <1>2
<1>4. /\ DOMAIN Released(params[p]) = {"list", "linked", "refs"}
      /\ Released(params[p]).refs \in Int
      /\ Released(params[p]).linked = params[p].linked
  BY <1>3, ReleasedShape DEF IInv, Shape
<1>5. /\ DOMAIN params' = Pids
      /\ \A q \in Pids : /\ params'[q].linked = params[q].linked
                         /\ params'[q].refs \in Int
                         /\ DOMAIN params'[q] = {"list", "linked", "refs"}
  BY <1>2, <1>4 DEF IInv, Shape
<1> QED
  BY <1>1, <1>5, SameObjects

-----------------------------------------------------------------------------
(* The decoder.                                                            *)

\* Steps of the decoder that leave the URL and its views alone.
LEMMA SameUrl ==
  ASSUME IInv, url' = url, params' = params,
         made' \in Nat, made' >= made,
         decoder' \in [fatal : BOOLEAN, ignoreBOM : BOOLEAN, box : 0 .. made',
                       bomSeen : BOOLEAN, live : BOOLEAN],
         ~decoder'.live => decoder'.box = 0,
         DOMAIN heap' = {url.box, decoder'.box} \ {0},
         url.box = decoder'.box => url.box = 0
  PROVE  IInv'
<1>1. url' \in [box : 0 .. made', params : Pids \union {0}]
  BY DEF IInv, Shape
<1>2. Shape'
  BY <1>1 DEF IInv, Shape
<1> QED
  BY <1>2 DEF IInv, Absent, Links, BoxesExact

\* The end of a decode: box b, if it is one, is kept or freed.
LEMMA DecodedStep ==
  ASSUME IInv, url' = url, params' = params, decoder.live,
         NEW h, NEW b \in 0 .. made', NEW run, NEW input, NEW last \in BOOLEAN,
         made' \in Nat, made' >= made,
         DOMAIN h = {url.box, b} \ {0}, url.box = b => b = 0,
         Decoded(h, b, run, input, last)
  PROVE  IInv'
<1> DEFINE failed == decoder.fatal /\ "?" \in Range(run.out)
           free   == b # 0 /\ (failed \/ last)
           strip  == ~decoder.bomSeen /\ ~decoder.ignoreBOM
<1>1. heap' = IF free THEN Without(h, b)
              ELSE IF b # 0 THEN Put(h, b, [run EXCEPT !.out = <<>>]) ELSE h
  BY DEF Decoded
<1>2. decoder' = [decoder EXCEPT !.box = IF free THEN 0 ELSE b,
                                 !.bomSeen = ~failed /\ (@ \/ strip)]
  BY DEF Decoded
<1>3. failed \in BOOLEAN /\ free \in BOOLEAN /\ strip \in BOOLEAN
  OBVIOUS
<1> HIDE DEF failed, free, strip
<1>4. decoder'.box = IF free THEN 0 ELSE b
  BY <1>2 DEF IInv, Shape
<1>5. decoder'.live = decoder.live
  BY <1>2 DEF IInv, Shape
<1>6. decoder' \in [fatal : BOOLEAN, ignoreBOM : BOOLEAN, box : 0 .. made',
                    bomSeen : BOOLEAN, live : BOOLEAN]
  <2>1. (IF free THEN 0 ELSE b) \in 0 .. made'
    OBVIOUS
  <2>2. (~failed /\ (decoder.bomSeen \/ strip)) \in BOOLEAN
    OBVIOUS
  <2> QED
    BY <1>2, <2>1, <2>2 DEF IInv, Shape
<1>7. DOMAIN heap' = {url.box, decoder'.box} \ {0}
  <2>1. CASE free
    <3>1. DOMAIN heap' = DOMAIN h \ {b}
      BY <1>1, <2>1, WithoutDomain
    <3> QED
      BY <1>4, <2>1, <3>1
  <2>2. CASE ~free /\ b # 0
    <3>1. DOMAIN heap' = DOMAIN h \union {b}
      BY <1>1, <2>2, PutDomain
    <3> QED
      BY <1>4, <2>2, <3>1
  <2>3. CASE ~free /\ b = 0
    BY <1>1, <1>4, <2>3
  <2> QED
    BY <2>1, <2>2, <2>3
<1>8. url.box = decoder'.box => url.box = 0
  BY <1>4
<1> QED
  BY <1>5, <1>6, <1>7, <1>8, SameUrl

\* decode(), in a stream or not, and the decoder's birth and death.
LEMMA DecoderSteps ==
  ASSUME IInv,
         NewTextDecoder \/ DropDecoder \/ \E input \in Chunks : DecodeChunk(input) \/ DecodeLast(input)
  PROVE  IInv'
<1> USE DEF IInv, Shape, BoxesExact
<1>1. CASE NewTextDecoder
  <2>1. PICK fatal, ignore \in BOOLEAN :
          decoder' = [fatal |-> fatal, ignoreBOM |-> ignore, box |-> 0, bomSeen |-> FALSE,
                      live |-> TRUE]
    BY <1>1 DEF NewTextDecoder
  <2>2. UNCHANGED <<heap, made, url, params>> /\ ~decoder.live
    BY <1>1 DEF NewTextDecoder, urlVars
  <2>3. decoder.box = 0
    BY <2>2 DEF Absent
  <2> QED
    BY <2>1, <2>2, <2>3, SameUrl
<1>2. CASE DropDecoder
  <2>1. UNCHANGED <<made, url, params>> /\ decoder' = NoDecoder
    BY <1>2 DEF DropDecoder, urlVars
  <2>2. DOMAIN heap' = DOMAIN heap \ {decoder.box}
    BY <1>2, WithoutDomain DEF DropDecoder
  <2>3. decoder' \in [fatal : BOOLEAN, ignoreBOM : BOOLEAN, box : 0 .. made',
                      bomSeen : BOOLEAN, live : BOOLEAN] /\ decoder'.box = 0
    BY <2>1 DEF NoDecoder
  <2> QED
    BY <2>1, <2>2, <2>3, SameUrl
<1>3. ASSUME NEW input \in Chunks, DecodeLast(input) PROVE IInv'
  <2>1. UNCHANGED <<made, url, params>> /\ decoder.live
    BY <1>3 DEF DecodeLast, urlVars
  <2>2. PICK run : Decoded(heap, decoder.box, run, input, TRUE)
    BY <1>3 DEF DecodeLast
  <2>3. decoder.box \in 0 .. made' /\ made' >= made
    BY <2>1
  <2> QED
    BY <2>1, <2>2, <2>3, DecodedStep
<1>4. ASSUME NEW input \in Chunks, DecodeChunk(input) PROVE IInv'
  <2> DEFINE b == IF decoder.box = 0 THEN made + 1 ELSE decoder.box
             h == IF decoder.box = 0 THEN Put(heap, b, NewDecoder) ELSE heap
  <2>1. /\ UNCHANGED <<url, params>> /\ decoder.live
        /\ made' = IF decoder.box = 0 THEN b ELSE made
    BY <1>4 DEF DecodeChunk, urlVars
  <2>2. b \in 0 .. made' /\ b # 0 /\ b # url.box /\ made' \in Nat /\ made' >= made
    BY <2>1
  <2>3. DOMAIN h = {url.box, b} \ {0}
    <3>1. CASE decoder.box = 0
      <4>1. DOMAIN Put(heap, b, NewDecoder) = DOMAIN heap \union {b}
        BY ZenonT(60), PutDomain
      <4>2. h = Put(heap, b, NewDecoder)
        BY <3>1
      <4> HIDE DEF h
      <4> QED
        BY <2>2, <3>1, <4>1, <4>2
    <3> QED
      BY <3>1
  <2>4. CASE input = <<>>
    <3>1. heap' = h /\ decoder' = [decoder EXCEPT !.box = b]
      BY <1>4, <2>4 DEF DecodeChunk
    <3> HIDE DEF b, h
    <3>2. /\ decoder' \in [fatal : BOOLEAN, ignoreBOM : BOOLEAN, box : 0 .. made',
                           bomSeen : BOOLEAN, live : BOOLEAN]
          /\ decoder'.box = b /\ decoder'.live = decoder.live
      BY <2>2, <3>1
    <3> QED
      BY <2>1, <2>2, <2>3, <3>1, <3>2, SameUrl
  <2>5. CASE input # <<>>
    <3>1. PICK run : Decoded(h, b, run, input, FALSE)
      BY <1>4, <2>5 DEF DecodeChunk
    <3> HIDE DEF b, h
    <3> QED
      BY <2>1, <2>2, <2>3, <3>1, DecodedStep
  <2> QED
    BY <2>4, <2>5
<1> QED
  BY <1>1, <1>2, <1>3, <1>4

-----------------------------------------------------------------------------
(* The theorems.                                                           *)

\* A step of the page, or none of its objects changes.
LEMMA StepKeeps == IInv /\ [Next]_vars => IInv'
<1> SUFFICES ASSUME IInv, [Next]_vars PROVE IInv'
  OBVIOUS
<1>1. CASE UNCHANGED vars
  BY <1>1 DEF vars, IInv, Shape, Absent, Links, BoxesExact
<1>2. CASE Next
  BY <1>2, NewUrlStep, SetSteps, SetHrefStep, GetParamsStep, UpdateParamsStep, DropUrlStep,
     DropParamsStep, DecoderSteps DEF Next
<1> QED
  BY <1>1, <1>2

\* The invariant that the actions keep: the objects name boxes that were made, none
\* that is gone names one, and links go both ways.
THEOREM ObjectsInvariant == Spec => []IInv
  BY InitInv, StepKeeps, PTL DEF Spec

\* Every box of the Rust library has exactly one live owner (URL.deinit, URL.setHref,
\* TextDecoder.decode, TextDecoder.deinit), whatever a script calls and whenever the
\* collector runs.
THEOREM OneOwner == Spec => []BoxesExact
<1>1. IInv => BoxesExact
  BY DEF IInv
<1> QED
  BY <1>1, ObjectsInvariant, PTL

\* What holds of 0 and, with n, of n + 1 holds of every number.
LEMMA SetInduction ==
  ASSUME NEW S, 0 \in S, \A n \in Nat : n \in S => n + 1 \in S
  PROVE  Nat \subseteq S
<1> DEFINE Below(n) == 0 .. (n - 1)
           O == StrictSubsetOrdering(Nat)
           F == FiniteSubsetsOf(Nat)
           Missing == Nat \ S
           T == {Below(n) : n \in Missing}
<1> SUFFICES ASSUME Missing # {} PROVE FALSE
  OBVIOUS
<1>1. IsWellFoundedOn(O, F)
  BY FS_StrictSubsetOrderingWellFounded
<1>2. \A n \in Nat : Below(n) \in F
  <2>1. TAKE n \in Nat
  <2>2. IsFiniteSet(0 .. (n - 1))
    BY FS_Interval
  <2>3. 0 .. (n - 1) \in SUBSET Nat
    OBVIOUS
  <2> QED
    BY <2>2, <2>3 DEF FiniteSubsetsOf
<1>3. T \subseteq F /\ T # {}
  BY <1>2
<1>4. PICK b \in T : \A c \in T : ~(<<c, b>> \in O)
  <2> HIDE DEF T, O, F
  <2> QED
    BY <1>1, <1>3, WFMin, Zenon
<1>5. PICK x \in Missing : b = Below(x)
  BY <1>4
<1>6. x \in Nat /\ x # 0 /\ x - 1 \in Nat
  BY <1>5
<1>7. (x - 1) + 1 = x
  BY <1>6
<1>8. x - 1 \notin S
  BY <1>5, <1>6, <1>7
<1>9. Below(x - 1) \in T
  BY <1>6, <1>8
<1>10. /\ Below(x - 1) \subseteq Below(x)
       /\ x - 1 \in Below(x)
       /\ x - 1 \notin Below(x - 1)
       /\ Below(x) \in SUBSET Nat
       /\ Below(x - 1) \in SUBSET Nat
  BY <1>6
<1>11. <<Below(x - 1), Below(x)>> \in O
  <2> HIDE DEF Below
  <2>1. Below(x - 1) # Below(x)
    BY <1>10
  <2> QED
    BY <1>10, <2>1 DEF StrictSubsetOrdering
<1> HIDE DEF T, O, Below
<1> QED
  BY <1>4, <1>5, <1>9, <1>11, Zenon

\* ... and in an interval from 0, of its numbers.
LEMMA IntervalInduction ==
  ASSUME NEW N \in Nat, NEW S, 0 \in S, \A n \in 1 .. N : n - 1 \in S => n \in S
  PROVE  \A n \in 0 .. N : n \in S
<1> DEFINE T == {n \in Nat : n <= N => n \in S}
<1>1. 0 \in T
  OBVIOUS
<1>2. ASSUME NEW n \in Nat, n \in T PROVE n + 1 \in T
  <2>1. SUFFICES ASSUME n + 1 <= N PROVE n + 1 \in S
    OBVIOUS
  <2>2. n \in S /\ n + 1 \in 1 .. N /\ (n + 1) - 1 = n
    BY <1>2, <2>1
  <2> QED
    BY <2>2
<1>3. Nat \subseteq T
  <2> HIDE DEF T
  <2> QED
    BY <1>1, <1>2, SetInduction
<1> QED
  BY <1>3

\* Two functions that start alike and go on alike are alike.
Alike(f, g, N) == f[0] = g[0] /\ \A n \in 1 .. N : f[n - 1] = g[n - 1] => f[n] = g[n]

\* Two functions that start alike and go on alike have the same values.
LEMMA SameValues ==
  ASSUME NEW N \in Nat, NEW f, NEW g, Alike(f, g, N)
  PROVE  \A n \in 0 .. N : f[n] = g[n]
<1> DEFINE S == {n \in 0 .. N : f[n] = g[n]}
<1>1. 0 \in S /\ \A n \in 1 .. N : n - 1 \in S => n \in S
  BY DEF Alike
<1>2. \A n \in 0 .. N : n \in S
  <2> HIDE DEF S
  <2> QED
    BY <1>1, IntervalInduction
<1> QED
  BY <1>2

\* ... and a function of the recursion is the one that Recursion finds.
LEMMA SameFunction ==
  ASSUME NEW N \in Nat, NEW V, NEW f \in [0 .. N -> V], NEW g, g = [n \in 0 .. N |-> g[n]],
         Alike(g, f, N)
  PROVE  g = f /\ g[N] \in V
<1>1. \A n \in 0 .. N : g[n] = f[n]
  BY SameValues
<1>2. f = [n \in 0 .. N |-> f[n]] /\ f[N] \in V
  OBVIOUS
<1> QED
  BY <1>1, <1>2

\* The steps of a recursion over 1 .. N whose values stay in V.
Steps(N, V) == [1 .. N -> [V -> V]]

\* A recursion whose step stays in a set has a solution with values in the set.
LEMMA Recursion ==
  ASSUME NEW V, NEW v \in V, NEW N \in Nat, NEW G \in Steps(N, V)
  PROVE  \E f \in [0 .. N -> V] : f[0] = v /\ \A n \in 1 .. N : f[n] = G[n][f[n - 1]]
<1> DEFINE Good(f, m) == f[0] = v /\ \A n \in 1 .. m : f[n] = G[n][f[n - 1]]
           S == {m \in 0 .. N : \E f \in [0 .. m -> V] : Good(f, m)}
<1> USE DEF Steps
<1>1. 0 \in S
  <2> DEFINE f == [n \in 0 .. 0 |-> v]
  <2>1. f \in [0 .. 0 -> V] /\ Good(f, 0)
    OBVIOUS
  <2> HIDE DEF f
  <2> QED
    BY <2>1
<1>2. ASSUME NEW n \in 1 .. N, n - 1 \in S PROVE n \in S
  <2>1. PICK f \in [0 .. (n - 1) -> V] : Good(f, n - 1)
    BY <1>2
  <2> DEFINE g == [k \in 0 .. n |-> IF k = n THEN G[n][f[n - 1]] ELSE f[k]]
  <2>2. \A k \in 0 .. (n - 1) : g[k] = f[k]
    OBVIOUS
  <2>3. g[n] = G[n][f[n - 1]] /\ f[n - 1] \in V
    OBVIOUS
  <2>4. g \in [0 .. n -> V]
    <3>1. G[n] \in [V -> V]
      OBVIOUS
    <3>2. G[n][f[n - 1]] \in V
      BY <2>3, <3>1
    <3> QED
      BY <3>2
  <2> HIDE DEF g
  <2>5. g[0] = v
    BY <2>1, <2>2
  <2>6. ASSUME NEW k \in 1 .. n PROVE g[k] = G[k][g[k - 1]]
    <3>1. CASE k = n
      BY <2>2, <2>3, <3>1
    <3>2. CASE k # n
      <4>1. k \in 1 .. (n - 1) /\ k - 1 \in 0 .. (n - 1) /\ k \in 0 .. (n - 1)
        BY <3>2
      <4> QED
        BY <2>1, <2>2, <4>1
    <3> QED
      BY <3>1, <3>2
  <2>7. Good(g, n)
    BY <2>5, <2>6
  <2> HIDE DEF Good
  <2> QED
    BY <2>4, <2>7
<1>3. N \in S
  <2> HIDE DEF S
  <2>1. \A n \in 0 .. N : n \in S
    BY <1>1, <1>2, IntervalInduction
  <2> QED
    BY <2>1
<1> QED
  BY <1>3

-----------------------------------------------------------------------------
(* Lists of parameters.                                                    *)
IsPair(e) == IsSeq(e) /\ Len(e) = 2
IsList(l) == IsSeq(l) /\ \A i \in DOMAIN l : IsPair(l[i])

\* A sequence of anything is one.
LEMMA SeqIs == ASSUME NEW V, NEW s \in Seq(V) PROVE IsSeq(s) /\ Range(s) \subseteq V
<1>1. DOMAIN s = 1 .. Len(s) /\ Len(s) \in Nat /\ s = [i \in 1 .. Len(s) |-> s[i]]
  OBVIOUS
<1>2. \A i \in 1 .. Len(s) : s[i] \in Range(s)
  BY <1>1 DEF Range
<1>3. [i \in 1 .. Len(s) |-> s[i]] \in Seq(Range(s))
  BY <1>1, <1>2, IsASeq
<1>4. IsSeq(s)
  BY <1>1, <1>3 DEF IsSeq
<1>5. \A i \in 1 .. Len(s) : s[i] \in V
  OBVIOUS
<1> QED
  BY <1>1, <1>4, <1>5 DEF Range

\* What a sequence is made of.
LEMMA SeqHas ==
  ASSUME NEW s, IsSeq(s)
  PROVE  /\ s \in Seq(Range(s)) /\ DOMAIN s = 1 .. Len(s) /\ Len(s) \in Nat
         /\ s = [i \in 1 .. Len(s) |-> s[i]]
         /\ \A i \in 1 .. Len(s) : s[i] \in Range(s)
<1>1. s \in Seq(Range(s))
  BY DEF IsSeq
<1> DEFINE V == Range(s)
<1> HIDE DEF V
<1>2. s \in Seq(V) => /\ DOMAIN s = 1 .. Len(s) /\ Len(s) \in Nat
                      /\ s = [i \in 1 .. Len(s) |-> s[i]]
                      /\ \A i \in 1 .. Len(s) : s[i] \in V
  OBVIOUS
<1> QED
  BY <1>1, <1>2 DEF V

\* A sequence is one over every set that has its entries.
LEMMA SeqIn == ASSUME NEW s, IsSeq(s), NEW V, Range(s) \subseteq V PROVE s \in Seq(V)
<1>1. /\ Len(s) \in Nat /\ s = [i \in 1 .. Len(s) |-> s[i]]
      /\ \A i \in 1 .. Len(s) : s[i] \in Range(s)
  BY SeqHas
<1>2. \A i \in 1 .. Len(s) : s[i] \in V
  BY <1>1
<1>3. [i \in 1 .. Len(s) |-> s[i]] \in Seq(V)
  BY <1>1, <1>2, IsASeq
<1> QED
  BY <1>1, <1>3

\* One more entry.
LEMMA AppendIs ==
  ASSUME NEW s, IsSeq(s), NEW x
  PROVE  IsSeq(Append(s, x)) /\ Len(Append(s, x)) = Len(s) + 1
<1> DEFINE V == Range(s) \union {x}
<1>1. Range(s) \subseteq V /\ x \in V
  OBVIOUS
<1> HIDE DEF V
<1>2. s \in Seq(V)
  BY <1>1, SeqIn
<1>3. Append(s, x) \in Seq(V) /\ Len(Append(s, x)) = Len(s) + 1
  BY <1>1, <1>2
<1> QED
  BY <1>3, SeqIs

\* What is kept of the first n entries of a list.
Kept(list, keep, n) == IF list[n] \in keep THEN <<list[n]>> ELSE <<>>
OnlyTo(list, keep) ==
  CHOOSE f : f = [n \in 0 .. Len(list) |->
                    IF n = 0 THEN <<>> ELSE f[n - 1] \o Kept(list, keep, n)]

\* There is such a function, and it keeps nothing else.
LEMMA OnlyRecur ==
  ASSUME NEW V, NEW list \in Seq(V), NEW keep
  PROVE  LET f == OnlyTo(list, keep)
         IN  /\ f \in [0 .. Len(list) -> Seq(V \cap keep)] /\ f[0] = <<>>
             /\ \A n \in 1 .. Len(list) : f[n] = f[n - 1] \o Kept(list, keep, n)
             /\ Only(list, keep) = f[Len(list)]
<1> DEFINE N == Len(list)
           W == Seq(V \cap keep)
           G == [n \in 1 .. N |-> [x \in W |-> x \o Kept(list, keep, n)]]
           Of(f) == f = [n \in 0 .. N |-> IF n = 0 THEN <<>> ELSE f[n - 1] \o Kept(list, keep, n)]
           c == OnlyTo(list, keep)
<1>1. ASSUME NEW n \in 1 .. N PROVE Kept(list, keep, n) \in W
  <2>1. list[n] \in V
    OBVIOUS
  <2>2. CASE list[n] \in keep
    <3>1. list[n] \in V \cap keep /\ Kept(list, keep, n) = <<list[n]>>
      BY <2>1, <2>2 DEF Kept
    <3> QED
      BY <3>1
  <2>3. CASE list[n] \notin keep
    <3>1. Kept(list, keep, n) = <<>>
      BY <2>3 DEF Kept
    <3> QED
      BY <3>1
  <2> QED
    BY <2>2, <2>3
<1>2. ASSUME NEW n \in 1 .. N, NEW x \in W PROVE x \o Kept(list, keep, n) \in W
  <2> DEFINE k == Kept(list, keep, n)
  <2>1. k \in W
    BY <1>1
  <2> HIDE DEF k
  <2>2. x \o k \in W
    BY <2>1
  <2> QED
    BY <2>2 DEF k
<1>3. N \in Nat /\ <<>> \in W
  OBVIOUS
<1> HIDE DEF W, N
<1>4. PICK f \in [0 .. N -> W] : f[0] = <<>> /\ \A n \in 1 .. N : f[n] = G[n][f[n - 1]]
  <2>1. G \in Steps(N, W)
    BY <1>2 DEF Steps
  <2> HIDE DEF G
  <2> QED
    BY <1>3, <2>1, Recursion
<1>5. \A n \in 1 .. N : f[n] = f[n - 1] \o Kept(list, keep, n)
  <2> TAKE n \in 1 .. N
  <2>1. n - 1 \in 0 .. N
    BY <1>3
  <2>2. f[n - 1] \in W
    BY <2>1
  <2> QED
    BY <1>4, <2>2
<1>6. Of(f)
  <2>1. \A n \in 0 .. N : n = 0 \/ n \in 1 .. N
    BY <1>3
  <2> QED
    BY <1>4, <1>5, <2>1
<1> HIDE DEF G
<1>7. Of(c)
  <2> HIDE DEF c
  <2>1. c = CHOOSE g : Of(g)
    BY DEF c, OnlyTo, N
  <2> HIDE DEF Of
  <2> QED
    BY <1>6, <2>1, Zenon
<1>8. Only(list, keep) = c[N]
  BY DEF Only, OnlyTo, Kept, N
<1> HIDE DEF c
<1>9. /\ c[0] = <<>>
      /\ \A n \in 1 .. N : c[n] = c[n - 1] \o Kept(list, keep, n)
  <2>1. \A n \in 0 .. N : c[n] = IF n = 0 THEN <<>> ELSE c[n - 1] \o Kept(list, keep, n)
    BY <1>7
  <2>2. 0 \in 0 .. N /\ \A n \in 1 .. N : n \in 0 .. N /\ n # 0
    BY <1>3
  <2> QED
    BY <2>1, <2>2
<1>10. Alike(c, f, N)
  BY <1>4, <1>5, <1>9 DEF Alike
<1>11. c = [n \in 0 .. N |-> c[n]]
  BY <1>7
<1> HIDE DEF Of
<1>12. c \in [0 .. N -> W]
  BY <1>3, <1>10, <1>11, SameFunction
<1> QED
  BY <1>8, <1>9, <1>12 DEF N, W, c

\* What Only keeps is of the list, and in the set to keep.
LEMMA OnlyAre ==
  ASSUME NEW V, NEW list \in Seq(V), NEW keep
  PROVE  Only(list, keep) \in Seq(V \cap keep) /\ Only(list, keep) \in Seq(V)
<1> DEFINE f == OnlyTo(list, keep)
<1>1. /\ f \in [0 .. Len(list) -> Seq(V \cap keep)]
      /\ Only(list, keep) = f[Len(list)]
  BY OnlyRecur
<1> HIDE DEF f
<1>2. Len(list) \in 0 .. Len(list)
  OBVIOUS
<1>3. Only(list, keep) \in Seq(V \cap keep)
  BY <1>1, <1>2
<1> QED
  BY <1>3

\* Keeping everything changes nothing.
LEMMA OnlyAll ==
  ASSUME NEW V, NEW list \in Seq(V), NEW keep, \A i \in 1 .. Len(list) : list[i] \in keep
  PROVE  Only(list, keep) = list
<1> DEFINE f == OnlyTo(list, keep)
           S == {n \in 0 .. Len(list) : f[n] = SubSeq(list, 1, n)}
<1>1. /\ f[0] = <<>> /\ Only(list, keep) = f[Len(list)]
      /\ \A n \in 1 .. Len(list) : f[n] = f[n - 1] \o Kept(list, keep, n)
  BY OnlyRecur
<1> HIDE DEF f
<1>2. 0 \in S
  <2>1. SubSeq(list, 1, 0) = <<>>
    OBVIOUS
  <2>2. 0 \in 0 .. Len(list)
    OBVIOUS
  <2> QED
    BY <1>1, <2>1, <2>2
<1>3. ASSUME NEW n \in 1 .. Len(list), n - 1 \in S PROVE n \in S
  <2>1. f[n] = SubSeq(list, 1, n - 1) \o <<list[n]>>
    BY <1>1, <1>3 DEF Kept
  <2>2. SubSeq(list, 1, n - 1) \o <<list[n]>> = SubSeq(list, 1, n)
    OBVIOUS
  <2> QED
    BY <2>1, <2>2
<1>4. Len(list) \in S
  <2>1. Len(list) \in Nat
    OBVIOUS
  <2> HIDE DEF S
  <2>2. \A n \in 0 .. Len(list) : n \in S
    BY <1>2, <1>3, <2>1, IntervalInduction
  <2> QED
    BY <2>1, <2>2
<1>5. f[Len(list)] = SubSeq(list, 1, Len(list))
  BY <1>4
<1> QED
  BY <1>1, <1>5

\* What is not empty has one element, or more.
LEMMA ShortSeq ==
  ASSUME NEW V, NEW e \in Seq(V), Len(e) <= 2, e # <<>>
  PROVE  Len(e) = 1 \/ Len(e) = 2
<1>1. Len(e) \in Nat /\ Len(e) # 0
  OBVIOUS
<1> DEFINE n == Len(e)
<1> HIDE DEF n
<1>2. n \in Nat /\ n # 0 /\ n <= 2 => n = 1 \/ n = 2
  OBVIOUS
<1> QED
  BY <1>1, <1>2 DEF n

\* The entries of a query as they are named, in pairs.
LEMMA ParamsAre == ASSUME NEW q, IsQuery(q) PROVE IsList(ParamsOf(q))
<1>1. CASE q = <<>>
  <2>1. ParamsOf(q) = <<>>
    BY <1>1 DEF ParamsOf
  <2>2. <<>> \in Seq({}) /\ DOMAIN <<>> = {}
    OBVIOUS
  <2>3. IsSeq(<<>>)
    BY <2>2, SeqIs
  <2> QED
    BY <2>1, <2>2, <2>3 DEF IsList
<1>2. CASE q # <<>>
  <2> DEFINE l == q[1]
             V == Range(l)
             keep == V \ {<<>>}
             kept == Only(l, keep)
             pair(e) == IF Len(e) = 1 THEN Append(e, "") ELSE e
             W == {pair(e) : e \in V \cap keep}
             r == [i \in 1 .. Len(kept) |-> pair(kept[i])]
  <2>1. IsSeq(l) /\ \A i \in DOMAIN l : IsSeq(l[i]) /\ Len(l[i]) <= 2
    BY <1>2 DEF IsQuery
  <2>2. l \in Seq(V) /\ \A e \in V : IsSeq(e) /\ Len(e) <= 2
    <3> HIDE DEF l
    <3>1. l \in Seq(Range(l))
      BY <2>1, SeqHas
    <3> QED
      BY <2>1, <3>1 DEF Range
  <2>3. ParamsOf(q) = [i \in DOMAIN kept |-> pair(kept[i])]
    BY <1>2 DEF ParamsOf
  <2>4. \A e \in keep : e # <<>>
    OBVIOUS
  <2> HIDE DEF keep, V, l
  <2>5. kept \in Seq(V \cap keep)
    BY <2>2, OnlyAre
  <2>6. ASSUME NEW e \in V \cap keep PROVE IsPair(pair(e))
    <3>1. IsSeq(e) /\ Len(e) <= 2 /\ e # <<>>
      BY <2>2, <2>4
    <3>2. e \in Seq(Range(e))
      BY <3>1, SeqHas
    <3>3. Len(e) = 1 \/ Len(e) = 2
      BY <3>1, <3>2, ShortSeq
    <3>4. CASE Len(e) = 1
      <4>1. IsSeq(Append(e, "")) /\ Len(Append(e, "")) = 1 + 1
        BY <3>1, <3>4, AppendIs
      <4>2. pair(e) = Append(e, "") /\ 1 + 1 = 2
        BY <3>4
      <4> HIDE DEF pair
      <4> QED
        BY <4>1, <4>2 DEF IsPair
    <3>5. CASE Len(e) = 2
      BY <3>1, <3>5 DEF IsPair
    <3> QED
      BY <3>3, <3>4, <3>5
  <2>7. \A x \in W : IsPair(x)
    <3> HIDE DEF pair
    <3> QED
      BY <2>6
  <2> HIDE DEF kept, pair
  <2>8. /\ DOMAIN kept = 1 .. Len(kept) /\ Len(kept) \in Nat
        /\ \A i \in 1 .. Len(kept) : kept[i] \in V \cap keep
    BY <2>5
  <2>9. \A i \in 1 .. Len(kept) : pair(kept[i]) \in W
    BY <2>8
  <2> HIDE DEF W
  <2>10. r \in Seq(W)
    BY <2>8, <2>9, IsASeq
  <2>11. ParamsOf(q) = r
    BY <2>3, <2>8
  <2>12. IsSeq(r)
    BY <2>10, SeqIs
  <2>13. DOMAIN r = 1 .. Len(kept) /\ \A i \in 1 .. Len(kept) : r[i] = pair(kept[i])
    OBVIOUS
  <2> HIDE DEF r
  <2>14. IsList(r)
    BY <2>7, <2>9, <2>12, <2>13 DEF IsList
  <2> QED
    BY <2>11, <2>14
<1> QED
  BY <1>1, <1>2

\* Writing a list of pairs as a query and reading it again gives the list.
LEMMA ListKept ==
  ASSUME NEW list, IsList(list)
  PROVE  IsQuery(QueryOf(list)) /\ ParamsOf(QueryOf(list)) = list
<1>1. CASE list = <<>>
  <2>1. QueryOf(list) = <<>>
    BY <1>1 DEF QueryOf
  <2>2. IsQuery(<<>>)
    <3>1. <<>> \in Seq({}) /\ Len(<<>>) <= 1
      OBVIOUS
    <3>2. IsSeq(<<>>)
      BY <3>1, SeqIs
    <3> QED
      BY <3>1, <3>2 DEF IsQuery
  <2>3. ParamsOf(<<>>) = <<>>
    BY DEF ParamsOf
  <2> QED
    BY <1>1, <2>1, <2>2, <2>3
<1>2. CASE list # <<>>
  <2> DEFINE q == <<list>>
             V == Range(list)
  <2>1. QueryOf(list) = q
    BY <1>2 DEF QueryOf
  <2>2. q \in Seq({list}) /\ Len(q) = 1 /\ q[1] = list /\ q # <<>>
    OBVIOUS
  <2> HIDE DEF q
  <2>3. IsSeq(list) /\ \A i \in DOMAIN list : IsSeq(list[i]) /\ Len(list[i]) = 2
    BY DEF IsList, IsPair
  <2>4. /\ list \in Seq(V) /\ DOMAIN list = 1 .. Len(list)
        /\ list = [i \in 1 .. Len(list) |-> list[i]]
        /\ \A i \in 1 .. Len(list) : list[i] \in V
    BY <2>3, SeqHas
  <2>5. IsQuery(q)
    <3>1. IsSeq(q)
      BY <2>2, SeqIs
    <3>2. Len(q) <= 1
      BY <2>2
    <3>3. ASSUME NEW i \in DOMAIN list PROVE Len(list[i]) <= 2
      <4>1. Len(list[i]) = 2
        BY <2>3
      <4> QED
        BY <4>1
    <3> QED
      BY <2>2, <2>3, <3>1, <3>2, <3>3 DEF IsQuery
  <2> DEFINE keep == V \ {<<>>}
             kept == Only(list, keep)
             pair(e) == IF Len(e) = 1 THEN Append(e, "") ELSE e
  <2>6. \A e : Len(e) = 2 => e # <<>> /\ pair(e) = e
    OBVIOUS
  <2>7. ParamsOf(q) = [i \in DOMAIN kept |-> pair(kept[i])]
    BY <2>2 DEF ParamsOf
  <2>8. \A i \in 1 .. Len(list) : list[i] \in keep /\ pair(list[i]) = list[i]
    <3> HIDE DEF pair, V
    <3> QED
      BY <2>3, <2>4, <2>6
  <2> HIDE DEF keep, V
  <2>9. kept = list
    BY <2>4, <2>8, OnlyAll
  <2> HIDE DEF kept, pair
  <2>10. ParamsOf(q) = [i \in 1 .. Len(list) |-> list[i]]
    BY <2>4, <2>7, <2>8, <2>9
  <2> QED
    BY <2>1, <2>4, <2>5, <2>10
<1> QED
  BY <1>1, <1>2

\* An update of a list of pairs leaves a list of pairs.
LEMMA ListIn ==
  ASSUME NEW l, IsSeq(l), NEW V, \A e \in V : IsPair(e), Range(l) \subseteq V
  PROVE  IsList(l)
<1>1. DOMAIN l = 1 .. Len(l) /\ \A i \in 1 .. Len(l) : l[i] \in Range(l)
  BY SeqHas
<1> QED
  BY <1>1 DEF IsList

\* A list of pairs is a sequence of its entries, each a pair.
LEMMA ListHas ==
  ASSUME NEW l, IsList(l)
  PROVE  /\ l \in Seq(Range(l)) /\ Len(l) \in Nat /\ DOMAIN l = 1 .. Len(l)
         /\ \A e \in Range(l) : IsPair(e)
<1>1. IsSeq(l)
  BY DEF IsList
<1>2. \A e \in Range(l) : IsPair(e)
  BY DEF IsList, Range
<1> QED
  BY <1>1, <1>2, SeqHas

\* Fewer pairs.
LEMMA OnlyList == ASSUME NEW l, IsList(l), NEW keep PROVE IsList(Only(l, keep))
<1> DEFINE V == Range(l)
<1>1. l \in Seq(V) /\ \A e \in V : IsPair(e)
  BY ListHas
<1> HIDE DEF V
<1>2. Only(l, keep) \in Seq(V)
  BY <1>1, OnlyAre
<1>3. IsSeq(Only(l, keep)) /\ Range(Only(l, keep)) \subseteq V
  BY <1>2, SeqIs
<1> QED
  BY <1>1, <1>3, ListIn

\* Two lists of pairs.
LEMMA ConcatList ==
  ASSUME NEW l, IsList(l), NEW m, IsList(m)
  PROVE  IsList(l \o m)
<1> DEFINE V == Range(l) \union Range(m)
<1>1. \A e \in V : IsPair(e)
  BY ListHas
<1>2. l \in Seq(V) /\ m \in Seq(V)
  <2>1. Range(l) \subseteq V /\ Range(m) \subseteq V
    OBVIOUS
  <2> HIDE DEF V
  <2> QED
    BY <2>1, SeqIn DEF IsList
<1> HIDE DEF V
<1>3. l \o m \in Seq(V)
  BY <1>2
<1>4. IsSeq(l \o m) /\ Range(l \o m) \subseteq V
  BY <1>3, SeqIs
<1> QED
  BY <1>1, <1>4, ListIn

\* One pair.
LEMMA OneList ==
  ASSUME NEW name, NEW value
  PROVE  IsList(<<<<name, value>>>>)
<1> DEFINE e == <<name, value>>
           l == <<e>>
<1>1. e \in Seq({name, value}) /\ Len(e) = 2
  OBVIOUS
<1> HIDE DEF e
<1>2. IsPair(e)
  BY <1>1, SeqIs DEF IsPair
<1>3. l \in Seq({e})
  OBVIOUS
<1> HIDE DEF l
<1>4. IsSeq(l) /\ Range(l) \subseteq {e}
  BY <1>3, SeqIs
<1>5. IsList(l)
  BY <1>2, <1>4, ListIn
<1> QED
  BY <1>5 DEF l, e

\* A part of a list of pairs.
LEMMA PartList ==
  ASSUME NEW l, IsList(l), NEW i \in Nat, i >= 1, NEW j \in Nat, j <= Len(l)
  PROVE  IsList(SubSeq(l, i, j))
<1> DEFINE V == Range(l)
<1>1. l \in Seq(V) /\ \A e \in V : IsPair(e)
  BY ListHas
<1> HIDE DEF V
<1>2. SubSeq(l, i, j) \in Seq(V)
  <2>1. \A k \in i .. j : k \in 1 .. Len(l)
    BY <1>1
  <2> QED
    BY <1>1, <2>1, SubSeqProperties
<1>3. IsSeq(SubSeq(l, i, j)) /\ Range(SubSeq(l, i, j)) \subseteq V
  BY <1>2, SeqIs
<1> QED
  BY <1>1, <1>3, ListIn

\* Append puts one at the end.
LEMMA AppendConcat ==
  ASSUME NEW l, IsSeq(l), NEW x
  PROVE  Append(l, x) = l \o <<x>>
<1> DEFINE V == Range(l) \union {x}
<1>1. Range(l) \subseteq V /\ x \in V
  OBVIOUS
<1> HIDE DEF V
<1>2. l \in Seq(V)
  BY <1>1, SeqIn
<1> QED
  BY <1>1, <1>2

\* The least of a set of numbers is one of them.
LEMMA MinIn ==
  ASSUME NEW n \in Nat, NEW S, S \subseteq 1 .. n, S # {}
  PROVE  Min(S) \in S /\ \A k \in S : Min(S) <= k
<1> DEFINE T == {k \in 0 .. n : \A x \in S : x > k}
<1>1. \E x \in S : \A y \in S : x <= y
  <2> SUFFICES ASSUME \A x \in S : \E y \in S : y < x PROVE FALSE
    <3>1. \A x, y \in S : x <= y <=> ~(y < x)
      OBVIOUS
    <3> QED
      BY <3>1
  <2>1. 0 \in T
    OBVIOUS
  <2>2. ASSUME NEW k \in 1 .. n, k - 1 \in T PROVE k \in T
    <3> SUFFICES ASSUME NEW x \in S PROVE x > k
      OBVIOUS
    <3>1. x \in Nat /\ x > k - 1
      BY <2>2
    <3>2. x # k
      <4> SUFFICES ASSUME x = k PROVE FALSE
        OBVIOUS
      <4>1. PICK y \in S : y < x
        OBVIOUS
      <4>2. y > k - 1 /\ y \in Nat
        BY <2>2
      <4> QED
        BY <4>1, <4>2
    <3> QED
      BY <3>1, <3>2
  <2> HIDE DEF T
  <2>3. n \in T
    <3>1. \A k \in 0 .. n : k \in T
      BY <2>1, <2>2, IntervalInduction
    <3> QED
      BY <3>1
  <2>4. \A x \in S : x > n /\ x \in 1 .. n
    BY <2>3 DEF T
  <2>5. PICK x \in S : TRUE
    OBVIOUS
  <2>6. x > n /\ x <= n
    BY <2>4, <2>5
  <2> QED
    BY <2>6
<1>2. Min(S) \in S /\ \A y \in S : Min(S) <= y
  <2> DEFINE P(x) == x \in S /\ \A y \in S : x <= y
  <2>1. \E x : P(x)
    BY <1>1
  <2>2. P(CHOOSE x : P(x))
    <3> HIDE DEF P
    <3> QED
      BY <2>1, Zenon
  <2>3. Min(S) = CHOOSE x \in S : \A y \in S : x <= y
    BY DEF Min
  <2> QED
    BY <2>2, <2>3, Zenon
<1> QED
  BY <1>2

\* URLSearchParams.set leaves a list of pairs.
LEMMA SetList ==
  ASSUME NEW l, IsList(l), NEW name, NEW value
  PROVE  IsList(SetParam(l, name, value))
<1> DEFINE hits == {i \in DOMAIN l : l[i][1] = name}
           one == <<<<name, value>>>>
           before == SubSeq(l, 1, Min(hits) - 1)
           rest == SubSeq(l, Min(hits) + 1, Len(l))
<1>1. IsList(one)
  BY OneList
<1>2. DOMAIN l = 1 .. Len(l) /\ Len(l) \in Nat /\ IsSeq(l)
  BY ListHas DEF IsList
<1>3. CASE hits = {}
  <2>1. SetParam(l, name, value) = Append(l, <<name, value>>)
    BY <1>3 DEF SetParam
  <2>2. Append(l, <<name, value>>) = l \o one
    BY <1>2, AppendConcat
  <2> HIDE DEF one
  <2> QED
    BY <1>1, <2>1, <2>2, ConcatList
<1>4. CASE hits # {}
  <2>1. SetParam(l, name, value) = before \o one \o Others(rest, name)
    BY <1>4 DEF SetParam
  <2>2. Min(hits) \in 1 .. Len(l)
    <3>1. hits \subseteq 1 .. Len(l)
      BY <1>2
    <3> HIDE DEF hits
    <3>2. Min(hits) \in hits
      BY <1>2, <1>4, <3>1, MinIn
    <3> QED
      BY <3>1, <3>2
  <2>3. IsList(before) /\ IsList(rest)
    <3> DEFINE m == Min(hits)
    <3> HIDE DEF m
    <3>1. m \in 1 .. Len(l) => /\ m - 1 \in Nat /\ m - 1 <= Len(l) /\ m + 1 \in Nat /\ m + 1 >= 1
                               /\ 1 \in Nat /\ Len(l) <= Len(l)
      BY <1>2
    <3>2. m \in 1 .. Len(l)
      BY <2>2 DEF m
    <3>3. IsList(SubSeq(l, 1, m - 1)) /\ IsList(SubSeq(l, m + 1, Len(l)))
      BY <1>2, <3>1, <3>2, PartList
    <3> QED
      BY <3>3 DEF m
  <2> HIDE DEF before, rest, one
  <2>4. IsList(Others(rest, name))
    BY <2>3, OnlyList DEF Others
  <2> QED
    BY <1>1, <2>1, <2>3, <2>4, ConcatList
<1> QED
  BY <1>3, <1>4

\* The names in order, one by one.
SortedTo(l) ==
  CHOOSE f : f = [n \in 0 .. Len(Names) |-> IF n = 0 THEN <<>> ELSE f[n - 1] \o Named(l, Names[n])]

\* ... and so does sort.
LEMMA SortedList == ASSUME NEW l, IsList(l) PROVE IsList(Sorted(l))
<1> DEFINE N == Len(Names)
           V == Range(l)
           W == Seq(V)
           part(n) == Named(l, Names[n])
           G == [n \in 1 .. N |-> [x \in W |-> x \o part(n)]]
           Of(f) == f = [n \in 0 .. N |-> IF n = 0 THEN <<>> ELSE f[n - 1] \o part(n)]
           c == SortedTo(l)
<1>1. N \in Nat /\ <<>> \in W
  BY FfiConstants, SeqHas
<1>2. ASSUME NEW n \in 1 .. N, NEW x \in W PROVE x \o part(n) \in W
  <2> DEFINE keep == {e \in V : e[1] = Names[n]}
  <2>1. part(n) = Only(l, keep) /\ l \in Seq(V)
    BY ListHas DEF Named
  <2> HIDE DEF V, keep
  <2>2. Only(l, keep) \in Seq(V)
    BY <2>1, OnlyAre
  <2> HIDE DEF part
  <2> QED
    BY <2>1, <2>2
<1> HIDE DEF W, N, part
<1>3. PICK f \in [0 .. N -> W] : f[0] = <<>> /\ \A n \in 1 .. N : f[n] = G[n][f[n - 1]]
  <2>1. G \in Steps(N, W)
    BY <1>2 DEF Steps
  <2> HIDE DEF G
  <2> QED
    BY <1>1, <2>1, Recursion
<1>4. \A n \in 1 .. N : f[n] = f[n - 1] \o part(n)
  <2> TAKE n \in 1 .. N
  <2>1. n - 1 \in 0 .. N
    BY <1>1
  <2>2. f[n - 1] \in W
    BY <2>1
  <2> QED
    BY <1>3, <2>2
<1>5. Of(f)
  <2>1. \A n \in 0 .. N : n = 0 \/ n \in 1 .. N
    BY <1>1
  <2> QED
    BY <1>3, <1>4, <2>1
<1> HIDE DEF G
<1>6. Of(c)
  <2> HIDE DEF c
  <2>1. c = CHOOSE g : Of(g)
    BY DEF c, SortedTo, N, part
  <2> HIDE DEF Of
  <2> QED
    BY <1>5, <2>1, Zenon
<1>7. Sorted(l) = c[N]
  BY DEF Sorted, SortedTo, N, part
<1> HIDE DEF c
<1>8. Alike(c, f, N)
  <2>1. \A n \in 0 .. N : c[n] = IF n = 0 THEN <<>> ELSE c[n - 1] \o part(n)
    BY <1>6
  <2>2. 0 \in 0 .. N /\ \A n \in 1 .. N : n \in 0 .. N /\ n # 0
    BY <1>1
  <2> QED
    BY <1>3, <1>4, <2>1, <2>2 DEF Alike
<1>9. c = [n \in 0 .. N |-> c[n]]
  BY <1>6
<1> HIDE DEF Of
<1>10. Sorted(l) \in Seq(V)
  <2>1. c[N] \in W
    BY <1>1, <1>8, <1>9, SameFunction
  <2> QED
    BY <1>7, <2>1 DEF W
<1>11. \A e \in V : IsPair(e)
  BY ListHas
<1> HIDE DEF V
<1>12. IsSeq(Sorted(l)) /\ Range(Sorted(l)) \subseteq V
  BY <1>10, SeqIs
<1> QED
  BY <1>11, <1>12, ListIn

\* append, set, delete and sort.
LEMMA UpdatesAre ==
  ASSUME NEW l, IsList(l), NEW m \in Updates(l)
  PROVE  IsList(m)
<1>1. CASE \E n \in Range(Names) : m = Append(l, <<n, "1">>)
  <2>1. PICK n \in Range(Names) : m = Append(l, <<n, "1">>)
    BY <1>1
  <2> DEFINE one == <<<<n, "1">>>>
  <2>2. IsList(one)
    BY OneList
  <2>3. m = l \o one
    BY <2>1, AppendConcat DEF IsList
  <2> HIDE DEF one
  <2> QED
    BY <2>2, <2>3, ConcatList
<1>2. CASE \E n \in Range(Names) : m = SetParam(l, n, "2")
  BY <1>2, SetList
<1>3. CASE \E n \in Range(Names) : m = Others(l, n)
  BY <1>3, OnlyList DEF Others
<1>4. CASE \E n \in Range(Names) : m = Only(l, Range(l) \ {<<n, "1">>})
  BY <1>4, OnlyList
<1>5. CASE m = Sorted(l)
  BY <1>5, SortedList
<1>6. \/ \E n \in Range(Names) : m = Append(l, <<n, "1">>)
      \/ \E n \in Range(Names) : m = SetParam(l, n, "2")
      \/ \E n \in Range(Names) : m = Others(l, n)
      \/ \E n \in Range(Names) : m = Only(l, Range(l) \ {<<n, "1">>})
      \/ m = Sorted(l)
  <2> DEFINE A(n) == {Append(l, <<n, "1">>), SetParam(l, n, "2"), Others(l, n)}
             B(n) == Only(l, Range(l) \ {<<n, "1">>})
             UA == UNION {A(n) : n \in Range(Names)}
             UB == {B(n) : n \in Range(Names)}
  <2>1. Updates(l) = {Sorted(l)} \union UB \union UA
    BY DEF Updates
  <2>2. m \in UA \/ m \in UB \/ m = Sorted(l)
    <3> HIDE DEF UA, UB
    <3> QED
      BY <2>1
  <2>3. \A n : m \in A(n) => m = Append(l, <<n, "1">>) \/ m = SetParam(l, n, "2") \/ m = Others(l, n)
    OBVIOUS
  <2> HIDE DEF A
  <2>4. CASE m \in UA
    BY <2>3, <2>4
  <2>5. CASE m \in UB
    BY <2>5
  <2> QED
    BY <2>2, <2>4, <2>5
<1> QED
  BY <1>1, <1>2, <1>3, <1>4, <1>5, <1>6

-----------------------------------------------------------------------------
(* Joins.                                                                  *)

\* The rest of a sequence is one, at either end.
LEMMA FrontIs ==
  ASSUME NEW V, NEW s \in Seq(V)
  PROVE  /\ Front(s) \in Seq(V)
         /\ s # <<>> => /\ Len(Front(s)) = Len(s) - 1
                        /\ \A i \in 1 .. Len(s) - 1 : Front(s)[i] = s[i]
<1>1. Len(s) \in Nat /\ \A i \in 1 .. Len(s) - 1 : s[i] \in V
  OBVIOUS
<1>2. 1 \in Int /\ Len(s) - 1 \in Int
  BY <1>1
<1> DEFINE n == Len(s) - 1
<1>3. n \in Int /\ \A i \in 1 .. n : s[i] \in V
  BY <1>1, <1>2
<1>4. s # <<>> => n >= 0 /\ n - 1 + 1 = n
  BY <1>1
<1> HIDE DEF n
<1>5. /\ SubSeq(s, 1, n) \in Seq(V)
      /\ Len(SubSeq(s, 1, n)) = IF 1 <= n THEN n - 1 + 1 ELSE 0
      /\ \A i \in 1 .. n - 1 + 1 : SubSeq(s, 1, n)[i] = s[1 + i - 1]
  BY <1>3, SubSeqProperties
<1>6. s # <<>> => Len(SubSeq(s, 1, n)) = n
  BY <1>3, <1>4, <1>5
<1>7. \A i \in 1 .. n : 1 + i - 1 = i /\ i \in 1 .. n - 1 + 1
  BY <1>3
<1>8. \A i \in 1 .. n : SubSeq(s, 1, n)[i] = s[i]
  BY <1>5, <1>7
<1> QED
  BY <1>5, <1>6, <1>8 DEF Front, n

\* A step of the path walk leaves a path.
LEMMA SteppedIs ==
  ASSUME NEW V, NEW path \in Seq(V), NEW seg \in V, NEW kept
  PROVE  Stepped(path, seg, kept) \in Seq(V)
<1>1. Front(path) \in Seq(V) /\ Append(path, seg) \in Seq(V)
  BY FrontIs
<1>2. Stepped(path, seg, kept) \in {path, Front(path), Append(path, seg)}
  BY DEF Stepped
<1> QED
  BY <1>1, <1>2

\* The walk along a reference, segment by segment.
WalkTo(path, segs, kept) ==
  CHOOSE f : f = [n \in 0 .. Len(segs) |->
                    IF n = 0 THEN path ELSE Stepped(f[n - 1], segs[n], kept)]

\* The path walk, segment by segment, is what the recursion of Walk computes.
LEMMA WalkRecur ==
  ASSUME NEW V, NEW path \in Seq(V), NEW segs \in Seq(V), NEW kept
  PROVE  LET f == WalkTo(path, segs, kept)
         IN  /\ f \in [0 .. Len(segs) -> Seq(V)] /\ f[0] = path
             /\ \A n \in 1 .. Len(segs) : f[n] = Stepped(f[n - 1], segs[n], kept)
<1> DEFINE N == Len(segs)
           W == Seq(V)
           step(n, x) == Stepped(x, segs[n], kept)
           G == [n \in 1 .. N |-> [x \in W |-> step(n, x)]]
           Of(f) == f = [n \in 0 .. N |-> IF n = 0 THEN path ELSE step(n, f[n - 1])]
           c == WalkTo(path, segs, kept)
<1>1. N \in Nat /\ path \in W
  OBVIOUS
<1>2. ASSUME NEW n \in 1 .. N, NEW x \in W PROVE step(n, x) \in W
  <2>1. segs[n] \in V
    OBVIOUS
  <2> QED
    BY <2>1, SteppedIs
<1>3. c = CHOOSE f : Of(f)
  BY DEF WalkTo
<1> HIDE DEF W, N, step, c
<1>4. PICK f \in [0 .. N -> W] : f[0] = path /\ \A n \in 1 .. N : f[n] = G[n][f[n - 1]]
  <2>1. G \in Steps(N, W)
    BY <1>2 DEF Steps
  <2> HIDE DEF G
  <2> QED
    BY <1>1, <2>1, Recursion
<1>5. \A n \in 1 .. N : f[n] = step(n, f[n - 1])
  <2> TAKE n \in 1 .. N
  <2>1. n - 1 \in 0 .. N
    BY <1>1
  <2>2. f[n - 1] \in W
    BY <2>1
  <2> QED
    BY <1>4, <2>2
<1>6. Of(f)
  <2>1. \A n \in 0 .. N : n = 0 \/ n \in 1 .. N
    BY <1>1
  <2> QED
    BY <1>4, <1>5, <2>1
<1> HIDE DEF G
<1>7. Of(c)
  <2> HIDE DEF Of
  <2> QED
    BY <1>3, <1>6, Zenon
<1>8. c[0] = path /\ \A n \in 1 .. N : c[n] = step(n, c[n - 1])
  <2>1. \A n \in 0 .. N : c[n] = IF n = 0 THEN path ELSE step(n, c[n - 1])
    BY <1>7
  <2>2. 0 \in 0 .. N /\ \A n \in 1 .. N : n \in 0 .. N /\ n # 0
    BY <1>1
  <2> QED
    BY <2>1, <2>2
<1>9. Alike(c, f, N)
  BY <1>4, <1>5, <1>8 DEF Alike
<1>10. c = [n \in 0 .. N |-> c[n]]
  BY <1>7
<1> HIDE DEF Of
<1>11. c \in [0 .. N -> W]
  BY <1>1, <1>9, <1>10, SameFunction
<1> QED
  BY <1>8, <1>11 DEF N, W, c, step

\* A path that ends in a dot segment ends in an empty one.
LEMMA WalkEnd ==
  ASSUME NEW path, NEW segs, NEW kept
  PROVE  LET walked == WalkTo(path, segs, kept)[Len(segs)]
         IN  Walk(path, segs, kept)
               = IF Last(segs) \in {".", ".."} THEN Append(walked, "") ELSE walked
  BY DEF Walk, WalkTo

\* A path joined with segments is a path.
LEMMA WalkIs ==
  ASSUME NEW path, IsSeq(path), NEW segs, IsSeq(segs), NEW kept
  PROVE  IsSeq(Walk(path, segs, kept))
<1> DEFINE V == Range(path) \union Range(segs) \union {""}
           c == WalkTo(path, segs, kept)
<1>1. Range(path) \subseteq V /\ Range(segs) \subseteq V /\ "" \in V
  OBVIOUS
<1> HIDE DEF V
<1>2. path \in Seq(V) /\ segs \in Seq(V)
  BY <1>1, SeqIn
<1>3. c \in [0 .. Len(segs) -> Seq(V)]
  BY <1>2, WalkRecur
<1> DEFINE walked == c[Len(segs)]
<1>4. Walk(path, segs, kept) \in {walked, Append(walked, "")}
  BY WalkEnd
<1> HIDE DEF c
<1>5. walked \in Seq(V)
  <2>1. Len(segs) \in 0 .. Len(segs)
    BY <1>2
  <2> QED
    BY <1>3, <2>1
<1> HIDE DEF walked
<1>6. IsSeq(walked) /\ IsSeq(Append(walked, ""))
  BY <1>5, SeqIs, AppendIs
<1> QED
  BY <1>4, <1>6

\* The rest of a sequence, without its last or its first element.
LEMMA RestIs ==
  ASSUME NEW s, IsSeq(s)
  PROVE  IsSeq(Front(s)) /\ (s # <<>> => IsSeq(Tail(s)))
<1> DEFINE V == Range(s)
<1>1. s \in Seq(V)
  BY SeqHas
<1> HIDE DEF V
<1>2. Front(s) \in Seq(V) /\ (s # <<>> => Tail(s) \in Seq(V))
  BY <1>1, FrontIs
<1> QED
  BY <1>2, SeqIs

\* The empty path, and the empty query.
LEMMA EmptyIs == IsSeq(<<>>) /\ IsQuery(<<>>)
<1>1. <<>> \in Seq({}) /\ Len(<<>>) <= 1
  OBVIOUS
<1>2. IsSeq(<<>>)
  BY <1>1, SeqIs
<1> QED
  BY <1>1, <1>2 DEF IsQuery

\* A join is a URL.
LEMMA JoinIs ==
  ASSUME NEW base, IsUrl(base), NEW ref, IsRef(ref), NEW kept
  PROVE  IsUrl(JoinWith(base, ref, kept))
<1>1. CASE ref.abs # <<>>
  BY <1>1 DEF JoinWith, IsRef
<1>2. CASE ref.abs = <<>>
  <2> DEFINE path == IF ref.segs = <<>> THEN base.path
                     ELSE IF ref.segs[1] = "" THEN Walk(<<>>, Tail(ref.segs), kept)
                     ELSE Walk(Front(base.path), ref.segs, kept)
             query == IF ref.segs = <<>> /\ ref.query = <<>> THEN base.query ELSE ref.query
  <2>1. JoinWith(base, ref, kept)
          = [base EXCEPT !.path = path, !.query = query, !.fragment = ""]
    BY <1>2 DEF JoinWith
  <2>2. IsSeq(path)
    <3>1. CASE ref.segs = <<>>
      BY <3>1 DEF IsUrl
    <3>2. CASE ref.segs # <<>> /\ ref.segs[1] = ""
      <4>1. IsSeq(Tail(ref.segs)) /\ IsSeq(<<>>)
        BY <3>2, RestIs, EmptyIs DEF IsRef
      <4>2. IsSeq(Walk(<<>>, Tail(ref.segs), kept))
        BY <4>1, WalkIs
      <4> QED
        BY <3>2, <4>2
    <3>3. CASE ref.segs # <<>> /\ ref.segs[1] # ""
      <4>1. IsSeq(ref.segs) /\ IsSeq(Front(base.path))
        BY RestIs DEF IsUrl, IsRef
      <4>2. IsSeq(Walk(Front(base.path), ref.segs, kept))
        BY <4>1, WalkIs
      <4> QED
        BY <3>3, <4>2
    <3> QED
      BY <3>1, <3>2, <3>3
  <2>3. IsQuery(query)
    BY DEF IsUrl, IsRef
  <2> HIDE DEF path, query
  <2> DEFINE u == [base EXCEPT !.path = path, !.query = query, !.fragment = ""]
  <2>4. DOMAIN u = DOMAIN base /\ u.path = path /\ u.query = query
    BY DEF IsUrl
  <2> HIDE DEF u
  <2>5. IsUrl(u)
    BY <2>2, <2>3, <2>4 DEF IsUrl
  <2> QED
    BY <2>1, <2>5 DEF u
<1> QED
  BY <1>1, <1>2

\* A join of a URL and a reference is a URL.
LEMMA UrlJoinIs ==
  ASSUME NEW base, IsUrl(base), NEW ref, IsRef(ref)
  PROVE  IsUrl(UrlJoin(base, ref))
<1> DEFINE j == RustJoin(base, ref)
           u == [j EXCEPT !.path = Append(Front(Front(j.path)), "")]
<1>1. IsUrl(j)
  BY JoinIs DEF RustJoin
<1>2. UrlJoin(base, ref) \in {j, u}
  BY DEF UrlJoin, FixDriveLetterJoin
<1> HIDE DEF j
<1>3. IsSeq(Append(Front(Front(j.path)), ""))
  BY <1>1, RestIs, AppendIs DEF IsUrl
<1>4. DOMAIN u = DOMAIN j /\ u.path = Append(Front(Front(j.path)), "") /\ u.query = j.query
  BY <1>1 DEF IsUrl
<1> HIDE DEF u
<1>5. IsUrl(u)
  BY <1>1, <1>3, <1>4 DEF IsUrl
<1> QED
  BY <1>1, <1>2, <1>5

\* Encoding a query keeps its entries.
LEMMA EncodedIs ==
  ASSUME NEW q, IsQuery(q), q # <<>>
  PROVE  IsQuery(<<EncodeQueryNcr(q[1])>>)
<1> DEFINE l == q[1]
           Char(c) == IF c \in DOMAIN Unmappable THEN Unmappable[c] ELSE c
           entry(i) == [j \in DOMAIN l[i] |-> Char(l[i][j])]
           m == [i \in DOMAIN l |-> entry(i)]
           r == <<m>>
<1>1. EncodeQueryNcr(l) = m
  BY DEF EncodeQueryNcr
<1>2. IsSeq(l) /\ \A i \in DOMAIN l : IsSeq(l[i]) /\ Len(l[i]) <= 2
  BY DEF IsQuery
<1>3. r \in Seq({m}) /\ Len(r) <= 1 /\ r[1] = m /\ r # <<>>
  OBVIOUS
<1> HIDE DEF l
<1>4. DOMAIN l = 1 .. Len(l) /\ Len(l) \in Nat
  BY <1>2, SeqHas
<1>5. ASSUME NEW i \in DOMAIN l PROVE IsSeq(entry(i)) /\ Len(entry(i)) <= 2
  <2> DEFINE e == l[i]
             V == {Char(x) : x \in Range(e)}
  <2>1. IsSeq(e) /\ Len(e) <= 2
    BY <1>2
  <2> HIDE DEF e
  <2>2. DOMAIN e = 1 .. Len(e) /\ Len(e) \in Nat /\ \A j \in 1 .. Len(e) : e[j] \in Range(e)
    BY <2>1, SeqHas
  <2> HIDE DEF Char
  <2>3. \A j \in 1 .. Len(e) : Char(e[j]) \in V
    BY <2>2
  <2> DEFINE f == [j \in 1 .. Len(e) |-> Char(e[j])]
  <2> HIDE DEF V
  <2>4. f \in Seq(V)
    BY <2>2, <2>3, IsASeq
  <2>5. Len(f) = Len(e)
    BY <2>2
  <2>6. entry(i) = f
    BY <2>2 DEF e
  <2> HIDE DEF f
  <2> QED
    BY <2>1, <2>4, <2>5, <2>6, SeqIs
<1> DEFINE W == {entry(i) : i \in DOMAIN l}
<1>6. m \in Seq(W)
  <2>1. \A i \in 1 .. Len(l) : entry(i) \in W
    BY <1>4
  <2> HIDE DEF W, entry
  <2> QED
    BY <1>4, <2>1, IsASeq
<1>7. DOMAIN m = DOMAIN l /\ \A i \in DOMAIN l : m[i] = entry(i)
  OBVIOUS
<1> HIDE DEF W, entry, m, r
<1>8. IsSeq(m) /\ IsSeq(r)
  BY <1>3, <1>6, SeqIs
<1>9. IsQuery(r)
  BY <1>3, <1>5, <1>7, <1>8 DEF IsQuery
<1> QED
  BY <1>1, <1>9 DEF l, r

\* A reference resolved in a document is a URL.
LEMMA ResolveIs ==
  ASSUME NEW base, IsUrl(base), NEW ref, IsRef(ref), NEW legacy
  PROVE  IsUrl(Resolve(base, ref, legacy))
<1> DEFINE q == <<EncodeQueryNcr(ref.query[1])>>
           coded == [ref EXCEPT !.query = q]
<1>1. CASE legacy /\ ref.query # <<>>
  <2>1. IsQuery(q)
    BY <1>1, EncodedIs DEF IsRef
  <2> HIDE DEF q
  <2>2. /\ DOMAIN coded = DOMAIN ref /\ coded.query = q /\ coded.segs = ref.segs
        /\ coded.abs = ref.abs
    BY DEF IsRef
  <2> HIDE DEF coded
  <2>3. IsRef(coded)
    BY <2>1, <2>2 DEF IsRef
  <2>4. Resolve(base, ref, legacy) = UrlJoin(base, coded)
    BY <1>1 DEF Resolve, coded, q
  <2> QED
    BY <2>3, <2>4, UrlJoinIs
<1>2. CASE ~(legacy /\ ref.query # <<>>)
  <2>1. Resolve(base, ref, legacy) = UrlJoin(base, ref)
    BY <1>2 DEF Resolve
  <2> QED
    BY <2>1, UrlJoinIs
<1> QED
  BY <1>1, <1>2

-----------------------------------------------------------------------------
(* The setters.                                                            *)

\* The fields that are neither path nor query may be anything.
LEMMA FieldIs ==
  ASSUME NEW u, IsUrl(u), NEW v
  PROVE  /\ IsUrl([u EXCEPT !.scheme = v]) /\ IsUrl([u EXCEPT !.host = v])
         /\ IsUrl([u EXCEPT !.port = v]) /\ IsUrl([u EXCEPT !.fragment = v])
         /\ IsUrl([u EXCEPT !.username = v])
  BY DEF IsUrl

\* A new path.
LEMMA PathIs ==
  ASSUME NEW u, IsUrl(u), NEW v, IsSeq(v)
  PROVE  IsUrl([u EXCEPT !.path = v])
<1> DEFINE w == [u EXCEPT !.path = v]
<1>1. DOMAIN w = DOMAIN u /\ w.path = v /\ w.query = u.query
  BY DEF IsUrl
<1> HIDE DEF w
<1>2. IsUrl(w)
  BY <1>1 DEF IsUrl
<1> QED
  BY <1>2 DEF w

\* A new query.
LEMMA QueryIs ==
  ASSUME NEW u, IsUrl(u), NEW v, IsQuery(v)
  PROVE  IsUrl(SetQuery(u, v)) /\ SetQuery(u, v).query = v
<1> DEFINE w == [u EXCEPT !.query = v]
<1>1. DOMAIN w = DOMAIN u /\ w.path = u.path /\ w.query = v
  BY DEF IsUrl
<1> HIDE DEF w
<1>2. IsUrl(w)
  BY <1>1 DEF IsUrl
<1> QED
  BY <1>1, <1>2 DEF w, SetQuery

\* A new host or port keeps the query.
LEMMA HostPortAre ==
  ASSUME NEW u, IsUrl(u), NEW host, NEW port
  PROVE  /\ IsUrl(SetUrlHost(u, host)) /\ IsUrl(SetUrlPort(u, port))
         /\ SetUrlHost(u, host).query = u.query /\ SetUrlPort(u, port).query = u.query
<1> DEFINE Good(w) == IsUrl(w) /\ w.query = u.query
<1>1. Good(u)
  OBVIOUS
<1>2. Good([u EXCEPT !.host = host])
  <2>1. [u EXCEPT !.host = host].query = u.query
    BY DEF IsUrl
  <2> QED
    BY <2>1, FieldIs
<1>3. \A v : Good([u EXCEPT !.port = v])
  <2> TAKE v
  <2>1. [u EXCEPT !.port = v].query = u.query
    BY DEF IsUrl
  <2> QED
    BY <2>1, FieldIs
<1> HIDE DEF Good
<1>4. Good(SetUrlHost(u, host)) /\ Good(SetUrlPort(u, port))
  BY <1>1, <1>2, <1>3 DEF SetUrlHost, SetUrlPort
<1> QED
  BY <1>4 DEF Good

\* The scalar setters give a URL with the same query.
LEMMA SettersAre ==
  ASSUME NEW u, IsUrl(u), NEW v \in Setters(u)
  PROVE  IsUrl(v) /\ v.query = u.query
<1> DEFINE Good(w) == IsUrl(w) /\ w.query = u.query
<1>1. Good(u)
  OBVIOUS
<1>2. \A x : /\ Good([u EXCEPT !.scheme = x]) /\ Good([u EXCEPT !.username = x])
             /\ Good([u EXCEPT !.fragment = x])
  <2> TAKE x
  <2>1. /\ [u EXCEPT !.scheme = x].query = u.query /\ [u EXCEPT !.username = x].query = u.query
        /\ [u EXCEPT !.fragment = x].query = u.query
    BY DEF IsUrl
  <2> QED
    BY <2>1, FieldIs
<1>3. ASSUME NEW t PROVE Good(SetHostname(u, t))
  BY HostPortAre DEF SetHostname
<1>4. ASSUME NEW t PROVE Good(SetPort(u, t))
  <2>1. \A port : Good(SetUrlPort(u, port))
    BY HostPortAre
  <2> HIDE DEF Good
  <2> QED
    BY <1>1, <2>1 DEF SetPort
<1>5. ASSUME NEW s PROVE Good(SetScheme(u, s))
  <2> DEFINE p == IF u.port = DefaultPort(s) THEN NoPort ELSE u.port
             a == [u EXCEPT !.scheme = s]
             b == [a EXCEPT !.port = p]
  <2>1. Good(a)
    BY <1>2
  <2> HIDE DEF p, a
  <2>2. b.query = a.query /\ IsUrl(b)
    BY <2>1, FieldIs DEF IsUrl
  <2>3. SetScheme(u, s) \in {u, b}
    BY DEF SetScheme, a, p
  <2> HIDE DEF b
  <2> QED
    BY <1>1, <2>1, <2>2, <2>3
<1>6. Good(SetUsername(u, "me"))
  <2> HIDE DEF Good
  <2> QED
    BY <1>1, <1>2 DEF SetUsername
<1>7. Good(SetPath(u, <<"C:", "">>))
  <2> DEFINE path == <<"C:", "">>
  <2>1. path \in Seq({"C:", ""})
    OBVIOUS
  <2> HIDE DEF path
  <2>2. IsSeq(path)
    BY <2>1, SeqIs
  <2>3. IsUrl([u EXCEPT !.path = path]) /\ [u EXCEPT !.path = path].query = u.query
    BY <2>2, PathIs DEF IsUrl
  <2> QED
    BY <2>3 DEF SetPath, path
<1>8. \A x : Good(SetFragment(u, x))
  <2> HIDE DEF Good
  <2> QED
    BY <1>2 DEF SetFragment
<1> HIDE DEF Good
<1>9. Good(v)
  BY <1>3, <1>4, <1>5, <1>6, <1>7, <1>8 DEF Setters
<1> QED
  BY <1>9 DEF Good

\* The host setter: nothing, the host, or the host and then the port.
LEMMA SetHostIs ==
  ASSUME NEW u, IsUrl(u), NEW text
  PROVE  IsUrl(SetHost(u, text)) /\ SetHost(u, text).query = u.query
<1> DEFINE input == Before(text, Ends(u), 1)
           host  == Before(input, {":"}, Closing(input))
           rest  == SubSeq(input, Len(host) + 2, Len(input))
           port  == ParsePort(rest)
<1>1. SetHost(u, text) \in {u, SetUrlHost(u, host), SetUrlPort(SetUrlHost(u, host), port)}
  BY DEF SetHost
<1> HIDE DEF host, port
<1>2. IsUrl(SetUrlHost(u, host)) /\ SetUrlHost(u, host).query = u.query
  BY HostPortAre
<1> DEFINE w == SetUrlHost(u, host)
<1> HIDE DEF w
<1>3. IsUrl(SetUrlPort(w, port)) /\ SetUrlPort(w, port).query = w.query
  BY <1>2, HostPortAre DEF w
<1> QED
  BY <1>1, <1>2, <1>3 DEF w

-----------------------------------------------------------------------------
(* The URL and its view.                                                   *)

\* The live box holds a URL, every view holds pairs, and a linked view holds those of the URL.
UrlInv ==
  /\ url # NoUrl => IsUrl(heap[url.box])
  /\ \A p \in Pids : IsList(params[p].list)
  /\ \A p \in Pids : params[p].linked =>
       params[p].refs > 0 /\ params[p].list = ParamsOf(heap[url.box].query)

\* Without a URL and views there is nothing to keep in sync.
LEMMA InitUrl == Init => UrlInv
<1> SUFFICES ASSUME Init PROVE UrlInv
  OBVIOUS
<1>1. url = NoUrl /\ \A p \in Pids : params[p] = Dead
  BY DEF Init
<1>2. \A p \in Pids : params[p].list = <<>> /\ params[p].linked = FALSE
  BY <1>1 DEF Dead
<1>3. IsList(<<>>)
  <2>1. DOMAIN <<>> = {}
    OBVIOUS
  <2> QED
    BY <2>1, EmptyIs DEF IsList
<1> QED
  BY <1>1, <1>2, <1>3 DEF UrlInv

\* The box that was written holds what was written, and the others what they held.
LEMMA PutValue == \A h, b, v : Put(h, b, v)[b] = v /\ \A x \in DOMAIN h \ {b} : Put(h, b, v)[x] = h[x]
  BY DEF Put

\* The other boxes hold what they held.
LEMMA WithoutValue == \A h, b : \A x \in DOMAIN h \ {b} : Without(h, b)[x] = h[x]
  BY DEF Without

\* A URL has a live box, and the box of the decoder is another.
LEMMA Boxes ==
  ASSUME IInv
  PROVE  /\ url # NoUrl => url.box \in DOMAIN heap /\ url.box # 0 /\ url.box # decoder.box
         /\ decoder.box # 0 => decoder.box \in DOMAIN heap /\ decoder.box # url.box
         /\ made + 1 \notin DOMAIN heap
         /\ \A p \in Pids : p \in Linked <=> params[p].linked
         /\ \A p \in Pids : params[p].linked => url # NoUrl
<1>1. DOMAIN heap \subseteq 0 .. made /\ made \in Nat
  BY DEF IInv, Shape, BoxesExact
<1>2. made + 1 \notin DOMAIN heap
  BY <1>1
<1>3. url # NoUrl => url.box \in DOMAIN heap /\ url.box # 0 /\ url.box # decoder.box
  BY DEF IInv, Absent, BoxesExact
<1>4. decoder.box # 0 => decoder.box \in DOMAIN heap /\ decoder.box # url.box
  BY DEF IInv, BoxesExact
<1>5. \A p \in Pids : p \in Linked <=> params[p].linked
  BY FfiConstants DEF Linked, IInv, Shape, Links
<1>6. \A p \in Pids : params[p].linked => url # NoUrl
  BY LinkedLive
<1> QED
  BY <1>2, <1>3, <1>4, <1>5, <1>6

\* A view refreshed from a query holds its pairs.
LEMMA RefreshedIs ==
  ASSUME IInv, UrlInv, NEW q, IsQuery(q), params' = Refreshed(q)
  PROVE  /\ \A p \in Pids : IsList(params'[p].list) /\ params'[p].refs = params[p].refs
                            /\ params'[p].linked = params[p].linked
         /\ \A p \in Pids : params[p].linked => params'[p].list = ParamsOf(q)
<1>1. \A p \in Pids : p \in Linked <=> params[p].linked
  BY Boxes
<1> DEFINE l == ParamsOf(q)
<1>2. \A p \in Pids : params'[p] = IF p \in Linked THEN [params[p] EXCEPT !.list = l] ELSE params[p]
  BY DEF Refreshed
<1>3. IsList(l)
  BY ParamsAre
<1> HIDE DEF l
<1>4. ASSUME NEW p \in Pids, p \in Linked
      PROVE  /\ params'[p].list = l /\ params'[p].refs = params[p].refs
             /\ params'[p].linked = params[p].linked
  BY <1>2, <1>4 DEF IInv, Shape
<1>5. \A p \in Pids : IsList(params'[p].list) /\ params'[p].refs = params[p].refs
                      /\ params'[p].linked = params[p].linked
  BY <1>2, <1>3, <1>4 DEF UrlInv
<1> QED
  BY <1>1, <1>4, <1>5 DEF l

\* Every step that leaves the objects of the page and the box of the URL alone.
LEMMA SameUrlBox ==
  ASSUME IInv, UrlInv, url' = url, params' = params,
         url # NoUrl => heap'[url.box] = heap[url.box]
  PROVE  UrlInv'
<1>1. \A p \in Pids : params[p].linked => url # NoUrl
  BY Boxes
<1> QED
  BY <1>1 DEF UrlInv

\* A new URL is what the join gave; no view is linked yet.
LEMMA NewUrlUrl == ASSUME IInv, UrlInv, NewUrl PROVE UrlInv'
<1> DEFINE whole(v) == [abs |-> <<v>>, segs |-> <<>>, query |-> <<>>]
           From(v, r) == /\ Alloc(heap, UrlJoin(v, r))
                         /\ url' = [box |-> made + 1, params |-> 0]
<1>a. PICK u \in Absolutes : \E r \in References \union {whole(u)} : From(u, r)
  BY DEF NewUrl
<1>b. PICK ref \in References \union {whole(u)} : From(u, ref)
  BY <1>a
<1>1. /\ Alloc(heap, UrlJoin(u, ref))
      /\ url' = [box |-> made + 1, params |-> 0]
  BY <1>b
<1>2. IsUrl(u)
  BY FfiConstants
<1>3. IsRef(ref)
  <2> DEFINE r == [abs |-> <<u>>, segs |-> <<>>, query |-> <<>>]
  <2>1. /\ DOMAIN r = {"abs", "segs", "query"} /\ r.segs = <<>> /\ r.query = <<>>
        /\ r.abs[1] = u
    OBVIOUS
  <2> HIDE DEF r
  <2>2. IsRef(r)
    BY <1>2, <2>1, EmptyIs DEF IsRef
  <2>3. ref \in References \/ ref = r
    BY DEF r
  <2> QED
    BY <2>2, <2>3, FfiConstants
<1>4. heap'[made + 1] = UrlJoin(u, ref)
  BY <1>1, PutValue DEF Alloc
<1>5. url'.box = made + 1 /\ params' = params /\ url = NoUrl
  BY <1>1 DEF NewUrl
<1>6. \A p \in Pids : ~params[p].linked
  BY <1>5, Boxes
<1>7. IsUrl(UrlJoin(u, ref))
  BY <1>2, <1>3, UrlJoinIs
<1> QED
  BY <1>4, <1>5, <1>6, <1>7 DEF UrlInv

\* The setters of the URL.
LEMMA SetUrl ==
  ASSUME IInv, UrlInv, Set \/ (\E text \in HostTexts : SetHostTo(text)) \/ SetSearch
  PROVE  UrlInv'
<1> DEFINE old == heap[url.box]
<1>1. url # NoUrl /\ url' = url /\ IsUrl(old)
  BY DEF Set, SetHostTo, SetSearch, urlVars, UrlInv
<1>2. CASE Set \/ \E text \in HostTexts : SetHostTo(text)
  <2>1. PICK u : heap' = Put(heap, url.box, u) /\ IsUrl(u) /\ u.query = old.query
    <3>1. CASE Set
      <4>1. PICK u \in Setters(old) : heap' = Put(heap, url.box, u)
        BY <3>1 DEF Set
      <4> HIDE DEF old
      <4> QED
        BY <1>1, <4>1, SettersAre
    <3>2. CASE \E text \in HostTexts : SetHostTo(text)
      <4>1. PICK text \in HostTexts : heap' = Put(heap, url.box, SetHost(old, text))
        BY <3>2 DEF SetHostTo
      <4> HIDE DEF old
      <4> QED
        BY <1>1, <4>1, SetHostIs
    <3> QED
      BY <1>2, <3>1, <3>2
  <2>2. heap'[url.box] = u
    BY <2>1, PutValue
  <2>3. params' = params
    BY <1>2 DEF Set, SetHostTo, urlVars
  <2> QED
    BY <1>1, <2>1, <2>2, <2>3 DEF UrlInv
<1>3. CASE SetSearch
  <2>1. PICK q \in Queries \union {<<>>} :
          heap' = Put(heap, url.box, SetQuery(old, q)) /\ params' = Refreshed(q)
    BY <1>3 DEF SetSearch
  <2>2. IsQuery(q)
    BY FfiConstants, EmptyIs
  <2> HIDE DEF old
  <2>3. heap'[url.box] = SetQuery(old, q) /\ IsUrl(SetQuery(old, q)) /\ SetQuery(old, q).query = q
    BY <1>1, <2>1, <2>2, PutValue, QueryIs
  <2>4. /\ \A p \in Pids : IsList(params'[p].list) /\ params'[p].refs = params[p].refs
                           /\ params'[p].linked = params[p].linked
        /\ \A p \in Pids : params[p].linked => params'[p].list = ParamsOf(q)
    BY <2>1, <2>2, RefreshedIs
  <2> QED
    BY <1>1, <2>3, <2>4 DEF UrlInv
<1> QED
  BY <1>2, <1>3

\* setHref writes a new box, and the view from its query.
LEMMA SetHrefUrl == ASSUME IInv, UrlInv, SetHref PROVE UrlInv'
<1>1. CASE UNCHANGED <<heap, made, urlVars>>
  BY <1>1, SameUrlBox DEF urlVars
<1>2. CASE \E u \in Absolutes, ref \in References, legacy \in BOOLEAN :
             LET href == Resolve(u, ref, legacy)
             IN  /\ Alloc(Without(heap, url.box), href)
                 /\ url' = [url EXCEPT !.box = made + 1]
                 /\ params' = Refreshed(href.query)
  <2>1. PICK u \in Absolutes, ref \in References, legacy \in BOOLEAN :
             LET href == Resolve(u, ref, legacy)
             IN  /\ Alloc(Without(heap, url.box), href)
                 /\ url' = [url EXCEPT !.box = made + 1]
                 /\ params' = Refreshed(href.query)
    BY <1>2
  <2> DEFINE href == Resolve(u, ref, legacy)
  <2>2. IsUrl(href)
    BY FfiConstants, ResolveIs
  <2>3. /\ heap' = Put(Without(heap, url.box), made + 1, href)
        /\ url' = [url EXCEPT !.box = made + 1] /\ params' = Refreshed(href.query)
    BY <2>1 DEF Alloc
  <2> HIDE DEF href
  <2>4. heap'[made + 1] = href
    BY <2>3, PutValue
  <2>5. url'.box = made + 1
    BY <2>3 DEF IInv, Shape
  <2>6. /\ \A p \in Pids : IsList(params'[p].list) /\ params'[p].refs = params[p].refs
                           /\ params'[p].linked = params[p].linked
        /\ \A p \in Pids : params[p].linked => params'[p].list = ParamsOf(href.query)
    BY <2>2, <2>3, RefreshedIs DEF IsUrl
  <2> QED
    BY <2>2, <2>4, <2>5, <2>6 DEF UrlInv
<1> QED
  BY <1>1, <1>2 DEF SetHref

\* A new view is made of the query.
LEMMA GetParamsUrl == ASSUME IInv, UrlInv, GetParams PROVE UrlInv'
<1>1. heap' = heap /\ url # NoUrl
  BY DEF GetParams
<1>2. CASE url.params # 0
  <2>1. params' = [params EXCEPT ![url.params].refs = 2] /\ url' = url
    BY <1>2 DEF GetParams
  <2>2. \A p \in Pids : /\ params'[p].list = params[p].list /\ params'[p].linked = params[p].linked
                        /\ params'[p].refs \in {params[p].refs, 2}
    BY <2>1 DEF IInv, Shape
  <2> QED
    BY <1>1, <2>1, <2>2 DEF UrlInv
<1>3. CASE url.params = 0
  <2> DEFINE list == ParamsOf(heap[url.box].query)
  <2>1. PICK p \in Pids :
          /\ params' = [params EXCEPT ![p] = [list |-> list, linked |-> TRUE, refs |-> 2]]
          /\ url' = [url EXCEPT !.params = p]
    BY <1>3 DEF GetParams
  <2>2. IsList(list)
    BY <1>1, ParamsAre DEF UrlInv, IsUrl
  <2> HIDE DEF list
  <2>3. url'.box = url.box
    BY <2>1 DEF IInv, Shape
  <2>4. \A q \in Pids : ~params[q].linked
    BY <1>3, FfiConstants DEF IInv, Links
  <2>5. params'[p] = [list |-> list, linked |-> TRUE, refs |-> 2]
        /\ \A q \in Pids \ {p} : params'[q] = params[q]
    BY <2>1 DEF IInv, Shape
  <2>6. \A q \in Pids : IsList(params'[q].list)
    BY <2>2, <2>5 DEF UrlInv
  <2>7. \A q \in Pids : params'[q].linked =>
          params'[q].refs > 0 /\ params'[q].list = ParamsOf(heap[url.box].query)
    <3> TAKE q \in Pids
    <3>1. CASE q = p
      BY <2>5, <3>1 DEF list
    <3>2. CASE q # p
      BY <2>4, <2>5, <3>2
    <3> QED
      BY <3>1, <3>2
  <2> QED
    BY <1>1, <2>3, <2>6, <2>7 DEF UrlInv
<1> QED
  BY <1>2, <1>3

\* postUpdate writes the query that names the list.
LEMMA UpdateParamsUrl == ASSUME IInv, UrlInv, UpdateParams PROVE UrlInv'
<1>1. url' = url
  BY DEF UpdateParams
<1> DEFINE To(q, l) == /\ params' = [params EXCEPT ![q].list = l]
                       /\ IF params[q].linked
                          THEN heap' = Put(heap, url.box, SetQuery(heap[url.box], QueryOf(l)))
                          ELSE UNCHANGED heap
<1>a. PICK p \in Pids : \E l \in Updates(params[p].list) : To(p, l)
  BY DEF UpdateParams
<1>2. PICK list \in Updates(params[p].list) : To(p, list)
  BY <1>a
<1>3. IsList(list)
  BY UpdatesAre DEF UrlInv
<1>4. /\ params'[p].list = list /\ params'[p].linked = params[p].linked
      /\ params'[p].refs = params[p].refs
      /\ \A q \in Pids \ {p} : params'[q] = params[q]
  BY <1>2 DEF IInv, Shape
<1>5. \A q \in Pids : IsList(params'[q].list)
  BY <1>3, <1>4 DEF UrlInv
<1>6. CASE params[p].linked
  <2> DEFINE old == heap[url.box]
             new == SetQuery(old, QueryOf(list))
  <2>1. url # NoUrl /\ \A q \in Pids : params[q].linked => q = p
    BY <1>6, Boxes DEF IInv, Links
  <2>2. IsUrl(old) /\ IsQuery(QueryOf(list)) /\ ParamsOf(QueryOf(list)) = list
    BY <1>3, <2>1, ListKept DEF UrlInv
  <2>3. heap' = Put(heap, url.box, new)
    BY <1>2, <1>6
  <2>4. IsUrl(new) /\ new.query = QueryOf(list)
    BY <2>2, QueryIs
  <2> HIDE DEF new
  <2>5. heap'[url.box] = new
    BY <2>3, PutValue
  <2>6. \A q \in Pids : params'[q].linked =>
          params'[q].refs > 0 /\ params'[q].list = ParamsOf(heap'[url.box].query)
    BY <1>4, <2>1, <2>2, <2>4, <2>5 DEF UrlInv
  <2> QED
    BY <1>1, <1>5, <2>4, <2>5, <2>6 DEF UrlInv
<1>7. CASE ~params[p].linked
  <2>1. heap' = heap
    BY <1>2, <1>7
  <2>2. \A q \in Pids : params'[q].linked => params'[q] = params[q] /\ params[q].linked
    BY <1>4, <1>7
  <2> QED
    BY <1>1, <1>5, <2>1, <2>2 DEF UrlInv
<1> QED
  BY <1>6, <1>7

\* The collector: a view that is released keeps its list or loses it.
LEMMA ReleasedList ==
  ASSUME NEW o, DOMAIN o = {"list", "linked", "refs"}, IsList(o.list)
  PROVE  IsList(Released(o).list)
<1>1. IsList(<<>>)
  <2>1. DOMAIN <<>> = {}
    OBVIOUS
  <2> QED
    BY <2>1, EmptyIs DEF IsList
<1>2. Released(o).list \in {<<>>, o.list}
  BY DEF Released, Dead
<1> QED
  BY <1>1, <1>2

\* A URL that goes leaves its view unlinked.
LEMMA DropUrlUrl == ASSUME IInv, UrlInv, DropUrl PROVE UrlInv'
<1>1. url' = NoUrl /\ IInv'
  BY DropUrlStep DEF DropUrl
<1>2. \A p \in Pids : ~params'[p].linked
  BY <1>1, FfiConstants DEF IInv, Links, NoUrl
<1>3. ASSUME NEW p \in Pids PROVE IsList(params'[p].list)
  <2> DEFINE o == [params[p] EXCEPT !.linked = FALSE]
  <2>1. params'[p] = IF p \in Linked THEN Released(o) ELSE params[p]
    BY DEF DropUrl
  <2>2. DOMAIN o = {"list", "linked", "refs"} /\ o.list = params[p].list
    BY DEF IInv, Shape
  <2>3. IsList(params[p].list)
    BY DEF UrlInv
  <2> HIDE DEF o
  <2> QED
    BY <2>1, <2>2, <2>3, ReleasedList
<1> QED
  BY <1>1, <1>2, <1>3 DEF UrlInv

\* A reference that goes changes no list that is still linked.
LEMMA DropParamsUrl == ASSUME IInv, UrlInv, DropParams PROVE UrlInv'
<1>1. heap' = heap /\ url' = url
  BY DEF DropParams
<1>2. PICK p \in Pids : /\ params[p].refs > IF params[p].linked THEN 1 ELSE 0
                        /\ params' = [params EXCEPT ![p] = Released(params[p])]
  BY DEF DropParams
<1> DEFINE o == params[p]
<1>3. /\ DOMAIN o = {"list", "linked", "refs"} /\ o.refs \in Int /\ IsList(o.list)
      /\ o.linked \in BOOLEAN
  BY DEF IInv, Shape, UrlInv
<1>4. params'[p] = Released(o) /\ \A q \in Pids \ {p} : params'[q] = params[q]
  BY <1>2 DEF IInv, Shape
<1>5. \A q \in Pids : IsList(params'[q].list)
  <2> HIDE DEF o
  <2>1. IsList(Released(o).list)
    BY <1>3, ReleasedList
  <2> QED
    BY <1>4, <2>1 DEF UrlInv
<1>6. Released(o).linked => /\ o.linked /\ Released(o).list = o.list
                            /\ Released(o).refs > 0
  <2>1. CASE o.refs = 1
    BY <2>1 DEF Released, Dead
  <2>2. CASE o.refs # 1
    <3>1. Released(o) = [o EXCEPT !.refs = o.refs - 1]
      BY <2>2 DEF Released
    <3>2. /\ Released(o).linked = o.linked /\ Released(o).list = o.list
          /\ Released(o).refs = o.refs - 1
      BY <1>3, <3>1
    <3>3. o.linked => o.refs > 1
      BY <1>2
    <3> QED
      BY <1>3, <3>2, <3>3
  <2> QED
    BY <2>1, <2>2
<1>7. \A q \in Pids : params'[q].linked =>
        params'[q].refs > 0 /\ params'[q].list = ParamsOf(heap[url.box].query)
  <2> TAKE q \in Pids
  <2>1. CASE q = p
    BY <1>4, <1>6, <2>1 DEF UrlInv
  <2>2. CASE q # p
    BY <1>4, <2>2 DEF UrlInv
  <2> QED
    BY <2>1, <2>2
<1> QED
  BY <1>1, <1>5, <1>7 DEF UrlInv

-----------------------------------------------------------------------------
(* The decoder leaves the URL alone, and every step keeps the two in sync. *)

\* The end of a decode writes or frees the box of the decoder only.
LEMMA DecodedBox ==
  ASSUME NEW h, NEW b, NEW run, NEW input, NEW last, Decoded(h, b, run, input, last),
         NEW x \in DOMAIN h \ {b}
  PROVE  heap'[x] = h[x]
<1>1. \E v : heap' \in {Without(h, b), Put(h, b, v), h}
  BY DEF Decoded
<1>2. PICK v : heap' \in {Without(h, b), Put(h, b, v), h}
  BY <1>1
<1>3. Without(h, b)[x] = h[x] /\ Put(h, b, v)[x] = h[x]
  BY WithoutValue, PutValue
<1> QED
  BY <1>2, <1>3

\* The operations of the decoder leave the box of the URL alone.
LEMMA DecoderUrl ==
  ASSUME IInv, UrlInv,
         NewTextDecoder \/ DropDecoder \/ \E input \in Chunks : DecodeChunk(input) \/ DecodeLast(input)
  PROVE  UrlInv'
<1>1. url' = url /\ params' = params
  BY DEF NewTextDecoder, DropDecoder, DecodeChunk, DecodeLast, urlVars
<1>2. ASSUME url # NoUrl PROVE heap'[url.box] = heap[url.box]
  <2> DEFINE x == url.box
  <2>1. x \in DOMAIN heap /\ x # 0 /\ x # decoder.box /\ made + 1 \notin DOMAIN heap
    BY <1>2, Boxes
  <2> HIDE DEF x
  <2>2. CASE NewTextDecoder
    BY <2>2 DEF NewTextDecoder, x
  <2>3. CASE DropDecoder
    <3>1. heap' = Without(heap, decoder.box)
      BY <2>3 DEF DropDecoder
    <3>2. heap'[x] = heap[x]
      BY <2>1, <3>1, WithoutValue
    <3> QED
      BY <3>2 DEF x
  <2>4. ASSUME NEW input \in Chunks, DecodeLast(input) PROVE heap'[x] = heap[x]
    <3>1. PICK run : Decoded(heap, decoder.box, run, input, TRUE)
      BY <2>4 DEF DecodeLast
    <3> QED
      BY <2>1, <3>1, DecodedBox
  <2>5. ASSUME NEW input \in Chunks, DecodeChunk(input) PROVE heap'[x] = heap[x]
    <3> DEFINE b == IF decoder.box = 0 THEN made + 1 ELSE decoder.box
               h == IF decoder.box = 0 THEN Put(heap, b, NewDecoder) ELSE heap
    <3>1. x # b
      BY <2>1
    <3>2. x \in DOMAIN h /\ h[x] = heap[x]
      <4>1. x \in DOMAIN Put(heap, b, NewDecoder) /\ Put(heap, b, NewDecoder)[x] = heap[x]
        <5> HIDE DEF b
        <5>1. x \in DOMAIN heap \ {b}
          BY <2>1, <3>1
        <5>2. Put(heap, b, NewDecoder)[x] = heap[x]
          BY <5>1, PutValue
        <5>3. DOMAIN Put(heap, b, NewDecoder) = DOMAIN heap \union {b}
          BY PutDomain, Zenon
        <5> QED
          BY <5>1, <5>2, <5>3
      <4>2. h \in {heap, Put(heap, b, NewDecoder)}
        OBVIOUS
      <4> HIDE DEF h
      <4> QED
        BY <2>1, <4>1, <4>2
    <3>3. heap' = h \/ \E run : Decoded(h, b, run, input, FALSE)
      BY <2>5 DEF DecodeChunk
    <3> HIDE DEF b, h
    <3>4. x \in DOMAIN h \ {b}
      BY <3>1, <3>2
    <3>5. CASE heap' = h
      BY <3>2, <3>5
    <3>6. CASE \E run : Decoded(h, b, run, input, FALSE)
      BY <3>2, <3>4, <3>6, DecodedBox
    <3> QED
      BY <3>3, <3>5, <3>6
  <2>6. heap'[x] = heap[x]
    BY <2>2, <2>3, <2>4, <2>5 DEF x
  <2> QED
    BY <2>6 DEF x
<1> QED
  BY <1>1, <1>2, SameUrlBox

\* Every step keeps the URL and its view in sync.
LEMMA UrlStep == IInv /\ UrlInv /\ [Next]_vars => UrlInv'
<1> SUFFICES ASSUME IInv, UrlInv, [Next]_vars PROVE UrlInv'
  OBVIOUS
<1>1. CASE UNCHANGED vars
  BY <1>1 DEF vars, UrlInv
<1>2. CASE Next
  BY <1>2, NewUrlUrl, SetUrl, SetHrefUrl, GetParamsUrl, UpdateParamsUrl, DropUrlUrl,
     DropParamsUrl, DecoderUrl DEF Next
<1> QED
  BY <1>1, <1>2

\* The live box is a URL, every view holds name and value pairs, and a linked view the pairs of
\* the URL's query: urlEncode and paramsFromString lose nothing of a list of pairs (URL.zig,
\* URLSearchParams.zig).
THEOREM UrlInvariant == Spec => []UrlInv
  BY ObjectsInvariant, InitUrl, UrlStep, PTL DEF Spec

\* The view and the URL are two copies of one query whatever a script does to either, and only
\* while both live ("searchParam pushes its mutations to URL, so self._url is always in sync").
THEOREM ViewIsInSync == Spec => []QueryInSync
<1>1. IInv /\ UrlInv => QueryInSync
  BY DEF IInv, Links, UrlInv, QueryInSync
<1> QED
  BY <1>1, ObjectsInvariant, UrlInvariant, PTL

-----------------------------------------------------------------------------
(* The drive-letter workaround.                                            *)

\* A step of the walk stays, removes the last segment, or adds one.
LEMMA SteppedTo ==
  ASSUME NEW V, NEW path \in Seq(V), NEW seg \in V, NEW kept
  PROVE  LET q == Stepped(path, seg, kept)
             up == seg = ".." /\ path # <<>> /\ Last(path) \notin kept
             on == seg \notin {".", ".."}
         IN  /\ q \in Seq(V)
             /\ up => Len(q) = Len(path) - 1 /\ \A i \in 1 .. Len(path) - 1 : q[i] = path[i]
             /\ on => Len(q) = Len(path) + 1 /\ \A i \in 1 .. Len(path) : q[i] = path[i]
             /\ ~up /\ ~on => q = path
<1> DEFINE q == Stepped(path, seg, kept)
<1>1. q \in Seq(V)
  BY SteppedIs
<1>2. CASE seg = ".." /\ path # <<>> /\ Last(path) \notin kept
  <2>1. q = Front(path)
    BY <1>2 DEF Stepped
  <2> QED
    BY <1>1, <1>2, <2>1, FrontIs
<1>3. CASE seg \notin {".", ".."}
  <2>1. q = Append(path, seg)
    BY <1>3 DEF Stepped
  <2>2. /\ Len(Append(path, seg)) = Len(path) + 1
        /\ \A i \in 1 .. Len(path) : Append(path, seg)[i] = path[i]
    OBVIOUS
  <2> QED
    BY <1>1, <1>3, <2>1, <2>2
<1>4. CASE seg \in {".", ".."} /\ ~(seg = ".." /\ path # <<>> /\ Last(path) \notin kept)
  <2>1. q = path
    BY <1>4 DEF Stepped
  <2> QED
    BY <1>1, <1>4, <2>1
<1> QED
  BY <1>2, <1>3, <1>4

\* a still has the lookalike at m that b has lost, and is the longer one.
Ahead(a, b, m) == Len(a) >= m /\ a[m] \in Lookalikes /\ Len(a) > Len(b)

\* One more segment keeps the walk of rust-url ahead.
LEMMA AheadStays ==
  ASSUME NEW V, NEW a \in Seq(V), NEW b \in Seq(V), NEW seg \in V, NEW m \in Nat, m > 0,
         Ahead(a, b, m)
  PROVE  Ahead(Stepped(a, seg, Lookalikes), Stepped(b, seg, {}), m)
<1> DEFINE p == Stepped(a, seg, Lookalikes)
           q == Stepped(b, seg, {})
<1>1. /\ Len(a) \in Nat /\ Len(b) \in Nat /\ Len(a) >= m /\ Len(a) > Len(b)
      /\ a[m] \in Lookalikes /\ a # <<>>
  BY DEF Ahead
<1>2. CASE seg \notin {".", ".."}
  <2>1. Len(p) = Len(a) + 1 /\ \A i \in 1 .. Len(a) : p[i] = a[i]
    BY <1>2, SteppedTo
  <2>2. Len(q) = Len(b) + 1
    BY <1>2, SteppedTo
  <2> HIDE DEF p, q
  <2>3. Ahead(p, q, m)
    BY <1>1, <2>1, <2>2 DEF Ahead
  <2> QED
    BY <2>3 DEF p, q
<1>3. CASE seg = ".."
  <2>1. Len(q) = IF b = <<>> THEN 0 ELSE Len(b) - 1
    <3>1. b = <<>> => q = b /\ Len(b) = 0
      BY <1>3 DEF Stepped
    <3>2. b # <<>> => Len(q) = Len(b) - 1
      BY <1>3, SteppedTo
    <3> QED
      BY <3>1, <3>2
  <2>2. CASE Last(a) \in Lookalikes
    <3>1. p = a
      BY <1>3, <2>2 DEF Stepped
    <3>2. Len(q) <= Len(b)
      BY <1>1, <2>1
    <3> HIDE DEF p, q
    <3>3. Ahead(p, q, m)
      BY <1>1, <2>1, <3>1 DEF Ahead
    <3> QED
      BY <3>3 DEF p, q
  <2>3. CASE Last(a) \notin Lookalikes
    <3>1. Len(p) = Len(a) - 1 /\ \A i \in 1 .. Len(a) - 1 : p[i] = a[i]
      BY <1>1, <1>3, <2>3, SteppedTo
    <3>2. Len(a) # m
      BY <1>1, <2>3 DEF Last
    <3>3. m \in 1 .. Len(a) - 1
      BY <1>1, <3>2
    <3>4. b = <<>> => Len(b) = 0
      OBVIOUS
    <3>5. b # <<>> => Len(b) > 0
      OBVIOUS
    <3>6. Len(p) > Len(q)
      BY <1>1, <2>1, <3>1, <3>3, <3>4, <3>5
    <3> HIDE DEF p, q
    <3>7. Ahead(p, q, m)
      BY <1>1, <3>1, <3>3, <3>6 DEF Ahead
    <3> QED
      BY <3>7 DEF p, q
  <2> QED
    BY <2>2, <2>3
<1>4. CASE seg = "."
  BY <1>4 DEF Stepped
<1> QED
  BY <1>2, <1>3, <1>4

\* A ".." that a lookalike stops leaves a longer path than the Standard's, whatever follows.
LEMMA KeptLonger ==
  ASSUME NEW V, NEW path \in Seq(V), path # <<>>, Last(path) \in Lookalikes,
         NEW segs \in Seq(V), segs # <<>>, segs[1] = ".."
  PROVE  Walk(path, segs, Lookalikes) # Walk(path, segs, {})
<1> DEFINE N == Len(segs)
           m == Len(path)
           f == WalkTo(path, segs, Lookalikes)
           g == WalkTo(path, segs, {})
           S == {n \in 0 .. N : n = 0 \/ Ahead(f[n], g[n], m)}
<1>1. N \in Nat /\ N >= 1 /\ m \in Nat /\ m > 0 /\ path[m] \in Lookalikes
      /\ \A n \in 1 .. N : segs[n] \in V
  BY DEF Last
<1>2. /\ f \in [0 .. N -> Seq(V)] /\ f[0] = path
      /\ \A n \in 1 .. N : f[n] = Stepped(f[n - 1], segs[n], Lookalikes)
  BY WalkRecur
<1>3. /\ g \in [0 .. N -> Seq(V)] /\ g[0] = path
      /\ \A n \in 1 .. N : g[n] = Stepped(g[n - 1], segs[n], {})
  BY WalkRecur
<1> HIDE DEF N, f, g
<1>4. Ahead(f[1], g[1], m)
  <2>1. f[1] = Stepped(path, "..", Lookalikes) /\ g[1] = Stepped(path, "..", {})
    <3>1. 1 \in 1 .. N /\ 1 - 1 = 0
      BY <1>1
    <3> QED
      BY <1>2, <1>3, <3>1
  <2>2. f[1] = path
    BY <2>1 DEF Stepped
  <2>3. g[1] = Front(path)
    BY <2>1 DEF Stepped
  <2>4. Len(g[1]) = m - 1
    BY <2>3, FrontIs
  <2> QED
    BY <1>1, <2>2, <2>4 DEF Ahead
<1>5. ASSUME NEW n \in 1 .. N, n - 1 \in S PROVE n \in S
  <2>1. CASE n = 1
    BY <1>4, <2>1
  <2>2. CASE n # 1
    <3>1. n - 1 \in 0 .. N /\ n - 1 # 0 /\ n \in 0 .. N
      BY <1>1, <2>2
    <3> DEFINE a == f[n - 1]
               b == g[n - 1]
    <3>2. Ahead(a, b, m) /\ a \in Seq(V) /\ b \in Seq(V) /\ segs[n] \in V
      BY <1>1, <1>2, <1>3, <1>5, <3>1
    <3>3. f[n] = Stepped(a, segs[n], Lookalikes) /\ g[n] = Stepped(b, segs[n], {})
      BY <1>2, <1>3
    <3> HIDE DEF a, b, m
    <3>4. Ahead(Stepped(a, segs[n], Lookalikes), Stepped(b, segs[n], {}), m)
      <4>1. m \in Nat /\ m > 0
        BY <1>1
      <4> QED
        BY <3>2, <4>1, AheadStays
    <3> QED
      BY <3>1, <3>3, <3>4
  <2> QED
    BY <2>1, <2>2
<1>6. \A n \in 0 .. N : n \in S
  <2>1. 0 \in S
    BY <1>1
  <2> HIDE DEF S
  <2> QED
    BY <1>1, <1>5, <2>1, IntervalInduction
<1> DEFINE a == f[N]
           b == g[N]
<1>7. a \in Seq(V) /\ b \in Seq(V) /\ Len(a) > Len(b)
  <2>1. N \in 0 .. N /\ N # 0
    BY <1>1
  <2> QED
    BY <1>2, <1>3, <1>6, <2>1 DEF Ahead
<1>8. /\ Walk(path, segs, Lookalikes) = IF Last(segs) \in {".", ".."} THEN Append(a, "") ELSE a
      /\ Walk(path, segs, {}) = IF Last(segs) \in {".", ".."} THEN Append(b, "") ELSE b
  BY WalkEnd DEF N, f, g
<1> HIDE DEF a, b
<1>9. a # b
  BY <1>7
<1>10. Append(a, "") # Append(b, "")
  <2> DEFINE p == Append(a, "")
             q == Append(b, "")
  <2>1. IsSeq(a) /\ IsSeq(b) /\ Len(a) \in Nat /\ Len(b) \in Nat
    BY <1>7, SeqIs
  <2>2. Len(p) = Len(a) + 1 /\ Len(q) = Len(b) + 1
    BY <2>1, AppendIs
  <2> HIDE DEF p, q
  <2>3. p # q
    BY <1>7, <2>1, <2>2
  <2> QED
    BY <2>3 DEF p, q
<1> QED
  BY <1>8, <1>9, <1>10

\* Where rust-url joins as the Standard does, the guard of the workaround fails.
LEMMA GuardFails ==
  ASSUME NEW base, IsUrl(base), NEW ref, IsRef(ref), RustJoin(base, ref) = StdJoin(base, ref)
  PROVE  UrlJoin(base, ref) = RustJoin(base, ref)
<1> DEFINE rust == RustJoin(base, ref)
           guard == /\ ref.segs # <<>> /\ ref.segs[1] = ".."
                    /\ Slash(base.path) /\ Len(base.path) > 1
                    /\ Last(Front(base.path)) \in Lookalikes
<1>1. guard => FALSE
  <2> SUFFICES ASSUME guard PROVE FALSE
    OBVIOUS
  <2> DEFINE path == Front(base.path)
             segs == ref.segs
             V == Range(path) \union Range(segs)
  <2>1. ref.abs = <<>> /\ segs # <<>> /\ segs[1] = ".." /\ Last(path) \in Lookalikes
    BY DEF IsRef
  <2>2. IsSeq(path) /\ IsSeq(segs)
    BY RestIs DEF IsUrl, IsRef
  <2>3. path # <<>>
    <3> DEFINE W == Range(base.path)
               q == base.path
    <3>1. q \in Seq(W)
      BY SeqHas DEF IsUrl
    <3>2. q # <<>> /\ Len(q) > 1
      <4>1. Len(<<>>) = 0
        OBVIOUS
      <4> QED
        BY <4>1
    <3> HIDE DEF W, q
    <3>3. Len(Front(q)) = Len(q) - 1 /\ Len(q) \in Nat
      BY <3>1, <3>2, FrontIs
    <3>4. Front(q) # <<>>
      BY <3>2, <3>3
    <3> QED
      BY <3>4 DEF q
  <2>4. \A kept : JoinWith(base, ref, kept).path = Walk(path, segs, kept)
    <3> TAKE kept
    <3> DEFINE w == Walk(path, segs, kept)
               query == IF ref.segs = <<>> /\ ref.query = <<>> THEN base.query ELSE ref.query
    <3>1. JoinWith(base, ref, kept)
            = [base EXCEPT !.path = IF segs = <<>> THEN base.path
                                    ELSE IF segs[1] = "" THEN Walk(<<>>, Tail(segs), kept)
                                    ELSE w,
                           !.query = query, !.fragment = ""]
      BY <2>1 DEF JoinWith
    <3>2. ".." # ""
      OBVIOUS
    <3> HIDE DEF w, query, segs
    <3>3. JoinWith(base, ref, kept) = [base EXCEPT !.path = w, !.query = query, !.fragment = ""]
      BY <2>1, <3>1, <3>2
    <3>4. "path" \in DOMAIN base
      BY DEF IsUrl
    <3>5. JoinWith(base, ref, kept).path = w
      BY <3>3, <3>4
    <3> QED
      BY <3>5 DEF w, segs
  <2>5. Walk(path, segs, Lookalikes) = Walk(path, segs, {})
    BY <2>4 DEF RustJoin, StdJoin
  <2>6. Range(path) \subseteq V /\ Range(segs) \subseteq V
    OBVIOUS
  <2> HIDE DEF path, segs, V
  <2>7. path \in Seq(V) /\ segs \in Seq(V)
    BY <2>2, <2>6, SeqIn
  <2> QED
    BY <2>1, <2>3, <2>5, <2>7, KeptLonger
<1>2. ~guard
  BY <1>1
<1>3. UrlJoin(base, ref) = rust
  BY <1>2 DEF UrlJoin, FixDriveLetterJoin
<1> QED
  BY <1>3

\* The workaround for drive letters changes no join that rust-url got right, and none of a file:
\* URL, for every base a page can have and every reference (fix_drive_letter_join).
THEOREM WorkaroundIsGuarded == Spec => []JoinGuarded
<1>1. UrlInv => JoinGuarded
  <2> SUFFICES ASSUME UrlInv, url # NoUrl, NEW ref \in References
               PROVE  LET base == heap[url.box]
                          rust == RustJoin(base, ref)
                      IN  "file" \in {base.scheme, rust.scheme} \/ rust = StdJoin(base, ref)
                            => UrlJoin(base, ref) = rust
    BY DEF JoinGuarded
  <2> DEFINE base == heap[url.box]
             rust == RustJoin(base, ref)
  <2>1. IsUrl(base) /\ IsRef(ref)
    BY FfiConstants DEF UrlInv
  <2>2. ASSUME "file" \in {base.scheme, rust.scheme} PROVE UrlJoin(base, ref) = rust
    BY <2>2 DEF UrlJoin, FixDriveLetterJoin
  <2>3. ASSUME rust = StdJoin(base, ref) PROVE UrlJoin(base, ref) = rust
    <3> HIDE DEF base
    <3> QED
      BY <2>1, <2>3, GuardFails
  <2> QED
    BY <2>2, <2>3
<1> QED
  BY <1>1, UrlInvariant, PTL

-----------------------------------------------------------------------------
(* The host setter.                                                        *)

\* What stands before the first of the ends is all of the text, or stops at an end.
LEMMA BeforeIs ==
  ASSUME NEW text, IsSeq(text), NEW ends, NEW i \in Int, i >= 1
  PROVE  LET b == Before(text, ends, i)
         IN  /\ IsSeq(b)
             /\ \/ b = text
                \/ \E k \in 1 .. Len(text) : text[k] \in ends /\ b = SubSeq(text, 1, k - 1)
<1> DEFINE cuts == {k \in DOMAIN text : k >= i /\ text[k] \in ends}
           V == Range(text)
<1>1. text \in Seq(V) /\ DOMAIN text = 1 .. Len(text) /\ Len(text) \in Nat
  BY SeqHas
<1> HIDE DEF V
<1>2. CASE cuts = {}
  <2>1. Before(text, ends, i) = text
    BY <1>2 DEF Before
  <2> QED
    BY <2>1
<1>3. CASE cuts # {}
  <2> DEFINE k == Min(cuts)
  <2>1. cuts \subseteq 1 .. Len(text)
    BY <1>1
  <2>2. \A x \in cuts : text[x] \in ends
    OBVIOUS
  <2>3. Before(text, ends, i) = SubSeq(text, 1, k - 1)
    BY <1>3 DEF Before
  <2> HIDE DEF cuts
  <2>4. k \in cuts
    BY <1>1, <1>3, <2>1, MinIn
  <2> HIDE DEF k
  <2>5. k \in 1 .. Len(text) /\ text[k] \in ends
    BY <2>1, <2>2, <2>4
  <2>6. SubSeq(text, 1, k - 1) \in Seq(V)
    <3>1. \A j \in 1 .. k - 1 : text[j] \in V
      BY <1>1, <2>5
    <3>2. 1 \in Int /\ k - 1 \in Int
      BY <2>5
    <3> DEFINE n == k - 1
    <3>3. n \in Int /\ \A j \in 1 .. n : text[j] \in V
      BY <3>1, <3>2
    <3> HIDE DEF n
    <3>4. SubSeq(text, 1, n) \in Seq(V)
      BY <3>2, <3>3, SubSeqProperties
    <3> QED
      BY <3>4 DEF n
  <2>7. IsSeq(SubSeq(text, 1, k - 1))
    BY <2>6, SeqIs
  <2> QED
    BY <2>3, <2>5, <2>7
<1> QED
  BY <1>2, <1>3

\* The place of the closing bracket, or 1.
LEMMA ClosingIs == ASSUME NEW text, IsSeq(text) PROVE Closing(text) \in Int /\ Closing(text) >= 1
<1> DEFINE found == {k \in DOMAIN text : text[k] = "]"}
<1>1. DOMAIN text = 1 .. Len(text) /\ Len(text) \in Nat
  BY SeqHas
<1>2. found # {} => Min(found) \in 1 .. Len(text)
  <2>1. found \subseteq 1 .. Len(text)
    BY <1>1
  <2> HIDE DEF found
  <2> QED
    BY <1>1, <2>1, MinIn
<1>3. Closing(text) \in {1, Len(text) + 1} \/ (found # {} /\ Closing(text) = Min(found))
  BY DEF Closing
<1> HIDE DEF found
<1> QED
  BY <1>1, <1>2, <1>3

\* What a text is made of when it is cut at a colon.
LEMMA CutIs ==
  ASSUME NEW text, IsSeq(text), NEW k \in 1 .. Len(text), text[k] = ":"
  PROVE  LET host == SubSeq(text, 1, k - 1)
             rest == SubSeq(text, Len(host) + 2, Len(text))
         IN  /\ rest = <<>> => text = Append(host, ":")
             /\ Len(rest) = 1 => text = host \o <<":", rest[1]>>
<1> DEFINE V == Range(text) \union {":"}
           host == SubSeq(text, 1, k - 1)
           n == Len(text)
<1>0. Range(text) \subseteq V /\ ":" \in V
  OBVIOUS
<1> HIDE DEF V
<1>1. text \in Seq(V) /\ n \in Nat /\ k \in Int /\ k >= 1 /\ k <= n
  <2>1. text \in Seq(V)
    BY <1>0, SeqIn
  <2> QED
    BY <2>1
<1>2. /\ host \in Seq(V) /\ Len(host) = k - 1
      /\ \A j \in 1 .. k - 1 : host[j] = text[j]
  <2> DEFINE m == k - 1
  <2>1. m \in Nat /\ m <= n /\ 1 \in Int
    BY <1>1
  <2>2. m - 1 + 1 = m
    BY <2>1
  <2> HIDE DEF m
  <2>3. \A j \in 1 .. m : text[j] \in V
    BY <1>1, <2>1
  <2>4. /\ SubSeq(text, 1, m) \in Seq(V)
        /\ Len(SubSeq(text, 1, m)) = IF 1 <= m THEN m - 1 + 1 ELSE 0
        /\ \A j \in 1 .. m - 1 + 1 : SubSeq(text, 1, m)[j] = text[1 + j - 1]
    BY <2>1, <2>3, SubSeqProperties
  <2>5. Len(SubSeq(text, 1, m)) = m
    BY <2>1, <2>2, <2>4
  <2>6. \A j \in 1 .. m : SubSeq(text, 1, m)[j] = text[j]
    <3> TAKE j \in 1 .. m
    <3>1. 1 + j - 1 = j
      OBVIOUS
    <3> QED
      BY <2>2, <2>4, <3>1
  <2> QED
    BY <2>4, <2>5, <2>6 DEF m
<1> HIDE DEF host
<1> DEFINE rest == SubSeq(text, k + 1, n)
<1>3. Len(host) + 2 = k + 1
  BY <1>1, <1>2
<1>4. /\ Len(rest) = n - k
      /\ \A j \in 1 .. n - k : rest[j] = text[k + j]
  <2> DEFINE m == k + 1
  <2>1. m \in Int /\ n \in Int /\ n - m + 1 = n - k
    BY <1>1
  <2>2. \A j \in m .. n : text[j] \in V
    BY <1>1
  <2> HIDE DEF m, n
  <2>3. /\ Len(SubSeq(text, m, n)) = IF m <= n THEN n - m + 1 ELSE 0
        /\ \A j \in 1 .. n - m + 1 : SubSeq(text, m, n)[j] = text[m + j - 1]
    BY <2>1, <2>2, SubSeqProperties
  <2>4. m <= n \/ n - k = 0
    BY <1>1, <2>1 DEF m
  <2>5. \A j \in 1 .. n - k : m + j - 1 = k + j
    BY <1>1 DEF m
  <2> QED
    BY <2>1, <2>3, <2>4, <2>5 DEF m
<1>5. rest = <<>> => text = Append(host, ":")
  <2> SUFFICES ASSUME rest = <<>> PROVE text = Append(host, ":")
    OBVIOUS
  <2>1. k = n
    <3>1. Len(rest) = 0
      OBVIOUS
    <3> HIDE DEF rest
    <3> QED
      BY <1>1, <1>4, <3>1
  <2> DEFINE c == ":"
  <2>2. text[k] = c /\ c \in V
    BY <1>0
  <2> HIDE DEF c
  <2>3. /\ Append(host, c) \in Seq(V) /\ Len(Append(host, c)) = n
        /\ Append(host, c)[n] = c /\ \A j \in 1 .. n - 1 : Append(host, c)[j] = host[j]
    BY <1>1, <1>2, <2>1, <2>2
  <2>4. \A j \in 1 .. n : Append(host, c)[j] = text[j]
    <3> TAKE j \in 1 .. n
    <3>1. j = n \/ j \in 1 .. n - 1
      BY <1>1
    <3> QED
      BY <1>2, <2>1, <2>2, <2>3, <3>1
  <2> QED
    BY <1>1, <2>3, <2>4 DEF c
<1>6. Len(rest) = 1 => text = host \o <<":", rest[1]>>
  <2> SUFFICES ASSUME Len(rest) = 1 PROVE text = host \o <<":", rest[1]>>
    OBVIOUS
  <2>1. k + 1 = n /\ rest[1] = text[n]
    <3>1. n - k = 1
      BY <1>4
    <3>2. 1 \in 1 .. n - k
      BY <3>1
    <3> HIDE DEF rest
    <3> QED
      BY <1>1, <1>4, <3>1, <3>2
  <2> DEFINE c == ":"
             t == rest[1]
             end == <<c, t>>
  <2>2. text[k] = c /\ c \in V /\ t \in V /\ text[n] = t
    BY <1>0, <1>1, <2>1
  <2> HIDE DEF c, t
  <2>3. end \in Seq(V) /\ Len(end) = 2 /\ end[1] = c /\ end[2] = t
    BY <2>2
  <2> HIDE DEF end
  <2>4. /\ host \o end \in Seq(V) /\ Len(host \o end) = n
        /\ \A j \in 1 .. k - 1 : (host \o end)[j] = host[j]
        /\ (host \o end)[k] = c /\ (host \o end)[n] = t
    <3> DEFINE z == host \o end
    <3>1. /\ z \in Seq(V) /\ Len(z) = Len(host) + Len(end)
          /\ \A j \in 1 .. Len(host) + Len(end) :
               z[j] = IF j <= Len(host) THEN host[j] ELSE end[j - Len(host)]
      BY <1>2, <2>3, ConcatProperties
    <3> HIDE DEF z
    <3>2. Len(host) + Len(end) = n /\ Len(host) = k - 1 /\ n = k + 1
      BY <1>1, <1>2, <2>1, <2>3
    <3>3. \A j \in 1 .. k - 1 : z[j] = host[j]
      BY <1>1, <3>1, <3>2
    <3>4. z[k] = end[k - (k - 1)] /\ z[n] = end[n - (k - 1)]
      BY <1>1, <3>1, <3>2
    <3>5. k - (k - 1) = 1 /\ n - (k - 1) = 2
      BY <1>1, <3>2
    <3> QED
      BY <2>3, <3>1, <3>2, <3>3, <3>4, <3>5 DEF z
  <2>5. \A j \in 1 .. n : (host \o end)[j] = text[j]
    <3> TAKE j \in 1 .. n
    <3>1. j = n \/ j = k \/ j \in 1 .. k - 1
      BY <1>1, <2>1
    <3> QED
      BY <1>2, <2>2, <2>4, <3>1
  <2> DEFINE z == host \o end
  <2>6. z \in Seq(V) /\ Len(z) = n /\ \A j \in 1 .. n : z[j] = text[j]
    BY <2>4, <2>5
  <2> HIDE DEF z
  <2>7. z = text
    BY <1>1, <2>6
  <2> QED
    BY <2>7 DEF c, t, end, z
<1> QED
  BY <1>3, <1>5, <1>6 DEF host

\* What the setter makes of a URL.
HostKept(old, new, input) ==
  \/ new = old
  \/ /\ input \in {new.host, Append(new.host, ":")}
     /\ new = [old EXCEPT !.host = new.host]
  \/ \E t \in DOMAIN PortNumber :
       /\ input = new.host \o <<":", t>> /\ PortNumber[t] <= MaxPort
       /\ new = [old EXCEPT !.host = new.host,
                            !.port = CASE Portless(new) -> old.port
                                       [] ~Portless(new)
                                          /\ PortNumber[t] = DefaultPort(old.scheme) -> NoPort
                                       [] OTHER -> PortNumber[t]]

\* A host without a port keeps the port.
LEMMA HostAlone ==
  ASSUME NEW old, IsUrl(old), NEW host, NEW input, input \in {host, Append(host, ":")}
  PROVE  HostKept(old, SetUrlHost(old, host), input)
<1> DEFINE w == [old EXCEPT !.host = host]
<1>1. w.host = host
  BY DEF IsUrl
<1>2. CASE SetUrlHost(old, host) = old
  BY <1>2 DEF HostKept
<1>3. CASE SetUrlHost(old, host) = w
  <2>1. w = [old EXCEPT !.host = w.host]
    BY <1>1
  <2> HIDE DEF w
  <2> QED
    BY <1>1, <1>3, <2>1 DEF HostKept
<1> QED
  BY <1>2, <1>3 DEF SetUrlHost

\* A host with a valid port sets both, or the host alone where no port may be set.
LEMMA HostAndPort ==
  ASSUME NEW old, IsUrl(old), NEW host, HostOk(old, host),
         NEW t \in DOMAIN PortNumber, PortNumber[t] <= MaxPort,
         NEW input, input = host \o <<":", t>>
  PROVE  HostKept(old, SetUrlPort(SetUrlHost(old, host), PortNumber[t]), input)
<1> DEFINE w == [old EXCEPT !.host = host]
           port == IF PortNumber[t] = DefaultPort(old.scheme) THEN NoPort ELSE PortNumber[t]
           v == [w EXCEPT !.port = port]
<1>1. SetUrlHost(old, host) = w
  BY DEF SetUrlHost
<1>2. /\ w.host = host /\ w.scheme = old.scheme /\ w.port = old.port /\ DOMAIN w = DOMAIN old
      /\ v.host = host /\ v.scheme = old.scheme
      /\ v = [old EXCEPT !.host = host, !.port = port]
      /\ w = [old EXCEPT !.host = host, !.port = old.port]
  <2> HIDE DEF port
  <2>1. {"host", "port", "scheme"} \subseteq DOMAIN old
    BY DEF IsUrl
  <2>2. w.host = host /\ w.scheme = old.scheme /\ w.port = old.port /\ DOMAIN w = DOMAIN old
    BY <2>1
  <2>3. v.host = host /\ v.scheme = old.scheme
    BY <2>1
  <2>4. v = [old EXCEPT !.host = host, !.port = port]
    BY <2>1
  <2>5. w = [old EXCEPT !.host = host, !.port = old.port]
    BY <2>1 DEF IsUrl
  <2> QED
    BY <2>2, <2>3, <2>4, <2>5
<1> DEFINE new == SetUrlPort(w, PortNumber[t])
           Given(u) == CASE Portless(u) -> old.port
                         [] ~Portless(u) /\ PortNumber[t] = DefaultPort(old.scheme) -> NoPort
                         [] OTHER -> PortNumber[t]
<1>3. CASE Portless(w)
  <2>1. new = w
    BY <1>3 DEF SetUrlPort
  <2>2. Given(w) = old.port
    BY <1>3
  <2> HIDE DEF w, Given, new
  <2>3. new = [old EXCEPT !.host = new.host, !.port = Given(new)] /\ new.host = host
    BY <1>2, <2>1, <2>2
  <2> QED
    BY <1>1, <2>3 DEF HostKept, Given, new
<1>4. CASE ~Portless(w)
  <2>1. new = v
    <3>1. new = [w EXCEPT !.port = IF PortNumber[t] = DefaultPort(w.scheme) THEN NoPort
                                   ELSE PortNumber[t]]
      BY <1>4 DEF SetUrlPort
    <3> HIDE DEF w, new
    <3> QED
      BY <1>2, <3>1
  <2>2. ~Portless(v)
    <3> HIDE DEF w, v
    <3> QED
      BY <1>2, <1>4 DEF Portless
  <2>3. Given(v) = port
    BY <2>2
  <2> HIDE DEF w, v, port, Given, new
  <2>4. new = [old EXCEPT !.host = new.host, !.port = Given(new)] /\ new.host = host
    BY <1>2, <2>1, <2>3
  <2> QED
    BY <1>1, <2>4 DEF HostKept, Given, new
<1> QED
  BY <1>3, <1>4

\* The host setter of one text.
LEMMA HostIsAtomic ==
  ASSUME NEW old, IsUrl(old), NEW text, IsSeq(text)
  PROVE  HostKept(old, SetHost(old, text), Before(text, Ends(old), 1))
<1> DEFINE input == Before(text, Ends(old), 1)
           close == Closing(input)
           host  == Before(input, {":"}, close)
           rest  == SubSeq(input, Len(host) + 2, Len(input))
           port  == ParsePort(rest)
           new   == SetHost(old, text)
<1>1. IsSeq(input)
  BY BeforeIs
<1> HIDE DEF input
<1>2. close \in Int /\ close >= 1
  BY <1>1, ClosingIs
<1> HIDE DEF close
<1>3. host = input \/ \E k \in 1 .. Len(input) : input[k] = ":" /\ host = SubSeq(input, 1, k - 1)
  BY <1>1, <1>2, BeforeIs
<1> HIDE DEF host
<1>4. host = input => rest = <<>>
  <2>1. Len(input) \in Nat
    BY <1>1, SeqHas
  <2> DEFINE V == Range(input)
             n == Len(input)
             m == n + 2
  <2>2. n \in Int /\ m \in Int /\ ~(m <= n) /\ \A i \in m .. n : input[i] \in V
    BY <2>1
  <2> HIDE DEF V, m, n
  <2>3. SubSeq(input, m, n) \in Seq(V) /\ Len(SubSeq(input, m, n)) = 0
    BY <2>2, SubSeqProperties
  <2>4. SubSeq(input, m, n) = <<>>
    BY <2>3
  <2> QED
    BY <2>4 DEF m, n
<1>5. /\ rest = <<>> => input \in {host, Append(host, ":")}
      /\ Len(rest) = 1 => input = host \o <<":", rest[1]>>
  <2>1. CASE host = input
    BY <1>4, <2>1
  <2>2. CASE \E k \in 1 .. Len(input) : input[k] = ":" /\ host = SubSeq(input, 1, k - 1)
    <3>1. PICK k \in 1 .. Len(input) : input[k] = ":" /\ host = SubSeq(input, 1, k - 1)
      BY <2>2
    <3> QED
      BY <1>1, <3>1, CutIs
  <2> QED
    BY <1>3, <2>1, <2>2
<1>6. \/ rest = <<>> /\ new = SetUrlHost(old, host)
      \/ new = old
      \/ /\ port # NoPort /\ HostOk(old, host)
         /\ new = SetUrlPort(SetUrlHost(old, host), port)
  BY DEF SetHost, input, host, close
<1>7. port # NoPort => /\ Len(rest) = 1 /\ rest[1] \in DOMAIN PortNumber
                       /\ PortNumber[rest[1]] <= MaxPort /\ port = PortNumber[rest[1]]
  BY DEF ParsePort
<1> HIDE DEF rest, port, new
<1>8. CASE rest = <<>> /\ new = SetUrlHost(old, host)
  BY <1>5, <1>8, HostAlone DEF new, input
<1>9. CASE new = old
  BY <1>9 DEF HostKept, new
<1>10. CASE /\ port # NoPort /\ HostOk(old, host)
            /\ new = SetUrlPort(SetUrlHost(old, host), port)
  BY <1>5, <1>7, <1>10, HostAndPort DEF new, input
<1> QED
  BY <1>6, <1>8, <1>9, <1>10

\* The host setter applies the host and a valid port, or neither ("Validate the port up-front so
\* we never apply the host and then fail", url_set_host), for every text a script gives it.
THEOREM HostSetterIsAtomic == Spec => HostAtomic
<1> DEFINE Told == \A text \in HostTexts : SetHostTo(text) =>
                     HostKept(heap[url.box], heap'[url.box], Before(text, Ends(heap[url.box]), 1))
<1>1. UrlInv => Told
  <2> SUFFICES ASSUME UrlInv, NEW text \in HostTexts, SetHostTo(text)
               PROVE  HostKept(heap[url.box], heap'[url.box], Before(text, Ends(heap[url.box]), 1))
    OBVIOUS
  <2> DEFINE old == heap[url.box]
  <2>1. IsUrl(old) /\ IsSeq(text) /\ heap' = Put(heap, url.box, SetHost(old, text))
    BY FfiConstants DEF UrlInv, SetHostTo
  <2> HIDE DEF old
  <2>2. heap'[url.box] = SetHost(old, text)
    BY <2>1, PutValue
  <2>3. HostKept(old, SetHost(old, text), Before(text, Ends(old), 1))
    BY <2>1, HostIsAtomic
  <2> QED
    BY <2>2, <2>3 DEF old
<1>2. Spec => [][Told]_vars
  BY <1>1, UrlInvariant, PTL
<1> QED
  BY <1>2 DEF HostAtomic, HostKept

-----------------------------------------------------------------------------
(* The text of a stream, byte by byte.                                     *)

Alphabet == {"a", "L", "c", "B"}
Signs    == {"a", "e", "?", "B"}

\* What the n-th byte of b is in the text.
CharOf(b, open, i) ==
  CASE b[i] = "L" /\ i = Len(b)          -> IF open THEN <<>> ELSE <<"?">>
    [] b[i] = "L" /\ i < Len(b)          -> IF b[i + 1] = "c" THEN <<"e">> ELSE <<"?">>
    [] b[i] = "c" /\ i > 1               -> IF b[i - 1] = "L" THEN <<>> ELSE <<"?">>
    [] b[i] = "c" /\ i = 1               -> <<"?">>
    [] OTHER                             -> <<b[i]>>
TextTo(b, open) ==
  CHOOSE f : f = [n \in 0 .. Len(b) |-> IF n = 0 THEN <<>> ELSE f[n - 1] \o CharOf(b, open, n)]
\* The bytes without the mark in front.
Core(bytes) == IF bytes # <<>> /\ bytes[1] = "B" THEN Tail(bytes) ELSE bytes

\* Whole by the names of its parts.
LEMMA WholeIs ==
  \A bytes, open : Whole(bytes, open) = TextTo(Core(bytes), open)[Len(Core(bytes))]
  BY DEF Whole, TextTo, Core, CharOf

\* The texts that a byte can give.
LEMMA SignsAre ==
  /\ <<>> \in Seq(Signs) /\ <<"?">> \in Seq(Signs) /\ <<"e">> \in Seq(Signs)
  /\ \A x \in Alphabet \ {"L", "c"} : <<x>> \in Seq(Signs) /\ <<"?", x>> \in Seq(Signs)
<1>1. "?" \in Signs /\ "e" \in Signs /\ \A x \in Alphabet \ {"L", "c"} : x \in Signs
  BY DEF Signs, Alphabet
<1> DEFINE q == "?"
           e == "e"
<1>2. q \in Signs /\ e \in Signs
  BY <1>1
<1> HIDE DEF q, e
<1>3. <<>> \in Seq(Signs) /\ <<q>> \in Seq(Signs) /\ <<e>> \in Seq(Signs)
  BY <1>2
<1>4. \A x \in Alphabet \ {"L", "c"} : <<x>> \in Seq(Signs) /\ <<q, x>> \in Seq(Signs)
  BY <1>1, <1>2
<1> QED
  BY <1>3, <1>4 DEF q, e

\* The cases of a byte.
LEMMA CharIs ==
  ASSUME NEW b \in Seq(Alphabet), NEW i \in 1 .. Len(b), NEW open
  PROVE  /\ b[i] = "L" /\ i = Len(b) => CharOf(b, open, i) = IF open THEN <<>> ELSE <<"?">>
         /\ b[i] = "L" /\ i < Len(b) => CharOf(b, open, i) = IF b[i + 1] = "c" THEN <<"e">> ELSE <<"?">>
         /\ b[i] = "c" /\ i > 1 /\ b[i - 1] = "L" => CharOf(b, open, i) = <<>>
         /\ b[i] = "c" /\ ~(i > 1 /\ b[i - 1] = "L") => CharOf(b, open, i) = <<"?">>
         /\ b[i] \notin {"L", "c"} => CharOf(b, open, i) = <<b[i]>>
         /\ CharOf(b, open, i) \in Seq(Signs)
<1> DEFINE char == CharOf(b, open, i)
<1>1. Len(b) \in Nat /\ b[i] \in Alphabet
  OBVIOUS
<1>2. CASE b[i] = "L" /\ i = Len(b)
  <2>1. char = IF open THEN <<>> ELSE <<"?">>
    BY <1>2 DEF CharOf
  <2> QED
    BY <1>2, <2>1, SignsAre
<1>3. CASE b[i] = "L" /\ i < Len(b)
  <2>1. char = IF b[i + 1] = "c" THEN <<"e">> ELSE <<"?">>
    BY <1>3 DEF CharOf
  <2> QED
    BY <1>3, <2>1, SignsAre
<1>4. CASE b[i] = "c" /\ i > 1 /\ b[i - 1] = "L"
  <2>1. char = <<>>
    BY <1>4 DEF CharOf
  <2> QED
    BY <1>4, <2>1, SignsAre
<1>5. CASE b[i] = "c" /\ ~(i > 1 /\ b[i - 1] = "L")
  <2>1. char = <<"?">>
    <3>1. i > 1 \/ i = 1
      OBVIOUS
    <3> QED
      BY <1>5, <3>1 DEF CharOf
  <2> QED
    BY <1>5, <2>1, SignsAre
<1>6. CASE b[i] \notin {"L", "c"}
  <2>1. char = <<b[i]>>
    BY <1>6 DEF CharOf
  <2>2. <<b[i]>> \in Seq(Signs)
    BY <1>1, <1>6, SignsAre
  <2> QED
    BY <1>6, <2>1, <2>2
<1> QED
  BY <1>1, <1>2, <1>3, <1>4, <1>5, <1>6

\* The text, byte by byte, is what the recursion of Whole computes.
LEMMA TextRecur ==
  ASSUME NEW b \in Seq(Alphabet), NEW open
  PROVE  LET f == TextTo(b, open)
         IN  /\ f \in [0 .. Len(b) -> Seq(Signs)] /\ f[0] = <<>>
             /\ \A n \in 1 .. Len(b) : f[n] = f[n - 1] \o CharOf(b, open, n)
<1> DEFINE N == Len(b)
           W == Seq(Signs)
           step(n, x) == x \o CharOf(b, open, n)
           G == [n \in 1 .. N |-> [x \in W |-> step(n, x)]]
           Of(f) == f = [n \in 0 .. N |-> IF n = 0 THEN <<>> ELSE step(n, f[n - 1])]
           c == TextTo(b, open)
<1>1. N \in Nat /\ <<>> \in W
  OBVIOUS
<1>2. ASSUME NEW n \in 1 .. N, NEW x \in W PROVE step(n, x) \in W
  <2> DEFINE char == CharOf(b, open, n)
  <2>1. char \in W
    BY CharIs
  <2> HIDE DEF char
  <2>2. x \o char \in W
    BY <2>1
  <2> QED
    BY <2>2 DEF char
<1>3. c = CHOOSE f : Of(f)
  BY DEF TextTo
<1> HIDE DEF W, N, step, c
<1>4. PICK f \in [0 .. N -> W] : f[0] = <<>> /\ \A n \in 1 .. N : f[n] = G[n][f[n - 1]]
  <2>1. G \in Steps(N, W)
    BY <1>2 DEF Steps
  <2> HIDE DEF G
  <2> QED
    BY <1>1, <2>1, Recursion
<1>5. \A n \in 1 .. N : f[n] = step(n, f[n - 1])
  <2> TAKE n \in 1 .. N
  <2>1. n - 1 \in 0 .. N
    BY <1>1
  <2>2. f[n - 1] \in W
    BY <2>1
  <2> QED
    BY <1>4, <2>2
<1>6. Of(f)
  <2>1. \A n \in 0 .. N : n = 0 \/ n \in 1 .. N
    BY <1>1
  <2> QED
    BY <1>4, <1>5, <2>1
<1> HIDE DEF G
<1>7. Of(c)
  <2> HIDE DEF Of
  <2> QED
    BY <1>3, <1>6, Zenon
<1>8. c[0] = <<>> /\ \A n \in 1 .. N : c[n] = step(n, c[n - 1])
  <2>1. \A n \in 0 .. N : c[n] = IF n = 0 THEN <<>> ELSE step(n, c[n - 1])
    BY <1>7
  <2>2. 0 \in 0 .. N /\ \A n \in 1 .. N : n \in 0 .. N /\ n # 0
    BY <1>1
  <2> QED
    BY <2>1, <2>2
<1>9. Alike(c, f, N)
  BY <1>4, <1>5, <1>8 DEF Alike
<1>10. c = [n \in 0 .. N |-> c[n]]
  BY <1>7
<1> HIDE DEF Of
<1>11. c \in [0 .. N -> W]
  BY <1>1, <1>9, <1>10, SameFunction
<1> QED
  BY <1>8, <1>11 DEF N, W, c, step

\* What a byte adds to the text, after a first byte of two or not.
Given(half, x) ==
  CASE half /\ x = "c"            -> <<"e">>
    [] half /\ x = "L"            -> <<"?">>
    [] half /\ x \notin {"c", "L"} -> <<"?", x>>
    [] ~half /\ x = "L"           -> <<>>
    [] ~half /\ x = "c"           -> <<"?">>
    [] OTHER                      -> <<x>>
Half(b) == b # <<>> /\ b[Len(b)] = "L"

\* A byte gives at most two characters.
LEMMA GivenIs ==
  ASSUME NEW half \in BOOLEAN, NEW x \in Alphabet
  PROVE  Given(half, x) \in Seq(Signs) /\ Len(Given(half, x)) <= 2
<1>1. /\ Len(<<>>) <= 2 /\ Len(<<"?">>) <= 2 /\ Len(<<"e">>) <= 2
      /\ Len(<<x>>) <= 2 /\ Len(<<"?", x>>) <= 2
  OBVIOUS
<1>2. CASE x = "c"
  <2>1. Given(half, x) \in {<<"e">>, <<"?">>}
    BY <1>2 DEF Given
  <2> QED
    BY <1>1, <2>1, SignsAre
<1>3. CASE x = "L"
  <2>1. Given(half, x) \in {<<>>, <<"?">>}
    BY <1>3 DEF Given
  <2> QED
    BY <1>1, <2>1, SignsAre
<1>4. CASE x \notin {"c", "L"}
  <2>1. Given(half, x) \in {<<x>>, <<"?", x>>}
    BY <1>4 DEF Given
  <2> QED
    BY <1>1, <1>4, <2>1, SignsAre
<1> QED
  BY <1>2, <1>3, <1>4

\* One more byte: the text of the others with what the byte adds.
LEMMA TextStep ==
  ASSUME NEW b \in Seq(Alphabet), NEW x \in Alphabet
  PROVE  TextTo(Append(b, x), TRUE)[Len(b) + 1] = TextTo(b, TRUE)[Len(b)] \o Given(Half(b), x)
<1> DEFINE N == Len(b)
           bx == Append(b, x)
           f == TextTo(b, TRUE)
           g == TextTo(bx, TRUE)
           half == Half(b)
           given == Given(half, x)
<1>1. /\ N \in Nat /\ bx \in Seq(Alphabet) /\ Len(bx) = N + 1 /\ bx[N + 1] = x
      /\ \A n \in 1 .. N : bx[n] = b[n]
  OBVIOUS
<1>2. /\ f \in [0 .. N -> Seq(Signs)] /\ f[0] = <<>>
      /\ \A n \in 1 .. N : f[n] = f[n - 1] \o CharOf(b, TRUE, n)
  BY TextRecur
<1> HIDE DEF bx
<1>3. /\ g \in [0 .. N + 1 -> Seq(Signs)] /\ g[0] = <<>>
      /\ \A n \in 1 .. N + 1 : g[n] = g[n - 1] \o CharOf(bx, TRUE, n)
  BY <1>1, TextRecur
<1>4. \A n \in 1 .. N : n < N \/ b[n] # "L" => CharOf(bx, TRUE, n) = CharOf(b, TRUE, n)
  <2> SUFFICES ASSUME NEW n \in 1 .. N, n < N \/ b[n] # "L"
               PROVE  CharOf(bx, TRUE, n) = CharOf(b, TRUE, n)
    OBVIOUS
  <2>1. n \in 1 .. N + 1 /\ bx[n] = b[n] /\ (n > 1 => bx[n - 1] = b[n - 1])
        /\ (n < N => bx[n + 1] = b[n + 1])
    BY <1>1
  <2>a. n \in 1 .. Len(bx) /\ n \in 1 .. Len(b) /\ (n < Len(bx))
    BY <1>1
  <2>2. CASE b[n] = "L"
    <3>1. n < N
      BY <2>2
    <3>2. CharOf(b, TRUE, n) = IF b[n + 1] = "c" THEN <<"e">> ELSE <<"?">>
      BY <2>2, <3>1, CharIs
    <3>3. CharOf(bx, TRUE, n) = IF bx[n + 1] = "c" THEN <<"e">> ELSE <<"?">>
      BY <1>1, <2>1, <2>2, <2>a, CharIs
    <3>4. bx[n + 1] = b[n + 1]
      BY <2>1, <3>1
    <3>5. CASE b[n + 1] = "c"
      <4>1. CharOf(b, TRUE, n) = <<"e">> /\ CharOf(bx, TRUE, n) = <<"e">>
        BY <3>2, <3>3, <3>4, <3>5
      <4> QED
        BY <4>1
    <3>6. CASE b[n + 1] # "c"
      <4>1. CharOf(b, TRUE, n) = <<"?">> /\ CharOf(bx, TRUE, n) = <<"?">>
        BY <3>2, <3>3, <3>4, <3>6
      <4> QED
        BY <4>1
    <3> QED
      BY <3>5, <3>6
  <2>3. CASE b[n] = "c"
    <3>1. CASE n > 1 /\ b[n - 1] = "L"
      <4>1. CharOf(b, TRUE, n) = <<>>
        BY <2>3, <3>1, CharIs
      <4>2. CharOf(bx, TRUE, n) = <<>>
        BY <1>1, <2>1, <2>3, <2>a, <3>1, CharIs
      <4> QED
        BY <4>1, <4>2
    <3>2. CASE ~(n > 1 /\ b[n - 1] = "L")
      <4>1. CharOf(b, TRUE, n) = <<"?">>
        BY <2>3, <3>2, CharIs
      <4>2. CharOf(bx, TRUE, n) = <<"?">>
        BY <1>1, <2>1, <2>3, <2>a, <3>2, CharIs
      <4> QED
        BY <4>1, <4>2
    <3> QED
      BY <3>1, <3>2
  <2>4. CASE b[n] \notin {"L", "c"}
    BY <1>1, <2>1, <2>4, CharIs
  <2> QED
    BY <2>2, <2>3, <2>4
<1>5. \A n \in 0 .. N : n < N \/ ~half => g[n] = f[n]
  <2> DEFINE M == IF half THEN N - 1 ELSE N
  <2>1. M \in Nat /\ M <= N /\ (half => M = N - 1) /\ (~half => M = N)
    <3>1. half => N > 0
      BY DEF Half
    <3> QED
      BY <1>1, <3>1
  <2>2. ASSUME NEW n \in 1 .. M PROVE CharOf(bx, TRUE, n) = CharOf(b, TRUE, n)
    <3>1. n \in 1 .. N /\ (n = N => ~half /\ b # <<>>)
      BY <1>1, <2>1
    <3>2. n = N => b[n] # "L"
      BY <3>1 DEF Half
    <3>3. n < N \/ n = N
      BY <1>1, <3>1
    <3> QED
      BY <1>4, <3>1, <3>2, <3>3
  <2> HIDE DEF M, half, f, g
  <2>3. \A n \in 1 .. M : n \in 1 .. N /\ n \in 1 .. N + 1
    BY <1>1, <2>1
  <2>4. Alike(g, f, M)
    BY <1>2, <1>3, <2>2, <2>3 DEF Alike
  <2>5. \A n \in 0 .. M : g[n] = f[n]
    BY <2>1, <2>4, SameValues
  <2> QED
    BY <1>1, <2>1, <2>5
<1> DEFINE last == CharOf(bx, TRUE, N + 1)
<1> HIDE DEF f, g, half
<1>6. g[N + 1] = g[N] \o last
  <2>1. N + 1 \in 1 .. N + 1 /\ (N + 1) - 1 = N
    BY <1>1
  <2> QED
    BY <1>3, <2>1
<1>7. N + 1 \in 1 .. Len(bx) /\ bx[N + 1] = x /\ N + 1 = Len(bx)
      /\ (N + 1 > 1 => bx[(N + 1) - 1] = b[N])
  BY <1>1
<1>8. N > 0 => half = (b[N] = "L")
  BY DEF Half, half
<1>9. N = 0 => ~half
  BY DEF Half, half
<1>10. ASSUME ~half PROVE g[N + 1] = f[N] \o given
  <2>1. ~(N + 1 > 1 /\ bx[(N + 1) - 1] = "L")
    <3>1. N + 1 > 1 => N > 0
      BY <1>1
    <3> QED
      BY <1>7, <1>8, <1>10, <3>1
  <2>2. last = given
    <3>1. CASE x = "L"
      <4>1. last = <<>>
        BY <1>1, <1>7, <3>1, CharIs
      <4> QED
        BY <1>10, <3>1, <4>1 DEF Given
    <3>2. CASE x = "c"
      <4>1. last = <<"?">>
        BY <1>1, <1>7, <2>1, <3>2, CharIs
      <4> QED
        BY <1>10, <3>2, <4>1 DEF Given
    <3>3. CASE x \notin {"L", "c"}
      <4>1. last = <<x>>
        BY <1>1, <1>7, <3>3, CharIs
      <4> QED
        BY <1>10, <3>3, <4>1 DEF Given
    <3> QED
      BY <3>1, <3>2, <3>3
  <2>3. g[N] = f[N]
    <3>1. N \in 0 .. N
      BY <1>1
    <3> QED
      BY <1>5, <1>10, <3>1
  <2> HIDE DEF last, given
  <2> QED
    BY <1>6, <2>2, <2>3
<1>11. ASSUME half PROVE g[N + 1] = f[N] \o given
  <2> DEFINE t == f[N - 1]
             char == CharOf(bx, TRUE, N)
  <2>0. N > 0
    BY <1>1, <1>9, <1>11
  <2>1. N > 0 /\ N \in 1 .. N /\ N - 1 \in 0 .. N /\ N - 1 < N /\ b[N] = "L"
    <3>1. b[N] = "L"
      BY <1>8, <1>11, <2>0
    <3> QED
      BY <1>1, <2>0, <3>1
  <2>2. g[N - 1] = t /\ t \in Seq(Signs)
    BY <1>2, <1>5, <2>1
  <2>3. f[N] = t
    <3>1. CharOf(b, TRUE, N) = <<>>
      BY <2>1, CharIs
    <3>2. f[N] = t \o CharOf(b, TRUE, N)
      BY <1>2, <2>1
    <3> HIDE DEF t
    <3>3. t \o <<>> = t
      BY <2>2
    <3> QED
      BY <3>1, <3>2, <3>3
  <2>4. g[N] = t \o char
    <3>1. N \in 1 .. N + 1
      BY <1>1, <2>1
    <3>2. g[N] = g[N - 1] \o char
      BY <1>3, <3>1
    <3> QED
      BY <2>2, <3>2
  <2>5. char = IF x = "c" THEN <<"e">> ELSE <<"?">>
    <3>1. N \in 1 .. Len(bx) /\ bx[N] = "L" /\ N < Len(bx) /\ bx[N + 1] = x
      BY <1>1, <2>1
    <3> QED
      BY <1>1, <3>1, CharIs
  <2>6. last = IF x \in {"L", "c"} THEN <<>> ELSE <<x>>
    <3>1. CASE x = "L"
      BY <1>1, <1>7, <3>1, CharIs
    <3>2. CASE x = "c"
      <4>1. N + 1 > 1 /\ bx[(N + 1) - 1] = "L"
        BY <1>1, <1>7, <2>1
      <4>2. last = <<>>
        BY <1>1, <1>7, <3>2, <4>1, CharIs
      <4> QED
        BY <3>2, <4>2
    <3>3. CASE x \notin {"L", "c"}
      BY <1>1, <1>7, <3>3, CharIs
    <3> QED
      BY <3>1, <3>2, <3>3
  <2>7. char \o last = given
    <3>1. CASE x = "L"
      <4>1. char = <<"?">> /\ last = <<>>
        BY <2>5, <2>6, <3>1
      <4>2. given = <<"?">>
        BY <1>11, <3>1 DEF Given
      <4>3. <<"?">> \o <<>> = <<"?">>
        OBVIOUS
      <4> QED
        BY <4>1, <4>2, <4>3
    <3>2. CASE x = "c"
      <4>1. char = <<"e">> /\ last = <<>>
        BY <2>5, <2>6, <3>2
      <4>2. given = <<"e">>
        BY <1>11, <3>2 DEF Given
      <4>3. <<"e">> \o <<>> = <<"e">>
        OBVIOUS
      <4> QED
        BY <4>1, <4>2, <4>3
    <3>3. CASE x \notin {"L", "c"}
      <4>1. char = <<"?">> /\ last = <<x>>
        BY <2>5, <2>6, <3>3
      <4>2. given = <<"?", x>>
        BY <1>11, <3>3 DEF Given
      <4>3. <<"?">> \o <<x>> = <<"?", x>>
        <5> DEFINE q == "?"
        <5> HIDE DEF q
        <5> DEFINE S == {q, x}
        <5>1. q \in S /\ x \in S
          OBVIOUS
        <5> HIDE DEF S
        <5> DEFINE l == <<q>>
                   r == <<x>>
                   z == <<q, x>>
        <5>2. l \in Seq(S) /\ r \in Seq(S) /\ z \in Seq(S)
          BY <5>1
        <5>3. Len(l) = 1 /\ l[1] = q /\ Len(r) = 1 /\ r[1] = x /\ Len(z) = 2 /\ z[1] = q /\ z[2] = x
          OBVIOUS
        <5> HIDE DEF l, r, z
        <5>4. l \o r \in Seq(S) /\ Len(l \o r) = 2 /\ (l \o r)[1] = q /\ (l \o r)[2] = x
          <6>1. /\ l \o r \in Seq(S) /\ Len(l \o r) = Len(l) + Len(r)
                /\ \A i \in 1 .. Len(l) + Len(r) :
                     (l \o r)[i] = IF i <= Len(l) THEN l[i] ELSE r[i - Len(l)]
            BY <5>2, ConcatProperties
          <6>2. 1 \in 1 .. 1 + 1 /\ 2 \in 1 .. 1 + 1 /\ 1 + 1 = 2 /\ 2 - 1 = 1
            OBVIOUS
          <6> QED
            BY <5>3, <6>1, <6>2
        <5>5. \A i \in 1 .. 2 : (l \o r)[i] = z[i]
          <6> TAKE i \in 1 .. 2
          <6>1. i = 1 \/ i = 2
            OBVIOUS
          <6> QED
            BY <5>3, <5>4, <6>1
        <5>6. l \o r = z
          BY <5>2, <5>3, <5>4, <5>5
        <5> QED
          BY <5>6 DEF q, l, r, z
      <4> QED
        BY <4>1, <4>2, <4>3
    <3> QED
      BY <3>1, <3>2, <3>3
  <2>8. char \in Seq(Signs) /\ last \in Seq(Signs)
    <3>1. N \in 1 .. Len(bx)
      BY <1>1, <2>1
    <3> QED
      BY <1>1, <1>7, <3>1, CharIs
  <2> HIDE DEF t, char, last, given
  <2>9. (t \o char) \o last = t \o (char \o last)
    BY <2>2, <2>8, ConcatAssociative
  <2> QED
    BY <1>6, <2>3, <2>4, <2>7, <2>9
<1> QED
  BY <1>10, <1>11 DEF bx, f, g, half

\* When no more bytes follow, half a character is malformed.
LEMMA TextClosed ==
  ASSUME NEW b \in Seq(Alphabet)
  PROVE  TextTo(b, FALSE)[Len(b)]
           = TextTo(b, TRUE)[Len(b)] \o (IF Half(b) THEN <<"?">> ELSE <<>>)
<1> DEFINE N == Len(b)
           f == TextTo(b, TRUE)
           g == TextTo(b, FALSE)
           half == Half(b)
           M == IF half THEN N - 1 ELSE N
<1>1. N \in Nat /\ (half => N > 0 /\ b[N] = "L") /\ (~half /\ N > 0 => b[N] # "L")
  BY DEF Half
<1>2. /\ f \in [0 .. N -> Seq(Signs)] /\ f[0] = <<>>
      /\ \A n \in 1 .. N : f[n] = f[n - 1] \o CharOf(b, TRUE, n)
  BY TextRecur
<1>3. /\ g \in [0 .. N -> Seq(Signs)] /\ g[0] = <<>>
      /\ \A n \in 1 .. N : g[n] = g[n - 1] \o CharOf(b, FALSE, n)
  BY TextRecur
<1>4. M \in Nat /\ M <= N /\ (half => M = N - 1 /\ M + 1 = N) /\ (~half => M = N)
  BY <1>1
<1>5. ASSUME NEW n \in 1 .. M PROVE CharOf(b, FALSE, n) = CharOf(b, TRUE, n)
  <2>1. n \in 1 .. N /\ (n < N \/ b[n] # "L")
    BY <1>1, <1>4
  <2>2. CASE b[n] = "L"
    <3> DEFINE char == IF b[n + 1] = "c" THEN <<"e">> ELSE <<"?">>
    <3>1. n < N
      BY <2>1, <2>2
    <3>2. CharOf(b, FALSE, n) = char
      BY <2>1, <2>2, <3>1, CharIs
    <3>3. CharOf(b, TRUE, n) = char
      BY <2>1, <2>2, <3>1, CharIs
    <3> HIDE DEF char
    <3> QED
      BY <3>2, <3>3
  <2>3. CASE b[n] = "c" /\ n > 1 /\ b[n - 1] = "L"
    <3>1. CharOf(b, FALSE, n) = <<>>
      BY <2>1, <2>3, CharIs
    <3>2. CharOf(b, TRUE, n) = <<>>
      BY <2>1, <2>3, CharIs
    <3> QED
      BY <3>1, <3>2
  <2>4. CASE b[n] = "c" /\ ~(n > 1 /\ b[n - 1] = "L")
    <3>1. CharOf(b, FALSE, n) = <<"?">>
      BY <2>1, <2>4, CharIs
    <3>2. CharOf(b, TRUE, n) = <<"?">>
      BY <2>1, <2>4, CharIs
    <3> QED
      BY <3>1, <3>2
  <2>5. CASE b[n] \notin {"L", "c"}
    <3>1. CharOf(b, FALSE, n) = <<b[n]>>
      BY <2>1, <2>5, CharIs
    <3>2. CharOf(b, TRUE, n) = <<b[n]>>
      BY <2>1, <2>5, CharIs
    <3> QED
      BY <3>1, <3>2
  <2> QED
    BY <2>2, <2>3, <2>4, <2>5
<1> HIDE DEF M, half, f, g
<1>6. g[M] = f[M] /\ f[M] \in Seq(Signs)
  <2>1. \A n \in 1 .. M : n \in 1 .. N
    BY <1>4
  <2>2. Alike(g, f, M)
    BY <1>2, <1>3, <1>5, <2>1 DEF Alike
  <2>3. \A n \in 0 .. M : g[n] = f[n]
    BY <1>4, <2>2, SameValues
  <2>4. M \in 0 .. M /\ M \in 0 .. N
    BY <1>1, <1>4
  <2> QED
    BY <1>2, <2>3, <2>4
<1> DEFINE t == f[M]
<1> HIDE DEF t
<1>7. ASSUME ~half PROVE g[N] = f[N] \o <<>>
  <2>1. g[N] = t /\ f[N] = t
    BY <1>4, <1>6, <1>7 DEF t
  <2>2. t \o <<>> = t
    BY <1>6 DEF t
  <2> QED
    BY <2>1, <2>2
<1>8. ASSUME half PROVE g[N] = f[N] \o <<"?">>
  <2>1. N \in 1 .. N /\ N - 1 = M /\ N = Len(b) /\ b[N] = "L"
    BY <1>1, <1>4, <1>8
  <2>2. CharOf(b, TRUE, N) = <<>>
    BY <2>1, CharIs
  <2>3. CharOf(b, FALSE, N) = <<"?">>
    BY <2>1, CharIs
  <2>4. f[N] = t \o CharOf(b, TRUE, N) /\ g[N] = t \o CharOf(b, FALSE, N)
    BY <1>2, <1>3, <1>6, <2>1 DEF t
  <2>5. t \o <<>> = t
    BY <1>6 DEF t
  <2> QED
    BY <2>2, <2>3, <2>4, <2>5
<1> QED
  BY <1>7, <1>8 DEF half, f, g

\* The mark in front.
LEMMA CoreIs ==
  ASSUME NEW fed \in Seq(Alphabet)
  PROVE  Core(fed) \in Seq(Alphabet) /\ Half(Core(fed)) = Half(fed)
<1>1. CASE fed # <<>> /\ fed[1] = "B"
  <2> DEFINE t == Tail(fed)
  <2>1. Core(fed) = t
    BY <1>1 DEF Core
  <2>2. /\ t \in Seq(Alphabet) /\ Len(t) = Len(fed) - 1 /\ Len(fed) \in Nat /\ Len(fed) > 0
        /\ \A i \in 1 .. Len(t) : t[i] = fed[i + 1]
    BY <1>1
  <2> HIDE DEF t
  <2>3. CASE Len(fed) = 1
    <3>1. t = <<>>
      BY <2>2, <2>3
    <3>2. Half(t) = FALSE /\ Half(fed) = FALSE
      BY <1>1, <2>3, <3>1 DEF Half
    <3> QED
      BY <2>1, <2>2, <3>2
  <2>4. CASE Len(fed) # 1
    <3>1. t # <<>> /\ Len(t) \in 1 .. Len(t) /\ Len(t) + 1 = Len(fed)
      BY <2>2, <2>4
    <3>2. t[Len(t)] = fed[Len(fed)]
      BY <2>2, <3>1
    <3> QED
      BY <1>1, <2>1, <2>2, <3>1, <3>2 DEF Half
  <2> QED
    BY <2>3, <2>4
<1>2. CASE ~(fed # <<>> /\ fed[1] = "B")
  BY <1>2 DEF Core
<1> QED
  BY <1>1, <1>2

\* One more byte, of a stream without its mark.
LEMMA CoreAppend ==
  ASSUME NEW fed \in Seq(Alphabet), NEW x \in Alphabet
  PROVE  Core(Append(fed, x)) = IF fed = <<>> /\ x = "B" THEN <<>> ELSE Append(Core(fed), x)
<1> DEFINE l == Append(fed, x)
<1>1. l \in Seq(Alphabet) /\ l # <<>> /\ Len(l) = Len(fed) + 1
  <2>1. l \in Seq(Alphabet) /\ Len(l) = Len(fed) + 1 /\ Len(fed) \in Nat
    OBVIOUS
  <2> HIDE DEF l
  <2>2. Len(l) # 0
    BY <2>1
  <2>3. Len(<<>>) = 0
    OBVIOUS
  <2> QED
    BY <2>1, <2>2, <2>3
<1>2. CASE fed = <<>>
  <2>1. l = <<x>> /\ l[1] = x /\ Tail(l) = <<>> /\ Core(fed) = <<>>
    BY <1>2 DEF Core
  <2> HIDE DEF l
  <2>2. Core(l) = IF x = "B" THEN <<>> ELSE l
    BY <1>1, <2>1 DEF Core
  <2>3. Append(<<>>, x) = <<x>>
    OBVIOUS
  <2> QED
    BY <1>2, <2>1, <2>2, <2>3 DEF l
<1>3. CASE fed # <<>>
  <2>1. l[1] = fed[1] /\ Tail(l) = Append(Tail(fed), x)
    BY <1>3
  <2> HIDE DEF l
  <2>2. Core(l) = IF fed[1] = "B" THEN Append(Tail(fed), x) ELSE l
    BY <1>1, <2>1 DEF Core
  <2>3. Core(fed) = IF fed[1] = "B" THEN Tail(fed) ELSE fed
    BY <1>3 DEF Core
  <2> QED
    BY <1>3, <2>2, <2>3 DEF l
<1> QED
  BY <1>2, <1>3

\* What a byte adds to the text of a stream.
Delta(fed, x) == IF fed = <<>> /\ x = "B" THEN <<>> ELSE Given(Half(fed), x)

\* The text of a stream is made of characters; no bytes, no text.
LEMMA WholeSeq ==
  ASSUME NEW fed \in Seq(Alphabet), NEW open
  PROVE  Whole(fed, open) \in Seq(Signs) /\ Whole(<<>>, open) = <<>>
<1> DEFINE b == Core(fed)
<1>1. b \in Seq(Alphabet)
  BY CoreIs
<1> HIDE DEF b
<1>2. Len(b) \in 0 .. Len(b) /\ TextTo(b, open) \in [0 .. Len(b) -> Seq(Signs)]
  BY <1>1, TextRecur
<1>3. TextTo(b, open)[Len(b)] \in Seq(Signs)
  BY <1>2
<1>4. Core(<<>>) = <<>> /\ Len(<<>>) = 0 /\ <<>> \in Seq(Alphabet)
  BY DEF Core
<1>5. TextTo(<<>>, open)[0] = <<>>
  BY <1>4, TextRecur
<1> QED
  BY <1>3, <1>4, <1>5, WholeIs DEF b

\* One more byte adds to the text what it gives.
LEMMA WholeAppend ==
  ASSUME NEW fed \in Seq(Alphabet), NEW x \in Alphabet
  PROVE  Whole(Append(fed, x), TRUE) = Whole(fed, TRUE) \o Delta(fed, x)
<1> DEFINE b == Core(fed)
<1>1. b \in Seq(Alphabet) /\ Half(b) = Half(fed)
  BY CoreIs
<1>2. CASE fed = <<>> /\ x = "B"
  <2>1. Core(Append(fed, x)) = <<>> /\ Core(fed) = <<>>
    BY <1>2, CoreAppend DEF Core
  <2>2. Whole(Append(fed, x), TRUE) = Whole(fed, TRUE)
    BY <2>1, WholeIs
  <2>3. Whole(fed, TRUE) = <<>> /\ Delta(fed, x) = <<>>
    BY <1>2, WholeSeq DEF Delta
  <2>4. <<>> \o <<>> = <<>>
    OBVIOUS
  <2> QED
    BY <2>2, <2>3, <2>4
<1>3. CASE ~(fed = <<>> /\ x = "B")
  <2>1. Core(Append(fed, x)) = Append(b, x)
    BY <1>3, CoreAppend
  <2> HIDE DEF b
  <2>2. Len(Append(b, x)) = Len(b) + 1
    BY <1>1
  <2>3. TextTo(Append(b, x), TRUE)[Len(b) + 1] = TextTo(b, TRUE)[Len(b)] \o Given(Half(b), x)
    BY <1>1, TextStep
  <2>4. Delta(fed, x) = Given(Half(b), x)
    BY <1>1, <1>3 DEF Delta
  <2>5. Whole(Append(fed, x), TRUE) = TextTo(Append(b, x), TRUE)[Len(b) + 1]
    BY <2>1, <2>2, WholeIs
  <2>6. Whole(fed, TRUE) = TextTo(b, TRUE)[Len(b)]
    BY WholeIs DEF b
  <2> QED
    BY <2>3, <2>4, <2>5, <2>6
<1> QED
  BY <1>2, <1>3

\* The end adds a replacement for half a character.
LEMMA WholeClosed ==
  ASSUME NEW fed \in Seq(Alphabet)
  PROVE  Whole(fed, FALSE) = Whole(fed, TRUE) \o (IF Half(fed) THEN <<"?">> ELSE <<>>)
<1> DEFINE b == Core(fed)
<1>1. b \in Seq(Alphabet) /\ Half(b) = Half(fed)
  BY CoreIs
<1>2. \A open : Whole(fed, open) = TextTo(b, open)[Len(b)]
  BY WholeIs
<1> HIDE DEF b
<1> QED
  BY <1>1, <1>2, TextClosed

-----------------------------------------------------------------------------
(* The decoder, byte by byte.                                              *)

\* The decoder after the bytes of a stream, with what the last of them gave.
At(fed, out) == [pending |-> Half(fed), start |-> fed = <<>>, out |-> out]

\* What a byte gives is text.
LEMMA DeltaIs ==
  ASSUME NEW fed, NEW x \in Alphabet
  PROVE  Delta(fed, x) \in Seq(Signs)
<1>1. Half(fed) \in BOOLEAN
  BY DEF Half
<1>2. Given(Half(fed), x) \in Seq(Signs)
  BY <1>1, GivenIs
<1> QED
  BY <1>2, SignsAre DEF Delta

\* A step of the decoder of encoding_rs is one more byte of the stream.
LEMMA StepAt ==
  ASSUME NEW fed \in Seq(Alphabet), NEW out \in Seq(Signs), NEW x \in Alphabet
  PROVE  Step(At(fed, out), x) = At(Append(fed, x), out \o Delta(fed, x))
<1> DEFINE d == At(fed, out)
           half == Half(fed)
           more == Append(fed, x)
           s == Step(d, x)
           Is(p, o) == [pending |-> p, start |-> FALSE, out |-> o]
<1>1. d.pending = half /\ d.start = (fed = <<>>) /\ d.out = out /\ half \in BOOLEAN
      /\ (half => fed # <<>>)
  BY DEF At, Half
<1>2. At(more, out \o Delta(fed, x)) = Is(x = "L", out \o Delta(fed, x))
  <2>1. /\ Len(more) = Len(fed) + 1 /\ Len(fed) \in Nat /\ more[Len(fed) + 1] = x
    OBVIOUS
  <2> HIDE DEF more
  <2>2. more # <<>> /\ more[Len(more)] = x
    <3>1. Len(more) # 0 /\ Len(<<>>) = 0
      BY <2>1
    <3> QED
      BY <2>1, <3>1
  <2>3. Half(more) = (x = "L") /\ (more = <<>>) = FALSE
    BY <2>2 DEF Half
  <2> QED
    BY <2>3 DEF At
<1>3. \A z : Append(out, z) = out \o <<z>>
  <2>1. IsSeq(out)
    BY SeqIs
  <2> QED
    BY <2>1, AppendConcat
<1>4. out \o <<>> = out
  OBVIOUS
<1>5. /\ \A p, o : half => [d EXCEPT !.pending = p, !.out = o] = Is(p, o)
      /\ \A o : half => [d EXCEPT !.out = o] = Is(TRUE, o)
      /\ \A o : ~half => [d EXCEPT !.start = FALSE, !.out = o] = Is(FALSE, o)
      /\ ~half => [d EXCEPT !.pending = TRUE, !.start = FALSE] = Is(TRUE, out)
      /\ ~half => [d EXCEPT !.start = FALSE] = Is(FALSE, out)
  <2> DEFINE none == fed = <<>>
  <2>1. d = [pending |-> half, start |-> none, out |-> out]
    BY DEF At
  <2> DEFINE yes == TRUE
             no == FALSE
  <2>2. (half => half = yes /\ none = no) /\ (~half => half = no)
    BY <1>1 DEF Half
  <2> HIDE DEF d, half, none, yes, no
  <2>3. ASSUME NEW p, NEW o
        PROVE  /\ [d EXCEPT !.pending = p, !.out = o] = [pending |-> p, start |-> none, out |-> o]
               /\ [d EXCEPT !.out = o] = [pending |-> half, start |-> none, out |-> o]
               /\ [d EXCEPT !.start = no, !.out = o] = [pending |-> half, start |-> no, out |-> o]
               /\ [d EXCEPT !.pending = yes, !.start = no] = [pending |-> yes, start |-> no, out |-> out]
               /\ [d EXCEPT !.start = no] = [pending |-> half, start |-> no, out |-> out]
    <3>1. [d EXCEPT !.start = no] = [pending |-> half, start |-> no, out |-> out]
      BY <2>1
    <3>2. [d EXCEPT !.out = o] = [pending |-> half, start |-> none, out |-> o]
      BY <2>1
    <3>3. /\ [d EXCEPT !.pending = p] = [pending |-> p, start |-> none, out |-> out]
          /\ [d EXCEPT !.pending = yes] = [pending |-> yes, start |-> none, out |-> out]
      BY <2>1
    <3>4. [d EXCEPT !.pending = p, !.out = o] = [[d EXCEPT !.pending = p] EXCEPT !.out = o]
      BY <2>1
    <3>5. [d EXCEPT !.start = no, !.out = o] = [[d EXCEPT !.start = no] EXCEPT !.out = o]
      BY <2>1
    <3>6. [d EXCEPT !.pending = yes, !.start = no] = [[d EXCEPT !.pending = yes] EXCEPT !.start = no]
      BY <2>1
    <3>7. [[pending |-> p, start |-> none, out |-> out] EXCEPT !.out = o]
            = [pending |-> p, start |-> none, out |-> o]
      OBVIOUS
    <3>8. [[pending |-> half, start |-> no, out |-> out] EXCEPT !.out = o]
            = [pending |-> half, start |-> no, out |-> o]
      OBVIOUS
    <3>9. [[pending |-> yes, start |-> none, out |-> out] EXCEPT !.start = no]
            = [pending |-> yes, start |-> no, out |-> out]
      OBVIOUS
    <3> QED
      BY <3>1, <3>2, <3>3, <3>4, <3>5, <3>6, <3>7, <3>8, <3>9
  <2> DEFINE Made(p, o) == [pending |-> p, start |-> no, out |-> o]
  <2>4. half => \A p, o : [d EXCEPT !.pending = p, !.out = o] = Made(p, o)
    <3> SUFFICES ASSUME half, NEW p, NEW o PROVE [d EXCEPT !.pending = p, !.out = o] = Made(p, o)
      OBVIOUS
    <3>1. none = no
      BY <2>2
    <3>2. [d EXCEPT !.pending = p, !.out = o] = [pending |-> p, start |-> none, out |-> o]
      BY <2>3
    <3> HIDE DEF Made
    <3>3. Made(p, o) = [pending |-> p, start |-> none, out |-> o]
      BY <3>1 DEF Made
    <3> QED
      BY <3>2, <3>3
  <2>5. half => \A o : [d EXCEPT !.out = o] = Made(yes, o)
    BY <2>2, <2>3
  <2>6. ~half => \A o : [d EXCEPT !.start = no, !.out = o] = Made(no, o)
    BY <2>2, <2>3
  <2>7. [d EXCEPT !.pending = yes, !.start = no] = Made(yes, out)
    BY <2>3
  <2>8. ~half => [d EXCEPT !.start = no] = Made(no, out)
    BY <2>2, <2>3
  <2>9. \A p, o : Made(p, o) = Is(p, o)
    BY DEF no
  <2> HIDE DEF Is, Made
  <2> QED
    BY <2>4, <2>5, <2>6, <2>7, <2>8, <2>9, Zenon DEF yes, no
<1> HIDE DEF d, half, more, Is
<1>6. CASE half /\ x = "c"
  <2>1. s = Is(FALSE, Append(out, "e"))
    <3>1. s = [d EXCEPT !.pending = FALSE, !.out = Append(d.out, "e")]
      BY <1>1, <1>6 DEF Step
    <3> DEFINE o == Append(out, "e")
    <3>2. s = [d EXCEPT !.pending = FALSE, !.out = o]
      BY <1>1, <3>1
    <3> HIDE DEF o, s
    <3>3. s = Is(FALSE, o)
      BY <1>5, <1>6, <3>2
    <3> QED
      BY <3>3 DEF o, s
  <2>2. Delta(fed, x) = <<"e">>
    BY <1>1, <1>6 DEF Delta, Given, half
  <2> QED
    BY <1>2, <1>3, <1>6, <2>1, <2>2 DEF d, more
<1>7. CASE half /\ x = "L"
  <2>1. s = Is(TRUE, Append(out, "?"))
    <3>1. s = [d EXCEPT !.out = Append(d.out, "?")]
      BY <1>1, <1>7 DEF Step
    <3> QED
      BY <1>1, <1>5, <1>7, <3>1
  <2>2. Delta(fed, x) = <<"?">>
    BY <1>1, <1>7 DEF Delta, Given, half
  <2>3. (x = "L") = TRUE
    BY <1>7
  <2>4. At(more, out \o Delta(fed, x)) = Is(TRUE, out \o <<"?">>)
    BY <1>2, <2>2, <2>3
  <2>5. s = Is(TRUE, out \o <<"?">>)
    BY <1>3, <2>1
  <2> QED
    BY <2>4, <2>5 DEF d, more
<1>8. CASE half /\ x \notin {"L", "c"}
  <2>1. s = Is(FALSE, out \o <<"?", x>>)
    <3>1. s = [d EXCEPT !.pending = FALSE, !.out = d.out \o <<"?", x>>]
      BY <1>1, <1>8 DEF Step
    <3> DEFINE o == out \o <<"?", x>>
    <3>2. s = [d EXCEPT !.pending = FALSE, !.out = o]
      BY <1>1, <3>1
    <3> HIDE DEF o, s
    <3>3. s = Is(FALSE, o)
      BY <1>5, <1>8, <3>2
    <3> QED
      BY <3>3 DEF o, s
  <2>2. Delta(fed, x) = <<"?", x>>
    BY <1>1, <1>8 DEF Delta, Given, half
  <2> QED
    BY <1>2, <1>8, <2>1, <2>2 DEF d, more
<1>9. CASE ~half /\ x = "L"
  <2>1. s = Is(TRUE, out)
    <3>1. s = [d EXCEPT !.pending = TRUE, !.start = FALSE]
      BY <1>1, <1>9 DEF Step
    <3> QED
      BY <1>5, <1>9, <3>1
  <2>2. Delta(fed, x) = <<>>
    BY <1>1, <1>9 DEF Delta, Given, half
  <2> QED
    BY <1>2, <1>4, <1>9, <2>1, <2>2 DEF d, more
<1>10. CASE ~half /\ x = "c"
  <2>1. s = Is(FALSE, Append(out, "?"))
    <3>1. s = [d EXCEPT !.start = FALSE, !.out = Append(d.out, "?")]
      BY <1>1, <1>10 DEF Step
    <3> QED
      BY <1>1, <1>5, <1>10, <3>1
  <2>2. Delta(fed, x) = <<"?">>
    BY <1>1, <1>10 DEF Delta, Given, half
  <2> QED
    BY <1>2, <1>3, <1>10, <2>1, <2>2 DEF d, more
<1>11. CASE ~half /\ x = "B" /\ fed = <<>>
  <2>1. s = Is(FALSE, out)
    <3>1. s = [d EXCEPT !.start = FALSE]
      BY <1>1, <1>11 DEF Step
    <3> QED
      BY <1>5, <1>11, <3>1
  <2>2. Delta(fed, x) = <<>>
    BY <1>11 DEF Delta
  <2> QED
    BY <1>2, <1>4, <1>11, <2>1, <2>2 DEF d, more
<1>12. CASE ~half /\ x \notin {"L", "c"} /\ ~(x = "B" /\ fed = <<>>)
  <2>1. s = Is(FALSE, Append(out, x))
    <3>1. s = [d EXCEPT !.start = FALSE, !.out = Append(d.out, x)]
      BY <1>1, <1>12 DEF Step
    <3> QED
      BY <1>1, <1>5, <1>12, <3>1
  <2>2. Delta(fed, x) = <<x>>
    BY <1>1, <1>12 DEF Delta, Given, half
  <2> QED
    BY <1>2, <1>3, <1>12, <2>1, <2>2 DEF d, more
<1> QED
  BY <1>6, <1>7, <1>8, <1>9, <1>10, <1>11, <1>12

RunTo(d, bytes) ==
  CHOOSE f : f = [n \in 0 .. Len(bytes) |-> IF n = 0 THEN d ELSE Step(f[n - 1], bytes[n])]

\* The decoder, byte by byte, is what the recursion of Run computes.
LEMMA RunRecur ==
  ASSUME NEW fed \in Seq(Alphabet), NEW bytes \in Seq(Alphabet)
  PROVE  LET d == At(fed, <<>>)
             f == RunTo(d, bytes)
         IN  /\ f[0] = d
             /\ \A n \in 1 .. Len(bytes) : f[n] = Step(f[n - 1], bytes[n])
<1> DEFINE N == Len(bytes)
           d == At(fed, <<>>)
           W == {At(v[1], v[2]) : v \in Seq(Alphabet) \X Seq(Signs)}
           step(n, x) == Step(x, bytes[n])
           G == [n \in 1 .. N |-> [x \in W |-> step(n, x)]]
           Of(f) == f = [n \in 0 .. N |-> IF n = 0 THEN d ELSE step(n, f[n - 1])]
           c == RunTo(d, bytes)
<1>1. N \in Nat /\ d \in W
  <2>1. <<fed, <<>>>> \in Seq(Alphabet) \X Seq(Signs)
    BY SignsAre
  <2>2. d = At(<<fed, <<>>>>[1], <<fed, <<>>>>[2])
    OBVIOUS
  <2> HIDE DEF d
  <2> QED
    BY <2>1, <2>2
<1>2. ASSUME NEW n \in 1 .. N, NEW x \in W PROVE step(n, x) \in W
  <2>1. PICK v \in Seq(Alphabet) \X Seq(Signs) : x = At(v[1], v[2])
    OBVIOUS
  <2> DEFINE e == bytes[n]
             w == <<Append(v[1], e), v[2] \o Delta(v[1], e)>>
  <2>2. e \in Alphabet /\ v[1] \in Seq(Alphabet) /\ v[2] \in Seq(Signs)
    OBVIOUS
  <2> HIDE DEF e
  <2> DEFINE t == Delta(v[1], e)
  <2>3. t \in Seq(Signs)
    BY <2>2, DeltaIs
  <2>4. Step(x, e) = At(Append(v[1], e), v[2] \o Delta(v[1], e))
    BY <2>1, <2>2, StepAt
  <2> HIDE DEF t
  <2>5. Append(v[1], e) \in Seq(Alphabet) /\ v[2] \o t \in Seq(Signs)
    BY <2>2, <2>3
  <2>6. w \in Seq(Alphabet) \X Seq(Signs) /\ w[1] = Append(v[1], e) /\ w[2] = v[2] \o Delta(v[1], e)
    BY <2>5 DEF t
  <2> HIDE DEF w
  <2> QED
    BY <2>4, <2>6 DEF e
<1>3. c = CHOOSE f : Of(f)
  BY DEF RunTo
<1> HIDE DEF W, N, step, c, d
<1>4. PICK f \in [0 .. N -> W] : f[0] = d /\ \A n \in 1 .. N : f[n] = G[n][f[n - 1]]
  <2>1. G \in Steps(N, W)
    BY <1>2 DEF Steps
  <2> HIDE DEF G
  <2>2. N \in Nat /\ d \in W
    BY <1>1
  <2> QED
    BY <2>1, <2>2, Recursion, SMTT(60)
<1>5. \A n \in 1 .. N : f[n] = step(n, f[n - 1])
  <2> TAKE n \in 1 .. N
  <2>1. n - 1 \in 0 .. N
    BY <1>1
  <2>2. f[n - 1] \in W
    BY <2>1
  <2> QED
    BY <1>4, <2>2
<1>6. Of(f)
  <2>1. \A n \in 0 .. N : n = 0 \/ n \in 1 .. N
    BY <1>1
  <2> QED
    BY <1>4, <1>5, <2>1
<1> HIDE DEF G
<1>7. Of(c)
  <2> HIDE DEF Of
  <2> QED
    BY <1>3, <1>6, Zenon
<1>8. c[0] = d /\ \A n \in 1 .. N : c[n] = step(n, c[n - 1])
  <2>1. \A n \in 0 .. N : c[n] = IF n = 0 THEN d ELSE step(n, c[n - 1])
    BY <1>7
  <2>2. 0 \in 0 .. N /\ \A n \in 1 .. N : n \in 0 .. N /\ n # 0
    BY <1>1
  <2> QED
    BY <2>1, <2>2
<1> QED
  BY <1>8 DEF N, c, step, d

\* The first bytes of a sequence, one more at a time.
LEMMA PrefixIs ==
  ASSUME NEW V, NEW s \in Seq(V), NEW k \in 1 .. Len(s)
  PROVE  /\ SubSeq(s, 1, k) = Append(SubSeq(s, 1, k - 1), s[k])
         /\ SubSeq(s, 1, k - 1) \in Seq(V) /\ s[k] \in V
<1> DEFINE m == k - 1
           p == SubSeq(s, 1, m)
           q == SubSeq(s, 1, k)
<1>1. k \in Int /\ m \in Nat /\ m + 1 = k /\ m - 1 + 1 = m /\ k - 1 + 1 = k /\ s[k] \in V
      /\ \A i \in 1 .. k : s[i] \in V
  OBVIOUS
<1> HIDE DEF m
<1>2. /\ p \in Seq(V) /\ Len(p) = IF 1 <= m THEN m - 1 + 1 ELSE 0
      /\ \A i \in 1 .. m - 1 + 1 : p[i] = s[1 + i - 1]
  <2>1. \A i \in 1 .. m : s[i] \in V
    BY <1>1
  <2> QED
    BY <1>1, <2>1, SubSeqProperties
<1>3. /\ q \in Seq(V) /\ Len(q) = IF 1 <= k THEN k - 1 + 1 ELSE 0
      /\ \A i \in 1 .. k - 1 + 1 : q[i] = s[1 + i - 1]
  BY <1>1, SubSeqProperties
<1> HIDE DEF p, q
<1>4. \A i \in Int : 1 + i - 1 = i
  OBVIOUS
<1>5. Len(p) = m /\ \A i \in 1 .. m : p[i] = s[i]
  <2>1. Len(p) = m
    BY <1>1, <1>2
  <2>2. \A i \in 1 .. m : p[i] = s[i]
    BY <1>1, <1>2, <1>4
  <2> QED
    BY <2>1, <2>2
<1>6. Len(q) = k /\ \A i \in 1 .. k : q[i] = s[i]
  <2>1. Len(q) = k
    BY <1>1, <1>3
  <2>2. \A i \in 1 .. k : q[i] = s[i]
    BY <1>1, <1>3, <1>4
  <2> QED
    BY <2>1, <2>2
<1> DEFINE x == s[k]
           r == Append(p, x)
<1>7. /\ r \in Seq(V) /\ Len(r) = k /\ r[k] = x /\ \A i \in 1 .. m : r[i] = p[i]
  <2>1. x \in V
    BY <1>1
  <2> HIDE DEF x
  <2> QED
    BY <1>1, <1>2, <1>5, <2>1
<1> HIDE DEF r
<1>8. \A i \in 1 .. k : q[i] = r[i]
  <2> TAKE i \in 1 .. k
  <2>1. i = k \/ i \in 1 .. m
    BY <1>1
  <2> QED
    BY <1>5, <1>6, <1>7, <2>1
<1>9. q = r
  BY <1>3, <1>6, <1>7, <1>8
<1> QED
  BY <1>1, <1>2, <1>9 DEF m, p, q, r, x

\* The parts of two sequences in a row.
LEMMA PrefixEnds ==
  ASSUME NEW V, NEW s \in Seq(V), NEW t \in Seq(V)
  PROVE  /\ SubSeq(s \o t, 1, Len(s)) = s
         /\ SubSeq(s \o t, 1, Len(s) + Len(t)) = s \o t
         /\ \A n \in 1 .. Len(t) : (s \o t)[Len(s) + n] = t[n]
<1> DEFINE z == s \o t
<1>1. /\ z \in Seq(V) /\ Len(z) = Len(s) + Len(t)
      /\ \A i \in 1 .. Len(s) + Len(t) : z[i] = IF i <= Len(s) THEN s[i] ELSE t[i - Len(s)]
  BY ConcatProperties
<1>2. Len(s) \in Nat /\ Len(t) \in Nat
  OBVIOUS
<1> HIDE DEF z
<1>3. \A n \in 1 .. Len(t) : z[Len(s) + n] = t[n]
  <2> TAKE n \in 1 .. Len(t)
  <2>1. Len(s) + n \in 1 .. Len(s) + Len(t) /\ ~(Len(s) + n <= Len(s)) /\ Len(s) + n - Len(s) = n
    BY <1>2
  <2> QED
    BY <1>1, <2>1
<1>4. ASSUME NEW k \in 0 .. Len(z)
      PROVE  /\ SubSeq(z, 1, k) \in Seq(V) /\ Len(SubSeq(z, 1, k)) = k
             /\ \A i \in 1 .. k : SubSeq(z, 1, k)[i] = z[i]
  <2>1. k \in Int /\ k - 1 + 1 = k /\ \A i \in 1 .. k : z[i] \in V
    BY <1>1, <1>2
  <2>2. /\ SubSeq(z, 1, k) \in Seq(V)
        /\ Len(SubSeq(z, 1, k)) = IF 1 <= k THEN k - 1 + 1 ELSE 0
        /\ \A i \in 1 .. k - 1 + 1 : SubSeq(z, 1, k)[i] = z[1 + i - 1]
    BY <2>1, SubSeqProperties
  <2>3. \A i \in 1 .. k : 1 + i - 1 = i
    OBVIOUS
  <2>4. \A i \in 1 .. k : SubSeq(z, 1, k)[i] = z[i]
    BY <2>1, <2>2, <2>3
  <2>5. Len(SubSeq(z, 1, k)) = k
    BY <2>1, <2>2
  <2> QED
    BY <2>2, <2>4, <2>5
<1>5. SubSeq(z, 1, Len(s)) = s
  <2> DEFINE p == SubSeq(z, 1, Len(s))
  <2>1. Len(s) \in 0 .. Len(z)
    BY <1>1, <1>2
  <2>2. p \in Seq(V) /\ Len(p) = Len(s) /\ \A i \in 1 .. Len(s) : p[i] = z[i]
    BY <1>4, <2>1
  <2>3. \A i \in 1 .. Len(s) : z[i] = s[i]
    BY <1>1, <1>2
  <2> HIDE DEF p
  <2>4. p = s
    BY <2>2, <2>3
  <2> QED
    BY <2>4 DEF p
<1>6. SubSeq(z, 1, Len(s) + Len(t)) = z
  <2> DEFINE n == Len(s) + Len(t)
             p == SubSeq(z, 1, n)
  <2>1. n \in 0 .. Len(z) /\ n = Len(z)
    BY <1>1, <1>2
  <2> HIDE DEF n
  <2>2. p \in Seq(V) /\ Len(p) = n /\ \A i \in 1 .. n : p[i] = z[i]
    BY <1>4, <2>1
  <2> HIDE DEF p
  <2>3. p = z
    BY <1>1, <2>1, <2>2
  <2> QED
    BY <2>3 DEF p, n
<1> QED
  BY <1>3, <1>5, <1>6 DEF z

\* What is pending counts as a character.
Pending(b) == IF Half(b) THEN 1 ELSE 0

\* A byte gives a character, or two if one was pending.
LEMMA PendingIs ==
  ASSUME NEW b \in Seq(Alphabet), NEW x \in Alphabet
  PROVE  /\ Pending(b) \in 0 .. 1 /\ Len(Delta(b, x)) \in Nat
         /\ Len(Delta(b, x)) + Pending(Append(b, x)) <= 1 + Pending(b)
<1> DEFINE more == Append(b, x)
           delta == Delta(b, x)
<1>1. Pending(b) \in 0 .. 1
  BY DEF Pending
<1>2. Half(more) = (x = "L")
  <2>1. Len(more) = Len(b) + 1 /\ Len(b) \in Nat /\ more[Len(b) + 1] = x
    OBVIOUS
  <2> HIDE DEF more
  <2>2. more # <<>> /\ more[Len(more)] = x
    <3>1. Len(more) # 0 /\ Len(<<>>) = 0
      BY <2>1
    <3> QED
      BY <2>1, <3>1
  <2> QED
    BY <2>2 DEF Half
<1>3. Pending(more) = IF x = "L" THEN 1 ELSE 0
  BY <1>2 DEF Pending
<1>4. Len(<<>>) = 0 /\ \A z : Len(<<z>>) = 1 /\ \A y : Len(<<y, z>>) = 2
  OBVIOUS
<1>5. delta \in Seq(Signs)
  BY DeltaIs
<1>6. Len(delta) \in Nat
  BY <1>5
<1>7. CASE Half(b)
  <2>1. b # <<>> /\ Pending(b) = 1
    BY <1>7 DEF Half, Pending
  <2>2. delta = Given(TRUE, x)
    <3>1. Half(b) = TRUE
      BY <1>7
    <3> QED
      BY <2>1, <3>1 DEF Delta
  <2>3. CASE x = "c"
    <3>1. delta = <<"e">>
      BY <2>2, <2>3 DEF Given
    <3>2. Pending(more) = 0 /\ Len(delta) = 1
      BY <1>3, <1>4, <2>3, <3>1
    <3> QED
      BY <1>1, <2>1, <3>2
  <2>4. CASE x = "L"
    <3>1. delta = <<"?">>
      BY <2>2, <2>4 DEF Given
    <3>2. Pending(more) = 1 /\ Len(delta) = 1
      BY <1>3, <1>4, <2>4, <3>1
    <3> QED
      BY <1>1, <2>1, <3>2
  <2>5. CASE x \notin {"c", "L"}
    <3>1. delta = <<"?", x>>
      BY <2>2, <2>5 DEF Given
    <3>2. Pending(more) = 0 /\ Len(delta) = 2
      BY <1>3, <1>4, <2>5, <3>1
    <3> QED
      BY <1>1, <2>1, <3>2
  <2> QED
    BY <2>3, <2>4, <2>5
<1>8. CASE ~Half(b)
  <2>1. Pending(b) = 0
    BY <1>8 DEF Pending
  <2>2. delta = <<>> \/ delta = Given(FALSE, x)
    <3>1. Half(b) = FALSE
      BY <1>8
    <3> QED
      BY <3>1 DEF Delta
  <2>3. CASE x = "L"
    <3>1. delta = <<>>
      BY <2>2, <2>3 DEF Given
    <3>2. Pending(more) = 1 /\ Len(delta) = 0
      BY <1>3, <1>4, <2>3, <3>1
    <3> QED
      BY <1>1, <2>1, <3>2
  <2>4. CASE x # "L"
    <3>1. delta \in {<<>>, <<"?">>, <<x>>}
      BY <2>2, <2>4 DEF Given
    <3>a. Len(delta) = 0 \/ Len(delta) = 1
      BY <1>4, <3>1
    <3>2. Pending(more) = 0
      BY <1>3, <2>4
    <3> HIDE DEF delta, more
    <3>3. Len(delta) + Pending(more) <= 1 + Pending(b)
      <4> DEFINE l == Len(delta)
                 p == Pending(more)
                 q == Pending(b)
      <4>1. (l = 0 \/ l = 1) /\ p = 0 /\ q = 0
        BY <2>1, <3>a, <3>2
      <4> HIDE DEF l, p, q
      <4>2. l + p <= 1 + q
        BY <4>1
      <4> QED
        BY <4>2 DEF l, p, q
    <3> QED
      BY <1>1, <1>6, <3>3 DEF delta, more
  <2> QED
    BY <2>3, <2>4
<1> QED
  BY <1>7, <1>8

\* The decoder after a piece: its output is the text of all the bytes but that of the earlier.
LEMMA RunAt ==
  ASSUME NEW fed \in Seq(Alphabet), NEW bytes \in Seq(Alphabet)
  PROVE  \E out \in Seq(Signs) :
           /\ RunTo(At(fed, <<>>), bytes)[Len(bytes)] = At(fed \o bytes, out)
           /\ Whole(fed \o bytes, TRUE) = Whole(fed, TRUE) \o out
           /\ Len(out) + Pending(fed \o bytes) <= Len(bytes) + 1
<1> DEFINE N == Len(bytes)
           m == Len(fed)
           all == fed \o bytes
           f == RunTo(At(fed, <<>>), bytes)
           text == Whole(fed, TRUE)
           Reached(n, out) == /\ f[n] = At(SubSeq(all, 1, m + n), out)
                              /\ Whole(SubSeq(all, 1, m + n), TRUE) = text \o out
                              /\ Len(out) + Pending(SubSeq(all, 1, m + n)) <= n + 1
           S == {n \in 0 .. N : \E out \in Seq(Signs) : Reached(n, out)}
<1>1. /\ N \in Nat /\ m \in Nat /\ all \in Seq(Alphabet) /\ Len(all) = m + N
      /\ text \in Seq(Signs)
  <2>1. text \in Seq(Signs)
    BY WholeSeq
  <2>2. N \in Nat /\ m \in Nat /\ all \in Seq(Alphabet) /\ Len(all) = m + N
    OBVIOUS
  <2> QED
    BY <2>1, <2>2
<1>2. /\ SubSeq(all, 1, m) = fed /\ SubSeq(all, 1, m + N) = all
      /\ \A n \in 1 .. N : all[m + n] = bytes[n]
  BY PrefixEnds
<1>3. f[0] = At(fed, <<>>) /\ \A n \in 1 .. N : f[n] = Step(f[n - 1], bytes[n])
  BY RunRecur
<1> HIDE DEF N, m, all, f, text
<1>4. Reached(0, <<>>)
  <2>1. m + 0 = m
    BY <1>1
  <2>2. text \o <<>> = text
    BY <1>1
  <2>3. Len(<<>>) = 0 /\ Pending(fed) \in 0 .. 1
    BY DEF Pending
  <2>4. Len(<<>>) + Pending(fed) <= 0 + 1
    BY <2>3
  <2> QED
    BY <1>2, <1>3, <2>1, <2>2, <2>4 DEF text
<1>5. ASSUME NEW n \in 1 .. N, n - 1 \in S PROVE n \in S
  <2>1. PICK out \in Seq(Signs) : Reached(n - 1, out)
    BY <1>5
  <2> DEFINE x == bytes[n]
             k == m + n
             p == SubSeq(all, 1, m + (n - 1))
             delta == Delta(p, x)
  <2>2. k \in 1 .. Len(all) /\ k - 1 = m + (n - 1) /\ all[k] = x
    BY <1>1, <1>2
  <2>3. SubSeq(all, 1, k) = Append(p, x) /\ p \in Seq(Alphabet) /\ x \in Alphabet
    <3>1. /\ SubSeq(all, 1, k) = Append(SubSeq(all, 1, k - 1), all[k])
          /\ SubSeq(all, 1, k - 1) \in Seq(Alphabet) /\ all[k] \in Alphabet
      BY <1>1, <2>2, PrefixIs
    <3> QED
      BY <2>2, <3>1
  <2>4. f[n] = Step(f[n - 1], x)
    BY <1>3
  <2> HIDE DEF x, k, p
  <2>5. f[n - 1] = At(p, out) /\ Whole(p, TRUE) = text \o out /\ Len(out) + Pending(p) <= (n - 1) + 1
    BY <2>1 DEF p
  <2>6. f[n] = At(Append(p, x), out \o delta)
    BY <2>3, <2>4, <2>5, StepAt
  <2>7. Whole(Append(p, x), TRUE) = (text \o out) \o delta
    BY <2>3, <2>5, WholeAppend
  <2>8. delta \in Seq(Signs)
    BY <2>3, DeltaIs
  <2>9. /\ Pending(p) \in 0 .. 1 /\ Len(delta) \in Nat
        /\ Len(delta) + Pending(Append(p, x)) <= 1 + Pending(p)
    BY <2>3, PendingIs
  <2> HIDE DEF delta
  <2>10. (text \o out) \o delta = text \o (out \o delta)
    BY <1>1, <2>8, ConcatAssociative
  <2>11. out \o delta \in Seq(Signs) /\ Len(out \o delta) = Len(out) + Len(delta) /\ Len(out) \in Nat
    BY <2>8
  <2> DEFINE more == Append(p, x)
             o == out \o delta
  <2>12. Pending(more) \in 0 .. 1
    BY DEF Pending
  <2> HIDE DEF more, o
  <2>13. Len(o) + Pending(more) <= n + 1
    BY <2>5, <2>9, <2>11, <2>12 DEF o, more
  <2>14. Reached(n, o)
    BY <2>3, <2>6, <2>7, <2>10, <2>13 DEF k, more, o
  <2>15. o \in Seq(Signs) /\ n \in 0 .. N
    BY <1>1, <2>11 DEF o
  <2> HIDE DEF Reached
  <2> QED
    BY <2>14, <2>15
<1>6. N \in S
  <2>1. 0 \in S
    <3> HIDE DEF Reached
    <3>1. <<>> \in Seq(Signs) /\ 0 \in 0 .. N
      BY <1>1, SignsAre
    <3> QED
      BY <1>4, <3>1
  <2> HIDE DEF S
  <2>2. \A n \in 0 .. N : n \in S
    BY <1>1, <1>5, <2>1, IntervalInduction
  <2> QED
    BY <1>1, <2>2
<1>7. PICK out \in Seq(Signs) : Reached(N, out)
  BY <1>6
<1> QED
  BY <1>2, <1>7 DEF N, all, f, text

\* A text that starts with a mark has one more in front of it.
LEMMA FrontMark ==
  ASSUME NEW b \in Seq(Alphabet), Whole(b, TRUE) # <<>>, Whole(b, TRUE)[1] = "B"
  PROVE  Doubled(b)
<1> DEFINE k == Core(b)
           N == Len(k)
           f == TextTo(k, TRUE)
           first == CharOf(k, TRUE, 1)
           S == {n \in 0 .. N : n > 0 => Len(f[n]) > 0 /\ f[n][1] = first[1]}
<1>1. k \in Seq(Alphabet)
  BY CoreIs
<1>2. k = IF b # <<>> /\ b[1] = "B" THEN Tail(b) ELSE b
  BY DEF Core
<1> HIDE DEF k
<1>3. /\ f \in [0 .. N -> Seq(Signs)] /\ f[0] = <<>>
      /\ \A n \in 1 .. N : f[n] = f[n - 1] \o CharOf(k, TRUE, n)
  BY <1>1, TextRecur
<1>4. f[N] # <<>> /\ f[N][1] = "B" /\ N \in Nat
  <2>1. N \in Nat
    BY <1>1
  <2>2. Whole(b, TRUE) = f[N]
    BY WholeIs DEF k
  <2> HIDE DEF f, N
  <2> QED
    BY <2>1, <2>2
<1> HIDE DEF f
<1>5. N >= 1 /\ 1 \in 1 .. N
  BY <1>3, <1>4
<1> HIDE DEF N
<1>6. f[1] = first /\ first \in Seq(Signs)
  <2>1. first \in Seq(Signs)
    BY <1>1, <1>5, CharIs DEF N
  <2>2. f[1] = f[0] \o first
    <3>1. 1 - 1 = 0
      OBVIOUS
    <3> QED
      BY <1>3, <1>5, <3>1
  <2> HIDE DEF first
  <2>3. <<>> \o first = first
    BY <2>1
  <2> QED
    BY <1>3, <2>1, <2>2, <2>3
<1>7. /\ Len(first) > 0
      /\ first \in {<<"e">>, <<"?">>} \/ (k[1] \notin {"L", "c"} /\ first = <<k[1]>>)
  <2>1. \A z : Len(<<z>>) > 0
    OBVIOUS
  <2>2. CASE k[1] = "L" /\ N = 1
    <3>1. first = <<>>
      BY <1>1, <1>5, <2>2, CharIs DEF N
    <3> QED
      BY <1>4, <1>6, <2>2, <3>1
  <2>3. CASE k[1] = "L" /\ N # 1
    <3>1. 1 < N
      BY <1>4, <1>5, <2>3
    <3>2. first = IF k[1 + 1] = "c" THEN <<"e">> ELSE <<"?">>
      BY <1>1, <1>5, <2>3, <3>1, CharIs DEF N
    <3>3. first = <<"e">> \/ first = <<"?">>
      BY <3>2
    <3> QED
      BY <2>1, <3>3
  <2>4. CASE k[1] = "c"
    <3>1. ~(1 > 1 /\ k[1 - 1] = "L") /\ 1 \in 1 .. Len(k)
      BY <1>5 DEF N
    <3>2. first = <<"?">>
      BY <1>1, <2>4, <3>1, CharIs
    <3> QED
      BY <2>1, <3>2
  <2>5. CASE k[1] \notin {"L", "c"}
    <3>1. first = <<k[1]>>
      BY <1>1, <1>5, <2>5, CharIs DEF N
    <3> QED
      BY <2>1, <2>5, <3>1
  <2> QED
    BY <2>2, <2>3, <2>4, <2>5
<1>8. ASSUME NEW n \in 1 .. N, n - 1 \in S PROVE n \in S
  <2>1. CASE n = 1
    <3> HIDE DEF first
    <3> QED
      BY <1>4, <1>6, <1>7, <2>1
  <2>2. CASE n # 1
    <3> DEFINE t == f[n - 1]
               char == CharOf(k, TRUE, n)
    <3>1. n - 1 \in 0 .. N /\ n - 1 > 0 /\ n \in 0 .. N
      BY <1>4, <2>2
    <3>2. t \in Seq(Signs) /\ Len(t) > 0 /\ t[1] = first[1] /\ f[n] = t \o char
      BY <1>3, <1>8, <3>1
    <3>3. char \in Seq(Signs)
      BY <1>1, CharIs DEF N
    <3> HIDE DEF t, char, first
    <3>4. Len(t \o char) = Len(t) + Len(char) /\ Len(t) \in Nat /\ Len(char) \in Nat
      BY <3>2, <3>3
    <3>5. (t \o char)[1] = t[1]
      BY <3>2, <3>3
    <3> QED
      BY <3>1, <3>2, <3>4, <3>5
  <2> QED
    BY <2>1, <2>2
<1>9. N \in S
  <2>1. 0 \in S
    BY <1>4
  <2> HIDE DEF S
  <2>2. \A n \in 0 .. N : n \in S
    BY <1>4, <1>8, <2>1, IntervalInduction
  <2> QED
    BY <1>4, <2>2
<1>10. first[1] = "B"
  <2> HIDE DEF first
  <2> QED
    BY <1>4, <1>5, <1>9
<1>11. k[1] = "B"
  <2>1. <<"e">>[1] = "e" /\ <<"?">>[1] = "?" /\ <<k[1]>>[1] = k[1]
    OBVIOUS
  <2> HIDE DEF first
  <2> QED
    BY <1>7, <1>10, <2>1
<1>12. b # <<>> /\ b[1] = "B"
  <2> SUFFICES ASSUME ~(b # <<>> /\ b[1] = "B") PROVE FALSE
    OBVIOUS
  <2>1. k = b
    BY <1>2
  <2>2. b # <<>>
    <3>1. Len(<<>>) = 0
      OBVIOUS
    <3> QED
      BY <1>5, <2>1, <3>1 DEF N
  <2> QED
    BY <1>11, <2>1, <2>2
<1>13. k = Tail(b)
  BY <1>2, <1>12
<1>14. b[2] = k[1] /\ Len(b) > 1
  BY <1>5, <1>12, <1>13 DEF N
<1> QED
  BY <1>11, <1>12, <1>14 DEF Doubled

\* A doubled mark in front stays there.
LEMMA DoubledStays ==
  ASSUME NEW b \in Seq(Alphabet), NEW c \in Seq(Alphabet), Doubled(b)
  PROVE  Doubled(b \o c)
<1>1. /\ Len(b) > 1 /\ b[1] = "B" /\ b[2] = "B" /\ Len(b) \in Nat /\ Len(c) \in Nat
      /\ Len(b \o c) = Len(b) + Len(c)
  BY DEF Doubled
<1>2. (b \o c)[1] = b[1] /\ (b \o c)[2] = b[2]
  <2>1. 1 \in 1 .. Len(b) + Len(c) /\ 2 \in 1 .. Len(b) + Len(c) /\ 1 <= Len(b) /\ 2 <= Len(b)
    BY <1>1
  <2>2. \A i \in 1 .. Len(b) + Len(c) : (b \o c)[i] = IF i <= Len(b) THEN b[i] ELSE c[i - Len(b)]
    BY ConcatProperties
  <2> QED
    BY <2>1, <2>2
<1>3. Len(b \o c) > 1
  BY <1>1
<1> QED
  BY <1>1, <1>2, <1>3 DEF Doubled

-----------------------------------------------------------------------------
(* The buffer of the decoder is large enough.                              *)

SizeAt(x) == CASE x = "a" -> 1 [] x = "e" -> 2 [] OTHER -> 3
BytesTo(out) ==
  CHOOSE f : f = [n \in 0 .. Len(out) |-> IF n = 0 THEN 0 ELSE f[n - 1] + SizeAt(out[n])]
WidthAt(x) == IF x = "B" THEN 3 ELSE 1
SizeTo(bytes) ==
  CHOOSE f : f = [n \in 0 .. Len(bytes) |-> IF n = 0 THEN 0 ELSE f[n - 1] + WidthAt(bytes[n])]

\* A sum along a sequence whose terms lie between bounds.
LEMMA SumIs ==
  ASSUME NEW N \in Nat, NEW size \in [1 .. N -> Nat], NEW c, NEW low \in Nat, NEW high \in Nat,
         c[0] = 0, \A n \in 1 .. N : c[n] = c[n - 1] + size[n],
         \A n \in 1 .. N : low <= size[n] /\ size[n] <= high
  PROVE  c[N] \in Nat /\ low * N <= c[N] /\ c[N] <= high * N
<1> DEFINE S == {n \in 0 .. N : c[n] \in Nat /\ low * n <= c[n] /\ c[n] <= high * n}
<1>1. 0 \in S
  OBVIOUS
<1>2. ASSUME NEW n \in 1 .. N, n - 1 \in S PROVE n \in S
  <2> DEFINE v == c[n - 1]
             w == size[n]
             a == low * (n - 1)
             b == high * (n - 1)
  <2>1. v \in Nat /\ a <= v /\ v <= b /\ w \in Nat /\ low <= w /\ w <= high /\ c[n] = v + w
    BY <1>2
  <2>2. low * n = a + low /\ high * n = b + high /\ a \in Nat /\ b \in Nat
    OBVIOUS
  <2> HIDE DEF v, w, a, b
  <2>3. c[n] \in Nat /\ low * n <= c[n] /\ c[n] <= high * n
    BY <2>1, <2>2
  <2> QED
    BY <2>3
<1>3. N \in S
  <2> HIDE DEF S
  <2>1. \A n \in 0 .. N : n \in S
    BY <1>1, <1>2, IntervalInduction
  <2> QED
    BY <2>1
<1> QED
  BY <1>3

\* A character takes three bytes at most.
LEMMA BytesAre ==
  ASSUME NEW out \in Seq(Signs)
  PROVE  Bytes(out) \in Nat /\ Bytes(out) <= 3 * Len(out)
<1> DEFINE N == Len(out)
           W == Nat
           size == [n \in 1 .. N |-> SizeAt(out[n])]
           step(n, x) == x + SizeAt(out[n])
           G == [n \in 1 .. N |-> [x \in W |-> step(n, x)]]
           Of(f) == f = [n \in 0 .. N |-> IF n = 0 THEN 0 ELSE step(n, f[n - 1])]
           c == BytesTo(out)
<1>1. N \in Nat /\ 0 \in W
  OBVIOUS
<1>2. \A x : SizeAt(x) \in 1 .. 3
  <2> TAKE x
  <2>1. SizeAt(x) \in {1, 2, 3}
    BY DEF SizeAt
  <2> QED
    BY <2>1
<1>3. \A n \in 1 .. N, x \in W : step(n, x) \in W
  BY <1>2
<1>4. c = CHOOSE f : Of(f)
  BY DEF BytesTo
<1> HIDE DEF W, N, step, c
<1>5. PICK f \in [0 .. N -> W] : f[0] = 0 /\ \A n \in 1 .. N : f[n] = G[n][f[n - 1]]
  <2>1. G \in Steps(N, W)
    BY <1>3 DEF Steps
  <2> HIDE DEF G
  <2> QED
    BY <1>1, <2>1, Recursion
<1>6. \A n \in 1 .. N : f[n] = step(n, f[n - 1])
  <2> TAKE n \in 1 .. N
  <2>1. n - 1 \in 0 .. N
    BY <1>1
  <2>2. f[n - 1] \in W
    BY <2>1
  <2> QED
    BY <1>5, <2>2
<1>7. Of(f)
  <2>1. \A n \in 0 .. N : n = 0 \/ n \in 1 .. N
    BY <1>1
  <2> QED
    BY <1>5, <1>6, <2>1
<1> HIDE DEF G
<1>8. Of(c)
  <2> HIDE DEF Of
  <2> QED
    BY <1>4, <1>7, Zenon
<1>9. c[0] = 0 /\ \A n \in 1 .. N : c[n] = step(n, c[n - 1])
  <2>1. \A n \in 0 .. N : c[n] = IF n = 0 THEN 0 ELSE step(n, c[n - 1])
    BY <1>8
  <2>2. 0 \in 0 .. N /\ \A n \in 1 .. N : n \in 0 .. N /\ n # 0
    BY <1>1
  <2> QED
    BY <2>1, <2>2
<1>10. /\ size \in [1 .. N -> Nat]
       /\ \A n \in 1 .. N : 0 <= size[n] /\ size[n] <= 3 /\ c[n] = c[n - 1] + size[n]
  <2>1. \A n \in 1 .. N : size[n] = SizeAt(out[n])
    OBVIOUS
  <2>2. size \in [1 .. N -> Nat]
    BY <1>2
  <2> HIDE DEF size
  <2> QED
    BY <1>2, <1>9, <2>1, <2>2 DEF step
<1> HIDE DEF size
<1>11. c[N] \in Nat /\ c[N] <= 3 * N
  BY <1>1, <1>9, <1>10, SumIs
<1>12. Bytes(out) = c[N]
  BY DEF Bytes, BytesTo, SizeAt, c, N
<1> QED
  BY <1>11, <1>12 DEF N

\* An input takes at least as many bytes as it has entries.
LEMMA SizeIs ==
  ASSUME NEW bytes \in Seq(Alphabet)
  PROVE  SizeOf(bytes) \in Nat /\ Len(bytes) <= SizeOf(bytes)
<1> DEFINE N == Len(bytes)
           W == Nat
           size == [n \in 1 .. N |-> WidthAt(bytes[n])]
           step(n, x) == x + WidthAt(bytes[n])
           G == [n \in 1 .. N |-> [x \in W |-> step(n, x)]]
           Of(f) == f = [n \in 0 .. N |-> IF n = 0 THEN 0 ELSE step(n, f[n - 1])]
           c == SizeTo(bytes)
<1>1. N \in Nat /\ 0 \in W
  OBVIOUS
<1>2. \A x : WidthAt(x) \in 1 .. 3
  BY DEF WidthAt
<1>3. \A n \in 1 .. N, x \in W : step(n, x) \in W
  BY <1>2
<1>4. c = CHOOSE f : Of(f)
  BY DEF SizeTo
<1> HIDE DEF W, N, step, c
<1>5. PICK f \in [0 .. N -> W] : f[0] = 0 /\ \A n \in 1 .. N : f[n] = G[n][f[n - 1]]
  <2>1. G \in Steps(N, W)
    BY <1>3 DEF Steps
  <2> HIDE DEF G
  <2> QED
    BY <1>1, <2>1, Recursion
<1>6. \A n \in 1 .. N : f[n] = step(n, f[n - 1])
  <2> TAKE n \in 1 .. N
  <2>1. n - 1 \in 0 .. N
    BY <1>1
  <2>2. f[n - 1] \in W
    BY <2>1
  <2> QED
    BY <1>5, <2>2
<1>7. Of(f)
  <2>1. \A n \in 0 .. N : n = 0 \/ n \in 1 .. N
    BY <1>1
  <2> QED
    BY <1>5, <1>6, <2>1
<1> HIDE DEF G
<1>8. Of(c)
  <2> HIDE DEF Of
  <2> QED
    BY <1>4, <1>7, Zenon
<1>9. c[0] = 0 /\ \A n \in 1 .. N : c[n] = step(n, c[n - 1])
  <2>1. \A n \in 0 .. N : c[n] = IF n = 0 THEN 0 ELSE step(n, c[n - 1])
    BY <1>8
  <2>2. 0 \in 0 .. N /\ \A n \in 1 .. N : n \in 0 .. N /\ n # 0
    BY <1>1
  <2> QED
    BY <2>1, <2>2
<1>10. /\ size \in [1 .. N -> Nat]
       /\ \A n \in 1 .. N : 1 <= size[n] /\ size[n] <= 3 /\ c[n] = c[n - 1] + size[n]
  <2>1. \A n \in 1 .. N : size[n] = WidthAt(bytes[n])
    OBVIOUS
  <2>2. size \in [1 .. N -> Nat]
    BY <1>2
  <2> HIDE DEF size
  <2> QED
    BY <1>2, <1>9, <2>1, <2>2 DEF step
<1> HIDE DEF size
<1>11. c[N] \in Nat /\ 1 * N <= c[N]
  BY <1>1, <1>9, <1>10, SumIs
<1>12. SizeOf(bytes) = c[N]
  BY DEF SizeOf, SizeTo, WidthAt, c, N
<1> QED
  BY <1>1, <1>11, <1>12 DEF N

\* A text of three bytes a character at most fits where there is room for as many.
LEMMA FittingIs ==
  ASSUME NEW out \in Seq(Signs), NEW room \in Nat, 3 * Len(out) <= room
  PROVE  Fitting(out, room) = out
<1> DEFINE n == Len(out)
           S == {k \in 0 .. n : Bytes(SubSeq(out, 1, k)) <= room}
<1>1. n \in Nat /\ n \in 0 .. n
  OBVIOUS
<1>2. SubSeq(out, 1, n) = out
  <2>1. out \o <<>> = out /\ <<>> \in Seq(Signs)
    OBVIOUS
  <2>2. SubSeq(out \o <<>>, 1, Len(out)) = out
    BY <2>1, PrefixEnds
  <2> QED
    BY <2>1, <2>2
<1>3. Bytes(out) <= room
  <2> DEFINE b == Bytes(out)
  <2>1. b \in Nat /\ b <= 3 * n
    BY BytesAre
  <2> HIDE DEF b
  <2>2. b <= room
    BY <1>1, <2>1
  <2> QED
    BY <2>2 DEF b
<1>4. n \in S /\ \A k \in S : k <= n
  <2>1. Bytes(SubSeq(out, 1, n)) <= room
    BY <1>2, <1>3
  <2>2. n \in S
    BY <1>1, <2>1
  <2>3. \A k \in 0 .. n : k <= n
    BY <1>1
  <2>4. \A k \in S : k \in 0 .. n
    OBVIOUS
  <2> HIDE DEF S
  <2> QED
    BY <2>2, <2>3, <2>4
<1>5. Fitting(out, room) = SubSeq(out, 1, Max(S))
  BY DEF Fitting
<1> HIDE DEF S
<1>6. Max(S) = n
  <2> DEFINE m == Max(S)
  <2>1. \E x \in S : \A y \in S : x >= y
    BY <1>1, <1>4
  <2>2. m \in S /\ \A y \in S : m >= y
    BY <2>1 DEF Max
  <2> HIDE DEF m
  <2>3. m >= n /\ m <= n /\ m \in Int
    BY <1>1, <1>4, <2>2 DEF S
  <2>4. m = n
    BY <1>1, <2>3
  <2> QED
    BY <2>4 DEF m
<1> QED
  BY <1>2, <1>5, <1>6

\* decode_to_utf8 by the names of its parts.
LEMMA RunsTo ==
  \A d, bytes, last :
    Run(d, bytes, last) = LET e == RunTo(d, bytes)[Len(bytes)]
                          IN  IF last /\ e.pending
                              THEN [e EXCEPT !.pending = FALSE, !.out = Append(e.out, "?")] ELSE e
  BY DEF Run, RunTo

\* What a piece gives: the text of the whole so far, and the decoder that goes on.
RunsOn(fed, bytes, last) ==
  LET run == Run(At(fed, <<>>), bytes, last)
  IN  /\ run.out \in Seq(Signs) /\ Len(run.out) <= Len(bytes) + 1
      /\ Whole(fed \o bytes, ~last) = Whole(fed, TRUE) \o run.out
      /\ ~last => [run EXCEPT !.out = <<>>] = At(fed \o bytes, <<>>)

\* The decoder after a piece, whether it is the last one or not.
LEMMA RunIs ==
  ASSUME NEW fed \in Seq(Alphabet), NEW bytes \in Seq(Alphabet), NEW last \in BOOLEAN
  PROVE  RunsOn(fed, bytes, last)
<1> DEFINE d == At(fed, <<>>)
           e == RunTo(d, bytes)[Len(bytes)]
           run == Run(d, bytes, last)
           all == fed \o bytes
           text == Whole(fed, TRUE)
           q == "?"
<1>1. PICK out \in Seq(Signs) : /\ e = At(all, out) /\ Whole(all, TRUE) = text \o out
                                /\ Len(out) + Pending(all) <= Len(bytes) + 1
  BY RunAt
<1>2. run = IF last /\ e.pending THEN [e EXCEPT !.pending = FALSE, !.out = Append(e.out, q)] ELSE e
  BY RunsTo
<1>3. all \in Seq(Alphabet) /\ Len(bytes) \in Nat
  OBVIOUS
<1>4. text \in Seq(Signs)
  BY WholeSeq
<1>5. Whole(all, FALSE) = Whole(all, TRUE) \o (IF Half(all) THEN <<q>> ELSE <<>>)
  BY <1>3, WholeClosed
<1>6. <<q>> \in Seq(Signs)
  BY SignsAre
<1> HIDE DEF all, text, e, run, q, d
<1>7. e.pending = Half(all) /\ e.out = out
  BY <1>1 DEF At
<1>8. CASE last /\ Half(all)
  <2>1. run.out = Append(out, q)
    <3>1. run = [e EXCEPT !.pending = FALSE, !.out = Append(e.out, q)]
      BY <1>2, <1>7, <1>8
    <3>2. "out" \in DOMAIN e
      BY <1>1 DEF At
    <3> DEFINE o == Append(e.out, q)
    <3>3. run = [e EXCEPT !.pending = FALSE, !.out = o]
      BY <3>1
    <3> HIDE DEF o
    <3>4. run.out = o
      BY <3>2, <3>3
    <3> QED
      BY <1>7, <3>4 DEF o
  <2>2. Append(out, q) = out \o <<q>>
    <3>1. IsSeq(out)
      BY SeqIs
    <3> QED
      BY <3>1, AppendConcat
  <2>3. out \o <<q>> \in Seq(Signs) /\ Len(out \o <<q>>) = Len(out) + 1 /\ Len(out) \in Nat
    BY <1>6
  <2>4. Pending(all) = 1
    BY <1>8 DEF Pending
  <2>5. Whole(all, FALSE) = (text \o out) \o <<q>>
    BY <1>1, <1>5, <1>8
  <2>6. (text \o out) \o <<q>> = text \o (out \o <<q>>)
    BY <1>4, <1>6, ConcatAssociative
  <2>7. (~last) = FALSE
    BY <1>8
  <2>8. Len(out) + 1 <= Len(bytes) + 1
    BY <1>1, <2>4
  <2>9. /\ run.out \in Seq(Signs) /\ Len(run.out) <= Len(bytes) + 1
        /\ Whole(all, ~last) = text \o run.out
    <3>1. run.out = out \o <<q>>
      BY <2>1, <2>2
    <3>2. Whole(all, ~last) = text \o run.out
      BY <2>5, <2>6, <2>7, <3>1
    <3>3. Len(run.out) <= Len(bytes) + 1
      BY <2>3, <2>8, <3>1
    <3> QED
      BY <2>3, <3>1, <3>2, <3>3
  <2> QED
    BY <1>8, <2>9 DEF RunsOn, run, all, text, d
<1>9. CASE ~(last /\ Half(all))
  <2>1. run = e
    BY <1>2, <1>7, <1>9
  <2>2. Whole(all, ~last) = Whole(all, TRUE)
    <3>1. CASE last
      <4>1. Whole(all, TRUE) \in Seq(Signs)
        BY <1>3, WholeSeq
      <4>2. Whole(all, TRUE) \o <<>> = Whole(all, TRUE)
        BY <4>1
      <4>3. (~last) = FALSE /\ ~Half(all)
        BY <1>9, <3>1
      <4>4. Whole(all, FALSE) = Whole(all, TRUE)
        BY <1>5, <4>2, <4>3
      <4> QED
        BY <4>3, <4>4
    <3>2. CASE ~last
      <4>1. (~last) = TRUE
        BY <3>2
      <4> QED
        BY <4>1
    <3> QED
      BY <3>1, <3>2
  <2>3. Len(out) <= Len(bytes) + 1
    <3>1. Pending(all) \in 0 .. 1
      BY DEF Pending
    <3>2. Len(out) \in Nat
      OBVIOUS
    <3> DEFINE p == Pending(all)
               l == Len(out)
               m == Len(bytes)
    <3>3. p \in 0 .. 1 /\ l \in Nat /\ m \in Nat /\ l + p <= m + 1
      BY <1>1, <1>3, <3>1, <3>2
    <3> HIDE DEF p, l, m
    <3>4. l <= m + 1
      BY <3>3
    <3> QED
      BY <3>4 DEF l, m
  <2>4. [run EXCEPT !.out = <<>>] = At(all, <<>>)
    <3>1. run = At(all, out)
      BY <1>1, <2>1
    <3> DEFINE half == Half(all)
               none == all = <<>>
    <3>2. run = [pending |-> half, start |-> none, out |-> out]
      BY <3>1 DEF At
    <3>3. At(all, <<>>) = [pending |-> half, start |-> none, out |-> <<>>]
      BY DEF At
    <3> HIDE DEF half, none
    <3> QED
      BY <3>2, <3>3
  <2>5. run.out = out
    BY <1>7, <2>1
  <2>6. Whole(all, ~last) = text \o run.out
    BY <1>1, <2>2, <2>5
  <2>7. run.out \in Seq(Signs) /\ Len(run.out) <= Len(bytes) + 1
    BY <2>3, <2>5
  <2> QED
    BY <2>4, <2>6, <2>7 DEF RunsOn, run, all, text, d
<1> QED
  BY <1>8, <1>9

\* A mark in front of the first piece's text is a second one.
LEMMA RunFront ==
  ASSUME NEW bytes \in Seq(Alphabet), NEW last \in BOOLEAN,
         NEW out \in Seq(Signs), Whole(bytes, ~last) = out, out # <<>>, out[1] = "B"
  PROVE  Doubled(bytes)
<1> DEFINE text == Whole(bytes, TRUE)
           tail == IF Half(bytes) THEN <<"?">> ELSE <<>>
<1>1. text \in Seq(Signs) /\ tail \in Seq(Signs)
  BY WholeSeq, SignsAre
<1>2. Whole(bytes, FALSE) = text \o tail
  BY WholeClosed
<1>3. tail # <<>> => tail[1] = "?"
  OBVIOUS
<1> HIDE DEF text, tail
<1>4. text # <<>> /\ text[1] = "B"
  <2>1. CASE last
    <3>1. (~last) = FALSE
      BY <2>1
    <3>2. out = text \o tail
      BY <1>2, <3>1
    <3>3. /\ Len(text \o tail) = Len(text) + Len(tail)
          /\ \A i \in 1 .. Len(text) + Len(tail) :
               (text \o tail)[i] = IF i <= Len(text) THEN text[i] ELSE tail[i - Len(text)]
      BY <1>1, ConcatProperties
    <3>4. Len(text) \in Nat /\ Len(tail) \in Nat
      BY <1>1
    <3>5. CASE Len(text) = 0
      <4>1. Len(out) = Len(tail) /\ Len(out) # 0
        <5>1. Len(out) # 0
          OBVIOUS
        <5> QED
          BY <3>2, <3>3, <3>4, <3>5, <5>1
      <4>2. out[1] = tail[1] /\ tail # <<>>
        <5>1. 1 \in 1 .. Len(text) + Len(tail) /\ ~(1 <= Len(text)) /\ 1 - Len(text) = 1
          BY <3>4, <3>5, <4>1
        <5>2. tail # <<>>
          <6>1. Len(<<>>) = 0
            OBVIOUS
          <6> QED
            BY <4>1, <6>1
        <5> QED
          BY <3>2, <3>3, <5>1, <5>2
      <4> QED
        BY <1>3, <4>2
    <3>6. CASE Len(text) # 0
      <4>1. 1 \in 1 .. Len(text) + Len(tail) /\ 1 <= Len(text)
        BY <3>4, <3>6
      <4>2. out[1] = text[1]
        BY <3>2, <3>3, <4>1
      <4>3. text # <<>>
        <5>1. Len(<<>>) = 0
          OBVIOUS
        <5> QED
          BY <3>6, <5>1
      <4> QED
        BY <4>2, <4>3
    <3> QED
      BY <3>5, <3>6
  <2>2. CASE ~last
    <3>1. (~last) = TRUE
      BY <2>2
    <3> QED
      BY <3>1 DEF text
  <2> QED
    BY <2>1, <2>2
<1> QED
  BY <1>4, FrontMark DEF text

\* A piece's text fits its buffer, and continues that of the pieces before it.
Fits(fed, text, input, last, strip) ==
  LET run  == Run(At(fed, <<>>), input, last)
      out  == Fitting(run.out, Room(IF input = <<>> THEN 4 ELSE SizeOf(input)))
      more == IF strip THEN StripBom(out) ELSE out
  IN  /\ text \o more \in Seq(Signs) /\ fed \o input \in Seq(Alphabet)
      /\ \A x \in Range(text \o more) : x \in Range(text) \/ x \in Range(run.out)
      /\ Doubled(fed \o input) \/ text \o more = Whole(fed \o input, ~last)
      /\ ~last => [run EXCEPT !.out = <<>>] = At(fed \o input, <<>>)

\* A piece fits, whether or not its mark is stripped.
LEMMA PieceIs ==
  ASSUME NEW fed \in Seq(Alphabet), NEW text \in Seq(Signs), NEW input \in Seq(Alphabet),
         NEW last \in BOOLEAN, Doubled(fed) \/ text = Whole(fed, TRUE),
         NEW strip \in BOOLEAN, strip => fed = <<>>
  PROVE  Fits(fed, text, input, last, strip)
<1> DEFINE run  == Run(At(fed, <<>>), input, last)
           o    == run.out
           size == IF input = <<>> THEN 4 ELSE SizeOf(input)
           out  == Fitting(o, Room(size))
           more == IF strip THEN StripBom(out) ELSE out
           all  == fed \o input
           text0 == Whole(fed, TRUE)
           n == Len(input)
<1>1. all \in Seq(Alphabet) /\ n \in Nat
  OBVIOUS
<1>2. /\ o \in Seq(Signs) /\ Len(o) <= n + 1 /\ Whole(all, ~last) = text0 \o o
      /\ ~last => [run EXCEPT !.out = <<>>] = At(all, <<>>)
  <2>1. RunsOn(fed, input, last)
    BY RunIs
  <2> QED
    BY <2>1 DEF RunsOn
<1>3. size \in Nat /\ n <= size
  <2>1. SizeOf(input) \in Nat /\ n <= SizeOf(input)
    BY SizeIs
  <2>2. input = <<>> => n = 0
    OBVIOUS
  <2> DEFINE z == SizeOf(input)
  <2> HIDE DEF z, n
  <2>3. z \in Nat /\ n <= z
    BY <2>1 DEF z
  <2>4. size = IF input = <<>> THEN 4 ELSE z
    BY DEF z
  <2> QED
    BY <2>2, <2>3, <2>4
<1> HIDE DEF size, o, n, run
<1>4. out = o
  <2>1. Room(size) = 3 + 3 * size
    BY DEF Room
  <2>2. Len(o) \in Nat
    BY <1>2
  <2> DEFINE l == Len(o)
             room == Room(size)
  <2>3. room \in Nat /\ 3 * l <= room
    <3>1. l \in Nat /\ l <= n + 1 /\ room = 3 + 3 * size
      BY <1>2, <2>1, <2>2
    <3> HIDE DEF l, room
    <3> QED
      BY <1>1, <1>3, <3>1
  <2> HIDE DEF room
  <2>4. Fitting(o, room) = o
    BY <1>2, <2>3, FittingIs
  <2> QED
    BY <2>4 DEF room
<1> HIDE DEF out
<1>5. o # <<>> => Tail(o) \in Seq(Signs) /\ Range(Tail(o)) \subseteq Range(o)
  <2> SUFFICES ASSUME o # <<>> PROVE Tail(o) \in Seq(Signs) /\ Range(Tail(o)) \subseteq Range(o)
    OBVIOUS
  <2> DEFINE t == Tail(o)
  <2>1. /\ t \in Seq(Signs) /\ Len(t) = Len(o) - 1 /\ Len(o) \in Nat
        /\ \A i \in 1 .. Len(t) : t[i] = o[i + 1]
    BY <1>2
  <2>2. DOMAIN t = 1 .. Len(t) /\ DOMAIN o = 1 .. Len(o)
    BY <1>2, <2>1
  <2> HIDE DEF t
  <2>3. \A i \in DOMAIN t : i + 1 \in DOMAIN o /\ t[i] = o[i + 1]
    BY <2>1, <2>2
  <2>4. Range(t) \subseteq Range(o)
    BY <2>3 DEF Range
  <2> QED
    BY <2>1, <2>4 DEF t
<1>6. more \in {o, Tail(o)} /\ (more = o \/ (strip /\ o # <<>> /\ o[1] = "B"))
      /\ (more = o \/ o # <<>>)
  BY <1>4 DEF StripBom
<1> HIDE DEF more
<1>7. more \in Seq(Signs) /\ Range(more) \subseteq Range(o)
  BY <1>2, <1>5, <1>6
<1>8. /\ text \o more \in Seq(Signs)
      /\ \A x \in Range(text \o more) : x \in Range(text) \/ x \in Range(o)
  <2> DEFINE z == text \o more
  <2>1. /\ z \in Seq(Signs) /\ Len(z) = Len(text) + Len(more)
        /\ \A i \in 1 .. Len(text) + Len(more) :
             z[i] = IF i <= Len(text) THEN text[i] ELSE more[i - Len(text)]
    BY <1>7, ConcatProperties
  <2>2. Len(text) \in Nat /\ Len(more) \in Nat /\ DOMAIN text = 1 .. Len(text)
        /\ DOMAIN more = 1 .. Len(more)
    BY <1>7
  <2>3. DOMAIN z = 1 .. Len(text) + Len(more)
    BY <2>1
  <2> HIDE DEF z
  <2>4. ASSUME NEW i \in DOMAIN z PROVE z[i] \in Range(text) \/ z[i] \in Range(more)
    <3>1. CASE i <= Len(text)
      <4>1. i \in DOMAIN text /\ z[i] = text[i]
        BY <2>1, <2>2, <2>3, <3>1
      <4> QED
        BY <4>1 DEF Range
    <3>2. CASE ~(i <= Len(text))
      <4> DEFINE j == i - Len(text)
      <4>1. j \in DOMAIN more /\ z[i] = more[j]
        BY <2>1, <2>2, <2>3, <3>2
      <4> HIDE DEF j
      <4> QED
        BY <4>1 DEF Range
    <3> QED
      BY <3>1, <3>2
  <2>5. \A x \in Range(z) : x \in Range(text) \/ x \in Range(more)
    BY <2>4 DEF Range
  <2> QED
    BY <1>7, <2>1, <2>5 DEF z
<1>9. Doubled(all) \/ text \o more = Whole(all, ~last)
  <2>1. CASE Doubled(fed)
    <3>1. Doubled(fed \o input)
      BY <2>1, DoubledStays
    <3> QED
      BY <3>1
  <2>2. CASE more # o
    <3>1. strip /\ o # <<>> /\ o[1] = "B" /\ fed = <<>>
      BY <1>6, <2>2
    <3>2. fed \o input = input /\ text0 = <<>>
      <4>1. <<>> \o input = input
        OBVIOUS
      <4>2. Whole(<<>>, TRUE) = <<>>
        BY WholeSeq
      <4> QED
        BY <3>1, <4>1, <4>2
    <3>3. <<>> \o o = o
      BY <1>2
    <3>4. Whole(input, ~last) = o
      BY <1>2, <3>2, <3>3
    <3>5. Doubled(input)
      BY <1>2, <3>1, <3>4, RunFront
    <3> QED
      BY <3>2, <3>5
  <2>3. CASE ~Doubled(fed) /\ more = o
    <3>1. text = text0
      BY <2>3
    <3> QED
      BY <1>2, <2>3, <3>1
  <2> QED
    BY <2>1, <2>2, <2>3
<1>10. /\ text \o more \in Seq(Signs) /\ all \in Seq(Alphabet)
       /\ \A x \in Range(text \o more) : x \in Range(text) \/ x \in Range(o)
       /\ Doubled(all) \/ text \o more = Whole(all, ~last)
       /\ ~last => [run EXCEPT !.out = <<>>] = At(all, <<>>)
  BY <1>1, <1>2, <1>8, <1>9
<1> QED
  BY <1>10 DEF Fits, more, out, o, size, all, run

-----------------------------------------------------------------------------
(* The stream.                                                             *)

\* An open stream: its box holds the decoder as the bytes left it, and a mark in front is over.
StreamOpen ==
  decoder.box # 0 => /\ heap[decoder.box] = At(stream.fed, <<>>)
                     /\ stream.fed # <<>> => decoder.bomSeen \/ decoder.ignoreBOM

StreamInv ==
  decoder.live => /\ stream.fed \in Seq(Alphabet) /\ stream.text \in Seq(Signs)
                  /\ StreamOpen
                  /\ Doubled(stream.fed) \/ stream.text = Whole(stream.fed, decoder.box # 0)
                  /\ decoder.fatal => "?" \notin Range(stream.text)

\* A stream that has not begun.
LEMMA NoStreamIs ==
  /\ NoStream.fed = <<>> /\ NoStream.text = <<>>
  /\ NoStream.fed \in Seq(Alphabet) /\ NoStream.text \in Seq(Signs)
  /\ NewDecoder = At(<<>>, <<>>)
  /\ \A open \in BOOLEAN : NoStream.text = Whole(NoStream.fed, open)
  /\ "?" \notin Range(NoStream.text)
<1>1. NoStream.fed = <<>> /\ NoStream.text = <<>>
  BY DEF NoStream
<1>2. <<>> \in Seq(Alphabet) /\ <<>> \in Seq(Signs) /\ DOMAIN <<>> = {}
  OBVIOUS
<1>3. NewDecoder = At(<<>>, <<>>)
  <2>1. Half(<<>>) = FALSE /\ (<<>> = <<>>) = TRUE
    BY DEF Half
  <2> QED
    BY <2>1 DEF At, NewDecoder
<1>4. \A open \in BOOLEAN : Whole(<<>>, open) = <<>>
  BY <1>2, WholeSeq
<1>5. Range(<<>>) = {}
  BY <1>2 DEF Range
<1> QED
  BY <1>1, <1>2, <1>3, <1>4, <1>5

\* Without a decoder there is no stream.
LEMMA InitStream == Init => StreamInv
  BY DEF Init, StreamInv, NoDecoder

\* A step that leaves the decoder and its box alone.
LEMMA SameStream ==
  ASSUME StreamInv, decoder' = decoder, stream' = stream,
         decoder.box # 0 => heap'[decoder.box] = heap[decoder.box]
  PROVE  StreamInv'
  BY DEF StreamInv, StreamOpen

\* The operations of the URL and its view write other boxes.
LEMMA UrlStream ==
  ASSUME IInv, StreamInv,
         \/ NewUrl \/ Set \/ SetSearch \/ SetHref \/ GetParams \/ UpdateParams
         \/ \E text \in HostTexts : SetHostTo(text)
         \/ DropUrl \/ DropParams
  PROVE  StreamInv'
<1> DEFINE x == decoder.box
<1>1. decoder' = decoder /\ stream' = stream
  BY DEF NewUrl, Set, SetSearch, SetHref, GetParams, UpdateParams, SetHostTo, DropUrl, DropParams,
         textVars
<1>2. ASSUME x # 0 PROVE heap'[x] = heap[x]
  <2>1. x \in DOMAIN heap /\ x # url.box /\ x # made + 1
    BY <1>2, Boxes
  <2> HIDE DEF x
  <2>2. \A v : Put(heap, url.box, v)[x] = heap[x] /\ Put(heap, made + 1, v)[x] = heap[x]
    BY <2>1, PutValue
  <2>3. Without(heap, url.box)[x] = heap[x]
    BY <2>1, WithoutValue
  <2>4. \A v : Put(Without(heap, url.box), made + 1, v)[x] = heap[x]
    <3> TAKE v
    <3> DEFINE h == Without(heap, url.box)
               m == made + 1
    <3>1. DOMAIN h = DOMAIN heap \ {url.box}
      BY WithoutDomain, Zenon
    <3>2. h[x] = heap[x] /\ x # m
      BY <2>1, <2>3
    <3> HIDE DEF h, m
    <3>3. x \in DOMAIN h \ {m}
      BY <2>1, <3>1, <3>2
    <3>4. Put(h, m, v)[x] = h[x]
      BY <3>3, PutValue
    <3>5. Put(h, m, v)[x] = heap[x]
      BY <3>2, <3>4
    <3> QED
      BY <3>5 DEF h, m
  <2>5. CASE NewUrl
    <3>1. \E v : heap' = Put(heap, made + 1, v)
      BY <2>5 DEF NewUrl, Alloc
    <3> QED
      BY <2>2, <3>1
  <2>6. CASE Set \/ SetSearch \/ \E text \in HostTexts : SetHostTo(text)
    <3>1. \E v : heap' = Put(heap, url.box, v)
      BY <2>6 DEF Set, SetSearch, SetHostTo
    <3> QED
      BY <2>2, <3>1
  <2>7. CASE SetHref
    <3>1. heap' = heap \/ \E v : heap' = Put(Without(heap, url.box), made + 1, v)
      BY <2>7 DEF SetHref, Alloc
    <3> QED
      BY <2>4, <3>1
  <2>8. CASE UpdateParams
    <3>1. heap' = heap \/ \E v : heap' = Put(heap, url.box, v)
      BY <2>8 DEF UpdateParams
    <3> QED
      BY <2>2, <3>1
  <2>9. CASE DropUrl
    BY <2>3, <2>9 DEF DropUrl
  <2>10. CASE GetParams \/ DropParams
    BY <2>10 DEF GetParams, DropParams
  <2> QED
    BY <2>5, <2>6, <2>7, <2>8, <2>9, <2>10
<1> QED
  BY <1>1, <1>2, SameStream

\* PieceIs, to be cited of the state.
LEMMA PieceFits ==
  \A fed \in Seq(Alphabet), text \in Seq(Signs), input \in Seq(Alphabet), last \in BOOLEAN,
     strip \in BOOLEAN :
    (Doubled(fed) \/ text = Whole(fed, TRUE)) /\ (strip => fed = <<>>)
      => Fits(fed, text, input, last, strip)
<1> SUFFICES ASSUME NEW fed \in Seq(Alphabet), NEW text \in Seq(Signs),
                    NEW input \in Seq(Alphabet), NEW last \in BOOLEAN, NEW strip \in BOOLEAN,
                    Doubled(fed) \/ text = Whole(fed, TRUE), strip => fed = <<>>
             PROVE  Fits(fed, text, input, last, strip)
  OBVIOUS
<1> QED
  BY PieceIs

\* The end of a decode, from the decoder as the stream left it, or from a new one.
LEMMA DecodedText ==
  ASSUME IInv, StreamInv, decoder.live, NEW h, NEW b, NEW input \in Seq(Alphabet),
         NEW last \in BOOLEAN, last = TRUE \/ b # 0,
         NEW old, old = IF decoder.box = 0 THEN NoStream ELSE stream,
         Decoded(h, b, Run(At(old.fed, <<>>), input, last), input, last)
  PROVE  StreamInv'
<1> DEFINE fed    == old.fed
           text   == old.text
           run    == Run(At(fed, <<>>), input, last)
           failed == decoder.fatal /\ "?" \in Range(run.out)
           free   == b # 0 /\ (failed \/ last)
           out    == Fitting(run.out, Room(IF input = <<>> THEN 4 ELSE SizeOf(input)))
           strip  == ~decoder.bomSeen /\ ~decoder.ignoreBOM
           more   == IF strip THEN StripBom(out) ELSE out
           box    == IF free THEN 0 ELSE b
           seen   == ~failed /\ (decoder.bomSeen \/ strip)
           all    == fed \o input
           both   == text \o more
<1>1. /\ fed \in Seq(Alphabet) /\ text \in Seq(Signs)
      /\ Doubled(fed) \/ text = Whole(fed, TRUE)
      /\ strip => fed = <<>>
      /\ decoder.fatal => "?" \notin Range(text)
  <2>1. CASE decoder.box = 0
    <3>1. old = NoStream
      BY <2>1
    <3> QED
      BY <3>1, NoStreamIs
  <2>2. CASE decoder.box # 0
    <3>1. old = stream /\ (decoder.box # 0) = TRUE
      BY <2>2
    <3> QED
      BY <2>2, <3>1 DEF StreamInv, StreamOpen
  <2> QED
    BY <2>1, <2>2
<1>2. /\ both \in Seq(Signs) /\ all \in Seq(Alphabet)
      /\ \A x \in Range(both) : x \in Range(text) \/ x \in Range(run.out)
      /\ Doubled(all) \/ both = Whole(all, ~last)
      /\ ~last => [run EXCEPT !.out = <<>>] = At(all, <<>>)
  <2>1. strip \in BOOLEAN
    OBVIOUS
  <2> HIDE DEF fed, text, strip
  <2>2. Fits(fed, text, input, last, strip)
    BY <1>1, <2>1, PieceFits
  <2> QED
    BY <2>2 DEF Fits
<1>3. /\ heap' = IF free THEN Without(h, b)
                 ELSE IF b # 0 THEN Put(h, b, [run EXCEPT !.out = <<>>]) ELSE h
      /\ decoder' = [decoder EXCEPT !.box = box, !.bomSeen = seen]
      /\ stream' = IF failed THEN NoStream ELSE [fed |-> all, text |-> both]
  BY DEF Decoded
<1> HIDE DEF fed, text, run, out, more, all, both, seen, box
<1>5. /\ decoder'.box = box /\ decoder'.bomSeen = seen /\ decoder'.fatal = decoder.fatal
      /\ decoder'.ignoreBOM = decoder.ignoreBOM
  BY <1>3 DEF IInv, Shape
<1>6. CASE failed
  <2>1. stream' = NoStream /\ decoder'.box = 0
    BY <1>3, <1>5, <1>6 DEF box
  <2>2. (decoder'.box # 0) = FALSE
    BY <2>1
  <2>3. NoStream.text = Whole(NoStream.fed, decoder'.box # 0)
    BY <2>2, NoStreamIs
  <2> QED
    BY <2>1, <2>3, NoStreamIs DEF StreamInv, StreamOpen
<1>7. CASE ~failed
  <2>1. stream'.fed = all /\ stream'.text = both
    BY <1>3, <1>7
  <2>2. (decoder'.box # 0) = ~last /\ (~last => decoder'.box = b /\ b # 0)
    BY <1>5, <1>7 DEF box
  <2>3. Doubled(stream'.fed) \/ stream'.text = Whole(stream'.fed, decoder'.box # 0)
    BY <1>2, <2>1, <2>2
  <2>4. decoder'.fatal => "?" \notin Range(stream'.text)
    BY <1>1, <1>2, <1>5, <1>7, <2>1
  <2>5. ASSUME decoder'.box # 0
        PROVE  /\ heap'[decoder'.box] = At(stream'.fed, <<>>)
               /\ decoder'.bomSeen \/ decoder'.ignoreBOM
    <3>1. ~last /\ decoder'.box = b /\ b # 0
      BY <2>2, <2>5
    <3>2. heap' = Put(h, b, At(all, <<>>))
      BY <1>2, <1>3, <1>7, <3>1
    <3>3. heap'[b] = At(all, <<>>)
      BY <3>2, PutValue
    <3>4. decoder'.bomSeen \/ decoder'.ignoreBOM
      BY <1>5, <1>7 DEF seen
    <3> QED
      BY <2>1, <3>1, <3>3, <3>4
  <2>6. stream'.fed \in Seq(Alphabet) /\ stream'.text \in Seq(Signs)
    BY <1>2, <2>1
  <2> QED
    BY <2>3, <2>4, <2>5, <2>6 DEF StreamInv, StreamOpen
<1> QED
  BY <1>6, <1>7

\* A piece, a flush, a stream of one piece, a new decoder, or none.
LEMMA DecoderStream ==
  ASSUME IInv, StreamInv,
         NewTextDecoder \/ DropDecoder \/ \E input \in Chunks : DecodeChunk(input) \/ DecodeLast(input)
  PROVE  StreamInv'
<1>1. CASE NewTextDecoder
  <2>1. stream' = NoStream /\ decoder'.box = 0
    BY <1>1 DEF NewTextDecoder
  <2>2. (decoder'.box # 0) = FALSE
    BY <2>1
  <2>3. NoStream.text = Whole(NoStream.fed, decoder'.box # 0)
    BY <2>2, NoStreamIs
  <2> QED
    BY <2>1, <2>3, NoStreamIs DEF StreamInv, StreamOpen
<1>2. CASE DropDecoder
  BY <1>2 DEF DropDecoder, NoDecoder, StreamInv
<1>3. \A input \in Chunks : input \in Seq(Alphabet)
  BY FfiConstants DEF Alphabet
<1> DEFINE old == IF decoder.box = 0 THEN NoStream ELSE stream
<1>4. ASSUME NEW input \in Chunks, DecodeLast(input) PROVE StreamInv'
  <2> DEFINE d == IF decoder.box = 0 THEN NewDecoder ELSE heap[decoder.box]
  <2>1. decoder.live /\ Decoded(heap, decoder.box, Run(d, input, TRUE), input, TRUE)
    BY <1>4 DEF DecodeLast
  <2>2. d = At(old.fed, <<>>)
    BY <2>1, NoStreamIs DEF StreamInv, StreamOpen
  <2>3. input \in Seq(Alphabet)
    BY <1>3
  <2> HIDE DEF d
  <2>4. Decoded(heap, decoder.box, Run(At(old.fed, <<>>), input, TRUE), input, TRUE)
    BY <2>1, <2>2
  <2> DEFINE o == old
  <2>5. o = IF decoder.box = 0 THEN NoStream ELSE stream
    OBVIOUS
  <2>6. Decoded(heap, decoder.box, Run(At(o.fed, <<>>), input, TRUE), input, TRUE)
    BY <2>4
  <2> HIDE DEF o, old
  <2> QED
    BY <2>1, <2>3, <2>5, <2>6, DecodedText
<1>5. ASSUME NEW input \in Chunks, DecodeChunk(input) PROVE StreamInv'
  <2> DEFINE new == decoder.box = 0
             b == IF new THEN made + 1 ELSE decoder.box
             h == IF new THEN Put(heap, b, NewDecoder) ELSE heap
  <2>1. /\ decoder.live
        /\ IF input = <<>>
           THEN /\ heap' = h
                /\ decoder' = [decoder EXCEPT !.box = b]
                /\ stream' = IF new THEN NoStream ELSE stream
           ELSE Decoded(h, b, Run(h[b], input, FALSE), input, FALSE)
    BY <1>5 DEF DecodeChunk
  <2>2. b # 0
    BY DEF IInv, Shape
  <2>3. h[b] = At(old.fed, <<>>)
    <3>1. CASE new
      <4> DEFINE p == Put(heap, b, NewDecoder)
      <4>1. p[b] = NewDecoder
        <5> HIDE DEF b
        <5> QED
          BY PutValue
      <4>2. h = p
        BY <3>1
      <4>3. old.fed = <<>>
        BY <3>1, NoStreamIs
      <4> HIDE DEF p, h, b, old
      <4> QED
        BY <4>1, <4>2, <4>3, NoStreamIs
    <3>2. CASE ~new
      BY <2>1, <3>2 DEF StreamInv, StreamOpen
    <3> QED
      BY <3>1, <3>2
  <2> HIDE DEF h
  <2>4. CASE input = <<>>
    <3>1. decoder'.box = b /\ decoder'.bomSeen = decoder.bomSeen /\ decoder'.live = decoder.live
          /\ decoder'.fatal = decoder.fatal /\ decoder'.ignoreBOM = decoder.ignoreBOM
      <4> HIDE DEF b
      <4> QED
        BY <2>1, <2>4 DEF IInv, Shape
    <3>2. stream' = old /\ heap' = h
      BY <2>1, <2>4
    <3>3. heap'[decoder'.box] = At(stream'.fed, <<>>)
      BY <2>3, <3>1, <3>2
    <3>4. (decoder'.box # 0) = TRUE
      BY <2>2, <3>1
    <3> HIDE DEF b
    <3>5. CASE new
      <4>1. stream' = NoStream
        BY <3>2, <3>5
      <4>2. NoStream.text = Whole(NoStream.fed, decoder'.box # 0)
        BY <3>4, NoStreamIs
      <4> QED
        BY <3>3, <4>1, <4>2, NoStreamIs DEF StreamInv, StreamOpen
    <3>6. CASE ~new
      <4>1. stream' = stream /\ (decoder.box # 0) = TRUE
        BY <3>2, <3>6
      <4> QED
        BY <2>1, <3>1, <3>3, <3>4, <3>6, <4>1 DEF StreamInv, StreamOpen
    <3> QED
      BY <3>5, <3>6
  <2>5. CASE input # <<>>
    <3>1. input \in Seq(Alphabet)
      BY <1>3
    <3> DEFINE o == old
    <3>2. o = IF decoder.box = 0 THEN NoStream ELSE stream
      OBVIOUS
    <3>3. Decoded(h, b, Run(At(o.fed, <<>>), input, FALSE), input, FALSE)
      BY <2>1, <2>3, <2>5
    <3> HIDE DEF o, old, b
    <3> QED
      BY <2>1, <2>2, <3>1, <3>2, <3>3, DecodedText
  <2> QED
    BY <2>4, <2>5
<1> QED
  BY <1>1, <1>2, <1>4, <1>5

\* Every step keeps the stream whole.
LEMMA StreamStep == IInv /\ StreamInv /\ [Next]_vars => StreamInv'
<1> SUFFICES ASSUME IInv, StreamInv, [Next]_vars PROVE StreamInv'
  OBVIOUS
<1>1. CASE UNCHANGED vars
  BY <1>1 DEF vars, textVars, StreamInv, StreamOpen
<1>2. CASE Next
  BY <1>2, UrlStream, DecoderStream DEF Next
<1> QED
  BY <1>1, <1>2

\* The box of an open stream holds the decoder in the state that the bytes fed to it leave, and
\* what was returned is their text (TextDecoder.decode, encoding_decoder_decode).
THEOREM StreamInvariant == Spec => []StreamInv
  BY ObjectsInvariant, InitStream, StreamStep, PTL DEF Spec

\* Whatever the pieces and flushes of a stream, and whatever happened before it, the text that
\* decode() returned is that of the bytes decoded at once, none of it cut by the buffer that
\* encoding_max_utf8_buffer_length sizes, and a fatal decoder returns no replaced character.
THEOREM StreamIsWhole == Spec => []StreamedSame
<1>1. StreamInv => StreamedSame
  BY DEF StreamInv, StreamedSame
<1> QED
  BY <1>1, StreamInvariant, PTL
=============================================================================
