------------------------------ MODULE FfiObjects ------------------------------
(***************************************************************************)
(* The objects of a page that own memory of the Rust library: a URL        *)
(* (browser/webapi/URL.zig over rust/html5ever/url.rs), the URLSearchParams*)
(* views of its query (browser/webapi/net/URLSearchParams.zig) and a       *)
(* TextDecoder (browser/webapi/encoding/TextDecoder.zig over the encoding  *)
(* functions of rust/html5ever/lib.rs).  A script calls their operations in*)
(* any order, and the garbage collector drops the wrappers in any order.   *)
(***************************************************************************)
EXTENDS UrlRecord

CONSTANTS
  Absolutes,    \* the absolute URLs a script parses
  References,   \* the references it resolves
  HostTexts,    \* what it gives the host and hostname setters
  PortTexts,    \* ... and the port setter
  Queries,      \* the query strings it sets
  Names,        \* the names of parameters, in UTF-16 order, as a sequence
  Pids,         \* the URLSearchParams objects
  Chunks,       \* the inputs of decode(): sequences of bytes, see the text decoder
  MaxOps        \* bound: operations of a behaviour

ASSUME FfiConstants ==
  /\ Pids \subseteq Nat \ {0} /\ MaxOps \in Nat
  /\ \A u \in Absolutes : IsUrl(u)
  /\ \A ref \in References : IsRef(ref)
  /\ \A q \in Queries : IsQuery(q)
  /\ \A text \in HostTexts : IsSeq(text)
  /\ IsSeq(Names)
  /\ Chunks \subseteq Seq({"a", "L", "c", "B"})

VARIABLES
  heap,     \* the live boxes of the Rust library |-> what they hold
  made,     \* how many boxes were made
  url,      \* the URL object: [box, params]; params is 0 or the id of its view
  params,   \* the URLSearchParams objects: [list, linked, refs]
  decoder,  \* the TextDecoder: [fatal, ignoreBOM, box (0 for none), bomSeen]
  stream,   \* [fed, text]: what was fed to decode() and returned since the last flush
  ops

urlVars  == <<url, params>>
textVars == <<decoder, stream>>
vars     == <<heap, made, url, params, decoder, stream, ops>>

NoUrl     == [box |-> 0, params |-> 0]
Dead      == [list |-> <<>>, linked |-> FALSE, refs |-> 0]
NoStream  == [fed |-> <<>>, text |-> <<>>]
NoDecoder == [fatal |-> FALSE, ignoreBOM |-> FALSE, box |-> 0, bomSeen |-> FALSE, live |-> FALSE]

Init ==
  /\ heap = [b \in {} |-> 0] /\ made = 0
  /\ url = NoUrl /\ params = [p \in Pids |-> Dead]
  /\ decoder = NoDecoder /\ stream = NoStream
  /\ ops = 0

Op == ops < MaxOps /\ ops' = ops + 1

Without(h, b) == [x \in DOMAIN h \ {b} |-> h[x]]
Put(h, b, value) == [x \in DOMAIN h \union {b} |-> IF x = b THEN value ELSE h[x]]
\* Box::into_raw.
Alloc(h, value) == heap' = Put(h, made + 1, value) /\ made' = made + 1

-----------------------------------------------------------------------------
(* The query string and its parameters.                                    *)

\* The entries of a list that are in keep, in their order.
Only(list, keep) ==
  LET upTo[n \in 0 .. Len(list)] ==
        IF n = 0 THEN <<>> ELSE upTo[n - 1] \o IF list[n] \in keep THEN <<list[n]>> ELSE <<>>
  IN  upTo[Len(list)]

\* paramsFromString: empty entries are skipped, a missing value is "".
ParamsOf(query) ==
  IF query = <<>> THEN <<>>
  ELSE LET kept == Only(query[1], Range(query[1]) \ {<<>>})
       IN  [i \in DOMAIN kept |-> IF Len(kept[i]) = 1 THEN Append(kept[i], "") ELSE kept[i]]

\* syncQueryFromParams: no parameter, no query; urlEncode writes every equals sign.
QueryOf(list) == IF list = <<>> THEN <<>> ELSE <<list>>

Named(list, name) == Only(list, {e \in Range(list) : e[1] = name})
Others(list, name) == Only(list, {e \in Range(list) : e[1] # name})
SetParam(list, name, value) ==
  LET hits == {i \in DOMAIN list : list[i][1] = name}
  IN  IF hits = {} THEN Append(list, <<name, value>>)
      ELSE SubSeq(list, 1, Min(hits) - 1) \o <<<<name, value>>>>
           \o Others(SubSeq(list, Min(hits) + 1, Len(list)), name)
\* A stable sort by name.
Sorted(list) ==
  LET upTo[n \in 0 .. Len(Names)] == IF n = 0 THEN <<>> ELSE upTo[n - 1] \o Named(list, Names[n])
  IN  upTo[Len(Names)]

Updates(list) ==
  {Sorted(list)}
  \union {Only(list, Range(list) \ {<<n, "1">>}) : n \in Range(Names)}
  \union UNION {{Append(list, <<n, "1">>), SetParam(list, n, "2"), Others(list, n)} : n \in Range(Names)}

-----------------------------------------------------------------------------
(* The URL object.                                                         *)

Linked == IF url.params = 0 THEN {} ELSE {url.params}
\* updateFromString on the view, when there is one.
Refreshed(query) == [p \in Pids |-> IF p \in Linked THEN [params[p] EXCEPT !.list = ParamsOf(query)]
                                    ELSE params[p]]

\* The constructor and URL.parse; a parse that fails throws before anything is made.
NewUrl ==
  /\ url = NoUrl /\ Op
  /\ \E u \in Absolutes : \E ref \in References \union {[abs |-> <<u>>, segs |-> <<>>, query |-> <<>>]} :
       /\ Alloc(heap, UrlJoin(u, ref))
       /\ url' = [box |-> made + 1, params |-> 0]
  /\ UNCHANGED <<params, textVars>>

\* The scalar setters: they write the box, and never the view of the query.
Setters(u) ==
  {SetHostname(u, t) : t \in HostTexts} \union {SetPort(u, t) : t \in PortTexts}
  \union {SetScheme(u, s) : s \in {"http", "https", "file", "abc"}}
  \union {SetUsername(u, "me"), SetPath(u, <<"C:", "">>), SetFragment(u, "f"), SetFragment(u, "")}
Set ==
  /\ url # NoUrl /\ Op
  /\ \E u \in Setters(heap[url.box]) : heap' = Put(heap, url.box, u)
  /\ UNCHANGED <<made, urlVars, textVars>>

SetHostTo(text) ==
  /\ url # NoUrl /\ Op
  /\ heap' = Put(heap, url.box, SetHost(heap[url.box], text))
  /\ UNCHANGED <<made, urlVars, textVars>>

\* A setSearch that returns early for "" and leaves the view.
SetSearch_bug ==
  /\ url # NoUrl /\ Op
  /\ \E q \in Queries \union {<<>>} :
       /\ heap' = Put(heap, url.box, SetQuery(heap[url.box], q))
       /\ params' = IF q = <<>> THEN params ELSE Refreshed(q)
  /\ UNCHANGED <<made, url, textVars>>

\* setSearch: "" clears query and view; otherwise the query as parsed refreshes the view.
SetSearch ==
  /\ url # NoUrl /\ Op
  /\ \E q \in Queries \union {<<>>} :
       /\ heap' = Put(heap, url.box, SetQuery(heap[url.box], q))
       /\ params' = Refreshed(q)
  /\ UNCHANGED <<made, url, textVars>>

\* setHref: a failed parse changes nothing; otherwise the new box replaces the old one.  The
\* value is the href of a link, resolved by Frame in a document of either encoding.
SetHref ==
  /\ url # NoUrl /\ Op
  /\ \/ UNCHANGED <<heap, made, urlVars>>
     \/ \E u \in Absolutes, ref \in References, legacy \in BOOLEAN :
          LET href == Resolve(u, ref, legacy)
          IN  /\ Alloc(Without(heap, url.box), href)
              /\ url' = [url EXCEPT !.box = made + 1]
              /\ params' = Refreshed(href.query)
  /\ UNCHANGED textVars

\* getSearchParams: the view is made once; the wrapper the script gets is a reference to it.
GetParams ==
  /\ url # NoUrl /\ Op
  /\ IF url.params # 0
     THEN /\ params' = [params EXCEPT ![url.params].refs = 2]
          /\ UNCHANGED url
     ELSE \E p \in Pids :
            /\ params[p] = Dead
            /\ \A q \in Pids : q < p => params[q] # Dead
            /\ params' = [params EXCEPT ![p] = [list |-> ParamsOf(heap[url.box].query),
                                                linked |-> TRUE, refs |-> 2]]
            /\ url' = [url EXCEPT !.params = p]
  /\ UNCHANGED <<heap, made, textVars>>

\* append, set, delete and sort, each followed by postUpdate.
UpdateParams ==
  /\ Op
  /\ \E p \in Pids :
       /\ params[p].refs > IF params[p].linked THEN 1 ELSE 0
       /\ \E list \in Updates(params[p].list) :
            /\ params' = [params EXCEPT ![p].list = list]
            /\ IF params[p].linked
               THEN heap' = Put(heap, url.box, SetQuery(heap[url.box], QueryOf(list)))
               ELSE UNCHANGED heap
  /\ UNCHANGED <<made, url, textVars>>

Released(o) == IF o.refs = 1 THEN Dead ELSE [o EXCEPT !.refs = @ - 1]

\* The collector drops the URL's wrapper: deinit unlinks the view, which may live on.
DropUrl ==
  /\ url # NoUrl
  /\ heap' = Without(heap, url.box)
  /\ params' = [p \in Pids |-> IF p \in Linked THEN Released([params[p] EXCEPT !.linked = FALSE])
                               ELSE params[p]]
  /\ url' = NoUrl
  /\ UNCHANGED <<made, textVars, ops>>

DropParams ==
  /\ \E p \in Pids :
       /\ params[p].refs > IF params[p].linked THEN 1 ELSE 0
       /\ params' = [params EXCEPT ![p] = Released(@)]
  /\ UNCHANGED <<heap, made, url, textVars, ops>>

-----------------------------------------------------------------------------
(* The text decoder.  Bytes: "a" is a character by itself, "L" the first   *)
(* and "c" the second byte of a two-byte character "e", "B" a whole        *)
(* byte-order mark.  What is malformed becomes "?".                        *)

\* One step of the decoder of encoding_rs on a byte, with what was pending.
Step(d, byte) ==
  CASE byte = "B" /\ d.start /\ ~d.pending -> [d EXCEPT !.start = FALSE]
    [] d.pending /\ byte = "c"          -> [d EXCEPT !.pending = FALSE, !.out = Append(@, "e")]
    [] d.pending /\ byte = "L"          -> [d EXCEPT !.out = Append(@, "?")]
    [] d.pending /\ byte \notin {"c", "L"} ->
         [d EXCEPT !.pending = FALSE, !.out = @ \o <<"?", byte>>]
    [] ~d.pending /\ byte = "L"         -> [d EXCEPT !.pending = TRUE, !.start = FALSE]
    [] ~d.pending /\ byte = "c"         -> [d EXCEPT !.start = FALSE, !.out = Append(@, "?")]
    [] OTHER                            -> [d EXCEPT !.start = FALSE, !.out = Append(@, byte)]

NewDecoder == [pending |-> FALSE, start |-> TRUE, out |-> <<>>]

\* decode_to_utf8: the state after the bytes, with what they produced.
Run(d, bytes, last) ==
  LET after[n \in 0 .. Len(bytes)] == IF n = 0 THEN d ELSE Step(after[n - 1], bytes[n])
      e == after[Len(bytes)]
  IN  IF last /\ e.pending THEN [e EXCEPT !.pending = FALSE, !.out = Append(@, "?")] ELSE e

Bytes(out) ==
  LET upTo[n \in 0 .. Len(out)] ==
        IF n = 0 THEN 0
        ELSE upTo[n - 1] + CASE out[n] = "a" -> 1 [] out[n] = "e" -> 2 [] OTHER -> 3
  IN  upTo[Len(out)]
\* encoding_max_utf8_buffer_length: room for a mark, and three bytes for each of the input.
Room(n) == 3 + 3 * n
Fitting(out, room) ==
  SubSeq(out, 1, Max({k \in 0..Len(out) : Bytes(SubSeq(out, 1, k)) <= room}))

StripBom(text) == IF text # <<>> /\ text[1] = "B" THEN Tail(text) ELSE text

\* The bytes an input of that many characters takes.
SizeOf(bytes) ==
  LET upTo[n \in 0 .. Len(bytes)] ==
        IF n = 0 THEN 0 ELSE upTo[n - 1] + IF bytes[n] = "B" THEN 3 ELSE 1
  IN  upTo[Len(bytes)]

NewTextDecoder ==
  /\ ~decoder.live /\ Op
  /\ \E fatal, ignore \in BOOLEAN :
       decoder' = [fatal |-> fatal, ignoreBOM |-> ignore, box |-> 0, bomSeen |-> FALSE, live |-> TRUE]
  /\ stream' = NoStream
  /\ UNCHANGED <<heap, made, urlVars>>

\* A decode that drops the decoder after a fatal error without freeing it.
Decoded_bug(h, b, run, input, last) ==
  LET failed == decoder.fatal /\ "?" \in Range(run.out)
      strip  == ~decoder.bomSeen /\ ~decoder.ignoreBOM
      text   == IF strip THEN StripBom(run.out) ELSE run.out
      old    == IF decoder.box = 0 THEN NoStream ELSE stream
  IN  /\ heap' = IF b # 0 /\ last /\ ~failed THEN Without(h, b)
                 ELSE IF b # 0 THEN Put(h, b, [run EXCEPT !.out = <<>>]) ELSE h
      /\ decoder' = [decoder EXCEPT !.box = IF failed \/ last THEN 0 ELSE b,
                                    !.bomSeen = ~failed /\ (@ \/ strip)]
      /\ stream' = IF failed THEN NoStream
                   ELSE [fed |-> old.fed \o input, text |-> old.text \o text]

\* The end of _decode and of decode: run is the Rust decoder after the input, h the heap
\* with the box b (0: the one-shot decoder), which the flush or a fatal error frees.
Decoded(h, b, run, input, last) ==
  LET failed == decoder.fatal /\ "?" \in Range(run.out)
      free   == b # 0 /\ (failed \/ last)
      out    == Fitting(run.out, Room(IF input = <<>> THEN 4 ELSE SizeOf(input)))
      strip  == ~decoder.bomSeen /\ ~decoder.ignoreBOM
      text   == IF strip THEN StripBom(out) ELSE out
      old    == IF decoder.box = 0 THEN NoStream ELSE stream
  IN  /\ heap' = IF free THEN Without(h, b)
                 ELSE IF b # 0 THEN Put(h, b, [run EXCEPT !.out = <<>>]) ELSE h
      /\ decoder' = [decoder EXCEPT !.box = IF free THEN 0 ELSE b,
                                    !.bomSeen = ~failed /\ (@ \/ strip)]
      /\ stream' = IF failed THEN NoStream
                   ELSE [fed |-> old.fed \o input, text |-> old.text \o text]

\* decode() with stream: true; the Rust decoder is made when needed, and kept.
DecodeChunk(input) ==
  /\ decoder.live /\ Op
  /\ LET new == decoder.box = 0
         b   == IF new THEN made + 1 ELSE decoder.box
         h   == IF new THEN Put(heap, b, NewDecoder) ELSE heap
     IN  /\ made' = IF new THEN b ELSE made
         /\ IF input = <<>>
            THEN /\ heap' = h
                 /\ decoder' = [decoder EXCEPT !.box = b]
                 /\ stream' = IF new THEN NoStream ELSE stream
            ELSE Decoded(h, b, Run(h[b], input, FALSE), input, FALSE)
  /\ UNCHANGED urlVars

\* A decode() without `stream' that always takes a decoder of its own.
DecodeLast_bug(input) ==
  /\ decoder.live /\ Op
  /\ Decoded(heap, decoder.box, Run(NewDecoder, input, TRUE), input, TRUE)
  /\ UNCHANGED <<made, urlVars>>

\* decode() without: it flushes the decoder of the stream, or is a stream of its own.
DecodeLast(input) ==
  /\ decoder.live /\ Op
  /\ LET d == IF decoder.box = 0 THEN NewDecoder ELSE heap[decoder.box]
     IN  Decoded(heap, decoder.box, Run(d, input, TRUE), input, TRUE)
  /\ UNCHANGED <<made, urlVars>>

\* The collector drops the wrapper: deinit frees the decoder of an open stream.
DropDecoder ==
  /\ decoder.live
  /\ heap' = Without(heap, decoder.box)
  /\ decoder' = NoDecoder /\ stream' = NoStream
  /\ UNCHANGED <<made, urlVars, ops>>

Next ==
  \/ NewUrl \/ Set \/ SetSearch \/ SetHref \/ GetParams \/ UpdateParams
  \/ \E text \in HostTexts : SetHostTo(text)
  \/ DropUrl \/ DropParams
  \/ NewTextDecoder \/ DropDecoder
  \/ \E input \in Chunks : DecodeChunk(input) \/ DecodeLast(input)

Spec == Init /\ [][Next]_vars

-----------------------------------------------------------------------------
(* The hazards: two copies of a query, two owners of a box, two setters in *)
(* one, a workaround applied where it should not, a stream cut anywhere.   *)

\* Every box of the Rust library is owned by exactly one live object, whatever the order in
\* which setHref replaces it, a stream ends, fails or stays open, and the collector drops the
\* wrappers: none leaks, none is reachable after it is freed (URL.deinit, setHref,
\* TextDecoder.decode and deinit).
BoxesExact ==
  /\ DOMAIN heap = {url.box, decoder.box} \ {0}
  /\ url.box = decoder.box => url.box = 0

\* The view and the URL stay two copies of one query ("searchParam pushes its mutations to
\* URL, so self._url is always in sync"), only while both are alive.
QueryInSync ==
  /\ \A p \in Pids : params[p].linked <=> url.params = p
  /\ \A p \in Pids : params[p].linked =>
       /\ params[p].refs > 0
       /\ params[p].list = ParamsOf(heap[url.box].query)

\* The host setter applies host and port, or neither, and a host alone keeps the port ("Validate
\* the port up-front so we never apply the host and then fail", url_set_host); only where
\* rust-url refuses every port (a file: URL, an empty host) does a valid one get lost.
HostAtomic ==
  [][\A text \in HostTexts : SetHostTo(text) =>
       LET old   == heap[url.box]
           new   == heap'[url.box]
           input == Before(text, Ends(old), 1)
       IN  \/ new = old
           \/ /\ input \in {new.host, Append(new.host, ":")}
              /\ new = [old EXCEPT !.host = new.host]
           \/ \E t \in DOMAIN PortNumber :
                /\ input = new.host \o <<":", t>> /\ PortNumber[t] <= MaxPort
                /\ new = [old EXCEPT !.host = new.host,
                                     !.port = CASE Portless(new) -> old.port
                                                [] ~Portless(new)
                                                   /\ PortNumber[t] = DefaultPort(old.scheme) -> NoPort
                                                [] OTHER -> PortNumber[t]]]_vars

\* Whatever URL a page resolves against, the drive-letter workaround changes no join that
\* rust-url got right, and no join that involves a file: URL (fix_drive_letter_join).
JoinGuarded ==
  url # NoUrl => \A ref \in References :
    LET base == heap[url.box]
        rust == RustJoin(base, ref)
    IN  "file" \in {base.scheme, rust.scheme} \/ rust = StdJoin(base, ref) => UrlJoin(base, ref) = rust

\* The text of the bytes, decoded at once; open: more may follow.
Whole(bytes, open) ==
  LET b       == IF bytes # <<>> /\ bytes[1] = "B" THEN Tail(bytes) ELSE bytes
      Char(i) == CASE b[i] = "L" /\ i = Len(b)          -> IF open THEN <<>> ELSE <<"?">>
                   [] b[i] = "L" /\ i < Len(b)          -> IF b[i + 1] = "c" THEN <<"e">> ELSE <<"?">>
                   [] b[i] = "c" /\ i > 1               -> IF b[i - 1] = "L" THEN <<>> ELSE <<"?">>
                   [] b[i] = "c" /\ i = 1               -> <<"?">>
                   [] OTHER                             -> <<b[i]>>
      upTo[n \in 0 .. Len(b)] == IF n = 0 THEN <<>> ELSE upTo[n - 1] \o Char(n)
  IN  upTo[Len(b)]

\* A mark that encoding_rs strips, and one in the same piece that the caller strips.
Doubled(bytes) == Len(bytes) > 1 /\ bytes[1] = "B" /\ bytes[2] = "B"

\* Decoding a stream in pieces gives the text of the whole, however the pieces cut its
\* characters, with or without a mark in front, after an earlier stream, after an error; a
\* fatal decoder never returns a replaced character (TextDecoder.decode; streams without a
\* doubled mark in front, and no piece ends inside a mark, which is one symbol here).
StreamedSame ==
  decoder.live => /\ Doubled(stream.fed) \/ stream.text = Whole(stream.fed, decoder.box # 0)
                  /\ decoder.fatal => "?" \notin Range(stream.text)
=============================================================================
