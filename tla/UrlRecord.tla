------------------------------ MODULE UrlRecord ------------------------------
(***************************************************************************)
(* The URL operations the page reaches through rust/html5ever/url.rs, as   *)
(* operators on a parsed URL.  The parser itself (rust-url) is external:   *)
(* only what url.rs relies on, or works around, is described.              *)
(* A URL is a record; its path is a sequence of segments, the last one ""  *)
(* when the path ends with a slash; its query is <<>> for none, or <<q>>   *)
(* with q the sequence of its entries: <<>> (empty, as between two         *)
(* ampersands), <<k>> (no equals sign) or <<k, v>>.                        *)
(***************************************************************************)
EXTENDS Integers, SequencesExt, FiniteSetsExt

CONSTANTS
  Lookalikes,     \* path segments that look like a Windows drive letter
  HostNames,      \* the non-empty hosts rust-url accepts, as sequences of characters
  PortNumber,     \* the number each string of digits in a port position denotes
  Unmappable      \* query text the document's encoding has no bytes for |-> its NCR

IsSeq(s) == s \in Seq(Range(s))
IsQuery(query) ==
  /\ IsSeq(query) /\ Len(query) <= 1
  /\ query # <<>> => /\ IsSeq(query[1])
                     /\ \A i \in DOMAIN query[1] : IsSeq(query[1][i]) /\ Len(query[1][i]) <= 2
IsUrl(url) ==
  /\ DOMAIN url = {"scheme", "host", "port", "path", "query", "fragment", "username"}
  /\ IsSeq(url.path) /\ IsQuery(url.query)
\* An absolute reference has no segments of its own.
IsRef(ref) ==
  /\ DOMAIN ref = {"abs", "segs", "query"} /\ IsSeq(ref.segs) /\ IsQuery(ref.query)
  /\ ref.abs # <<>> => ref.segs = <<>> /\ IsUrl(ref.abs[1])

MaxPort == 65535
NoPort  == -1
Special == {"http", "https", "ws", "wss", "ftp", "file"}
DefaultPort(scheme) == CASE scheme \in {"http", "ws"}   -> 80
                         [] scheme \in {"https", "wss"} -> 443
                         [] scheme = "ftp"              -> 21
                         [] OTHER                       -> NoPort

-----------------------------------------------------------------------------
(* Joining a reference to a base.  A reference is absolute (abs = <<url>>) *)
(* or a path of segments, "" first when it starts with a slash, and a      *)
(* query.                                                                  *)

Slash(path) == path # <<>> /\ Last(path) = ""

\* What the URL Standard does, but for the segments that ".." does not remove.
Stepped(path, seg, kept) ==
  CASE seg = "."  -> path
    [] seg = ".." -> IF path = <<>> \/ Last(path) \in kept THEN path ELSE Front(path)
    [] OTHER      -> Append(path, seg)
Walk(path, segs, kept) ==
  LET after[n \in 0 .. Len(segs)] == IF n = 0 THEN path ELSE Stepped(after[n - 1], segs[n], kept)
      walked == after[Len(segs)]
  IN  IF Last(segs) \in {".", ".."} THEN Append(walked, "") ELSE walked

JoinWith(base, ref, kept) ==
  IF ref.abs # <<>> THEN ref.abs[1]
  ELSE [base EXCEPT
    !.path     = IF ref.segs = <<>> THEN @
                 ELSE IF ref.segs[1] = "" THEN Walk(<<>>, Tail(ref.segs), kept)
                 ELSE Walk(Front(@), ref.segs, kept),
    !.query    = IF ref.segs = <<>> /\ ref.query = <<>> THEN @ ELSE ref.query,
    !.fragment = ""]

\* rust-url takes a drive-letter lookalike for a drive, whatever the scheme.
RustJoin(base, ref) == JoinWith(base, ref, Lookalikes)
\* The URL Standard, for the schemes other than file.
StdJoin(base, ref)  == JoinWith(base, ref, {})

\* A fix that looks at the reference and the result only.
FixDriveLetterJoin_bug(base, ref, joined) ==
  IF /\ base.scheme # "file" /\ joined.scheme # "file"
     /\ ref.segs # <<>> /\ ref.segs[1] = ".."
     /\ Slash(joined.path) /\ Len(joined.path) > 1
  THEN [joined EXCEPT !.path = Append(Front(Front(@)), "")]
  ELSE joined

FixDriveLetterJoin(base, ref, joined) ==
  IF /\ base.scheme # "file" /\ joined.scheme # "file"
     /\ ref.segs # <<>> /\ ref.segs[1] = ".."
     /\ Slash(base.path) /\ Len(base.path) > 1 /\ Last(Front(base.path)) \in Lookalikes
     /\ Slash(joined.path) /\ Len(joined.path) > 1
  THEN [joined EXCEPT !.path = Append(Front(Front(@)), "")]
  ELSE joined

UrlJoin(base, ref) == FixDriveLetterJoin(base, ref, RustJoin(base, ref))

EncodeQueryNcr(query) ==
  LET Char(c) == IF c \in DOMAIN Unmappable THEN Unmappable[c] ELSE c
  IN  [i \in DOMAIN query |-> [j \in DOMAIN query[i] |-> Char(query[i][j])]]

\* The href of a reference, in a document whose encoding is legacy or UTF-8; a
\* query the reference inherits is already encoded.
Resolve(base, ref, legacy) ==
  LET encoded == IF legacy /\ ref.query # <<>>
                 THEN [ref EXCEPT !.query = <<EncodeQueryNcr(ref.query[1])>>] ELSE ref
  IN  UrlJoin(base, encoded)

-----------------------------------------------------------------------------
(* The setters of a URL object.  Text is a sequence of characters (a run   *)
(* of digits counts as one); a setter that refuses returns the URL as is.  *)

Ends(url) == {"/", "?", "#"} \union IF url.scheme \in Special THEN {"\\"} ELSE {}

\* The text before the first character of ends that stands at or after i.
Before(text, ends, i) ==
  LET cuts == {k \in DOMAIN text : k >= i /\ text[k] \in ends}
  IN  IF cuts = {} THEN text ELSE SubSeq(text, 1, Min(cuts) - 1)

HostOk(url, host) ==
  host \in HostNames \/ (host = <<>> /\ url.scheme \notin Special \ {"file"})
SetUrlHost(url, host) == IF HostOk(url, host) THEN [url EXCEPT !.host = host] ELSE url

\* What rust-url refuses a port, and a user name, on.
Portless(url) == url.scheme = "file" \/ url.host = <<>>
SetUrlPort(url, port) ==
  IF Portless(url) THEN url
  ELSE [url EXCEPT !.port = IF port = DefaultPort(url.scheme) THEN NoPort ELSE port]

\* Where the brackets of an IPv6 literal close; 1 outside any, so that nothing is skipped.
Closing(text) ==
  IF text = <<>> \/ text[1] # "[" THEN 1
  ELSE IF \E k \in DOMAIN text : text[k] = "]" THEN Min({k \in DOMAIN text : text[k] = "]"})
  ELSE Len(text) + 1

CleanHostname(url, text) == LET cut == Before(text, Ends(url), 1)
                            IN  Before(cut, {":"}, Closing(cut))
SetHostname(url, text)   == SetUrlHost(url, CleanHostname(url, text))

ParsePort(text) == IF Len(text) = 1 /\ text[1] \in DOMAIN PortNumber /\ PortNumber[text[1]] <= MaxPort
                   THEN PortNumber[text[1]] ELSE NoPort

\* The host is applied before the port is looked at.
SetHost_bug(url, text) ==
  LET input == Before(text, Ends(url), 1)
      host  == Before(input, {":"}, Closing(input))
      rest  == SubSeq(input, Len(host) + 2, Len(input))
      named == SetUrlHost(url, host)
  IN  IF ParsePort(rest) = NoPort THEN named ELSE SetUrlPort(named, ParsePort(rest))

SetHost(url, text) ==
  LET input == Before(text, Ends(url), 1)
      host  == Before(input, {":"}, Closing(input))
      rest  == SubSeq(input, Len(host) + 2, Len(input))
      port  == ParsePort(rest)
  IN  CASE rest = <<>>                        -> SetUrlHost(url, host)
        [] rest # <<>> /\ port = NoPort       -> url
        [] rest # <<>> /\ ~HostOk(url, host)  -> url
        [] OTHER                              -> SetUrlPort(SetUrlHost(url, host), port)

\* The port setter of the object: null or "" clears it, what is no port is ignored.
SetPort(url, text) ==
  IF text = <<>> THEN SetUrlPort(url, NoPort)
  ELSE IF ParsePort(text) = NoPort THEN url ELSE SetUrlPort(url, ParsePort(text))

\* What rust-url refuses: special or not must stay, and nothing becomes a file URL.
SetScheme(url, scheme) ==
  IF \/ (scheme \in Special) # (url.scheme \in Special)
     \/ scheme = "file"
     \/ (scheme \in Special /\ url.host = <<>>)
  THEN url
  ELSE [url EXCEPT !.scheme = scheme,
                   !.port = IF @ = DefaultPort(scheme) THEN NoPort ELSE @]

SetUsername(url, name) == IF Portless(url) THEN url ELSE [url EXCEPT !.username = name]
SetPath(url, path)     == [url EXCEPT !.path = path]
SetFragment(url, text) == [url EXCEPT !.fragment = text]
SetQuery(url, query)   == [url EXCEPT !.query = query]
=============================================================================
