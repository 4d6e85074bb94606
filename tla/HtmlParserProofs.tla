-------------------------- MODULE HtmlParserProofs --------------------------
(***************************************************************************)
(* For every page, every sequence of writes and closes, every nesting and  *)
(* every interval of the poll: a terminate is noticed by every parser,     *)
(* html5ever is never entered while it runs nor after it was given up,     *)
(* what is written to it is parsed once and in order, and scripts find the *)
(* text before them complete.                                              *)
(*                                                                         *)
(* TerminateNoticed bounds what is appended after the watchdog's call.     *)
(* Polling is what keeps the bound: as long as the flag was not seen, the  *)
(* late appends and the appends left until the next poll fit an interval.  *)
(*                                                                         *)
(* NoReentry speaks of the parser's frames only. That they stay apart is   *)
(* due to the functions below them: a feed stands right above a read, a    *)
(* finish right above the code that will drop the Streaming, and what      *)
(* either has left to do decides what the Streaming looks like meanwhile.  *)
(*                                                                         *)
(* StreamOnce needs an account of what is owed: what was asked is what was *)
(* parsed, what the one feed has left and what is queued, and nothing is   *)
(* queued where nothing feeds.                                             *)
(*                                                                         *)
(* FinalTextSeen needs that no two parsers on the stack share a container, *)
(* or the text that one appends would be in the buffer of another, below a *)
(* script. Fragments are numbered by the splices below them; the document  *)
(* is shared by the page and the script-created parser, and these are kept *)
(* apart by the load state: nothing is opened before the page is parsed.   *)
(***************************************************************************)
EXTENDS HtmlParser, TLAPS, SequenceTheorems, FiniteSetTheorems

-----------------------------------------------------------------------------
(* Polling: the inductive invariant.                                       *)

\* Parser p under the terminate flag k.
Good(k, p) ==
  /\ DOMAIN p = {"run", "buf", "left", "terminated", "late"}
  /\ p.left \in 1 .. Interval /\ p.late \in 0 .. Interval - 1
  /\ ~k => p.late = 0
  /\ ~p.terminated => p.late + p.left <= Interval

PollInv ==
  /\ DOMAIN parser = 0 .. Depth
  /\ \A n \in 0 .. Depth : Good(killed, parser[n])

-----------------------------------------------------------------------------
(* One parser.                                                             *)

\* A new parser has an interval ahead and nothing late.
LEMMA NewGood == \A k : Good(k, NewParser)
  BY HtmlParserConstants DEF Good, NewParser

\* The poll of an append: until the flag is seen each late append uses up one of
\* the interval, and the poll at its end sees it.
LEMMA PolledGood ==
  ASSUME NEW p, Good(killed, p)
  PROVE  Good(killed, Polled(p))
<1>1. CASE p.terminated
  BY <1>1 DEF Polled, Poll
<1>2. CASE ~p.terminated /\ p.left > 1
  <2>1. Poll(p) = [p EXCEPT !.left = p.left - 1]
    BY <1>2 DEF Poll
  <2>2. Poll(p).terminated = p.terminated /\ Poll(p).left = p.left - 1 /\ Poll(p).late = p.late
        /\ DOMAIN Poll(p) = DOMAIN p
    BY <2>1 DEF Good
  <2>3. CASE ~killed
    <3>1. Polled(p) = Poll(p)
      BY <2>3 DEF Polled
    <3>2. p.left - 1 \in 1 .. Interval /\ p.late + (p.left - 1) <= Interval
      BY <1>2, HtmlParserConstants DEF Good
    <3> QED
      BY <2>2, <3>1, <3>2 DEF Good
  <2>4. CASE killed
    <3>1. Polled(p) = [Poll(p) EXCEPT !.late = p.late + 1]
      BY <1>2, <2>2, <2>4 DEF Polled
    <3>2. Polled(p).late = p.late + 1 /\ Polled(p).left = p.left - 1
          /\ DOMAIN Polled(p) = DOMAIN p
      BY <2>2, <3>1 DEF Good
    <3>3. /\ p.left - 1 \in 1 .. Interval /\ p.late + 1 \in 0 .. Interval - 1
          /\ (p.late + 1) + (p.left - 1) <= Interval
      BY <1>2, HtmlParserConstants DEF Good
    <3> QED
      BY <2>4, <3>2, <3>3 DEF Good
  <2> QED
    BY <2>3, <2>4
<1>3. CASE ~p.terminated /\ ~(p.left > 1)
  <2>1. Poll(p) = [p EXCEPT !.left = Interval, !.terminated = killed]
    BY <1>3 DEF Poll
  <2>2. Poll(p).terminated = killed /\ Poll(p).left = Interval /\ Poll(p).late = p.late
        /\ DOMAIN Poll(p) = DOMAIN p
    BY <2>1 DEF Good
  <2>3. Polled(p) = Poll(p)
    BY <2>2 DEF Polled
  <2> QED
    BY <2>2, <2>3, HtmlParserConstants DEF Good
<1> QED
  BY <1>1, <1>2, <1>3

\* The pending text is no matter of the poll.
LEMMA TextGood ==
  ASSUME NEW k, NEW p, Good(k, p), NEW run, NEW buf
  PROVE  /\ Good(k, [p EXCEPT !.run = run, !.buf = buf])
         /\ Good(k, [p EXCEPT !.buf = buf])
         /\ Good(k, [NoRun(p) EXCEPT !.run = run])
         /\ Good(k, NoRun(p))
  BY DEF Good, NoRun

-----------------------------------------------------------------------------
(* Polling: the steps.                                                     *)
\* At first no parser has appended anything.
LEMMA InitInv == Init => PollInv
  BY NewGood DEF Init, PollInv

\* A step that sets one parser to a good one.
LEMMA OneParser ==
  ASSUME PollInv, killed' = killed, NEW c, NEW q, c \in 0 .. Depth => Good(killed, q),
         parser' = [parser EXCEPT ![c] = q]
  PROVE  PollInv'
  BY DEF PollInv

\* A step that leaves the parsers alone.
LEMMA NoParser ==
  ASSUME PollInv, killed' = killed, parser' = parser
  PROVE  PollInv'
  BY DEF PollInv

\* The flag is only ever set.
LEMMA FlagSet ==
  ASSUME PollInv, killed' = TRUE, parser' = parser
  PROVE  PollInv'
  BY DEF PollInv, Good

\* The appends, of a parser that is good after its poll.
LEMMA AppendSteps ==
  ASSUME PollInv, killed' = killed, NEW c, NEW p, c \in 0 .. Depth => Good(killed, p), NEW x,
         AppendTextChunk(c, p, x) \/ AppendNode(c, p, x) \/ AppendFoster(c, p, x)
  PROVE  PollInv'
<1>1. CASE AppendNode(c, p, x)
  <2>1. parser' = [parser EXCEPT ![c] = NoRun(p)]
    BY <1>1 DEF AppendNode
  <2> QED
    BY <2>1, TextGood, OneParser
<1>2. CASE AppendTextChunk(c, p, x)
  <2> DEFINE joined(ids) == [p EXCEPT !.buf = ids \o <<x>>]
             new(nodes) == [p EXCEPT !.run = Last(nodes).id, !.buf = Append(Last(nodes).ids, x)]
             first == [NoRun(p) EXCEPT !.run = x]
  <2>1. \/ \E ids : parser' = [parser EXCEPT ![c] = joined(ids)]
        \/ \E nodes : parser' = [parser EXCEPT ![c] = new(nodes)]
        \/ parser' = [parser EXCEPT ![c] = first]
    BY <1>2 DEF AppendTextChunk
  <2>2. c \in 0 .. Depth => /\ \A ids : Good(killed, joined(ids))
                            /\ \A nodes : Good(killed, new(nodes))
                            /\ Good(killed, first)
    BY TextGood
  <2> HIDE DEF joined, new, first
  <2> QED
    BY <2>1, <2>2, OneParser
<1>3. CASE AppendFoster(c, p, x)
  <2>1. CASE AppendTextChunk(c, p, x)
    BY <1>2, <2>1
  <2>2. CASE parser' = [parser EXCEPT ![c] = NoRun(p)]
    BY <2>2, TextGood, OneParser
  <2> QED
    BY <1>3, <2>1, <2>2 DEF AppendFoster
<1> QED
  BY <1>1, <1>2, <1>3

\* A token of the innermost parser: the append is polled, and dropped if terminated.
LEMMA PollSteps ==
  ASSUME PollInv, TextToken \/ ScriptToken \/ AppendCustom
  PROVE  PollInv'
<1> DEFINE p == Polled(parser[C])
<1>1. C \in 0 .. Depth => Good(killed, p)
  BY PolledGood DEF PollInv
<1>2. killed' = killed
  BY DEF TextToken, ScriptToken, AppendCustom, Rest
<1>3. \/ parser' = [parser EXCEPT ![C] = p]
      \/ \E x : AppendTextChunk(C, p, x) \/ AppendNode(C, p, x) \/ AppendFoster(C, p, x)
  <2>1. CASE TextToken
    BY <2>1 DEF TextToken
  <2>2. CASE ScriptToken
    BY <2>2 DEF ScriptToken
  <2>3. CASE AppendCustom
    BY <2>3 DEF AppendCustom
  <2> QED
    BY <2>1, <2>2, <2>3
<1> HIDE DEF p
<1>4. CASE parser' = [parser EXCEPT ![C] = p]
  BY <1>1, <1>2, <1>4, OneParser
<1>5. CASE \E x : AppendTextChunk(C, p, x) \/ AppendNode(C, p, x) \/ AppendFoster(C, p, x)
  BY <1>1, <1>2, <1>5, AppendSteps
<1> QED
  BY <1>3, <1>4, <1>5

\* The end of a parse, in order or by a panic, flushes the text.
LEMMA EndSteps ==
  ASSUME PollInv, PanicToken \/ EndParse
  PROVE  PollInv'
<1>1. killed' = killed
  BY DEF PanicToken, EndParse, Rest
<1>2. \/ parser' = parser
      \/ \E c : parser' = [parser EXCEPT ![c] = NoRun(parser[c])]
  <2>1. CASE PanicToken
    BY <2>1 DEF PanicToken
  <2>2. CASE EndParse
    BY <2>2 DEF EndParse, Page_
  <2> QED
    BY <2>1, <2>2
<1>3. CASE parser' = parser
  BY <1>1, <1>3, NoParser
<1>4. ASSUME NEW c, parser' = [parser EXCEPT ![c] = NoRun(parser[c])] PROVE PollInv'
  <2>1. c \in 0 .. Depth => Good(killed, NoRun(parser[c]))
    BY TextGood DEF PollInv
  <2> QED
    BY <1>1, <1>4, <2>1, OneParser
<1> QED
  BY <1>2, <1>3, <1>4

\* A write makes a parser, for a fragment or for the document, or uses one.
LEMMA WriteSteps ==
  ASSUME PollInv, NEW kinds, WriteInline(kinds) \/ WriteStream(kinds)
  PROVE  PollInv'
<1>1. killed' = killed
  BY DEF WriteInline, WriteStream, Counted, Crash
<1>2. parser' = parser \/ \E c : parser' = [parser EXCEPT ![c] = NewParser]
  <2>1. CASE WriteInline(kinds)
    BY <2>1 DEF WriteInline, Page_
  <2>2. CASE WriteStream(kinds)
    BY <2>2 DEF WriteStream, Crash, Page_
  <2> QED
    BY <2>1, <2>2
<1>3. CASE parser' = parser
  BY <1>1, <1>3, NoParser
<1>4. ASSUME NEW c, parser' = [parser EXCEPT ![c] = NewParser] PROVE PollInv'
  BY <1>1, <1>4, NewGood, OneParser
<1> QED
  BY <1>2, <1>3, <1>4

\* The end of a script-created parser: what is open is flushed.
LEMMA FinishSteps ==
  ASSUME PollInv, WriteDone \/ Close
  PROVE  PollInv'
<1>1. killed' = killed /\ (parser' = parser \/ parser' = [parser EXCEPT ![0] = NoRun(parser[0])])
  <2>1. ASSUME NEW below, Finish(below)
        PROVE  /\ killed' = killed
               /\ parser' = parser \/ parser' = [parser EXCEPT ![0] = NoRun(parser[0])]
    BY <2>1 DEF Finish, Page_
  <2>2. CASE WriteDone
    BY <2>1, <2>2 DEF WriteDone, Crash, Page_, Rest
  <2>3. CASE Close
    BY <2>1, <2>3 DEF Close, Crash, Page_
  <2> QED
    BY <2>2, <2>3
<1>2. 0 \in 0 .. Depth => Good(killed, NoRun(parser[0]))
  BY TextGood DEF PollInv
<1> QED
  BY <1>1, <1>2, OneParser, NoParser

\* Everything else.
LEMMA OtherSteps ==
  ASSUME PollInv,
         \/ SwallowToken \/ CreateCustom \/ EndJs \/ Splice \/ CallThrows \/ ReadMore \/ Detach
         \/ FinishScripts \/ FinishComplete \/ FinishDrop
         \/ EvaluateScripts \/ HookLoaded \/ (\E pending \in BOOLEAN : HookComplete(pending))
         \/ EvaluateEnd \/ PageDone \/ Task \/ LoadsDone
  PROVE  PollInv'
<1>1. killed' = killed /\ parser' = parser
  BY DEF SwallowToken, CreateCustom, EndJs, Splice, CallThrows, ReadMore, Detach,
         FinishScripts, FinishComplete, FinishDrop, EvaluateScripts, HookLoaded, HookComplete,
         EvaluateEnd, PageDone, Task, LoadsDone, Page_, Rest, Counted
<1> QED
  BY <1>1, NoParser

-----------------------------------------------------------------------------
(* Polling: the theorem.                                                   *)

\* Every step keeps every parser's account of the poll.
LEMMA StepKeeps == PollInv /\ [Next]_vars => PollInv'
<1> SUFFICES ASSUME PollInv, [Next]_vars PROVE PollInv'
  OBVIOUS
<1>1. CASE UNCHANGED vars
  BY <1>1, NoParser DEF vars
<1>2. CASE Terminate
  BY <1>2, FlagSet DEF Terminate, Page_
<1>3. CASE \E kinds \in Chunks : WriteInline(kinds) \/ WriteStream(kinds)
  BY <1>3, WriteSteps
<1>4. CASE TextToken \/ ScriptToken \/ AppendCustom \/ PanicToken \/ EndParse \/ WriteDone \/ Close
  BY <1>4, PollSteps, EndSteps, FinishSteps
<1> QED
  BY <1>1, <1>2, <1>3, <1>4, OtherSteps DEF Next

\* A parse appends fewer than TERMINATE_CHECK_INTERVAL nodes after the watchdog
\* asked for its end (Parser.pollTerminate).
THEOREM TerminateIsNoticed == Spec => []TerminateNoticed
<1>1. PollInv => TerminateNoticed
  BY HtmlParserConstants DEF PollInv, Good, TerminateNoticed
<1> QED
  BY <1>1, InitInv, StepKeeps, PTL DEF Spec

-----------------------------------------------------------------------------
(* No re-entry: the inductive invariant.                                   *)

SomeSeq(s) == \E S : s \in Seq(S)

Reads(fr)    == fr.f = "read"
Finished(fr) == fr.f = "finished"
FeedIn(fr)   == fr.f = "parse" /\ fr.of = "feed"
FinishIn(fr) == fr.f = "parse" /\ fr.of = "finish"
Busy(fr)     == Reads(fr) \/ FinishIn(fr)
WellFramed(fr) == "f" \in DOMAIN fr /\ (fr.f = "parse" => "of" \in DOMAIN fr)

\* A stack s and a Streaming c that fit each other.
Fits(s, c) ==
  /\ SomeSeq(s) /\ \A i \in DOMAIN s : WellFramed(s[i])
  /\ \A i, j \in DOMAIN s : Busy(s[i]) /\ Busy(s[j]) => i = j
  /\ \A i, j \in DOMAIN s : Finished(s[i]) /\ Finished(s[j]) => i = j
  /\ \A i \in DOMAIN s : FeedIn(s[i]) => i > 1 /\ Reads(s[i - 1])
  /\ \A i \in DOMAIN s : FinishIn(s[i]) => i > 1 /\ Finished(s[i - 1])
  /\ \A i \in DOMAIN s : Reads(s[i]) => c.live /\ c.handle
  /\ \A i \in DOMAIN s : Finished(s[i]) => c.live /\ ~c.handle
  /\ c.feeding <=> \E i \in DOMAIN s : Busy(s[i])

Fields == {"live", "handle", "feeding", "pending", "open", "asked", "parsed"}

IInv == Fits(stack, scp) /\ DOMAIN scp = Fields

-----------------------------------------------------------------------------
(* Sequences of anything.                                                  *)

\* A sequence and its indices.
LEMMA SeqShape ==
  ASSUME NEW s, SomeSeq(s)
  PROVE  Len(s) \in Nat /\ DOMAIN s = 1 .. Len(s) /\ (s # <<>> => Len(s) \in DOMAIN s)
<1>1. PICK S : s \in Seq(S)
  BY DEF SomeSeq
<1>2. Len(s) \in Nat /\ DOMAIN s = 1 .. Len(s)
  BY <1>1, LenProperties
<1>3. s # <<>> => Len(s) \in Nat \ {0}
  BY <1>1, EmptySeq
<1> QED
  BY <1>2, <1>3

\* One element more.
LEMMA PushSeq ==
  ASSUME NEW s, SomeSeq(s), NEW x
  PROVE  /\ SomeSeq(Append(s, x)) /\ Append(s, x) # <<>>
         /\ Len(Append(s, x)) = Len(s) + 1
         /\ DOMAIN Append(s, x) = DOMAIN s \union {Len(s) + 1}
         /\ \A i \in DOMAIN s : Append(s, x)[i] = s[i]
         /\ Append(s, x)[Len(s) + 1] = x
<1>1. PICK S : s \in Seq(S)
  BY DEF SomeSeq
<1> DEFINE T == S \union {x}
<1>2. s \in Seq(T) /\ x \in T
  BY <1>1, SeqMonotonic
<1> HIDE DEF T
<1>3. /\ Append(s, x) \in Seq(T) /\ Append(s, x) # <<>> /\ Len(Append(s, x)) = Len(s) + 1
      /\ \A i \in 1 .. Len(s) : Append(s, x)[i] = s[i]
      /\ Append(s, x)[Len(s) + 1] = x
  BY <1>2, AppendProperties
<1>4. SomeSeq(Append(s, x))
  BY <1>3 DEF SomeSeq
<1>5. DOMAIN Append(s, x) = 1 .. Len(s) + 1 /\ DOMAIN s = 1 .. Len(s) /\ Len(s) \in Nat
  BY <1>3, <1>4, SeqShape
<1>6. 1 .. Len(s) + 1 = 1 .. Len(s) \union {Len(s) + 1}
  BY <1>5
<1> QED
  BY <1>3, <1>4, <1>5, <1>6

\* The first elements.
LEMMA CutSeq ==
  ASSUME NEW s, SomeSeq(s), NEW k \in 1 .. Len(s) + 1
  PROVE  /\ SomeSeq(SubSeq(s, 1, k - 1)) /\ DOMAIN SubSeq(s, 1, k - 1) = 1 .. k - 1
         /\ Len(SubSeq(s, 1, k - 1)) = k - 1
         /\ \A i \in 1 .. k - 1 : i \in DOMAIN s /\ SubSeq(s, 1, k - 1)[i] = s[i]
<1>1. PICK S : s \in Seq(S)
  BY DEF SomeSeq
<1>2. Len(s) \in Nat /\ DOMAIN s = 1 .. Len(s)
  BY SeqShape
<1>3. k - 1 \in Int /\ 1 \in Int /\ \A i \in 1 .. k - 1 : i \in 1 .. Len(s)
  BY <1>2
<1>4. \A i \in 1 .. k - 1 : s[i] \in S
  BY <1>1, <1>3, ElementOfSeq
<1>5. /\ SubSeq(s, 1, k - 1) \in Seq(S)
      /\ Len(SubSeq(s, 1, k - 1)) = IF 1 <= k - 1 THEN (k - 1) - 1 + 1 ELSE 0
      /\ \A i \in 1 .. (k - 1) - 1 + 1 : SubSeq(s, 1, k - 1)[i] = s[1 + i - 1]
  BY <1>3, <1>4, SubSeqProperties
<1>6. Len(SubSeq(s, 1, k - 1)) = k - 1
  BY <1>2, <1>5
<1>7. \A i \in 1 .. k - 1 : SubSeq(s, 1, k - 1)[i] = s[i]
  <2> SUFFICES ASSUME NEW i \in 1 .. k - 1 PROVE SubSeq(s, 1, k - 1)[i] = s[i]
    OBVIOUS
  <2>1. i \in 1 .. (k - 1) - 1 + 1 /\ 1 + i - 1 = i
    BY <1>2
  <2> QED
    BY <1>5, <2>1
<1>8. SomeSeq(SubSeq(s, 1, k - 1))
  BY <1>5 DEF SomeSeq
<1> QED
  BY <1>2, <1>3, <1>6, <1>7, <1>8, SeqShape

\* All but the last.
LEMMA FrontSeq ==
  ASSUME NEW s, SomeSeq(s), s # <<>>
  PROVE  /\ SomeSeq(Front(s)) /\ DOMAIN s = DOMAIN Front(s) \union {Len(s)}
         /\ Len(Front(s)) = Len(s) - 1 /\ Len(s) \notin DOMAIN Front(s)
         /\ \A i \in DOMAIN Front(s) : Front(s)[i] = s[i]
<1>1. Len(s) \in Nat \ {0} /\ DOMAIN s = 1 .. Len(s)
  BY SeqShape
<1>2. Len(s) \in 1 .. Len(s) + 1
  BY <1>1
<1>3. /\ SomeSeq(SubSeq(s, 1, Len(s) - 1)) /\ DOMAIN SubSeq(s, 1, Len(s) - 1) = 1 .. Len(s) - 1
      /\ Len(SubSeq(s, 1, Len(s) - 1)) = Len(s) - 1
      /\ \A i \in 1 .. Len(s) - 1 : SubSeq(s, 1, Len(s) - 1)[i] = s[i]
  BY <1>2, CutSeq
<1>4. 1 .. Len(s) = 1 .. Len(s) - 1 \union {Len(s)} /\ Len(s) \notin 1 .. Len(s) - 1
  BY <1>1
<1> QED
  BY <1>1, <1>3, <1>4 DEF Front

\* Calls are pushed one after the other.
LEMMA TwoCalls ==
  ASSUME NEW s, SomeSeq(s), NEW a, NEW b
  PROVE  s \o <<a>> = Append(s, a) /\ s \o <<a, b>> = Append(Append(s, a), b)
<1>1. PICK S : s \in Seq(S)
  BY DEF SomeSeq
<1> DEFINE T == S \union {a, b}
<1>2. s \in Seq(T) /\ a \in T /\ b \in T
  BY <1>1, SeqMonotonic
<1> HIDE DEF T
<1>3. <<a>> \in Seq(T) /\ <<b>> \in Seq(T)
  BY <1>2
<1>4. s \o <<a>> = Append(s, a) /\ Append(s, a) \in Seq(T)
  BY <1>2, AppendIsConcat, AppendProperties
<1>5. Append(Append(s, a), b) = Append(s, a) \o <<b>>
  BY <1>2, <1>4, AppendIsConcat
<1>6. (s \o <<a>>) \o <<b>> = s \o (<<a>> \o <<b>>)
  BY <1>2, <1>3, ConcatAssociative
<1>7. <<a>> \o <<b>> = <<a, b>>
  <2> DEFINE one == <<a>> two == <<b>>
  <2>1. one \in Seq(T) /\ two \in Seq(T) /\ Len(one) = 1 /\ Len(two) = 1
        /\ one[1] = a /\ two[1] = b
    BY <1>2
  <2> HIDE DEF one, two
  <2>2. /\ one \o two \in Seq(T) /\ Len(one \o two) = 2
        /\ \A i \in 1 .. 2 : (one \o two)[i] = IF i <= 1 THEN one[i] ELSE two[i - 1]
    BY <2>1, ConcatProperties
  <2>3. (one \o two)[1] = a /\ (one \o two)[2] = b
    BY <2>1, <2>2
  <2>4. <<a, b>> \in Seq(T) /\ Len(<<a, b>>) = 2 /\ <<a, b>>[1] = a /\ <<a, b>>[2] = b
    BY <1>2
  <2>5. \A i \in 1 .. 2 : (one \o two)[i] = <<a, b>>[i]
    <3> SUFFICES ASSUME NEW i \in 1 .. 2 PROVE (one \o two)[i] = <<a, b>>[i]
      OBVIOUS
    <3>1. i = 1 \/ i = 2
      OBVIOUS
    <3>2. CASE i = 1
      BY <2>3, <3>2
    <3>3. CASE i = 2
      BY <2>3, <3>3
    <3> QED
      BY <3>1, <3>2, <3>3
  <2>6. one \o two = <<a, b>>
    BY <2>2, <2>4, <2>5, SeqEqual
  <2> QED
    BY <2>6 DEF one, two
<1> QED
  BY <1>4, <1>5, <1>6, <1>7

-----------------------------------------------------------------------------
(* Calls and returns.                                                      *)

Plain(fr) == WellFramed(fr) /\ ~Busy(fr) /\ ~Finished(fr) /\ ~FeedIn(fr)
SameFlags(c, d) == d.live = c.live /\ d.handle = c.handle /\ d.feeding = c.feeding

\* What else the Streaming holds is of no matter.
LEMMA FlagsFit == ASSUME NEW s, NEW c, NEW d, Fits(s, c), SameFlags(c, d) PROVE Fits(s, d)
  BY DEF Fits, SameFlags

\* A call, with the Streaming it leaves: it must be one that fits, called from where it
\* belongs.
LEMMA PushFrame ==
  ASSUME NEW s, NEW c, Fits(s, c), NEW fr, WellFramed(fr), NEW d,
         Busy(fr) => \A i \in DOMAIN s : ~Busy(s[i]),
         Finished(fr) => \A i \in DOMAIN s : ~Finished(s[i]),
         FeedIn(fr) => s # <<>> /\ Reads(Last(s)),
         FinishIn(fr) => s # <<>> /\ Finished(Last(s)),
         Reads(fr) \/ (\E i \in DOMAIN s : Reads(s[i])) => d.live /\ d.handle,
         Finished(fr) \/ (\E i \in DOMAIN s : Finished(s[i])) => d.live /\ ~d.handle,
         d.feeding <=> Busy(fr) \/ \E i \in DOMAIN s : Busy(s[i])
  PROVE  Fits(Append(s, fr), d)
<1> DEFINE t == Append(s, fr) n == Len(s) + 1
<1>1. /\ SomeSeq(t) /\ DOMAIN t = DOMAIN s \union {n}
      /\ (\A i \in DOMAIN s : t[i] = s[i]) /\ t[n] = fr
  BY PushSeq DEF Fits
<1>2. DOMAIN s = 1 .. Len(s) /\ Len(s) \in Nat /\ (s # <<>> => Len(s) \in DOMAIN s)
  BY SeqShape DEF Fits
<1>3. n \notin DOMAIN s /\ n - 1 = Len(s) /\ (n - 1 \in DOMAIN s => n > 1)
  BY <1>2
<1>4. \A i \in DOMAIN s : i > 1 => i - 1 \in DOMAIN s
  BY <1>2
<1> HIDE DEF t, n
<1>5. \A i \in DOMAIN t : WellFramed(t[i])
  BY <1>1 DEF Fits
<1>6. \A i, j \in DOMAIN t : Busy(t[i]) /\ Busy(t[j]) => i = j
  BY <1>1 DEF Fits
<1>7. \A i, j \in DOMAIN t : Finished(t[i]) /\ Finished(t[j]) => i = j
  BY <1>1 DEF Fits
<1>8. /\ \A i \in DOMAIN t : Reads(t[i]) => d.live /\ d.handle
      /\ \A i \in DOMAIN t : Finished(t[i]) => d.live /\ ~d.handle
  BY <1>1
<1>9. \A i \in DOMAIN t : FeedIn(t[i]) => i > 1 /\ Reads(t[i - 1])
  <2>1. \A i \in DOMAIN s : FeedIn(s[i]) => i > 1 /\ Reads(t[i - 1])
    BY <1>1, <1>4 DEF Fits
  <2>2. FeedIn(fr) => n > 1 /\ Reads(t[n - 1])
    BY <1>1, <1>2, <1>3 DEF Last
  <2> QED
    BY <1>1, <2>1, <2>2
<1>10. \A i \in DOMAIN t : FinishIn(t[i]) => i > 1 /\ Finished(t[i - 1])
  <2>1. \A i \in DOMAIN s : FinishIn(s[i]) => i > 1 /\ Finished(t[i - 1])
    BY <1>1, <1>4 DEF Fits
  <2>2. FinishIn(fr) => n > 1 /\ Finished(t[n - 1])
    BY <1>1, <1>2, <1>3 DEF Last
  <2> QED
    BY <1>1, <2>1, <2>2
<1>11. d.feeding <=> \E i \in DOMAIN t : Busy(t[i])
  BY <1>1
<1> QED
  BY <1>1, <1>5, <1>6, <1>7, <1>8, <1>9, <1>10, <1>11 DEF Fits, t

\* A call of anything else than a parser and what surrounds it.
LEMMA PushPlain ==
  ASSUME NEW s, NEW c, Fits(s, c), NEW fr, Plain(fr)
  PROVE  Fits(Append(s, fr), c)
<1>1. ~Busy(fr) /\ ~Reads(fr) /\ ~FinishIn(fr) /\ ~Finished(fr) /\ ~FeedIn(fr) /\ WellFramed(fr)
  BY DEF Plain, Busy
<1>2. /\ \A i \in DOMAIN s : Reads(s[i]) => c.live /\ c.handle
      /\ \A i \in DOMAIN s : Finished(s[i]) => c.live /\ ~c.handle
      /\ c.feeding <=> \E i \in DOMAIN s : Busy(s[i])
  BY DEF Fits
<1> QED
  BY <1>1, <1>2, PushFrame

\* A return of anything that is no call of a parser's.
LEMMA PopOther ==
  ASSUME NEW s, NEW c, Fits(s, c), s # <<>>, ~Busy(Last(s)), ~Finished(Last(s))
  PROVE  Fits(Front(s), c)
<1> DEFINE t == Front(s)
<1>1. /\ SomeSeq(t) /\ DOMAIN s = DOMAIN t \union {Len(s)} /\ Len(t) = Len(s) - 1
      /\ \A i \in DOMAIN t : t[i] = s[i]
  BY FrontSeq DEF Fits
<1>2. DOMAIN t = 1 .. Len(t) /\ Len(t) \in Nat
  BY <1>1, SeqShape
<1> HIDE DEF t
<1>3. \A i \in DOMAIN s : i \notin DOMAIN t => s[i] = Last(s)
  BY <1>1 DEF Last
<1>4. \A i \in DOMAIN t : i \in DOMAIN s /\ t[i] = s[i] /\ (i > 1 => i - 1 \in DOMAIN t)
  <2>1. \A i \in DOMAIN t : i > 1 => i - 1 \in DOMAIN t
    BY <1>2
  <2> QED
    BY <1>1, <2>1
<1>5. \A i \in DOMAIN s : Busy(s[i]) => i \in DOMAIN t
  BY <1>3
<1>6. /\ \A i \in DOMAIN t : WellFramed(t[i])
      /\ \A i, j \in DOMAIN t : Busy(t[i]) /\ Busy(t[j]) => i = j
      /\ \A i, j \in DOMAIN t : Finished(t[i]) /\ Finished(t[j]) => i = j
      /\ \A i \in DOMAIN t : Reads(t[i]) => c.live /\ c.handle
      /\ \A i \in DOMAIN t : Finished(t[i]) => c.live /\ ~c.handle
  BY <1>4 DEF Fits
<1>7. /\ \A i \in DOMAIN t : FeedIn(t[i]) => i > 1 /\ Reads(t[i - 1])
      /\ \A i \in DOMAIN t : FinishIn(t[i]) => i > 1 /\ Finished(t[i - 1])
  BY <1>4 DEF Fits
<1>8. c.feeding <=> \E i \in DOMAIN t : Busy(t[i])
  BY <1>4, <1>5 DEF Fits
<1> QED
  BY <1>1, <1>6, <1>7, <1>8 DEF Fits, t

\* The top frame goes on: it stays the function it is.
SameCall(fr, gr) == WellFramed(fr) /\ fr.f = gr.f /\ (gr.f = "parse" => fr.of = gr.of)

\* The top frame goes on and the frames below it stay.
LEMMA SwapTop ==
  ASSUME NEW s, NEW c, Fits(s, c), s # <<>>, NEW fr, SameCall(fr, Last(s))
  PROVE  Fits(Append(Front(s), fr), c)
<1> DEFINE r == Front(s) t == Append(r, fr)
<1>1. /\ SomeSeq(r) /\ DOMAIN s = DOMAIN r \union {Len(s)}
      /\ Len(r) = Len(s) - 1 /\ Len(s) \notin DOMAIN r
      /\ \A i \in DOMAIN r : r[i] = s[i]
  BY FrontSeq DEF Fits
<1> HIDE DEF r
<1>2. Len(s) \in Nat /\ DOMAIN s = 1 .. Len(s)
  BY SeqShape DEF Fits
<1>3. /\ SomeSeq(t) /\ DOMAIN t = DOMAIN r \union {Len(r) + 1}
      /\ \A i \in DOMAIN r : t[i] = r[i]
      /\ t[Len(r) + 1] = fr
  <2>1. SomeSeq(r)
    BY <1>1
  <2> QED
    BY <2>1, PushSeq
<1>4. Len(r) + 1 = Len(s)
  <2>1. Len(r) = Len(s) - 1
    BY <1>1
  <2> QED
    BY <1>2, <2>1
<1> HIDE DEF t
<1>5. DOMAIN t = DOMAIN s
  BY <1>1, <1>3, <1>4
<1>6. \A i \in DOMAIN s : WellFramed(t[i]) /\ (t[i] = s[i] \/ SameCall(t[i], s[i]))
  BY <1>1, <1>3, <1>4 DEF Fits, Last, SameCall
<1>7. \A i \in DOMAIN s : /\ Reads(t[i]) <=> Reads(s[i])
                          /\ Finished(t[i]) <=> Finished(s[i])
                          /\ FeedIn(t[i]) <=> FeedIn(s[i])
                          /\ FinishIn(t[i]) <=> FinishIn(s[i])
                          /\ Busy(t[i]) <=> Busy(s[i])
  BY <1>6 DEF SameCall, Reads, Finished, FeedIn, FinishIn, Busy
<1>8. \A i \in DOMAIN s : i > 1 => i - 1 \in DOMAIN s
  BY <1>2
<1>9. /\ \A i, j \in DOMAIN s : Busy(t[i]) /\ Busy(t[j]) => i = j
      /\ \A i, j \in DOMAIN s : Finished(t[i]) /\ Finished(t[j]) => i = j
      /\ \A i \in DOMAIN s : Reads(t[i]) => c.live /\ c.handle
      /\ \A i \in DOMAIN s : Finished(t[i]) => c.live /\ ~c.handle
      /\ c.feeding <=> \E i \in DOMAIN s : Busy(t[i])
  BY <1>7 DEF Fits
<1>10. /\ \A i \in DOMAIN s : FeedIn(t[i]) => i > 1 /\ Reads(t[i - 1])
       /\ \A i \in DOMAIN s : FinishIn(t[i]) => i > 1 /\ Finished(t[i - 1])
  BY <1>7, <1>8 DEF Fits
<1> QED
  BY <1>3, <1>5, <1>6, <1>9, <1>10 DEF Fits, r, t

\* A return, possibly of many calls at once, after which nothing is read or finished.
LEMMA CutFits ==
  ASSUME NEW s, NEW c, Fits(s, c), NEW k \in 1 .. Len(s) + 1, NEW d, ~d.feeding,
         \A i \in 1 .. k - 1 : ~Reads(s[i]) /\ ~Finished(s[i])
  PROVE  Fits(SubSeq(s, 1, k - 1), d)
<1> DEFINE t == SubSeq(s, 1, k - 1)
<1>1. /\ SomeSeq(t) /\ DOMAIN t = 1 .. k - 1
      /\ \A i \in 1 .. k - 1 : i \in DOMAIN s /\ t[i] = s[i]
  BY CutSeq DEF Fits
<1>2. Len(s) \in Nat
  BY SeqShape DEF Fits
<1> HIDE DEF t
<1>3. \A i \in DOMAIN t : i > 1 => i - 1 \in DOMAIN t
  BY <1>1, <1>2
<1>4. \A i \in DOMAIN t : ~Reads(t[i]) /\ ~Finished(t[i]) /\ WellFramed(t[i])
  BY <1>1 DEF Fits
<1>5. \A i \in DOMAIN t : ~FeedIn(t[i]) /\ ~FinishIn(t[i])
  <2>1. \A i \in DOMAIN t : /\ FeedIn(t[i]) => i > 1 /\ Reads(s[i - 1])
                            /\ FinishIn(t[i]) => i > 1 /\ Finished(s[i - 1])
    BY <1>1 DEF Fits
  <2> QED
    BY <1>1, <1>3, <1>4, <2>1
<1> QED
  BY <1>1, <1>4, <1>5 DEF Fits, Busy, t

\* The Streaming may be replaced when nothing reads or finishes it.
LEMMA IdleFits ==
  ASSUME NEW s, NEW c, Fits(s, c), NEW d, ~d.feeding,
         \A i \in DOMAIN s : ~Reads(s[i]) /\ ~Finished(s[i])
  PROVE  Fits(s, d)
<1>1. DOMAIN s = 1 .. Len(s)
  BY SeqShape DEF Fits
<1>2. \A i \in DOMAIN s : i > 1 => i - 1 \in DOMAIN s
  BY <1>1, SeqShape DEF Fits
<1>3. \A i \in DOMAIN s : ~FeedIn(s[i]) /\ ~FinishIn(s[i])
  BY <1>2 DEF Fits
<1> QED
  BY <1>3 DEF Fits, Busy

\* A step that leaves the stack as it was below, with at most one plain call on top.
Grows(below) == stack' = below \/ \E fr : Plain(fr) /\ stack' = Append(below, fr)

\* A call on frames that fit.
LEMMA GrowsFit ==
  ASSUME NEW below, NEW c, Fits(below, c), Grows(below)
  PROVE  Fits(stack', c)
  BY PushPlain DEF Grows

-----------------------------------------------------------------------------
(* The pieces of steps.                                                    *)

\* Scripts, evaluations, fragments and the end of a write are plain calls.
LEMMA PlainCalls ==
  /\ \A from, by : Plain(JsFrame(from, by))
  /\ Plain([f |-> "evaluate", stage |-> "scripts"])
  /\ Plain(Frame("written"))
  /\ \A n, tokens : Plain(ParseFrame("fragment", n, tokens))
  /\ \A n, id, c : Plain([f |-> "splice", n |-> n, script |-> id, parent |-> c])
  BY DEF Plain, WellFramed, Busy, Reads, Finished, FinishIn, FeedIn, JsFrame, Frame, ParseFrame

\* What runs scripts calls one function at most.
LEMMA ScriptCalls ==
  ASSUME NEW below
  PROVE  /\ \A from, id : Eval(from, id, below) => Grows(below)
         /\ \A from, by : Notify(from, by, below) => Grows(below)
         /\ \A sm1 : Evaluate(below, sm1) => Grows(below)
         /\ \A sm1, was : EndWindow(below, sm1, was) => Grows(below)
         /\ Complete(below) => Grows(below)
<1>1. \A from, id : Eval(from, id, below) => Grows(below)
  BY PlainCalls DEF Eval, Grows
<1>2. \A from, by : Notify(from, by, below) => Grows(below)
  BY PlainCalls DEF Notify, Grows
<1>3. \A sm1 : Evaluate(below, sm1) => Grows(below)
  BY PlainCalls DEF Evaluate, Grows
<1>4. \A sm1, was : EndWindow(below, sm1, was) => Grows(below)
  BY <1>3 DEF EndWindow, Grows
<1>5. Complete(below) => Grows(below)
  BY <1>2 DEF Complete, Grows
<1> QED
  BY <1>1, <1>2, <1>3, <1>4, <1>5

\* A function that goes on is the same call.
LEMMA GoesOn ==
  ASSUME NEW fr, WellFramed(fr)
  PROVE  /\ \A x : SameCall([fr EXCEPT !.made = x], fr)
         /\ \A x : SameCall([fr EXCEPT !.todo = x], fr)
         /\ \A x, y : SameCall([fr EXCEPT !.todo = x, !.made = y], fr)
         /\ \A x : SameCall([fr EXCEPT !.stage = x], fr)
         /\ \A x : SameCall([fr EXCEPT !.writes = x], fr)
  BY DEF SameCall, WellFramed

\* The function at the top.
LEMMA TopShape ==
  ASSUME IInv, Running
  PROVE  /\ stack # <<>> /\ WellFramed(Top) /\ Top = stack[Len(stack)] /\ Len(stack) \in DOMAIN stack
         /\ \A fr : SameCall(fr, Top) => Fits(Append(Caller, fr), scp)
         /\ ~Busy(Top) /\ ~Finished(Top) => Fits(Caller, scp)
<1>1. stack # <<>> /\ Fits(stack, scp)
  BY DEF IInv, Running
<1>2. Len(stack) \in DOMAIN stack
  BY <1>1, SeqShape DEF Fits
<1>3. WellFramed(stack[Len(stack)])
  BY <1>1, <1>2 DEF Fits
<1>4. \A fr : SameCall(fr, Last(stack)) => Fits(Append(Front(stack), fr), scp)
  BY <1>1, SwapTop
<1>5. ~Busy(Last(stack)) /\ ~Finished(Last(stack)) => Fits(Front(stack), scp)
  BY <1>1, PopOther
<1> QED
  BY <1>1, <1>2, <1>3, <1>4, <1>5 DEF Top, Caller, Last

\* A step to a stack that fits, which writes nothing of the Streaming that matters.
LEMMA Keeps ==
  ASSUME IInv, NEW below, Fits(below, scp), Grows(below),
         SameFlags(scp, scp'), DOMAIN scp' = Fields
  PROVE  IInv'
<1>1. Fits(stack', scp)
  BY GrowsFit
<1>2. Fits(stack', scp')
  BY <1>1, FlagsFit
<1> QED
  BY <1>2 DEF IInv

\* The record of what was parsed is no flag, nor is what is open, asked or pending.
LEMMA Recorded ==
  ASSUME IInv
  PROVE  /\ SameFlags(scp, scp) /\ DOMAIN scp = Fields
         /\ \A id : Streamed(id) => SameFlags(scp, scp') /\ DOMAIN scp' = Fields
         /\ \A x, y : SameFlags(scp, [scp EXCEPT !.parsed = x, !.open = y])
                      /\ DOMAIN [scp EXCEPT !.parsed = x, !.open = y] = Fields
         /\ \A x : SameFlags(scp, [scp EXCEPT !.pending = x])
                   /\ DOMAIN [scp EXCEPT !.pending = x] = Fields
<1>1. DOMAIN scp = Fields
  BY DEF IInv
<1>2. \A x : SameFlags(scp, [scp EXCEPT !.parsed = x]) /\ DOMAIN [scp EXCEPT !.parsed = x] = Fields
  BY <1>1 DEF SameFlags, Fields
<1> QED
  BY <1>1, <1>2 DEF SameFlags, Fields, Streamed

-----------------------------------------------------------------------------
(* The steps of a parser.                                                  *)

\* A token keeps its parser on the stack, with a script on top at most.
LEMMA TokenSteps ==
  ASSUME IInv, SwallowToken \/ TextToken \/ ScriptToken \/ CreateCustom \/ AppendCustom
  PROVE  IInv'
<1>1. Running
  BY DEF SwallowToken, TextToken, ScriptToken, CreateCustom, AppendCustom, Parsing, Is
<1> DEFINE made == Append(Caller, [Top EXCEPT !.made = TRUE])
           last == Append(Caller, [Top EXCEPT !.todo = <<>>])
<1>2. Fits(NextToken, scp) /\ Fits(made, scp) /\ Fits(last, scp)
  BY <1>1, TopShape, GoesOn DEF NextToken
<1>3. CASE SwallowToken \/ TextToken
  <2>1. Grows(NextToken)
    BY <1>3 DEF SwallowToken, TextToken, Grows
  <2>2. SameFlags(scp, scp') /\ DOMAIN scp' = Fields
    BY <1>3, Recorded DEF SwallowToken, TextToken
  <2> QED
    BY <1>2, <2>1, <2>2, Keeps
<1>4. CASE ScriptToken
  <2>1. Grows(NextToken) \/ Grows(last)
    BY <1>4, ScriptCalls DEF ScriptToken, Grows
  <2>2. SameFlags(scp, scp') /\ DOMAIN scp' = Fields
    BY <1>4, Recorded DEF ScriptToken
  <2> HIDE DEF last
  <2> QED
    BY <1>2, <2>1, <2>2, Keeps
<1>5. CASE CreateCustom
  <2>1. Grows(made)
    BY <1>5, ScriptCalls DEF CreateCustom
  <2>2. SameFlags(scp, scp') /\ DOMAIN scp' = Fields
    BY <1>5, Recorded DEF CreateCustom, Document
  <2> HIDE DEF made
  <2> QED
    BY <1>2, <2>1, <2>2, Keeps
<1>6. CASE AppendCustom
  <2>1. Grows(NextToken)
    BY <1>6, ScriptCalls DEF AppendCustom, Grows
  <2>2. SameFlags(scp, scp') /\ DOMAIN scp' = Fields
    BY <1>6, Recorded DEF AppendCustom
  <2> QED
    BY <1>2, <2>1, <2>2, Keeps
<1> QED
  BY <1>3, <1>4, <1>5, <1>6

\* The panic drops the feed and the read that called it.
LEMMA PanicCut ==
  ASSUME IInv, PanicToken
  PROVE  /\ Len(stack) \in Nat /\ Len(stack) > 1 /\ DOMAIN stack = 1 .. Len(stack)
         /\ scp' = NoStream /\ stack' = SubSeq(stack, 1, (Len(stack) - 1) - 1)
         /\ \A i \in DOMAIN stack : Reads(stack[i]) => i = Len(stack) - 1
         /\ \A i \in DOMAIN stack : ~Finished(stack[i])
<1> DEFINE n == Len(stack)
<1>1. Running /\ Top.f = "parse" /\ Top.of = "feed"
  BY DEF PanicToken, Parsing, Is
<1>2. stack # <<>> /\ n \in DOMAIN stack /\ FeedIn(stack[n])
  BY <1>1, TopShape DEF FeedIn
<1>3. n > 1 /\ Reads(stack[n - 1])
  BY <1>2 DEF IInv, Fits
<1>4. n \in Nat /\ DOMAIN stack = 1 .. n
  BY SeqShape DEF IInv, Fits
<1>5. n - 1 \in DOMAIN stack
  BY <1>3, <1>4
<1>6. \A i \in DOMAIN stack : Reads(stack[i]) => i = n - 1
  BY <1>3, <1>5 DEF IInv, Fits, Busy
<1>7. \A i \in DOMAIN stack : ~Finished(stack[i])
  BY <1>3, <1>5 DEF IInv, Fits
<1> DEFINE w == CHOOSE i \in DOMAIN stack : stack[i].f = "read" /\ \A j \in DOMAIN stack :
                  stack[j].f = "read" => j <= i
<1>8. w = n - 1
  <2>1. stack[n - 1].f = "read" /\ \A j \in DOMAIN stack : stack[j].f = "read" => j <= n - 1
    BY <1>3, <1>4, <1>6 DEF Reads
  <2>2. w \in DOMAIN stack /\ stack[w].f = "read"
    BY <1>5, <2>1
  <2> QED
    BY <1>6, <2>2 DEF Reads
<1>9. stack' = SubSeq(stack, 1, w - 1) /\ scp' = NoStream
  BY DEF PanicToken
<1> HIDE DEF w
<1> QED
  BY <1>3, <1>4, <1>6, <1>7, <1>8, <1>9

\* The Streaming goes with them.
LEMMA PanicStep == ASSUME IInv, PanicToken PROVE IInv'
<1> DEFINE w == Len(stack) - 1
<1>1. /\ Len(stack) \in Nat /\ Len(stack) > 1 /\ DOMAIN stack = 1 .. Len(stack)
      /\ scp' = NoStream /\ stack' = SubSeq(stack, 1, w - 1)
      /\ \A i \in DOMAIN stack : Reads(stack[i]) => i = w
      /\ \A i \in DOMAIN stack : ~Finished(stack[i])
  BY PanicCut
<1>2. ~NoStream.feeding /\ DOMAIN NoStream = Fields
  BY DEF NoStream, Fields
<1>3. w \in 1 .. Len(stack) + 1
  BY <1>1
<1>4. \A i \in 1 .. w - 1 : ~Reads(stack[i]) /\ ~Finished(stack[i])
  BY <1>1
<1> HIDE DEF w
<1>5. Fits(SubSeq(stack, 1, w - 1), NoStream)
  BY <1>2, <1>3, <1>4, CutFits DEF IInv
<1> QED
  BY <1>1, <1>2, <1>5 DEF IInv

\* The end of a parse; that of a finish ends the feeding.
LEMMA EndParseStep == ASSUME IInv, EndParse PROVE IInv'
<1>1. Running /\ Top.f = "parse" /\ stack' = Caller
  BY DEF EndParse, Is, Returns
<1>2. ~Finished(Top) /\ ~Reads(Top)
  BY <1>1 DEF Finished, Reads
<1>3. CASE Top.of # "finish"
  <2>1. scp' = scp
    BY <1>3 DEF EndParse
  <2>2. Fits(Caller, scp)
    BY <1>1, <1>2, <1>3, TopShape DEF Busy, FinishIn
  <2> QED
    BY <1>1, <2>1, <2>2 DEF IInv
<1>4. CASE Top.of = "finish"
  <2> DEFINE d == [scp EXCEPT !.feeding = FALSE, !.pending = <<>>]
  <2>1. scp' = d
    BY <1>4 DEF EndParse
  <2>2. /\ d.live = scp.live /\ d.handle = scp.handle /\ d.feeding = FALSE
        /\ DOMAIN d = Fields
    BY DEF IInv, Fields
  <2> HIDE DEF d
  <2>3. stack # <<>> /\ Len(stack) \in DOMAIN stack /\ Busy(stack[Len(stack)])
    BY <1>1, <1>4, TopShape DEF Busy, FinishIn
  <2>4. Fits(Caller, d)
    <3> DEFINE t == Caller
    <3>1. /\ SomeSeq(t) /\ DOMAIN stack = DOMAIN t \union {Len(stack)}
          /\ Len(stack) \notin DOMAIN t /\ \A i \in DOMAIN t : t[i] = stack[i]
      BY <2>3, FrontSeq DEF IInv, Fits, Caller
    <3>2. DOMAIN t = 1 .. Len(t) /\ Len(t) \in Nat
      BY <3>1, SeqShape
    <3> HIDE DEF t
    <3>3. \A i \in DOMAIN t : i > 1 => i - 1 \in DOMAIN t
      BY <3>2
    <3>4. \A i \in DOMAIN t : ~Busy(t[i])
      BY <2>3, <3>1 DEF IInv, Fits
    <3>5. /\ \A i \in DOMAIN t : WellFramed(t[i])
          /\ \A i, j \in DOMAIN t : Finished(t[i]) /\ Finished(t[j]) => i = j
          /\ \A i \in DOMAIN t : Finished(t[i]) => d.live /\ ~d.handle
      BY <2>2, <3>1 DEF IInv, Fits
    <3>6. \A i \in DOMAIN t : FeedIn(t[i]) => i > 1 /\ Reads(t[i - 1])
      BY <3>1, <3>3 DEF IInv, Fits
    <3> QED
      BY <2>2, <3>1, <3>4, <3>5, <3>6 DEF Fits, Busy, t
  <2> QED
    BY <1>1, <2>1, <2>2, <2>4 DEF IInv
<1> QED
  BY <1>3, <1>4

-----------------------------------------------------------------------------
(* The steps of a write.                                                   *)

\* Nothing is read or finished while the Streaming is not live, and nothing is fed that
\* is not.
LEMMA NotLive ==
  ASSUME NEW s, NEW c, Fits(s, c)
  PROVE  /\ ~c.live => \A i \in DOMAIN s : ~Reads(s[i]) /\ ~Finished(s[i])
         /\ ~c.feeding => \A i \in DOMAIN s : ~Busy(s[i]) /\ ~Reads(s[i])
         /\ c.handle => \A i \in DOMAIN s : ~Finished(s[i])
  BY DEF Fits, Busy

\* Three calls.
LEMMA ThreeCalls ==
  ASSUME NEW s, SomeSeq(s), NEW a, NEW b, NEW c
  PROVE  s \o <<a, b, c>> = Append(Append(Append(s, a), b), c)
<1>1. PICK S : s \in Seq(S)
  BY DEF SomeSeq
<1> DEFINE T == S \union {a, b, c} two == <<a, b>> one == <<c>>
<1>2. s \in Seq(T) /\ c \in T /\ two \in Seq(T) /\ one \in Seq(T)
      /\ <<a, b, c>> \in Seq(T) /\ Len(<<a, b, c>>) = 3
      /\ Len(two) = 2 /\ Len(one) = 1
  BY <1>1, SeqMonotonic
<1>3. two[1] = a /\ two[2] = b /\ one[1] = c
      /\ <<a, b, c>>[1] = a /\ <<a, b, c>>[2] = b /\ <<a, b, c>>[3] = c
  OBVIOUS
<1>4. two = <<a, b>> /\ one = <<c>>
  OBVIOUS
<1> HIDE DEF T, two, one
<1>5. /\ two \o one \in Seq(T) /\ Len(two \o one) = 3
      /\ \A i \in 1 .. 3 : (two \o one)[i] = IF i <= 2 THEN two[i] ELSE one[i - 2]
  <2>1. /\ two \o one \in Seq(T) /\ Len(two \o one) = Len(two) + Len(one)
        /\ \A i \in 1 .. Len(two) + Len(one) :
             (two \o one)[i] = IF i <= Len(two) THEN two[i] ELSE one[i - Len(two)]
    BY <1>2, ConcatProperties
  <2>2. Len(two) + Len(one) = 3
    BY <1>2
  <2>3. Len(two) = 2
    BY <1>2
  <2> QED
    BY <2>1, <2>2, <2>3, Zenon
<1>6. (two \o one)[1] = a /\ (two \o one)[2] = b /\ (two \o one)[3] = c
  BY <1>3, <1>5
<1>7. \A i \in 1 .. 3 : (two \o one)[i] = <<a, b, c>>[i]
  <2> SUFFICES ASSUME NEW i \in 1 .. 3 PROVE (two \o one)[i] = <<a, b, c>>[i]
    OBVIOUS
  <2>1. i = 1 \/ i = 2 \/ i = 3
    OBVIOUS
  <2>2. CASE i = 1
    BY <1>3, <1>6, <2>2
  <2>3. CASE i = 2
    BY <1>3, <1>6, <2>3
  <2>4. CASE i = 3
    BY <1>3, <1>6, <2>4
  <2> QED
    BY <2>1, <2>2, <2>3, <2>4
<1>8. two \o one = <<a, b, c>>
  BY <1>2, <1>5, <1>7, SeqEqual
<1>9. (s \o two) \o one = s \o (two \o one)
  BY <1>2, ConcatAssociative
<1>10. s \o two \in Seq(T) /\ Append(s \o two, c) = (s \o two) \o <<c>>
  BY <1>2, ConcatProperties, AppendIsConcat
<1>11. s \o two = Append(Append(s, a), b)
  BY <1>4, TwoCalls
<1> QED
  BY <1>4, <1>8, <1>9, <1>10, <1>11

\* The frame of a feed on top of the read that made it.
LEMMA PushFeed ==
  ASSUME NEW s, NEW c, Fits(s, c), s # <<>>, Reads(Last(s)), NEW tokens
  PROVE  Fits(Append(s, ParseFrame("feed", 0, tokens)), c)
<1> DEFINE fr == ParseFrame("feed", 0, tokens)
<1>1. WellFramed(fr) /\ ~Reads(fr) /\ ~Busy(fr) /\ ~Finished(fr) /\ FeedIn(fr) /\ ~FinishIn(fr)
  BY DEF WellFramed, Reads, Busy, Finished, FeedIn, FinishIn, ParseFrame
<1> HIDE DEF fr
<1>2. /\ \A i \in DOMAIN s : Reads(s[i]) => c.live /\ c.handle
      /\ \A i \in DOMAIN s : Finished(s[i]) => c.live /\ ~c.handle
      /\ c.feeding <=> \E i \in DOMAIN s : Busy(s[i])
  BY DEF Fits
<1>3. Fits(Append(s, fr), c)
  BY <1>1, <1>2, PushFrame
<1> QED
  BY <1>3 DEF fr

\* read() over a Streaming with a parser that is not feeding.
LEMMA PushRead ==
  ASSUME NEW s, NEW c, Fits(s, c), ~c.feeding, c.live, c.handle, NEW tokens,
         NEW d, d.live, d.handle, d.feeding
  PROVE  Fits(s \o <<Frame("written"), Frame("read"), ParseFrame("feed", 0, tokens)>>, d)
<1> DEFINE s1 == Append(s, Frame("written")) rd == Frame("read") s2 == Append(s1, rd)
<1>1. Fits(s1, c)
  BY PushPlain, PlainCalls
<1>2. /\ \A i \in DOMAIN s1 : ~Busy(s1[i]) /\ ~Reads(s1[i])
      /\ \A i \in DOMAIN s1 : ~Finished(s1[i])
  BY <1>1, NotLive
<1>3. WellFramed(rd) /\ Reads(rd) /\ Busy(rd) /\ ~Finished(rd) /\ ~FeedIn(rd) /\ ~FinishIn(rd)
  BY DEF WellFramed, Reads, Busy, Finished, FeedIn, FinishIn, Frame
<1> HIDE DEF s1, rd
<1>4. Fits(s2, d)
  BY <1>1, <1>2, <1>3, PushFrame
<1>5. s2 # <<>> /\ Last(s2) = rd
  <2>1. SomeSeq(s1)
    BY <1>1 DEF Fits
  <2>2. s2 # <<>> /\ Len(s2) = Len(s1) + 1 /\ s2[Len(s1) + 1] = rd
    BY <2>1, PushSeq
  <2> QED
    BY <2>2 DEF Last
<1> HIDE DEF s2
<1>6. Fits(Append(s2, ParseFrame("feed", 0, tokens)), d)
  BY <1>3, <1>4, <1>5, PushFeed
<1>7. s \o <<Frame("written"), Frame("read"), ParseFrame("feed", 0, tokens)>>
        = Append(Append(Append(s, Frame("written")), Frame("read")), ParseFrame("feed", 0, tokens))
  BY ThreeCalls DEF Fits
<1> QED
  BY <1>6, <1>7 DEF s1, s2, rd

\* The script that writes goes on.
LEMMA CallerGoesOn == ASSUME IInv, MayCall PROVE Fits(Caller1, scp)
<1>1. Running
  BY DEF MayCall, Is
<1> QED
  BY <1>1, TopShape, GoesOn DEF Caller1

\* A write into the page puts a fragment's parser on top.
LEMMA WriteInlineStep == ASSUME IInv, NEW kinds, WriteInline(kinds) PROVE IInv'
<1>1. Fits(Caller1, scp)
  BY CallerGoesOn DEF WriteInline
<1>2. scp' = scp
  BY DEF WriteInline, Document
<1>3. CASE stack' = Caller1
  BY <1>1, <1>2, <1>3 DEF IInv
<1>4. CASE stack' # Caller1
  <2>1. PICK a, b : Plain(a) /\ Plain(b) /\ stack' = Caller1 \o <<a, b>>
    BY <1>4, PlainCalls DEF WriteInline
  <2>2. stack' = Append(Append(Caller1, a), b)
    BY <1>1, <2>1, TwoCalls DEF Fits
  <2>3. Fits(Append(Append(Caller1, a), b), scp)
    BY <1>1, <2>1, PushPlain
  <2> QED
    BY <1>2, <2>2, <2>3 DEF IInv
<1> QED
  BY <1>3, <1>4

\* A write to the script-created parser makes one if there is none, and then feeds it or
\* leaves the markup to the feed that runs.
LEMMA WriteStreamStep == ASSUME IInv, NEW kinds, WriteStream(kinds) PROVE IInv'
<1>1. CASE Crash
  BY <1>1 DEF Crash, Document, IInv
<1>2. CASE ~Crash
  <2> DEFINE toks == Written(kinds) d == Stream
  <2>1. Read(toks) /\ ~(Unwraps(scp) /\ kinds # <<>>)
    BY <1>2 DEF WriteStream
  <2>2. toks # <<>> => kinds # <<>>
    BY DEF Written, Tokens
  <2>3. Fits(Caller1, scp)
    BY CallerGoesOn DEF WriteStream
  <2>4. DOMAIN d = Fields
    BY DEF Stream, NewStream, NoStream, IInv, Fields
  <2>5. Fits(Caller1, d)
    <3>1. CASE Opened
      <4>1. d = NewStream /\ ~NewStream.feeding /\ ~scp.live
        BY <3>1 DEF Stream, NewStream, NoStream, Opened
      <4>2. \A i \in DOMAIN Caller1 : ~Reads(Caller1[i]) /\ ~Finished(Caller1[i])
        BY <2>3, <4>1, NotLive
      <4> QED
        BY <2>3, <4>1, <4>2, IdleFits
    <3>2. CASE ~Opened
      BY <2>3, <3>2 DEF Stream
    <3> QED
      BY <3>1, <3>2
  <2>6. d.live /\ ~d.feeding /\ toks # <<>> => d.handle
    <3>1. CASE Opened
      BY <3>1 DEF Stream, NewStream, NoStream
    <3>2. CASE ~Opened
      BY <2>1, <2>2, <3>2 DEF Stream, Unwraps
    <3> QED
      BY <3>1, <3>2
  <2> DEFINE written == Append(Caller1, Frame("written"))
  <2>7. Caller1 \o <<Frame("written")>> = written /\ Fits(written, d)
    <3>1. Caller1 \o <<Frame("written")>> = written
      BY <2>3, TwoCalls DEF Fits
    <3>2. Fits(written, d)
      BY <2>5, PushPlain, PlainCalls
    <3> QED
      BY <3>1, <3>2
  <2> DEFINE asked == Asks(toks)
             queued == [asked EXCEPT !.pending = @ \o toks]
             fed == [asked EXCEPT !.feeding = TRUE]
  <2>8. SameFlags(d, asked) /\ DOMAIN asked = Fields
    BY <2>4 DEF Asks, SameFlags, Fields
  <2>9. \/ scp' = d /\ stack' = Caller1 \o <<Frame("written")>>
        \/ scp' = queued /\ stack' = Caller1 \o <<Frame("written")>>
        \/ /\ d.live /\ toks # <<>> /\ ~d.feeding /\ scp' = fed
           /\ stack' = Caller1 \o <<Frame("written"), Frame("read"), ParseFrame("feed", 0, toks)>>
    BY <2>1 DEF Read
  <2> HIDE DEF toks, d, written, asked
  <2>10. SameFlags(d, queued) /\ DOMAIN queued = Fields
    BY <2>8 DEF SameFlags, Fields
  <2>11. fed.live = d.live /\ fed.handle = d.handle /\ fed.feeding = TRUE /\ DOMAIN fed = Fields
    BY <2>8 DEF SameFlags, Fields
  <2> HIDE DEF queued, fed
  <2>12. CASE scp' = d /\ stack' = Caller1 \o <<Frame("written")>>
    BY <2>4, <2>7, <2>12 DEF IInv
  <2>13. CASE scp' = queued /\ stack' = Caller1 \o <<Frame("written")>>
    BY <2>7, <2>10, <2>13, FlagsFit DEF IInv
  <2>14. CASE /\ d.live /\ toks # <<>> /\ ~d.feeding /\ scp' = fed
              /\ stack' = Caller1 \o <<Frame("written"), Frame("read"), ParseFrame("feed", 0, toks)>>
    <3>1. Fits(stack', fed)
      BY <2>5, <2>6, <2>11, <2>14, PushRead
    <3> QED
      BY <2>11, <2>14, <3>1 DEF IInv
  <2> QED
    BY <2>9, <2>12, <2>13, <2>14
<1> QED
  BY <1>1, <1>2

\* What the frame at the top says when it is a read.
LEMMA TopBusy ==
  ASSUME IInv, Running, NEW n, n = Len(stack)
  PROVE  /\ n \in Nat /\ n \in 1 .. Len(stack) + 1 /\ DOMAIN stack = 1 .. n
         /\ Reads(Top) => /\ scp.live /\ scp.handle
                          /\ \A i \in 1 .. n - 1 : ~Reads(stack[i]) /\ ~Finished(stack[i])
         /\ Finished(Top) => \A i \in 1 .. n - 1 : ~Reads(stack[i]) /\ ~Finished(stack[i])
<1>1. n \in Nat /\ DOMAIN stack = 1 .. n /\ n \in DOMAIN stack /\ stack[n] = Top
  BY SeqShape, TopShape DEF IInv, Fits
<1>2. n \in 1 .. Len(stack) + 1
  BY <1>1
<1>3. \A i \in 1 .. n - 1 : i \in DOMAIN stack /\ i # n
  BY <1>1
<1>4. ASSUME Reads(Top)
      PROVE  /\ scp.live /\ scp.handle
             /\ \A i \in 1 .. n - 1 : ~Reads(stack[i]) /\ ~Finished(stack[i])
  <2>1. scp.live /\ scp.handle /\ Busy(stack[n])
    BY <1>1, <1>4 DEF IInv, Fits, Busy
  <2>2. \A i \in DOMAIN stack : ~Finished(stack[i]) /\ (Reads(stack[i]) => i = n)
    BY <1>1, <2>1 DEF IInv, Fits, Busy
  <2> QED
    BY <1>3, <2>1, <2>2
<1>5. ASSUME Finished(Top)
      PROVE  \A i \in 1 .. n - 1 : ~Reads(stack[i]) /\ ~Finished(stack[i])
  <2>1. ~scp.handle
    BY <1>1, <1>5 DEF IInv, Fits
  <2>2. \A i \in DOMAIN stack : ~Reads(stack[i]) /\ (Finished(stack[i]) => i = n)
    BY <1>1, <1>5, <2>1 DEF IInv, Fits
  <2> QED
    BY <1>3, <2>2
<1> QED
  BY <1>1, <1>2, <1>4, <1>5

\* The end of a feed: what was queued meanwhile is fed, or the read returns.
LEMMA ReadMoreStep == ASSUME IInv, ReadMore PROVE IInv'
<1>1. Running /\ Reads(Top) /\ stack # <<>>
  BY DEF ReadMore, Is, Reads, Running
<1> DEFINE n == Len(stack)
<1>2. /\ n \in 1 .. Len(stack) + 1
      /\ \A i \in 1 .. n - 1 : ~Reads(stack[i]) /\ ~Finished(stack[i])
  BY <1>1, TopBusy
<1> HIDE DEF n
<1>3. CASE scp.pending = <<>>
  <2> DEFINE d == [scp EXCEPT !.feeding = FALSE]
  <2>1. scp' = d /\ stack' = SubSeq(stack, 1, n - 1)
    BY <1>3 DEF ReadMore, Returns, Caller, Front, n
  <2>2. d.feeding = FALSE /\ DOMAIN d = Fields
    BY DEF IInv, Fields
  <2> HIDE DEF d
  <2>3. Fits(SubSeq(stack, 1, n - 1), d)
    BY <1>2, <2>2, CutFits DEF IInv
  <2> QED
    BY <2>1, <2>2, <2>3 DEF IInv
<1>4. CASE scp.pending # <<>>
  <2> DEFINE fr == ParseFrame("feed", 0, scp.pending) d == [scp EXCEPT !.pending = <<>>]
  <2>1. scp' = d /\ stack' = stack \o <<fr>>
    BY <1>4 DEF ReadMore, Calls
  <2>2. stack \o <<fr>> = Append(stack, fr)
    BY TwoCalls DEF IInv, Fits
  <2>3. Fits(Append(stack, fr), scp)
    BY <1>1, PushFeed DEF IInv, Top
  <2>4. SameFlags(scp, d) /\ DOMAIN d = Fields
    BY Recorded
  <2> HIDE DEF d, fr
  <2>5. Fits(Append(stack, fr), d)
    BY <2>3, <2>4, FlagsFit
  <2> QED
    BY <2>1, <2>2, <2>4, <2>5 DEF IInv
<1> QED
  BY <1>3, <1>4

-----------------------------------------------------------------------------
(* The steps of a close.                                                   *)

\* Finishing a parser that exists and is not running gives it up first.
LEMMA FinishStep ==
  ASSUME NEW below, Fits(below, scp), DOMAIN scp = Fields,
         scp.live, scp.handle, ~scp.feeding, Finish(below)
  PROVE  IInv'
<1> DEFINE fin == [f |-> "finished", stage |-> "scripts"]
           pf == ParseFrame("finish", 0, <<>>)
           d == [scp EXCEPT !.handle = FALSE, !.open = None]
           s1 == Append(below, fin)
           s2 == Append(s1, pf)
<1>1. /\ d.live /\ ~d.handle /\ ~d.feeding
      /\ scp'.live /\ ~scp'.handle /\ scp'.feeding /\ DOMAIN scp' = Fields
  BY DEF Finish, Fields
<1>2. WellFramed(fin) /\ Finished(fin) /\ ~Reads(fin) /\ ~Busy(fin) /\ ~FeedIn(fin) /\ ~FinishIn(fin)
  BY DEF WellFramed, Finished, Reads, Busy, FeedIn, FinishIn
<1>3. WellFramed(pf) /\ ~Finished(pf) /\ ~Reads(pf) /\ Busy(pf) /\ ~FeedIn(pf) /\ FinishIn(pf)
  BY DEF WellFramed, Finished, Reads, Busy, FeedIn, FinishIn, ParseFrame
<1>4. below \o <<fin, pf>> = s2
  BY TwoCalls DEF Fits
<1>5. stack' = s2 \/ Grows(s2)
  BY <1>4, ScriptCalls DEF Finish, Grows
<1> HIDE DEF fin, pf, d
<1>6. \A i \in DOMAIN below : ~Busy(below[i]) /\ ~Reads(below[i]) /\ ~Finished(below[i])
  BY NotLive
<1>7. Fits(s1, d)
  BY <1>1, <1>2, <1>6, PushFrame
<1>8. s1 # <<>> /\ Last(s1) = fin
  <2>1. s1 # <<>> /\ Len(s1) = Len(below) + 1 /\ s1[Len(below) + 1] = fin
    BY PushSeq DEF Fits
  <2> QED
    BY <2>1 DEF Last
<1> HIDE DEF s1
<1>9. \A i \in DOMAIN s1 : ~Busy(s1[i]) /\ ~Reads(s1[i])
  BY <1>1, <1>7, NotLive
<1>10. Fits(s2, scp')
  BY <1>1, <1>2, <1>3, <1>7, <1>8, <1>9, PushFrame
<1> HIDE DEF s2
<1>11. Fits(stack', scp')
  BY <1>5, <1>10, GrowsFit
<1> QED
  BY <1>1, <1>11 DEF IInv

\* The end of a write, and a close.
LEMMA CloseSteps == ASSUME IInv, WriteDone \/ Close PROVE IInv'
<1>1. CASE Crash
  BY <1>1 DEF Crash, Document, IInv
<1>2. CASE WriteDone /\ ~Crash
  <2>1. Running /\ Top.f = "written"
    BY <1>2 DEF WriteDone, Is
  <2>2. Fits(Caller, scp)
    BY <2>1, TopShape DEF Busy, Reads, FinishIn, Finished
  <2>3. CASE closeRequested /\ scp.live /\ ~scp.feeding
    <3>1. Finish(Caller) /\ scp.handle
      BY <1>2, <2>3 DEF WriteDone, Unwraps
    <3> QED
      BY <2>2, <2>3, <3>1, FinishStep DEF IInv
  <2>4. CASE ~(closeRequested /\ scp.live /\ ~scp.feeding)
    <3>1. stack' = Caller /\ scp' = scp
      BY <1>2, <2>4 DEF WriteDone, Returns
    <3> QED
      BY <2>2, <3>1 DEF IInv
  <2> QED
    BY <2>3, <2>4
<1>3. CASE Close /\ ~Crash
  <2>1. CASE scp.feeding
    BY <1>3, <2>1 DEF Close, IInv
  <2>2. CASE ~scp.feeding
    <3>1. Finish(stack) /\ scp.live /\ scp.handle
      BY <1>3, <2>2 DEF Close, Unwraps
    <3> QED
      BY <2>2, <3>1, FinishStep DEF IInv
  <2> QED
    BY <2>1, <2>2
<1> QED
  BY <1>1, <1>2, <1>3

\* The Streaming is dropped.
LEMMA FinishDropStep == ASSUME IInv, FinishDrop PROVE IInv'
<1>1. Running /\ Finished(Top)
  BY DEF FinishDrop, Is, Finished
<1> DEFINE n == Len(stack)
<1>2. scp' = NoStream /\ stack' = SubSeq(stack, 1, n - 1)
  BY DEF FinishDrop, Returns, Caller, Front
<1>3. /\ n \in 1 .. Len(stack) + 1
      /\ \A i \in 1 .. n - 1 : ~Reads(stack[i]) /\ ~Finished(stack[i])
  BY <1>1, TopBusy
<1> HIDE DEF n
<1>4. ~NoStream.feeding /\ DOMAIN NoStream = Fields
  BY DEF NoStream, Fields
<1>5. Fits(SubSeq(stack, 1, n - 1), NoStream)
  BY <1>3, <1>4, CutFits DEF IInv
<1> QED
  BY <1>2, <1>4, <1>5 DEF IInv

-----------------------------------------------------------------------------
(* The other steps.                                                        *)

\* The Streaming is as it was.
LEMMA KeepsAll ==
  ASSUME IInv, NEW below, Fits(below, scp), Grows(below), scp' = scp
  PROVE  IInv'
BY Recorded, Keeps

\* A script, and what is called on its behalf, comes and goes.
LEMMA ScriptSteps ==
  ASSUME IInv, EndJs \/ Splice \/ Terminate \/ CallThrows \/ Detach
  PROVE  IInv'
<1>1. CASE EndJs \/ Splice
  <2>1. Running /\ Top.f \in {"js", "splice"}
    BY <1>1 DEF EndJs, Splice, Is
  <2>2. Fits(Caller, scp)
    BY <2>1, TopShape DEF Busy, Reads, FinishIn, Finished
  <2>3. Grows(Caller)
    BY <1>1, ScriptCalls DEF EndJs, Splice, Returns, Grows
  <2>4. scp' = scp
    BY <1>1 DEF EndJs, Splice
  <2> QED
    BY <2>2, <2>3, <2>4, KeepsAll
<1>2. CASE Terminate \/ CallThrows \/ Detach
  BY <1>2 DEF Terminate, CallThrows, Detach, Document, IInv
<1> QED
  BY <1>1, <1>2

\* What follows a parse goes from stage to stage, with a call at most.
LEMMA AfterSteps ==
  ASSUME IInv, NEW pending \in BOOLEAN,
         FinishScripts \/ FinishComplete \/ EvaluateScripts \/ HookLoaded \/ HookComplete(pending)
  PROVE  IInv'
<1>1. Running /\ scp' = scp
  BY DEF FinishScripts, FinishComplete, EvaluateScripts, HookLoaded, HookComplete, Is, Document
<1>2. \A x : Fits(Append(Caller, [Top EXCEPT !.stage = x]), scp)
  BY <1>1, TopShape, GoesOn
<1>3. Fits(stack, scp)
  BY DEF IInv
<1> DEFINE at(x) == Append(Caller, [Top EXCEPT !.stage = x])
<1>4. Grows(stack) \/ Grows(at("scripts")) \/ Grows(at("loaded")) \/ Grows(at("complete"))
        \/ Grows(at("drop")) \/ Grows(at("end"))
  <2>1. CASE FinishScripts
    <3>1. Evaluate(at("complete"), [sm EXCEPT !.static = TRUE])
      BY <2>1 DEF FinishScripts
    <3> QED
      BY <3>1, ScriptCalls
  <2>2. CASE FinishComplete
    <3>1. Complete(at("drop"))
      BY <2>2 DEF FinishComplete
    <3> QED
      BY <3>1, ScriptCalls
  <2>3. CASE EvaluateScripts
    <3>1. CASE sm.static /\ sm.deferred # <<>>
      BY <2>3, <3>1, ScriptCalls DEF EvaluateScripts, Grows
    <3>2. CASE ~(sm.static /\ sm.deferred # <<>>)
      <4>1. stack' = at("scripts") \/ stack' = at("loaded") \/ stack' = at("end")
        BY <2>3, <3>2 DEF EvaluateScripts, Becomes
      <4> QED
        BY <4>1 DEF Grows
    <3> QED
      BY <3>1, <3>2
  <2>4. CASE HookLoaded
    <3>1. stack' = at("complete") \/ \E by : Notify("event", by, at("complete"))
      BY <2>4 DEF HookLoaded
    <3> QED
      BY <3>1, ScriptCalls DEF Grows
  <2>5. CASE HookComplete(pending)
    <3>1. stack' = at("end") \/ Complete(at("end"))
      BY <2>5 DEF HookComplete
    <3> QED
      BY <3>1, ScriptCalls DEF Grows
  <2> QED
    BY <2>1, <2>2, <2>3, <2>4, <2>5
<1> QED
  BY <1>1, <1>2, <1>3, <1>4, KeepsAll

\* The last stage of an evaluation, the end of the page, a timer and the last load.
LEMMA LastSteps ==
  ASSUME IInv, EvaluateEnd \/ PageDone \/ Task \/ LoadsDone
  PROVE  IInv'
<1>1. CASE EvaluateEnd \/ PageDone
  <2>1. Running /\ Top.f \in {"evaluate", "page"}
    BY <1>1 DEF EvaluateEnd, PageDone, Is
  <2>2. Fits(Caller, scp)
    BY <2>1, TopShape DEF Busy, Reads, FinishIn, Finished
  <2>3. Grows(Caller) /\ scp' = scp
    BY <1>1, ScriptCalls DEF EvaluateEnd, PageDone, Document
  <2> QED
    BY <2>2, <2>3, KeepsAll
<1>2. CASE Task \/ LoadsDone
  <2>1. stack = <<>> /\ Grows(<<>>) /\ scp' = scp
    BY <1>2, ScriptCalls DEF Task, LoadsDone, Document
  <2>2. Fits(<<>>, scp)
    BY <2>1 DEF IInv
  <2> QED
    BY <2>1, <2>2, KeepsAll
<1> QED
  BY <1>1, <1>2

-----------------------------------------------------------------------------
(* The invariant, and what it says of the parser.                          *)

\* A thread that only parses its page, or does nothing, has no Streaming.
LEMMA InitFits == ASSUME Init PROVE IInv
<1>1. scp = NoStream /\ ~NoStream.feeding /\ DOMAIN NoStream = Fields
  BY DEF Init, NoStream, Fields
<1>2. SomeSeq(<<>>)
  BY DEF SomeSeq
<1>3. Fits(<<>>, NoStream)
  BY <1>1, <1>2 DEF Fits
<1> DEFINE a == Frame("page") b == ParseFrame("page", 0, Tokens(Page, <<>>))
<1>4. stack = <<>> \/ stack = <<a, b>>
  BY DEF Init
<1>5. Plain(a) /\ Plain(b)
  BY DEF Plain, WellFramed, Busy, Reads, Finished, FinishIn, FeedIn, Frame, ParseFrame
<1> HIDE DEF a, b
<1>6. <<a, b>> = Append(Append(<<>>, a), b)
  <2>1. <<>> \o <<a, b>> = Append(Append(<<>>, a), b)
    BY <1>2, TwoCalls
  <2>2. <<>> \o <<a, b>> = <<a, b>>
    <3>1. <<a, b>> \in Seq({a, b})
      OBVIOUS
    <3> QED
      BY <3>1, ConcatEmptySeq
  <2> QED
    BY <2>1, <2>2
<1>7. Fits(Append(Append(<<>>, a), b), NoStream)
  BY <1>3, <1>5, PushPlain
<1> QED
  BY <1>1, <1>3, <1>4, <1>6, <1>7 DEF IInv

\* Every step keeps the calls and the Streaming together.
LEMMA StepFits == ASSUME IInv, [Next]_vars PROVE IInv'
<1>1. CASE UNCHANGED vars
  BY <1>1 DEF vars, IInv
<1>2. CASE SwallowToken \/ TextToken \/ ScriptToken \/ CreateCustom \/ AppendCustom
  BY <1>2, TokenSteps
<1>3. CASE PanicToken \/ EndParse
  BY <1>3, PanicStep, EndParseStep
<1>4. CASE EndJs \/ Splice \/ Terminate \/ CallThrows \/ Detach
  BY <1>4, ScriptSteps
<1>5. ASSUME NEW kinds \in Chunks, WriteInline(kinds) \/ WriteStream(kinds) PROVE IInv'
  BY <1>5, WriteInlineStep, WriteStreamStep
<1>6. CASE ReadMore
  BY <1>6, ReadMoreStep
<1>7. CASE WriteDone \/ Close
  BY <1>7, CloseSteps
<1>8. CASE FinishDrop
  BY <1>8, FinishDropStep
<1>9. ASSUME NEW pending \in BOOLEAN,
             FinishScripts \/ FinishComplete \/ EvaluateScripts \/ HookLoaded
               \/ HookComplete(pending)
      PROVE  IInv'
  BY <1>9, AfterSteps
<1>10. CASE EvaluateEnd \/ PageDone \/ Task \/ LoadsDone
  BY <1>10, LastSteps
<1>11. TRUE \in BOOLEAN
  OBVIOUS
<1> QED
  BY <1>1, <1>2, <1>3, <1>4, <1>5, <1>6, <1>7, <1>8, <1>9, <1>10, <1>11 DEF Next

\* What fits never re-enters.
LEMMA FitsIsEnough == ASSUME IInv PROVE NoReentry
<1> DEFINE D == DOMAIN stack
<1>1. \A i \in D : i > 1 => i - 1 \in D
  <2>1. DOMAIN stack = 1 .. Len(stack) /\ Len(stack) \in Nat
    BY SeqShape DEF IInv, Fits
  <2> QED
    BY <2>1
<1>2. \A i \in D : FeedIn(stack[i]) => i - 1 \in D /\ Reads(stack[i - 1])
  BY <1>1 DEF IInv, Fits
<1>3. \A i \in D : FinishIn(stack[i]) => i - 1 \in D /\ Finished(stack[i - 1]) /\ Busy(stack[i])
  BY <1>1 DEF IInv, Fits, Busy
<1>4. D \subseteq Int
  <2>1. DOMAIN stack = 1 .. Len(stack) /\ Len(stack) \in Nat
    BY SeqShape DEF IInv, Fits
  <2> QED
    BY <2>1
<1>5. \A i, j \in D : FeedIn(stack[i]) /\ FeedIn(stack[j]) => i = j
  <2> SUFFICES ASSUME NEW i \in D, NEW j \in D, FeedIn(stack[i]), FeedIn(stack[j]) PROVE i = j
    OBVIOUS
  <2>1. i - 1 = j - 1
    BY <1>2 DEF IInv, Fits, Busy
  <2>2. i \in Int /\ j \in Int
    BY <1>4
  <2> HIDE DEF D
  <2> QED
    BY <2>1, <2>2
<1>6. \A i, j \in D : ~(FeedIn(stack[i]) /\ FinishIn(stack[j]))
  <2> SUFFICES ASSUME NEW i \in D, NEW j \in D, FeedIn(stack[i]), FinishIn(stack[j]) PROVE FALSE
    OBVIOUS
  <2>1. i - 1 = j
    BY <1>2, <1>3 DEF IInv, Fits, Busy
  <2>2. stack[j].f = "read" /\ stack[j].f = "parse"
    BY <1>2, <2>1 DEF Reads, FinishIn
  <2> QED
    BY <2>2
<1>7. \A i, j \in D : FinishIn(stack[i]) /\ FinishIn(stack[j]) => i = j
  BY DEF IInv, Fits, Busy
<1>8. /\ Feeds({"feed"}) = {i \in D : FeedIn(stack[i])}
      /\ Feeds({"finish"}) = {i \in D : FinishIn(stack[i])}
      /\ Feeds({"feed", "finish"}) = {i \in D : FeedIn(stack[i]) \/ FinishIn(stack[i])}
  BY DEF Feeds, FeedIn, FinishIn
<1>9. Cardinality(Feeds({"feed", "finish"})) <= 1
  <2> DEFINE S == Feeds({"feed", "finish"})
  <2>1. \A i, j \in S : i = j
    BY <1>5, <1>6, <1>7, <1>8
  <2> HIDE DEF S
  <2>2. CASE S = {}
    BY <2>2, FS_EmptySet DEF S
  <2>3. CASE S # {}
    <3>1. PICK x : x \in S
      BY <2>3
    <3>2. S = {x}
      BY <2>1, <3>1
    <3>3. Cardinality(S) = 1
      BY <3>2, FS_Singleton
    <3> QED
      BY <3>3 DEF S
  <2> QED
    BY <2>2, <2>3
<1>10. Feeds({"feed"}) # {} => scp.live /\ scp.handle /\ scp.feeding
  BY <1>2, <1>8 DEF IInv, Fits, Busy
<1>11. Feeds({"finish"}) # {} => ~scp.handle /\ scp.feeding
  BY <1>3, <1>8 DEF IInv, Fits
<1>12. scp.feeding => \E i \in D : stack[i].f = "read" \/ (stack[i].f = "parse" /\ stack[i].of = "finish")
  BY DEF IInv, Fits, Busy, Reads, FinishIn
<1> QED
  BY <1>9, <1>10, <1>11, <1>12 DEF NoReentry

\* html5ever's streaming parser is never fed or finished while it runs, nor after it was
\* given up, whatever scripts write and close and however deep (Parser.zig, Streaming.read
\* and done; Document.zig, finishScriptCreatedParser).
THEOREM NotReentered == Spec => []NoReentry
<1>1. Init => IInv
  BY InitFits
<1>2. IInv /\ [Next]_vars => IInv'
  BY StepFits
<1>3. IInv => NoReentry
  BY FitsIsEnough
<1> QED
  BY <1>1, <1>2, <1>3, PTL DEF Spec

-----------------------------------------------------------------------------
(* The names of a sequence of tokens.                                      *)

\* As many names as tokens, each at its token's place.
LEMMA IdsShape ==
  ASSUME NEW s, SomeSeq(s)
  PROVE  /\ SomeSeq(IdsOf(s)) /\ Len(IdsOf(s)) = Len(s)
         /\ \A i \in 1 .. Len(s) : IdsOf(s)[i] = s[i].id
<1>1. Len(s) \in Nat /\ DOMAIN s = 1 .. Len(s)
  BY SeqShape
<1>2. IdsOf(s) \in [1 .. Len(s) -> {s[i].id : i \in 1 .. Len(s)}]
  BY <1>1 DEF IdsOf
<1>3. IdsOf(s) \in Seq({s[i].id : i \in 1 .. Len(s)})
  BY <1>1, <1>2, IsASeq
<1>4. DOMAIN IdsOf(s) = 1 .. Len(s)
  BY <1>2
<1>5. Len(IdsOf(s)) = Len(s)
  BY <1>1, <1>3, <1>4, LenProperties
<1> QED
  BY <1>1, <1>3, <1>5 DEF SomeSeq, IdsOf

\* Sequences of anything are the same if they agree everywhere.
LEMMA SameSeq ==
  ASSUME NEW s, NEW t, SomeSeq(s), SomeSeq(t), Len(s) = Len(t),
         \A i \in 1 .. Len(s) : s[i] = t[i]
  PROVE  s = t
<1>1. PICK S, T : s \in Seq(S) /\ t \in Seq(T)
  BY DEF SomeSeq
<1>2. s \in Seq(S \union T) /\ t \in Seq(S \union T)
  BY <1>1, SeqMonotonic
<1> QED
  BY <1>2, SeqEqual

\* One sequence after another.
LEMMA JoinSeqs ==
  ASSUME NEW s, NEW t, SomeSeq(s), SomeSeq(t)
  PROVE  /\ SomeSeq(s \o t) /\ Len(s \o t) = Len(s) + Len(t)
         /\ \A i \in 1 .. Len(s) + Len(t) :
              (s \o t)[i] = IF i <= Len(s) THEN s[i] ELSE t[i - Len(s)]
         /\ \A u : SomeSeq(u) => (s \o t) \o u = s \o (t \o u)
         /\ s \o <<>> = s /\ <<>> \o s = s
<1>1. PICK S, T : s \in Seq(S) /\ t \in Seq(T)
  BY DEF SomeSeq
<1>2. s \in Seq(S \union T) /\ t \in Seq(S \union T)
  BY <1>1, SeqMonotonic
<1>3. ASSUME NEW u, SomeSeq(u) PROVE (s \o t) \o u = s \o (t \o u)
  <2>1. PICK U : u \in Seq(U)
    BY <1>3 DEF SomeSeq
  <2>2. u \in Seq(S \union T \union U) /\ s \in Seq(S \union T \union U)
        /\ t \in Seq(S \union T \union U)
    BY <1>2, <2>1, SeqMonotonic
  <2> QED
    BY <2>2, ConcatAssociative
<1>4. s \o <<>> = s /\ <<>> \o s = s
  BY <1>1, ConcatEmptySeq
<1>5. s \o t \in Seq(S \union T) /\ Len(s \o t) = Len(s) + Len(t)
      /\ \A i \in 1 .. Len(s) + Len(t) :
           (s \o t)[i] = IF i <= Len(s) THEN s[i] ELSE t[i - Len(s)]
  BY <1>2, ConcatProperties
<1> QED
  BY <1>3, <1>4, <1>5 DEF SomeSeq

\* One element, before or after.
LEMMA OneMore ==
  ASSUME NEW s, SomeSeq(s), NEW x
  PROVE  /\ SomeSeq(Append(s, x)) /\ Append(s, x) = s \o <<x>>
         /\ SomeSeq(<<x>>) /\ SomeSeq(<<>>)
<1>1. PICK S : s \in Seq(S)
  BY DEF SomeSeq
<1>2. s \in Seq(S \union {x}) /\ x \in S \union {x}
  BY <1>1, SeqMonotonic
<1>3. Append(s, x) = s \o <<x>> /\ Append(s, x) \in Seq(S \union {x})
  BY <1>2, AppendIsConcat, AppendProperties
<1>4. <<x>> \in Seq({x}) /\ <<>> \in Seq({x})
  OBVIOUS
<1> QED
  BY <1>3, <1>4 DEF SomeSeq

\* The names of one sequence after another.
LEMMA IdsJoin ==
  ASSUME NEW s, NEW t, SomeSeq(s), SomeSeq(t)
  PROVE  IdsOf(s \o t) = IdsOf(s) \o IdsOf(t)
<1> DEFINE a == IdsOf(s) b == IdsOf(t) st == s \o t c == IdsOf(st)
<1>1. /\ SomeSeq(a) /\ Len(a) = Len(s) /\ \A i \in 1 .. Len(s) : a[i] = s[i].id
      /\ SomeSeq(b) /\ Len(b) = Len(t) /\ \A i \in 1 .. Len(t) : b[i] = t[i].id
  BY IdsShape
<1>2. /\ SomeSeq(st) /\ Len(st) = Len(s) + Len(t)
      /\ \A i \in 1 .. Len(s) + Len(t) : st[i] = IF i <= Len(s) THEN s[i] ELSE t[i - Len(s)]
  BY JoinSeqs
<1> HIDE DEF a, b, st
<1>3. SomeSeq(c) /\ Len(c) = Len(st) /\ \A i \in 1 .. Len(st) : c[i] = st[i].id
  BY <1>2, IdsShape
<1>4. /\ SomeSeq(a \o b) /\ Len(a \o b) = Len(a) + Len(b)
      /\ \A i \in 1 .. Len(a) + Len(b) : (a \o b)[i] = IF i <= Len(a) THEN a[i] ELSE b[i - Len(a)]
  BY <1>1, JoinSeqs
<1> HIDE DEF c
<1>5. Len(s) \in Nat /\ Len(t) \in Nat
  BY SeqShape
<1>6. ASSUME NEW i \in 1 .. Len(s) + Len(t) PROVE c[i] = (a \o b)[i]
  <2>1. CASE i <= Len(s)
    <3>1. i \in 1 .. Len(s)
      BY <1>5, <2>1
    <3> QED
      BY <1>1, <1>2, <1>3, <1>4, <2>1, <3>1
  <2>2. CASE ~(i <= Len(s))
    <3>1. i - Len(s) \in 1 .. Len(t)
      BY <1>5, <2>2
    <3> QED
      BY <1>1, <1>2, <1>3, <1>4, <2>2, <3>1
  <2> QED
    BY <2>1, <2>2
<1>7. Len(c) = Len(a \o b) /\ Len(c) = Len(s) + Len(t)
  BY <1>1, <1>2, <1>3, <1>4
<1>8. c = a \o b
  BY <1>3, <1>4, <1>6, <1>7, SameSeq
<1> QED
  BY <1>8 DEF a, b, c, st

\* The name of the first token comes first.
LEMMA IdsFirst ==
  ASSUME NEW s, SomeSeq(s), s # <<>>
  PROVE  /\ SomeSeq(Tail(s)) /\ IdsOf(s) = <<Head(s).id>> \o IdsOf(Tail(s))
<1>1. PICK S : s \in Seq(S)
  BY DEF SomeSeq
<1>2. /\ Head(s) \in S /\ Tail(s) \in Seq(S) /\ Len(Tail(s)) = Len(s) - 1
      /\ \A i \in 1 .. Len(Tail(s)) : Tail(s)[i] = s[i + 1]
  BY <1>1, HeadTailProperties
<1>3. Head(s) = s[1]
  BY <1>1
<1>4. SomeSeq(Tail(s)) /\ SomeSeq(<<Head(s).id>>)
  <2>1. SomeSeq(Tail(s))
    BY <1>2 DEF SomeSeq
  <2>2. SomeSeq(<<Head(s).id>>)
    BY OneMore
  <2> QED
    BY <2>1, <2>2
<1> DEFINE a == <<Head(s).id>> b == IdsOf(Tail(s))
<1>5. Len(a) = 1 /\ a[1] = Head(s).id
  OBVIOUS
<1>6. SomeSeq(b) /\ Len(b) = Len(s) - 1 /\ \A i \in 1 .. Len(s) - 1 : b[i] = s[i + 1].id
  <2> DEFINE t == Tail(s)
  <2>1. SomeSeq(b) /\ Len(b) = Len(t) /\ \A i \in 1 .. Len(t) : b[i] = t[i].id
    BY <1>4, IdsShape
  <2>2. Len(t) = Len(s) - 1 /\ \A i \in 1 .. Len(t) : t[i] = s[i + 1]
    BY <1>2
  <2> HIDE DEF t, b
  <2> QED
    BY <2>1, <2>2
<1>7. SomeSeq(IdsOf(s)) /\ Len(IdsOf(s)) = Len(s) /\ \A i \in 1 .. Len(s) : IdsOf(s)[i] = s[i].id
  BY IdsShape
<1>8. SomeSeq(a)
  BY <1>4
<1>9. Len(s) \in Nat
  BY SeqShape
<1> HIDE DEF a, b
<1>10. /\ SomeSeq(a \o b) /\ Len(a \o b) = Len(s)
       /\ \A i \in 1 .. Len(s) : (a \o b)[i] = IF i <= 1 THEN a[i] ELSE b[i - 1]
  <2>1. /\ SomeSeq(a \o b) /\ Len(a \o b) = Len(a) + Len(b)
        /\ \A i \in 1 .. Len(a) + Len(b) : (a \o b)[i] = IF i <= Len(a) THEN a[i] ELSE b[i - Len(a)]
    BY <1>6, <1>8, JoinSeqs
  <2>2. Len(a) + Len(b) = Len(s) /\ Len(a) = 1
    BY <1>5, <1>6, <1>9
  <2> QED
    BY <2>1, <2>2, Zenon
<1>11. ASSUME NEW i \in 1 .. Len(s) PROVE IdsOf(s)[i] = (a \o b)[i]
  <2>1. CASE i = 1
    BY <1>3, <1>5, <1>7, <1>10, <2>1
  <2>2. CASE i # 1
    <3>1. i - 1 \in 1 .. Len(s) - 1 /\ (i - 1) + 1 = i /\ ~(i <= 1)
      BY <1>9, <2>2
    <3> QED
      BY <1>6, <1>7, <1>10, <3>1
  <2> QED
    BY <2>1, <2>2
<1>12. IdsOf(s) = a \o b
  BY <1>7, <1>10, <1>11, SameSeq
<1> QED
  BY <1>4, <1>12 DEF a, b

\* Nothing has no name.
LEMMA IdsNone == IdsOf(<<>>) = <<>>
  BY DEF IdsOf

-----------------------------------------------------------------------------
(* What is asked of a Streaming, and what it still owes.                   *)

\* The Streaming c over the stack s: what it was given is what html5ever took, what the
\* feed has left and what is queued, and nothing is queued unless it feeds.
Owed(s, c) ==
  /\ \A i \in DOMAIN s : FeedIn(s[i]) => "todo" \in DOMAIN s[i] /\ SomeSeq(s[i].todo)
  /\ c.live /\ c.handle =>
       /\ SomeSeq(c.asked) /\ SomeSeq(c.parsed) /\ SomeSeq(c.pending)
       /\ ~c.feeding => c.pending = <<>>
       /\ \A i \in DOMAIN s : FeedIn(s[i]) =>
            c.asked = c.parsed \o (IdsOf(s[i].todo) \o IdsOf(c.pending))
       /\ (\A i \in DOMAIN s : ~FeedIn(s[i])) => c.asked = c.parsed \o IdsOf(c.pending)

OweInv == IInv /\ Owed(stack, scp)

\* From s to t no feed comes, goes or moves on.
FeedsStay(s, t) ==
  /\ \A i \in DOMAIN t : FeedIn(t[i]) =>
       i \in DOMAIN s /\ FeedIn(s[i]) /\ t[i].todo = s[i].todo /\ DOMAIN t[i] = DOMAIN s[i]
  /\ \A i \in DOMAIN s : FeedIn(s[i]) => i \in DOMAIN t /\ FeedIn(t[i])

\* fr is the frame gr of a feed, or neither is one.
SameFeed(fr, gr) ==
  /\ FeedIn(fr) => FeedIn(gr) /\ fr.todo = gr.todo /\ DOMAIN fr = DOMAIN gr
  /\ FeedIn(gr) => FeedIn(fr)

\* The same record, and whether more is queued is as before.
SameRecord(c, d) ==
  SameFlags(c, d) /\ d.asked = c.asked /\ d.parsed = c.parsed /\ d.pending = c.pending

\* What is owed stays owed while the feeds stay.
LEMMA StayOwed ==
  ASSUME NEW s, NEW t, NEW c, Owed(s, c), FeedsStay(s, t)
  PROVE  Owed(t, c)
  BY DEF Owed, FeedsStay

\* ... and while the flags of the parser stay.
LEMMA SameOwed ==
  ASSUME NEW s, NEW c, NEW d, Owed(s, c), SameRecord(c, d)
  PROVE  Owed(s, d)
  BY DEF Owed, SameRecord, SameFlags

\* Two steps that let the feeds stay.
LEMMA StayTwice ==
  ASSUME NEW s, NEW t, NEW u, FeedsStay(s, t), FeedsStay(t, u)
  PROVE  FeedsStay(s, u)
  BY DEF FeedsStay

\* Feeds stay below a call, after a return and when the top frame goes on.
LEMMA StayPush ==
  ASSUME NEW s, SomeSeq(s), NEW fr, ~FeedIn(fr)
  PROVE  FeedsStay(s, Append(s, fr))
<1> DEFINE t == Append(s, fr)
<1>1. /\ DOMAIN t = DOMAIN s \union {Len(s) + 1}
      /\ (\A i \in DOMAIN s : t[i] = s[i]) /\ t[Len(s) + 1] = fr
  BY PushSeq
<1> HIDE DEF t
<1> QED
  BY <1>1 DEF FeedsStay, t

\* A frame that is no feed returns.
LEMMA StayPop ==
  ASSUME NEW s, SomeSeq(s), s # <<>>
  PROVE  ~FeedIn(Last(s)) => FeedsStay(s, Front(s))
<1> DEFINE t == Front(s) n == Len(s)
<1>1. /\ DOMAIN s = DOMAIN t \union {n}
      /\ \A i \in DOMAIN t : t[i] = s[i]
  BY FrontSeq
<1> HIDE DEF t, n
<1>2. SUFFICES ASSUME ~FeedIn(s[n]) PROVE FeedsStay(s, t)
  BY Zenon DEF Last, t, n
<1>3. \A i \in DOMAIN t : i \in DOMAIN s /\ t[i] = s[i]
  BY <1>1
<1>4. \A i \in DOMAIN s : FeedIn(s[i]) => i \in DOMAIN t /\ FeedIn(t[i])
  BY <1>1, <1>2
<1> QED
  BY <1>3, <1>4 DEF FeedsStay

\* A frame goes on with the feed it has.
LEMMA StaySwap ==
  ASSUME NEW s, SomeSeq(s), s # <<>>, NEW fr
  PROVE  SameFeed(fr, Last(s)) => FeedsStay(s, Append(Front(s), fr))
<1> DEFINE r == Front(s) t == Append(r, fr) n == Len(s)
<1>1. /\ SomeSeq(r) /\ DOMAIN s = DOMAIN r \union {n} /\ n \notin DOMAIN r
      /\ \A i \in DOMAIN r : r[i] = s[i]
  BY FrontSeq
<1>2. Len(r) + 1 = n
  <2>1. Len(r) = Len(s) - 1
    BY FrontSeq
  <2>2. Len(s) \in Nat
    BY SeqShape
  <2> QED
    BY <2>1, <2>2
<1> HIDE DEF r, n
<1>3. /\ DOMAIN t = DOMAIN r \union {n}
      /\ (\A i \in DOMAIN r : t[i] = r[i]) /\ t[n] = fr
  BY <1>1, <1>2, PushSeq
<1> HIDE DEF t
<1>4. SUFFICES ASSUME SameFeed(fr, s[n]) PROVE FeedsStay(s, t)
  BY Zenon DEF Last, r, t, n
<1>5. /\ \A i \in DOMAIN r : t[i] = s[i]
      /\ DOMAIN t = DOMAIN s /\ DOMAIN s = DOMAIN r \union {n}
  BY <1>1, <1>3
<1>6. \A i \in DOMAIN t : FeedIn(t[i]) =>
        i \in DOMAIN s /\ FeedIn(s[i]) /\ t[i].todo = s[i].todo /\ DOMAIN t[i] = DOMAIN s[i]
  BY <1>3, <1>4, <1>5 DEF SameFeed
<1>7. \A i \in DOMAIN s : FeedIn(s[i]) => i \in DOMAIN t /\ FeedIn(t[i])
  BY <1>3, <1>4, <1>5 DEF SameFeed
<1> QED
  BY <1>6, <1>7 DEF FeedsStay

\* A plain call is no feed.
LEMMA StayGrows ==
  ASSUME NEW below, SomeSeq(below), Grows(below)
  PROVE  FeedsStay(below, stack')
<1>1. CASE stack' = below
  BY <1>1 DEF FeedsStay
<1>2. ASSUME NEW fr, Plain(fr), stack' = Append(below, fr) PROVE FeedsStay(below, stack')
  BY <1>2, StayPush DEF Plain
<1> QED
  BY <1>1, <1>2 DEF Grows

\* Where the Streaming has no parser nothing is fed, so nothing is owed.
LEMMA DeadOwed ==
  ASSUME NEW s, NEW c, Fits(s, c), ~(c.live /\ c.handle)
  PROVE  Owed(s, c)
<1>1. DOMAIN s = 1 .. Len(s) /\ Len(s) \in Nat
  BY SeqShape DEF Fits
<1>2. \A i \in DOMAIN s : i > 1 => i - 1 \in DOMAIN s
  BY <1>1
<1>3. \A i \in DOMAIN s : ~FeedIn(s[i])
  BY <1>2 DEF Fits
<1> QED
  BY <1>3 DEF Owed

\* The step leaves the Streaming alone, and the feeds stay below.
LEMMA KeepsOwed ==
  ASSUME OweInv, NEW below, SomeSeq(below), FeedsStay(stack, below), Grows(below),
         SameRecord(scp, scp')
  PROVE  Owed(stack', scp')
<1>1. Owed(below, scp)
  BY StayOwed DEF OweInv
<1>2. Owed(stack', scp)
  BY <1>1, StayGrows, StayOwed
<1> QED
  BY <1>2, SameOwed

\* The frame at the top: what a step of it leaves.
LEMMA TopStays ==
  ASSUME IInv, Running
  PROVE  /\ SomeSeq(stack) /\ stack # <<>>
         /\ SomeSeq(Caller) /\ \A fr : SomeSeq(Append(Caller, fr))
         /\ ~FeedIn(Top) => FeedsStay(stack, Caller)
         /\ \A fr : SameCall(fr, Top) /\ (FeedIn(Top) => fr.todo = Top.todo /\ DOMAIN fr = DOMAIN Top)
              => FeedsStay(stack, Append(Caller, fr))
<1>1. SomeSeq(stack) /\ stack # <<>> /\ WellFramed(Top)
  BY TopShape DEF IInv, Fits
<1>2. SomeSeq(Caller)
  BY <1>1, FrontSeq DEF Caller
<1>3. \A fr : SomeSeq(Append(Caller, fr))
  BY <1>2, OneMore
<1>4. ~FeedIn(Top) => FeedsStay(stack, Caller)
  BY <1>1, StayPop DEF Top, Caller
<1>5. ASSUME NEW fr, SameCall(fr, Top), FeedIn(Top) => fr.todo = Top.todo /\ DOMAIN fr = DOMAIN Top
      PROVE  FeedsStay(stack, Append(Caller, fr))
  <2>1. SameFeed(fr, Top)
    BY <1>5 DEF FeedIn, SameCall, SameFeed
  <2> QED
    BY <1>1, <2>1, StaySwap DEF Top, Caller
<1> QED
  BY <1>1, <1>2, <1>3, <1>4, <1>5

-----------------------------------------------------------------------------
(* What is owed, step by step.                                             *)

\* Only one feed.
LEMMA OneFeed ==
  ASSUME NEW s, NEW c, Fits(s, c), s # <<>>, FeedIn(Last(s))
  PROVE  \A i \in DOMAIN s : FeedIn(s[i]) => i = Len(s)
<1> DEFINE n == Len(s)
<1>1. DOMAIN s = 1 .. n /\ n \in Nat /\ n \in DOMAIN s
  BY SeqShape DEF Fits
<1>2. FeedIn(s[n])
  BY DEF Last
<1> HIDE DEF n
<1>3. \A i \in DOMAIN s : i > 1 => i - 1 \in DOMAIN s
  BY <1>1
<1>4. n > 1 /\ n - 1 \in DOMAIN s /\ Busy(s[n - 1])
  BY <1>1, <1>2, <1>3 DEF Fits, Busy
<1>5. ASSUME NEW i \in DOMAIN s, FeedIn(s[i]) PROVE i = n
  <2>1. i > 1 /\ i - 1 \in DOMAIN s /\ Busy(s[i - 1])
    BY <1>3, <1>5 DEF Fits, Busy
  <2>2. i - 1 = n - 1
    BY <1>4, <2>1 DEF Fits
  <2> QED
    BY <1>1, <2>2
<1> QED
  BY <1>5 DEF n

\* html5ever takes a token of the feed: what was first in what is left comes last in what
\* was parsed.
LEMMA OwedToken ==
  ASSUME OweInv, Running, FeedIn(Top), Top.todo # <<>>,
         NEW d, SameFlags(scp, d), d.asked = scp.asked, d.pending = scp.pending,
         d.parsed = Append(scp.parsed, Token.id)
  PROVE  Owed(NextToken, d)
<1> DEFINE n == Len(stack) r == Caller
           fr == [Top EXCEPT !.todo = Tail(Top.todo), !.made = FALSE] t == Append(r, fr)
<1>1. stack # <<>> /\ WellFramed(Top) /\ Top = stack[n] /\ n \in DOMAIN stack /\ SomeSeq(stack)
  BY TopShape, TopStays DEF OweInv
<1>2. Last(stack) = Top /\ FeedIn(Last(stack))
  BY DEF Top
<1>3. \A i \in DOMAIN stack : FeedIn(stack[i]) => i = n
  BY <1>1, <1>2, OneFeed DEF OweInv, IInv
<1>4. /\ SomeSeq(r) /\ DOMAIN stack = DOMAIN r \union {n} /\ n \notin DOMAIN r
      /\ \A i \in DOMAIN r : r[i] = stack[i]
  BY <1>1, FrontSeq DEF Caller
<1>5. Len(r) + 1 = n
  <2>1. Len(r) = Len(stack) - 1
    BY <1>1, FrontSeq DEF Caller
  <2>2. Len(stack) \in Nat
    BY <1>1, SeqShape
  <2> QED
    BY <2>1, <2>2
<1>6. "todo" \in DOMAIN Top /\ SomeSeq(Top.todo)
  BY <1>1 DEF OweInv, Owed
<1>7. fr.todo = Tail(Top.todo) /\ "todo" \in DOMAIN fr
  BY <1>6
<1>8. SomeSeq(Tail(Top.todo)) /\ IdsOf(Top.todo) = <<Token.id>> \o IdsOf(Tail(Top.todo))
  BY <1>6, IdsFirst DEF Token
<1>9. NextToken = t
  BY DEF NextToken
<1> HIDE DEF n, r, fr
<1>10. /\ DOMAIN t = DOMAIN r \union {n}
       /\ (\A i \in DOMAIN r : t[i] = r[i]) /\ t[n] = fr
  BY <1>4, <1>5, PushSeq
<1> HIDE DEF t
<1>11. \A i \in DOMAIN t : FeedIn(t[i]) => i = n /\ t[i] = fr
  BY <1>3, <1>4, <1>10
<1>12. n \in DOMAIN t /\ FeedIn(t[n])
  <2>1. FeedIn(fr)
    BY <1>1 DEF FeedIn, fr, WellFramed
  <2> QED
    BY <1>10, <2>1
<1>13. ASSUME scp.live, scp.handle
       PROVE  /\ SomeSeq(d.asked) /\ SomeSeq(d.parsed) /\ SomeSeq(d.pending)
              /\ ~scp.feeding => d.pending = <<>>
              /\ d.asked = d.parsed \o (IdsOf(fr.todo) \o IdsOf(d.pending))
  <2>1. /\ SomeSeq(scp.asked) /\ SomeSeq(scp.parsed) /\ SomeSeq(scp.pending)
        /\ ~scp.feeding => scp.pending = <<>>
        /\ scp.asked = scp.parsed \o (IdsOf(Top.todo) \o IdsOf(scp.pending))
    BY <1>1, <1>13 DEF OweInv, Owed
  <2> DEFINE a == scp.parsed x == <<Token.id>> b == IdsOf(Tail(Top.todo)) p == IdsOf(scp.pending)
  <2>2. SomeSeq(a) /\ SomeSeq(x) /\ SomeSeq(b) /\ SomeSeq(p)
    <3>1. SomeSeq(b) /\ SomeSeq(p)
      BY <1>8, <2>1, IdsShape
    <3>2. SomeSeq(x)
      BY <2>1, OneMore
    <3> QED
      BY <2>1, <3>1, <3>2
  <2>3. d.parsed = a \o x /\ SomeSeq(d.parsed)
    BY <2>1, OneMore
  <2>4. scp.asked = a \o ((x \o b) \o p)
    BY <1>8, <2>1
  <2> HIDE DEF a, x, b, p
  <2>5. SomeSeq(b \o p)
    BY <2>2, JoinSeqs
  <2>6. (x \o b) \o p = x \o (b \o p)
    BY <2>2, JoinSeqs
  <2>7. (a \o x) \o (b \o p) = a \o (x \o (b \o p))
    BY <2>2, <2>5, JoinSeqs
  <2>8. scp.asked = (a \o x) \o (b \o p)
    BY <2>4, <2>6, <2>7
  <2>9. d.asked = d.parsed \o (IdsOf(fr.todo) \o IdsOf(d.pending))
    BY <1>7, <2>3, <2>8 DEF b, p
  <2> QED
    BY <2>1, <2>3, <2>9
<1>14. \A i \in DOMAIN t : FeedIn(t[i]) => "todo" \in DOMAIN t[i] /\ SomeSeq(t[i].todo)
  BY <1>7, <1>8, <1>11
<1>15. Owed(t, d)
  BY <1>11, <1>12, <1>13, <1>14 DEF Owed, SameFlags
<1> QED
  BY <1>9, <1>15

\* A token of html5ever, in a feed or in another parse.
LEMMA OwedTokens ==
  ASSUME OweInv, SwallowToken \/ TextToken \/ ScriptToken \/ CreateCustom \/ AppendCustom
  PROVE  Owed(stack', scp')
<1> DEFINE made == Append(Caller, [Top EXCEPT !.made = TRUE])
           last == Append(Caller, [Top EXCEPT !.todo = <<>>])
<1>1. Running /\ Top.f = "parse" /\ Top.todo # <<>>
  BY DEF SwallowToken, TextToken, ScriptToken, CreateCustom, AppendCustom, Parsing, Is
<1>2. WellFramed(Top) /\ SomeSeq(NextToken) /\ SomeSeq(made) /\ SomeSeq(last)
  BY <1>1, TopShape, TopStays DEF OweInv, NextToken
<1> DEFINE marked == [Top EXCEPT !.made = TRUE]
           gone == [Top EXCEPT !.todo = <<>>]
           next == [Top EXCEPT !.todo = Tail(Top.todo), !.made = FALSE]
<1>6. SameCall(marked, Top) /\ SameCall(gone, Top) /\ SameCall(next, Top)
  <2>1. WellFramed(Top)
    BY <1>2
  <2> QED
    BY <2>1 DEF SameCall, WellFramed
<1>7. marked.todo = Top.todo /\ DOMAIN marked = DOMAIN Top
  OBVIOUS
<1> HIDE DEF marked, gone, next
<1>3. CASE CreateCustom
  <2>3. FeedsStay(stack, Append(Caller, marked))
    BY <1>1, <1>6, <1>7, TopStays DEF OweInv
  <2>4. Grows(made)
    BY <1>3, ScriptCalls DEF CreateCustom
  <2>5. SameRecord(scp, scp')
    BY <1>3 DEF CreateCustom, Document, SameRecord, SameFlags
  <2>6. FeedsStay(stack, made)
    BY <2>3 DEF marked
  <2> HIDE DEF made
  <2> QED
    BY <1>2, <2>4, <2>5, <2>6, KeepsOwed
<1>4. CASE ~CreateCustom /\ Top.of # "feed"
  <2>1. ~FeedIn(Top)
    BY <1>4 DEF FeedIn
  <2>2. FeedsStay(stack, NextToken) /\ FeedsStay(stack, last)
    <3>1. FeedsStay(stack, Append(Caller, next)) /\ FeedsStay(stack, Append(Caller, gone))
      BY <1>1, <1>6, <2>1, TopStays DEF OweInv
    <3> QED
      BY <3>1 DEF NextToken, next, gone
  <2>3. Grows(NextToken) \/ Grows(last)
    <3>1. CASE SwallowToken \/ TextToken
      BY <3>1 DEF SwallowToken, TextToken, Grows
    <3>2. CASE AppendCustom
      BY <3>2, ScriptCalls DEF AppendCustom, Grows
    <3>3. CASE ScriptToken
      BY <3>3, ScriptCalls DEF ScriptToken, Grows
    <3> QED
      BY <1>4, <3>1, <3>2, <3>3
  <2>4. SameRecord(scp, scp')
    BY <1>4 DEF SwallowToken, TextToken, ScriptToken, AppendCustom, Streamed, SameRecord, SameFlags
  <2> HIDE DEF last
  <2> QED
    BY <1>2, <2>2, <2>3, <2>4, KeepsOwed
<1>5. CASE ~CreateCustom /\ Top.of = "feed"
  <2>1. FeedIn(Top)
    BY <1>1, <1>5 DEF FeedIn
  <2>2. Grows(NextToken)
    <3>1. CASE SwallowToken \/ TextToken
      BY <3>1 DEF SwallowToken, TextToken, Grows
    <3>2. CASE AppendCustom
      BY <3>2, ScriptCalls DEF AppendCustom, Grows
    <3>3. CASE ScriptToken
      BY <1>5, <3>3, ScriptCalls DEF ScriptToken, Grows
    <3> QED
      BY <1>5, <3>1, <3>2, <3>3
  <2>3. /\ SameFlags(scp, scp') /\ scp'.asked = scp.asked /\ scp'.pending = scp.pending
        /\ scp'.parsed = Append(scp.parsed, Token.id)
    <3>1. CASE ScriptToken
      BY <1>5, <3>1 DEF ScriptToken, SameFlags, OweInv, IInv, Fields
    <3>2. CASE ~ScriptToken
      <4>1. scp' = [scp EXCEPT !.parsed = Append(@, Token.id)]
        BY <1>5, <3>2 DEF SwallowToken, TextToken, AppendCustom, Streamed
      <4> QED
        BY <4>1 DEF SameFlags, OweInv, IInv, Fields
    <3> QED
      BY <3>1, <3>2
  <2>4. Owed(NextToken, scp')
    BY <1>1, <2>1, <2>3, OwedToken
  <2>5. FeedsStay(NextToken, stack')
    BY <1>2, <2>2, StayGrows
  <2> QED
    BY <2>4, <2>5, StayOwed
<1> QED
  BY <1>3, <1>4, <1>5

\* A parse that ends has nothing left; only a feed leaves the Streaming in use.
LEMMA OwedEndParse == ASSUME OweInv, IInv', EndParse PROVE Owed(stack', scp')
<1>1. Running /\ Top.f = "parse" /\ Top.todo = <<>> /\ stack' = Caller
  BY DEF EndParse, Is, Returns
<1>2. CASE Top.of = "finish"
  <2>1. FinishIn(Top) /\ stack[Len(stack)] = Top /\ Len(stack) \in DOMAIN stack
    BY <1>1, <1>2, TopShape DEF FinishIn, OweInv
  <2>2. \A i \in DOMAIN stack : i > 1 => i - 1 \in DOMAIN stack
    <3>1. DOMAIN stack = 1 .. Len(stack)
      BY SeqShape DEF OweInv, IInv, Fits
    <3> QED
      BY <3>1, SeqShape DEF OweInv, IInv, Fits
  <2>3. ~scp.handle
    BY <2>1, <2>2 DEF OweInv, IInv, Fits
  <2>4. scp' = [scp EXCEPT !.feeding = FALSE, !.pending = <<>>]
    BY <1>2 DEF EndParse
  <2>5. ~scp'.handle
    BY <2>3, <2>4
  <2>6. Fits(stack', scp')
    BY DEF IInv
  <2> QED
    BY <2>5, <2>6, DeadOwed
<1>3. CASE Top.of # "finish"
  <2>1. scp' = scp
    BY <1>3 DEF EndParse
  <2>2. CASE Top.of # "feed"
    <3>1. ~FeedIn(Top)
      BY <2>2 DEF FeedIn
    <3>2. FeedsStay(stack, Caller)
      BY <1>1, <3>1, TopStays DEF OweInv
    <3> QED
      BY <1>1, <2>1, <3>2, StayOwed DEF OweInv
  <2>3. CASE Top.of = "feed"
    <3> DEFINE n == Len(stack) r == Caller
    <3>1. FeedIn(Top) /\ stack # <<>> /\ Top = stack[n] /\ n \in DOMAIN stack /\ SomeSeq(stack)
      BY <1>1, <2>3, TopShape, TopStays DEF OweInv, FeedIn
    <3>2. Last(stack) = Top
      BY DEF Top
    <3>3. \A i \in DOMAIN stack : FeedIn(stack[i]) => i = n
      BY <3>1, <3>2, OneFeed DEF OweInv, IInv
    <3>4. /\ DOMAIN stack = DOMAIN r \union {n} /\ n \notin DOMAIN r
          /\ \A i \in DOMAIN r : r[i] = stack[i]
      BY <3>1, FrontSeq DEF Caller
    <3> HIDE DEF n, r
    <3>5. \A i \in DOMAIN r : ~FeedIn(r[i])
      BY <3>3, <3>4
    <3>6. ASSUME scp.live, scp.handle
          PROVE  /\ SomeSeq(scp.asked) /\ SomeSeq(scp.parsed) /\ SomeSeq(scp.pending)
                 /\ ~scp.feeding => scp.pending = <<>>
                 /\ scp.asked = scp.parsed \o IdsOf(scp.pending)
      <4>1. /\ SomeSeq(scp.asked) /\ SomeSeq(scp.parsed) /\ SomeSeq(scp.pending)
            /\ ~scp.feeding => scp.pending = <<>>
            /\ scp.asked = scp.parsed \o (IdsOf(Top.todo) \o IdsOf(scp.pending))
        BY <3>1, <3>6 DEF OweInv, Owed
      <4>2. SomeSeq(IdsOf(scp.pending))
        BY <4>1, IdsShape
      <4>3. <<>> \o IdsOf(scp.pending) = IdsOf(scp.pending)
        BY <4>2, JoinSeqs
      <4> QED
        BY <1>1, <4>1, <4>3, IdsNone
    <3>7. Owed(r, scp)
      BY <3>5, <3>6 DEF Owed
    <3> QED
      BY <1>1, <2>1, <3>7 DEF r
  <2> QED
    BY <2>2, <2>3
<1> QED
  BY <1>2, <1>3

\* What a script writes is a sequence of tokens.
LEMMA WrittenSeq == ASSUME NEW kinds \in Chunks PROVE SomeSeq(Written(kinds))
<1>1. kinds \in Seq(STRING)
  BY HtmlParserConstants
<1>2. DOMAIN kinds = 1 .. Len(kinds) /\ Len(kinds) \in Nat
  BY <1>1, LenProperties
<1> DEFINE w == Written(kinds) S == {w[j] : j \in 1 .. Len(kinds)}
<1>3. w \in [1 .. Len(kinds) -> S]
  BY <1>2 DEF Written, Tokens
<1>4. w \in Seq(S)
  BY <1>2, <1>3, IsASeq
<1> QED
  BY <1>4 DEF SomeSeq

\* More is queued: it comes after all the rest.
LEMMA OwedQueued ==
  ASSUME NEW s, NEW c, Owed(s, c), c.feeding, NEW toks, SomeSeq(toks),
         NEW d, SameFlags(c, d), d.parsed = c.parsed,
         d.asked = c.asked \o IdsOf(toks), d.pending = c.pending \o toks
  PROVE  Owed(s, d)
<1> SUFFICES ASSUME c.live, c.handle
             PROVE  /\ SomeSeq(d.asked) /\ SomeSeq(d.parsed) /\ SomeSeq(d.pending)
                    /\ \A i \in DOMAIN s : FeedIn(s[i]) =>
                         d.asked = d.parsed \o (IdsOf(s[i].todo) \o IdsOf(d.pending))
                    /\ (\A i \in DOMAIN s : ~FeedIn(s[i])) =>
                         d.asked = d.parsed \o IdsOf(d.pending)
  BY DEF Owed, SameFlags
<1>1. SomeSeq(c.asked) /\ SomeSeq(c.parsed) /\ SomeSeq(c.pending)
  BY DEF Owed
<1> DEFINE a == c.parsed p == IdsOf(c.pending) x == IdsOf(toks)
<1>2. SomeSeq(a) /\ SomeSeq(p) /\ SomeSeq(x)
  BY <1>1, IdsShape
<1>3. IdsOf(d.pending) = p \o x
  BY <1>1, IdsJoin
<1>4. SomeSeq(d.asked) /\ SomeSeq(d.parsed) /\ SomeSeq(d.pending)
  BY <1>1, <1>2, JoinSeqs
<1> HIDE DEF a, p, x
<1>5. SomeSeq(p \o x) /\ (a \o p) \o x = a \o (p \o x)
  BY <1>2, JoinSeqs
<1>6. ASSUME NEW i \in DOMAIN s, FeedIn(s[i])
      PROVE  d.asked = d.parsed \o (IdsOf(s[i].todo) \o IdsOf(d.pending))
  <2> DEFINE b == IdsOf(s[i].todo)
  <2>1. SomeSeq(s[i].todo) /\ c.asked = a \o (b \o p)
    BY <1>6 DEF Owed, a, p
  <2>2. SomeSeq(b)
    BY <2>1, IdsShape
  <2> HIDE DEF b
  <2>3. SomeSeq(b \o p)
    BY <1>2, <2>2, JoinSeqs
  <2>4. (a \o (b \o p)) \o x = a \o ((b \o p) \o x)
    BY <1>2, <2>3, JoinSeqs
  <2>5. (b \o p) \o x = b \o (p \o x)
    BY <1>2, <2>2, JoinSeqs
  <2>6. d.asked = c.asked \o x
    BY DEF x
  <2>7. d.asked = a \o (b \o (p \o x))
    BY <2>1, <2>4, <2>5, <2>6
  <2> QED
    BY <1>3, <2>7 DEF a, b
<1>7. ASSUME \A i \in DOMAIN s : ~FeedIn(s[i])
      PROVE  d.asked = d.parsed \o IdsOf(d.pending)
  <2>1. c.asked = a \o p
    BY <1>7 DEF Owed, a, p
  <2>2. d.asked = c.asked \o x
    BY DEF x
  <2> QED
    BY <1>3, <1>5, <2>1, <2>2 DEF a
<1> QED
  BY <1>4, <1>6, <1>7

\* What is fed at once is what the feed has left.
LEMMA OwedFed ==
  ASSUME NEW s, SomeSeq(s), NEW c, Owed(s, c), \A i \in DOMAIN s : ~FeedIn(s[i]),
         NEW toks, SomeSeq(toks), NEW d, d.live = c.live, d.handle = c.handle, d.feeding,
         d.parsed = c.parsed, d.pending = <<>>,
         c.live /\ c.handle => SomeSeq(d.asked) /\ d.asked = c.parsed \o IdsOf(toks)
  PROVE  Owed(Append(s, ParseFrame("feed", 0, toks)), d)
<1> DEFINE fr == ParseFrame("feed", 0, toks) t == Append(s, fr) n == Len(s) + 1
<1>1. fr.todo = toks /\ "todo" \in DOMAIN fr /\ FeedIn(fr)
  BY DEF ParseFrame, FeedIn
<1> HIDE DEF fr
<1>2. /\ DOMAIN t = DOMAIN s \union {n}
      /\ (\A i \in DOMAIN s : t[i] = s[i]) /\ t[n] = fr
  BY PushSeq
<1> HIDE DEF t, n
<1>3. \A i \in DOMAIN t : FeedIn(t[i]) => t[i] = fr
  BY <1>2
<1>4. n \in DOMAIN t /\ FeedIn(t[n])
  BY <1>1, <1>2
<1>5. ASSUME c.live, c.handle
      PROVE  /\ SomeSeq(d.asked) /\ SomeSeq(d.parsed) /\ SomeSeq(d.pending)
             /\ d.asked = d.parsed \o (IdsOf(fr.todo) \o IdsOf(d.pending))
  <2>1. SomeSeq(IdsOf(toks)) /\ SomeSeq(c.parsed)
    BY <1>5, IdsShape DEF Owed
  <2>2. IdsOf(toks) \o <<>> = IdsOf(toks) /\ SomeSeq(<<>>)
    BY <2>1, JoinSeqs, OneMore
  <2> QED
    BY <1>1, <1>5, <2>1, <2>2, IdsNone
<1>6. Owed(t, d)
  BY <1>1, <1>3, <1>4, <1>5 DEF Owed
<1> QED
  BY <1>6 DEF t, fr

\* Nothing is fed where nothing reads.
LEMMA NoReadNoFeed ==
  ASSUME NEW s, NEW c, Fits(s, c), \A i \in DOMAIN s : ~Reads(s[i])
  PROVE  \A i \in DOMAIN s : ~FeedIn(s[i])
<1>1. DOMAIN s = 1 .. Len(s) /\ Len(s) \in Nat
  BY SeqShape DEF Fits
<1>2. \A i \in DOMAIN s : i > 1 => i - 1 \in DOMAIN s
  BY <1>1
<1> QED
  BY <1>2 DEF Fits

\* The script that writes stays on top of the same frames.
LEMMA OwedCaller1 == ASSUME OweInv, MayCall PROVE FeedsStay(stack, Caller1) /\ SomeSeq(Caller1)
<1>1. Running /\ Top.f = "js"
  BY DEF MayCall, Is
<1>2. WellFramed(Top) /\ ~FeedIn(Top)
  BY <1>1, TopShape DEF OweInv, FeedIn
<1> DEFINE fr == [Top EXCEPT !.writes = Top.writes + 1]
<1>3. SameCall(fr, Top)
  BY <1>2 DEF SameCall, WellFramed
<1> HIDE DEF fr
<1>4. FeedsStay(stack, Append(Caller, fr)) /\ SomeSeq(Append(Caller, fr))
  BY <1>1, <1>2, <1>3, TopStays DEF OweInv
<1> QED
  BY <1>4 DEF Caller1, fr

\* A write to the script-created parser.
LEMMA OwedWriteStream ==
  ASSUME OweInv, NEW kinds \in Chunks, WriteStream(kinds)
  PROVE  Owed(stack', scp')
<1>1. CASE Crash
  BY <1>1 DEF Crash, Document, OweInv
<1>2. CASE ~Crash
  <2> DEFINE toks == Written(kinds) d == Stream s == Caller1
  <2>1. Read(toks)
    BY <1>2 DEF WriteStream
  <2>2. SomeSeq(toks)
    BY WrittenSeq
  <2>3. FeedsStay(stack, s) /\ SomeSeq(s) /\ Fits(s, scp)
    BY OwedCaller1, CallerGoesOn DEF WriteStream, OweInv
  <2>4. DOMAIN d = Fields
    BY DEF Stream, NewStream, NoStream, OweInv, IInv, Fields
  <2>5. Owed(s, scp)
    BY <2>3, StayOwed DEF OweInv
  <2>6. ~d.feeding => \A i \in DOMAIN s : ~FeedIn(s[i])
    <3>1. ~d.feeding => ~scp.feeding \/ ~scp.live
      BY DEF Stream, Opened
    <3>2. ~d.feeding => \A i \in DOMAIN s : ~Reads(s[i])
      BY <2>3, <3>1, NotLive
    <3> QED
      BY <2>3, <3>2, NoReadNoFeed
  <2>7. Owed(s, d)
    <3>1. CASE Opened
      <4>1. d = NewStream
        BY <3>1 DEF Stream
      <4>2. /\ NewStream.asked = <<>> /\ NewStream.parsed = <<>> /\ NewStream.pending = <<>>
            /\ ~NewStream.feeding
        BY DEF NewStream, NoStream
      <4>3. SomeSeq(<<>>)
        BY <2>2, OneMore
      <4>4. <<>> \o IdsOf(<<>>) = <<>>
        BY <4>3, JoinSeqs, IdsNone
      <4>5. \A i \in DOMAIN s : ~FeedIn(s[i])
        BY <2>6, <4>1, <4>2
      <4> HIDE DEF s, d
      <4> QED
        BY <4>1, <4>2, <4>3, <4>4, <4>5 DEF Owed
    <3>2. CASE ~Opened
      BY <2>5, <3>2 DEF Stream
    <3> QED
      BY <3>1, <3>2
  <2> DEFINE asked == Asks(toks)
             queued == [asked EXCEPT !.pending = @ \o toks]
             fed == [asked EXCEPT !.feeding = TRUE]
             written == Append(s, Frame("written"))
  <2>8. /\ SameFlags(d, asked) /\ DOMAIN asked = Fields
        /\ asked.asked = d.asked \o IdsOf(toks) /\ asked.parsed = d.parsed
        /\ asked.pending = d.pending
    BY <2>4 DEF Asks, SameFlags, Fields
  <2>9. \/ scp' = d /\ stack' = s \o <<Frame("written")>>
        \/ d.feeding /\ scp' = queued /\ stack' = s \o <<Frame("written")>>
        \/ /\ ~d.feeding /\ scp' = fed
           /\ stack' = s \o <<Frame("written"), Frame("read"), ParseFrame("feed", 0, toks)>>
    BY <2>1 DEF Read
  <2>10. s \o <<Frame("written")>> = written
    BY <2>3, TwoCalls
  <2>11. ~FeedIn(Frame("written")) /\ ~FeedIn(Frame("read"))
    BY DEF FeedIn, Frame
  <2>12. FeedsStay(s, written) /\ SomeSeq(written)
    BY <2>3, <2>11, StayPush, OneMore
  <2> HIDE DEF toks, d, s, asked
  <2>13. /\ SameFlags(d, queued) /\ queued.asked = d.asked \o IdsOf(toks)
         /\ queued.parsed = d.parsed /\ queued.pending = d.pending \o toks
    BY <2>8 DEF SameFlags, Fields
  <2>14. /\ fed.live = d.live /\ fed.handle = d.handle /\ fed.feeding = TRUE
         /\ fed.asked = d.asked \o IdsOf(toks) /\ fed.parsed = d.parsed /\ fed.pending = d.pending
    BY <2>8 DEF SameFlags, Fields
  <2> HIDE DEF queued, fed
  <2>15. Owed(written, d)
    BY <2>7, <2>12, StayOwed
  <2>16. CASE scp' = d /\ stack' = s \o <<Frame("written")>>
    BY <2>10, <2>15, <2>16
  <2>17. CASE d.feeding /\ scp' = queued /\ stack' = s \o <<Frame("written")>>
    <3>1. Owed(written, queued)
      BY <2>2, <2>13, <2>15, <2>17, OwedQueued
    <3> QED
      BY <2>10, <2>17, <3>1
  <2>18. CASE /\ ~d.feeding /\ scp' = fed
              /\ stack' = s \o <<Frame("written"), Frame("read"), ParseFrame("feed", 0, toks)>>
    <3> DEFINE rd == Append(written, Frame("read"))
    <3>1. stack' = Append(rd, ParseFrame("feed", 0, toks))
      BY <2>3, <2>18, ThreeCalls
    <3>2. FeedsStay(written, rd) /\ SomeSeq(rd)
      BY <2>11, <2>12, StayPush, OneMore
    <3>3. FeedsStay(s, rd)
      BY <2>12, <3>2, StayTwice
    <3>4. Owed(rd, d)
      BY <2>7, <3>3, StayOwed
    <3> HIDE DEF rd, written
    <3>5. \A i \in DOMAIN rd : ~FeedIn(rd[i])
      BY <2>6, <2>18, <3>3 DEF FeedsStay
    <3>6. ASSUME d.live, d.handle
          PROVE  /\ d.pending = <<>> /\ SomeSeq(fed.asked)
                 /\ fed.asked = d.parsed \o IdsOf(toks)
      <4>1. d.pending = <<>> /\ SomeSeq(d.parsed) /\ d.asked = d.parsed \o IdsOf(d.pending)
        BY <2>18, <3>4, <3>5, <3>6 DEF Owed
      <4>2. SomeSeq(IdsOf(toks))
        BY <2>2, IdsShape
      <4>3. d.parsed \o <<>> = d.parsed
        BY <4>1, JoinSeqs
      <4>4. SomeSeq(d.parsed \o IdsOf(toks))
        BY <4>1, <4>2, JoinSeqs
      <4>5. IdsOf(d.pending) = <<>>
        BY <4>1, IdsNone
      <4>6. d.asked = d.parsed
        BY <4>1, <4>3, <4>5
      <4> QED
        BY <2>14, <4>1, <4>4, <4>6
    <3>7. CASE d.live /\ d.handle
      <4>1. Owed(Append(rd, ParseFrame("feed", 0, toks)), fed)
        BY <2>2, <2>14, <3>2, <3>4, <3>5, <3>6, <3>7, OwedFed
      <4> QED
        BY <2>18, <3>1, <4>1
    <3>8. CASE ~(d.live /\ d.handle)
      <4>1. /\ \A i \in DOMAIN stack' : FeedIn(stack'[i]) =>
                 "todo" \in DOMAIN stack'[i] /\ SomeSeq(stack'[i].todo)
        <5> DEFINE fr == ParseFrame("feed", 0, toks)
        <5>1. fr.todo = toks /\ "todo" \in DOMAIN fr
          BY DEF ParseFrame
        <5> HIDE DEF fr
        <5>2. /\ DOMAIN stack' = DOMAIN rd \union {Len(rd) + 1}
              /\ (\A i \in DOMAIN rd : stack'[i] = rd[i]) /\ stack'[Len(rd) + 1] = fr
          BY <3>1, <3>2, PushSeq DEF fr
        <5> QED
          BY <2>2, <3>5, <5>1, <5>2
      <4>2. ~(scp'.live /\ scp'.handle)
        BY <2>14, <2>18, <3>8
      <4> QED
        BY <4>1, <4>2 DEF Owed
    <3> QED
      BY <3>7, <3>8
  <2> QED
    BY <2>9, <2>16, <2>17, <2>18
<1> QED
  BY <1>1, <1>2

\* What was queued is fed next.
LEMMA OwedReadMore == ASSUME OweInv, ReadMore PROVE Owed(stack', scp')
<1>1. Running /\ Reads(Top) /\ Top.f = "read"
  BY DEF ReadMore, Is, Reads
<1>2. /\ SomeSeq(stack) /\ stack # <<>> /\ Top = stack[Len(stack)] /\ Len(stack) \in DOMAIN stack
      /\ ~FeedIn(Top)
  BY <1>1, TopShape, TopStays DEF OweInv, FeedIn
<1>3. CASE scp.pending = <<>>
  <2> DEFINE d == [scp EXCEPT !.feeding = FALSE]
  <2>1. scp' = d /\ stack' = Caller
    BY <1>3 DEF ReadMore, Returns
  <2>2. FeedsStay(stack, Caller)
    BY <1>1, <1>2, TopStays DEF OweInv
  <2>3. Owed(Caller, scp)
    BY <2>2, StayOwed DEF OweInv
  <2>4. /\ d.live = scp.live /\ d.handle = scp.handle /\ d.asked = scp.asked
        /\ d.parsed = scp.parsed /\ d.pending = scp.pending
    BY DEF OweInv, IInv, Fields
  <2> HIDE DEF d
  <2>5. Owed(Caller, d)
    BY <1>3, <2>3, <2>4 DEF Owed
  <2> QED
    BY <2>1, <2>5
<1>4. CASE scp.pending # <<>>
  <2> DEFINE n == Len(stack) d == [scp EXCEPT !.pending = <<>>]
  <2>1. scp' = d /\ stack' = stack \o <<ParseFrame("feed", 0, scp.pending)>>
    BY <1>4 DEF ReadMore, Calls
  <2>2. stack' = Append(stack, ParseFrame("feed", 0, scp.pending))
    BY <1>2, <2>1, TwoCalls
  <2>3. DOMAIN stack = 1 .. n /\ n \in Nat
    BY <1>2, SeqShape
  <2>4. scp.live /\ scp.handle /\ Busy(stack[n])
    BY <1>1, <1>2 DEF OweInv, IInv, Fits, Busy
  <2>5. scp.feeding
    BY <1>2, <2>4 DEF OweInv, IInv, Fits
  <2>6. \A i \in DOMAIN stack : ~FeedIn(stack[i])
    <3> SUFFICES ASSUME NEW i \in DOMAIN stack, FeedIn(stack[i]) PROVE FALSE
      OBVIOUS
    <3>1. i > 1 /\ Busy(stack[i - 1])
      BY DEF OweInv, IInv, Fits, Busy
    <3>2. i - 1 \in DOMAIN stack
      BY <2>3, <3>1
    <3>3. i - 1 = n
      BY <1>2, <2>4, <3>1, <3>2 DEF OweInv, IInv, Fits
    <3> QED
      BY <2>3, <3>3
  <2>7. /\ SomeSeq(scp.asked) /\ SomeSeq(scp.parsed) /\ SomeSeq(scp.pending)
        /\ scp.asked = scp.parsed \o IdsOf(scp.pending)
    BY <2>4, <2>6 DEF OweInv, Owed
  <2>8. /\ d.live = scp.live /\ d.handle = scp.handle /\ d.feeding = scp.feeding
        /\ d.asked = scp.asked /\ d.parsed = scp.parsed /\ d.pending = <<>>
    BY DEF OweInv, IInv, Fields
  <2> HIDE DEF d, n
  <2>9. Owed(Append(stack, ParseFrame("feed", 0, scp.pending)), d)
    BY <1>2, <2>5, <2>6, <2>7, <2>8, OwedFed DEF OweInv
  <2> QED
    BY <2>1, <2>2, <2>9
<1> QED
  BY <1>3, <1>4

\* The end of a write and a close; what closes gives the parser up.
LEMMA OwedClose == ASSUME OweInv, IInv', WriteDone \/ Close PROVE Owed(stack', scp')
<1>1. Fits(stack', scp') /\ DOMAIN scp = Fields
  BY DEF IInv, OweInv
<1>2. ASSUME NEW below, Finish(below) PROVE Owed(stack', scp')
  <2>1. ~scp'.handle
    BY <1>1, <1>2 DEF Finish, Fields
  <2> QED
    BY <1>1, <2>1, DeadOwed
<1>3. CASE Crash
  BY <1>3 DEF Crash, Document, OweInv
<1>4. CASE WriteDone /\ ~Crash
  <2>1. CASE closeRequested /\ scp.live /\ ~scp.feeding
    <3>1. Finish(Caller)
      BY <1>4, <2>1 DEF WriteDone
    <3> QED
      BY <1>2, <3>1
  <2>2. CASE ~(closeRequested /\ scp.live /\ ~scp.feeding)
    <3>1. stack' = Caller /\ scp' = scp /\ Running /\ Top.f = "written"
      BY <1>4, <2>2 DEF WriteDone, Returns, Is
    <3>2. ~FeedIn(Top)
      BY <3>1 DEF FeedIn
    <3>3. FeedsStay(stack, Caller)
      BY <3>1, <3>2, TopStays DEF OweInv
    <3> QED
      BY <3>1, <3>3, StayOwed DEF OweInv
  <2> QED
    BY <2>1, <2>2
<1>5. CASE Close /\ ~Crash
  <2>1. CASE scp.feeding
    BY <1>5, <2>1 DEF Close, OweInv
  <2>2. CASE ~scp.feeding
    <3>1. Finish(stack)
      BY <1>5, <2>2 DEF Close
    <3> QED
      BY <1>2, <3>1
  <2> QED
    BY <2>1, <2>2
<1> QED
  BY <1>3, <1>4, <1>5

\* The steps that leave the Streaming alone.
LEMMA OwedScripts ==
  ASSUME OweInv, EndJs \/ Splice \/ Terminate \/ CallThrows \/ Detach
  PROVE  Owed(stack', scp')
<1>1. ASSUME Running, Top.f # "parse", Grows(Caller), scp' = scp PROVE Owed(stack', scp')
  <2>1. ~FeedIn(Top)
    BY <1>1 DEF FeedIn
  <2>2. FeedsStay(stack, Caller) /\ SomeSeq(Caller)
    BY <1>1, <2>1, TopStays DEF OweInv
  <2>3. SameRecord(scp, scp')
    BY <1>1 DEF SameRecord, SameFlags
  <2> QED
    BY <1>1, <2>2, <2>3, KeepsOwed
<1>3. CASE EndJs
  <2>1. Running /\ Top.f # "parse" /\ scp' = scp
    BY <1>3 DEF EndJs, Is
  <2>2. Grows(Caller)
    BY <1>3, ScriptCalls DEF EndJs, Returns, Grows
  <2> QED
    BY <1>1, <2>1, <2>2
<1>4. CASE Splice
  <2>1. Running /\ Top.f # "parse" /\ scp' = scp
    BY <1>4, Zenon DEF Splice, Is
  <2>2. Grows(Caller)
    BY <1>4, Zenon DEF Splice, Returns, Grows
  <2> QED
    BY <1>1, <2>1, <2>2
<1>2. CASE Terminate \/ CallThrows \/ Detach
  BY <1>2 DEF Terminate, CallThrows, Detach, Document, OweInv
<1> QED
  BY <1>2, <1>3, <1>4

\* A write into the page.
LEMMA OwedWriteInline ==
  ASSUME OweInv, NEW kinds, WriteInline(kinds)
  PROVE  Owed(stack', scp')
<1>1. FeedsStay(stack, Caller1) /\ SomeSeq(Caller1)
  BY OwedCaller1 DEF WriteInline
<1>2. scp' = scp
  BY DEF WriteInline, Document
<1>3. Owed(Caller1, scp)
  BY <1>1, StayOwed DEF OweInv
<1>4. CASE stack' = Caller1
  BY <1>2, <1>3, <1>4
<1>5. CASE stack' # Caller1
  <2>1. PICK a, b : Plain(a) /\ Plain(b) /\ stack' = Caller1 \o <<a, b>>
    BY <1>5, PlainCalls DEF WriteInline
  <2>2. stack' = Append(Append(Caller1, a), b)
    BY <1>1, <2>1, TwoCalls
  <2>3. ~FeedIn(a) /\ ~FeedIn(b)
    BY <2>1 DEF Plain
  <2>4. FeedsStay(Caller1, Append(Caller1, a)) /\ SomeSeq(Append(Caller1, a))
    BY <1>1, <2>3, StayPush, OneMore
  <2>5. FeedsStay(Append(Caller1, a), Append(Append(Caller1, a), b))
    BY <2>3, <2>4, StayPush
  <2>6. FeedsStay(Caller1, stack')
    BY <2>2, <2>4, <2>5, StayTwice
  <2> QED
    BY <1>2, <1>3, <2>6, StayOwed
<1> QED
  BY <1>4, <1>5

\* What follows a parse.
LEMMA OwedAfter ==
  ASSUME OweInv, NEW pending \in BOOLEAN,
         FinishScripts \/ FinishComplete \/ EvaluateScripts \/ HookLoaded \/ HookComplete(pending)
  PROVE  Owed(stack', scp')
<1>1. Running /\ scp' = scp /\ Top.f # "parse"
  BY DEF FinishScripts, FinishComplete, EvaluateScripts, HookLoaded, HookComplete, Is, Document
<1>2. WellFramed(Top) /\ ~FeedIn(Top) /\ SomeSeq(stack)
  BY <1>1, TopShape, TopStays DEF OweInv, FeedIn
<1> DEFINE at(x) == Append(Caller, [Top EXCEPT !.stage = x])
<1>3. \A x : FeedsStay(stack, at(x)) /\ SomeSeq(at(x))
  <2> TAKE x
  <2> DEFINE fr == [Top EXCEPT !.stage = x]
  <2>1. SameCall(fr, Top)
    BY <1>2 DEF SameCall, WellFramed
  <2> HIDE DEF fr
  <2>2. FeedsStay(stack, Append(Caller, fr)) /\ SomeSeq(Append(Caller, fr))
    BY <1>1, <1>2, <2>1, TopStays DEF OweInv
  <2> QED
    BY <2>2 DEF fr
<1>4. Grows(stack) \/ \E x : Grows(at(x))
  <2>1. CASE FinishScripts
    <3>1. Evaluate(at("complete"), [sm EXCEPT !.static = TRUE])
      BY <2>1 DEF FinishScripts
    <3> QED
      BY <3>1, ScriptCalls
  <2>2. CASE FinishComplete
    <3>1. Complete(at("drop"))
      BY <2>2 DEF FinishComplete
    <3> QED
      BY <3>1, ScriptCalls
  <2>3. CASE EvaluateScripts
    <3>1. CASE sm.static /\ sm.deferred # <<>>
      BY <2>3, <3>1, ScriptCalls DEF EvaluateScripts, Grows
    <3>2. CASE ~(sm.static /\ sm.deferred # <<>>)
      <4>1. stack' = at("scripts") \/ stack' = at("loaded") \/ stack' = at("end")
        BY <2>3, <3>2 DEF EvaluateScripts, Becomes
      <4> QED
        BY <4>1 DEF Grows
    <3> QED
      BY <3>1, <3>2
  <2>4. CASE HookLoaded
    <3>1. stack' = at("complete") \/ \E by : Notify("event", by, at("complete"))
      BY <2>4 DEF HookLoaded
    <3> HIDE DEF at
    <3>2. Grows(at("complete"))
      BY <3>1, ScriptCalls DEF Grows
    <3> QED
      BY <3>2
  <2>5. CASE HookComplete(pending)
    <3>1. stack' = at("end") \/ Complete(at("end"))
      BY <2>5 DEF HookComplete
    <3> HIDE DEF at
    <3>2. Grows(at("end"))
      BY <3>1, ScriptCalls DEF Grows
    <3> QED
      BY <3>2
  <2> QED
    BY <2>1, <2>2, <2>3, <2>4, <2>5
<1> HIDE DEF at
<1>5. SameRecord(scp, scp') /\ FeedsStay(stack, stack)
  BY <1>1 DEF SameRecord, SameFlags, FeedsStay
<1>6. CASE Grows(stack)
  BY <1>2, <1>5, <1>6, KeepsOwed
<1>7. ASSUME NEW x, Grows(at(x)) PROVE Owed(stack', scp')
  BY <1>3, <1>5, <1>7, KeepsOwed
<1> QED
  BY <1>4, <1>6, <1>7

\* The last stage of an evaluation, the end of the page, a timer and the last load.
LEMMA OwedLast ==
  ASSUME OweInv, EvaluateEnd \/ PageDone \/ Task \/ LoadsDone
  PROVE  Owed(stack', scp')
<1>1. CASE EvaluateEnd \/ PageDone
  <2>1. Running /\ Top.f \in {"evaluate", "page"}
    BY <1>1 DEF EvaluateEnd, PageDone, Is
  <2>2. ~FeedIn(Top)
    BY <2>1 DEF FeedIn
  <2>3. FeedsStay(stack, Caller) /\ SomeSeq(Caller)
    BY <2>1, <2>2, TopStays DEF OweInv
  <2>4. Grows(Caller)
    BY <1>1, ScriptCalls DEF EvaluateEnd, PageDone
  <2>5. SameRecord(scp, scp')
    BY <1>1 DEF EvaluateEnd, PageDone, Document, SameRecord, SameFlags
  <2> QED
    BY <2>3, <2>4, <2>5, KeepsOwed
<1>2. CASE Task \/ LoadsDone
  <2>1. stack = <<>> /\ Grows(<<>>) /\ scp' = scp
    BY <1>2, ScriptCalls DEF Task, LoadsDone, Document
  <2>2. SameRecord(scp, scp') /\ FeedsStay(stack, stack) /\ SomeSeq(stack)
    BY <2>1 DEF SameRecord, SameFlags, FeedsStay, OweInv, IInv, Fits
  <2> QED
    BY <2>1, <2>2, KeepsOwed
<1> QED
  BY <1>1, <1>2

\* Every step keeps the account.
LEMMA StepOwed == ASSUME OweInv, [Next]_vars PROVE OweInv'
<1>1. IInv'
  BY StepFits DEF OweInv
<1>2. Owed(stack', scp')
  <2>1. CASE UNCHANGED vars
    BY <2>1 DEF vars, OweInv
  <2>2. CASE SwallowToken \/ TextToken \/ ScriptToken \/ CreateCustom \/ AppendCustom
    BY <2>2, OwedTokens
  <2>3. CASE PanicToken \/ FinishDrop
    <3>1. scp' = NoStream /\ ~NoStream.live
      BY <2>3 DEF PanicToken, FinishDrop, NoStream
    <3>2. Fits(stack', scp')
      BY <1>1 DEF IInv
    <3> QED
      BY <3>1, <3>2, DeadOwed
  <2>4. CASE EndParse
    BY <1>1, <2>4, OwedEndParse
  <2>5. CASE EndJs \/ Splice \/ Terminate \/ CallThrows \/ Detach
    BY <2>5, OwedScripts
  <2>6. ASSUME NEW kinds \in Chunks, WriteInline(kinds) \/ WriteStream(kinds)
        PROVE  Owed(stack', scp')
    BY <2>6, OwedWriteInline, OwedWriteStream
  <2>7. CASE ReadMore
    BY <2>7, OwedReadMore
  <2>8. CASE WriteDone \/ Close
    BY <1>1, <2>8, OwedClose
  <2>9. ASSUME NEW pending \in BOOLEAN,
               FinishScripts \/ FinishComplete \/ EvaluateScripts \/ HookLoaded
                 \/ HookComplete(pending)
        PROVE  Owed(stack', scp')
    BY <2>9, OwedAfter
  <2>10. CASE EvaluateEnd \/ PageDone \/ Task \/ LoadsDone
    BY <2>10, OwedLast
  <2>11. TRUE \in BOOLEAN
    OBVIOUS
  <2> QED
    BY <2>1, <2>2, <2>3, <2>4, <2>5, <2>6, <2>7, <2>8, <2>9, <2>10, <2>11 DEF Next
<1> QED
  BY <1>1, <1>2 DEF OweInv

\* The account says what StreamOnce says.
LEMMA OwedIsOnce == ASSUME OweInv PROVE StreamOnce
<1> SUFFICES ASSUME scp.live, scp.handle
             PROVE  scp.asked = scp.parsed
                      \o (IF Feeds({"feed"}) = {} THEN <<>>
                          ELSE IdsOf(stack[CHOOSE i \in Feeds({"feed"}) : TRUE].todo))
                      \o IdsOf(scp.pending)
  BY DEF StreamOnce
<1> DEFINE F == Feeds({"feed"}) p == IdsOf(scp.pending)
<1>1. F = {i \in DOMAIN stack : FeedIn(stack[i])}
  BY DEF Feeds, FeedIn
<1>2. SomeSeq(scp.parsed) /\ SomeSeq(p)
  <2>1. SomeSeq(scp.parsed) /\ SomeSeq(scp.pending)
    BY DEF OweInv, Owed
  <2> QED
    BY <2>1, IdsShape
<1> HIDE DEF F
<1>3. CASE F = {}
  <2>1. scp.asked = scp.parsed \o p
    BY <1>1, <1>3 DEF OweInv, Owed
  <2>2. scp.parsed \o <<>> = scp.parsed
    BY <1>2, JoinSeqs
  <2> QED
    BY <1>3, <2>1, <2>2 DEF F
<1>4. CASE F # {}
  <2> DEFINE i == CHOOSE x \in F : TRUE
  <2>1. i \in DOMAIN stack /\ FeedIn(stack[i])
    BY <1>1, <1>4
  <2>2. SomeSeq(stack[i].todo) /\ scp.asked = scp.parsed \o (IdsOf(stack[i].todo) \o p)
    BY <2>1 DEF OweInv, Owed
  <2> DEFINE a == scp.parsed b == IdsOf(stack[i].todo)
  <2> HIDE DEF i
  <2>3. SomeSeq(a) /\ SomeSeq(b) /\ SomeSeq(p)
    BY <1>2, <2>2, IdsShape
  <2> HIDE DEF a, b, p
  <2>4. (a \o b) \o p = a \o (b \o p)
    BY <2>3, JoinSeqs
  <2>5. scp.asked = (a \o b) \o p
    BY <2>2, <2>4 DEF a, b
  <2> QED
    BY <1>4, <2>5 DEF a, b, i, p, F
<1> QED
  BY <1>3, <1>4

\* What is written to a script-created parser is parsed in the order of the writes, each
\* token once, however the writes nest: nothing is lost between the read that feeds and the
\* reads that queue (Parser.zig, Streaming.read).
THEOREM StreamedOnce == Spec => []StreamOnce
<1>1. Init => OweInv
  <2> SUFFICES ASSUME Init PROVE OweInv
    OBVIOUS
  <2>1. IInv /\ scp = NoStream
    BY InitFits DEF Init
  <2>2. ~NoStream.live
    BY DEF NoStream
  <2> QED
    BY <2>1, <2>2, DeadOwed DEF OweInv, IInv
<1>2. OweInv /\ [Next]_vars => OweInv'
  BY StepOwed
<1>3. OweInv => StreamOnce
  BY OwedIsOnce
<1> QED
  BY <1>1, <1>2, <1>3, PTL DEF Spec

-----------------------------------------------------------------------------
(* What scripts see: the inductive invariant.                              *)

SplicesOf(s) == {i \in DOMAIN s : s[i].f = "splice"}
IsParse(fr)  == fr.f = "parse"
\* A script that sees what its parser did: all but a constructor's.
Sees(fr)     == fr.f = "js" /\ fr.from # "ctor"

\* The frames have the fields that their functions read.
Typed(fr) ==
  /\ "f" \in DOMAIN fr
  /\ IsParse(fr) => {"of", "n"} \subseteq DOMAIN fr
  /\ fr.f = "js" => "from" \in DOMAIN fr

\* The k-th fragment that is open has the number k, and each parser its caller.
Numbered(s) ==
  /\ \A i \in DOMAIN s : Typed(s[i])
  /\ \A i \in DOMAIN s : s[i].f = "page" => i = 1
  /\ {s[i].n : i \in SplicesOf(s)} = 1 .. Cardinality(SplicesOf(s))
  /\ \A i, j \in SplicesOf(s) : i < j => s[i].n < s[j].n
  /\ \A i \in DOMAIN s : IsParse(s[i]) =>
       /\ s[i].of \in {"page", "feed", "finish", "fragment"} /\ s[i].n \in 0 .. Depth
       /\ s[i].of = "fragment" => i > 1 /\ s[i - 1].f = "splice" /\ s[i - 1].n = s[i].n
       /\ s[i].of # "fragment" => s[i].n = 0
       /\ s[i].of = "page" => i > 1 /\ s[i - 1].f = "page"

\* The functions that run.
Kinds(s) == {s[i].f : i \in DOMAIN s}

\* While the page is parsed nothing is evaluated and nothing else can be written to.
PageFirst ==
  /\ scp.live => loadState # "parsing"
  /\ "pending" \in DOMAIN sm
  /\ "page" \in Kinds(stack) =>
       ~sm.pending /\ loadState = "parsing" /\ "evaluate" \notin Kinds(stack)

\* Below a script there is no text left in its parser's buffer.
Clean(s, p) ==
  \A i \in DOMAIN s : i + 1 \in DOMAIN s /\ IsParse(s[i]) /\ Sees(s[i + 1])
    => p[s[i].n].buf = <<>>

SeenInv == PollInv /\ IInv /\ Numbered(stack) /\ PageFirst /\ Clean(stack, parser)

-----------------------------------------------------------------------------
(* What scripts see: calls and returns.                                    *)

\* The frames that are splices are finitely many.
LEMMA SplicesFinite ==
  ASSUME NEW s, SomeSeq(s)
  PROVE  IsFiniteSet(SplicesOf(s)) /\ Cardinality(SplicesOf(s)) \in Nat
<1>1. DOMAIN s = 1 .. Len(s) /\ Len(s) \in Nat
  BY SeqShape
<1>2. IsFiniteSet(1 .. Len(s))
  BY <1>1, FS_Interval
<1>3. SplicesOf(s) \subseteq 1 .. Len(s)
  BY <1>1 DEF SplicesOf
<1>4. IsFiniteSet(SplicesOf(s))
  BY <1>2, <1>3, FS_Subset
<1> QED
  BY <1>4, FS_CardinalityType

\* A prefix, where the last frame goes.
LEMMA NumberedPop ==
  ASSUME NEW s, SomeSeq(s), s # <<>>, Numbered(s)
  PROVE  Numbered(Front(s)) /\ SomeSeq(Front(s))
<1> DEFINE t == Front(s) n == Len(s) S == SplicesOf(s) T == SplicesOf(t)
<1>1. /\ SomeSeq(t) /\ DOMAIN s = DOMAIN t \union {n} /\ n \notin DOMAIN t
      /\ \A i \in DOMAIN t : t[i] = s[i]
  BY FrontSeq
<1>2. n \in Nat /\ DOMAIN s = 1 .. n
  BY SeqShape
<1> HIDE DEF t, n
<1>3. \A i \in DOMAIN t : i \in 1 .. n /\ i < n /\ t[i] = s[i] /\ (i > 1 => i - 1 \in DOMAIN t)
  BY <1>1, <1>2
<1>4. T = S \ {n}
  BY <1>1 DEF SplicesOf
<1>5. IsFiniteSet(S) /\ Cardinality(S) \in Nat
  BY SplicesFinite
<1>6. {t[i].n : i \in T} = {s[i].n : i \in T}
  BY <1>3 DEF SplicesOf
<1>7. {s[i].n : i \in S} = 1 .. Cardinality(S)
  BY DEF Numbered
<1>8. \A i, j \in S : i < j => s[i].n < s[j].n
  BY DEF Numbered
<1>9. S \subseteq 1 .. n
  BY <1>2 DEF SplicesOf
<1> HIDE DEF S, T
<1>10. {s[i].n : i \in T} = 1 .. Cardinality(T)
  <2>1. CASE n \notin S
    <3>1. T = S
      BY <1>4, <2>1
    <3> QED
      BY <1>7, <3>1
  <2>2. CASE n \in S
    <3>1. Cardinality(T) = Cardinality(S) - 1
      BY <1>4, <1>5, <2>2, FS_RemoveElement
    <3>2. \A i \in S : s[i].n \in 1 .. Cardinality(S)
      BY <1>7
    <3>3. \A i \in T : i \in S /\ s[i].n < s[n].n
      BY <1>4, <1>8, <1>9, <2>2
    <3>4. s[n].n = Cardinality(S)
      <4>1. Cardinality(S) \in 1 .. Cardinality(S)
        BY <1>5, <2>2, <3>2
      <4>2. PICK i \in S : s[i].n = Cardinality(S)
        BY <1>7, <4>1
      <4>3. CASE i = n
        BY <4>2, <4>3
      <4>4. CASE i # n
        BY <1>4, <1>5, <2>2, <3>2, <3>3, <4>2, <4>4
      <4> QED
        BY <4>3, <4>4
    <3>5. ASSUME NEW i \in T PROVE s[i].n \in 1 .. Cardinality(T)
      BY <1>5, <3>1, <3>2, <3>3, <3>4
    <3>6. ASSUME NEW k \in 1 .. Cardinality(T) PROVE \E i \in T : s[i].n = k
      <4>1. k \in 1 .. Cardinality(S) /\ k # Cardinality(S)
        BY <1>5, <3>1
      <4>2. PICK i \in S : s[i].n = k
        BY <1>7, <4>1
      <4>3. i # n
        BY <3>4, <4>1, <4>2
      <4> QED
        BY <1>4, <4>2, <4>3
    <3> QED
      BY <3>5, <3>6
  <2> QED
    BY <2>1, <2>2
<1>11. \A i, j \in T : i < j => t[i].n < t[j].n
  BY <1>3, <1>4, <1>8 DEF T, SplicesOf
<1>12. \A i \in DOMAIN t : Typed(t[i]) /\ (t[i].f = "page" => i = 1)
  BY <1>1, <1>3 DEF Numbered
<1>13. ASSUME NEW i \in DOMAIN t, IsParse(t[i])
       PROVE  /\ t[i].of \in {"page", "feed", "finish", "fragment"} /\ t[i].n \in 0 .. Depth
              /\ t[i].of = "fragment" => i > 1 /\ t[i - 1].f = "splice" /\ t[i - 1].n = t[i].n
              /\ t[i].of # "fragment" => t[i].n = 0
              /\ t[i].of = "page" => i > 1 /\ t[i - 1].f = "page"
  <2>1. i \in DOMAIN s /\ IsParse(s[i]) /\ t[i] = s[i]
    BY <1>1, <1>13
  <2>2. i > 1 => t[i - 1] = s[i - 1]
    BY <1>3
  <2> QED
    BY <2>1, <2>2 DEF Numbered
<1>14. {t[i].n : i \in T} = 1 .. Cardinality(T)
  BY <1>6, <1>10
<1> QED
  BY <1>1, <1>11, <1>12, <1>13, <1>14 DEF Numbered, T, t

\* What a new top frame must be, on top of s.
Callable(s, fr) ==
  /\ Typed(fr) /\ fr.f # "page"
  /\ fr.f = "splice" => fr.n = Cardinality(SplicesOf(s)) + 1
  /\ IsParse(fr) =>
       /\ fr.of \in {"feed", "finish", "fragment"} /\ fr.n \in 0 .. Depth
       /\ fr.of = "fragment" => s # <<>> /\ Last(s).f = "splice" /\ Last(s).n = fr.n
       /\ fr.of # "fragment" => fr.n = 0

\* A call.
LEMMA NumberedPush ==
  ASSUME NEW s, SomeSeq(s), Numbered(s), NEW fr, Callable(s, fr)
  PROVE  Numbered(Append(s, fr)) /\ SomeSeq(Append(s, fr))
<1> DEFINE t == Append(s, fr) n == Len(s) + 1 S == SplicesOf(s) T == SplicesOf(t)
<1>1. /\ SomeSeq(t) /\ DOMAIN t = DOMAIN s \union {n}
      /\ (\A i \in DOMAIN s : t[i] = s[i]) /\ t[n] = fr
  BY PushSeq
<1>2. DOMAIN s = 1 .. Len(s) /\ Len(s) \in Nat /\ (s # <<>> => Len(s) \in DOMAIN s)
  BY SeqShape
<1>3. n \notin DOMAIN s /\ n - 1 = Len(s) /\ \A i \in DOMAIN s : i < n /\ (i > 1 => i - 1 \in DOMAIN s)
  BY <1>2
<1>4. s # <<>> => n > 1 /\ t[n - 1] = Last(s)
  BY <1>1, <1>2, <1>3 DEF Last
<1> HIDE DEF t, n
<1>5. IsFiniteSet(S) /\ Cardinality(S) \in Nat
  BY SplicesFinite
<1>6. {s[i].n : i \in S} = 1 .. Cardinality(S) /\ \A i, j \in S : i < j => s[i].n < s[j].n
  BY DEF Numbered
<1>7. S \subseteq DOMAIN s
  BY DEF SplicesOf
<1>8. {t[i].n : i \in T} = 1 .. Cardinality(T) /\ \A i, j \in T : i < j => t[i].n < t[j].n
  <2>1. CASE fr.f # "splice"
    <3>1. T = S
      BY <1>1, <1>3, <2>1 DEF SplicesOf
    <3>2. \A i \in S : t[i] = s[i]
      BY <1>1, <1>7
    <3> HIDE DEF S, T
    <3> QED
      BY <1>6, <3>1, <3>2
  <2>2. CASE fr.f = "splice"
    <3>1. T = S \union {n}
      BY <1>1, <2>2 DEF SplicesOf
    <3>2. n \notin S
      BY <1>3, <1>7
    <3>3. \A i \in S : t[i] = s[i] /\ i < n
      BY <1>1, <1>3, <1>7
    <3>4. t[n].n = Cardinality(S) + 1
      BY <1>1, <2>2 DEF Callable
    <3> HIDE DEF S, T
    <3>5. Cardinality(T) = Cardinality(S) + 1
      BY <1>5, <3>1, <3>2, FS_AddElement
    <3>6. \A i \in S : t[i].n \in 1 .. Cardinality(S)
      BY <1>6, <3>3
    <3>7. ASSUME NEW i \in T PROVE t[i].n \in 1 .. Cardinality(T)
      BY <1>5, <3>1, <3>4, <3>5, <3>6
    <3>8. ASSUME NEW k \in 1 .. Cardinality(T) PROVE \E i \in T : t[i].n = k
      <4>1. CASE k = Cardinality(T)
        BY <3>1, <3>4, <3>5, <4>1
      <4>2. CASE k # Cardinality(T)
        <5>1. k \in 1 .. Cardinality(S)
          BY <1>5, <3>5, <4>2
        <5>2. PICK i \in S : s[i].n = k
          BY <1>6, <5>1
        <5> QED
          BY <3>1, <3>3, <5>2
      <4> QED
        BY <4>1, <4>2
    <3>9. ASSUME NEW i \in T, NEW j \in T, i < j PROVE t[i].n < t[j].n
      <4>1. i \in S
        <5>1. CASE i = n
          <6>1. j \in DOMAIN s \/ j = n
            BY <1>7, <3>1
          <6> QED
            BY <1>2, <1>3, <3>9, <5>1, <6>1 DEF n
        <5> QED
          BY <3>1, <5>1
      <4>2. CASE j \in S
        BY <1>6, <3>3, <3>9, <4>1, <4>2
      <4>3. CASE j = n
        BY <1>5, <3>4, <3>6, <4>1, <4>3
      <4> QED
        BY <3>1, <4>2, <4>3
    <3>10. {t[i].n : i \in T} = 1 .. Cardinality(T)
      BY <3>7, <3>8
    <3> QED
      BY <3>9, <3>10
  <2> QED
    BY <2>1, <2>2
<1>9. \A i \in DOMAIN t : Typed(t[i]) /\ (t[i].f = "page" => i = 1)
  BY <1>1 DEF Numbered, Callable
<1>10. ASSUME NEW i \in DOMAIN t, IsParse(t[i])
       PROVE  /\ t[i].of \in {"page", "feed", "finish", "fragment"} /\ t[i].n \in 0 .. Depth
              /\ t[i].of = "fragment" => i > 1 /\ t[i - 1].f = "splice" /\ t[i - 1].n = t[i].n
              /\ t[i].of # "fragment" => t[i].n = 0
              /\ t[i].of = "page" => i > 1 /\ t[i - 1].f = "page"
  <2>1. CASE i \in DOMAIN s
    <3>1. IsParse(s[i]) /\ t[i] = s[i] /\ (i > 1 => t[i - 1] = s[i - 1])
      BY <1>1, <1>3, <1>10, <2>1
    <3> QED
      BY <2>1, <3>1 DEF Numbered
  <2>2. CASE i = n
    <3>1. t[i] = fr /\ IsParse(fr)
      BY <1>1, <1>10, <2>2
    <3> QED
      BY <1>4, <2>2, <3>1 DEF Callable
  <2> QED
    BY <1>1, <2>1, <2>2
<1> HIDE DEF T
<1>11. Numbered(t)
  BY <1>8, <1>9, <1>10 DEF Numbered, T
<1> QED
  BY <1>1, <1>11 DEF t

\* A stack of functions out of K that sees the parsers p.
Sits(s, K, p) == SomeSeq(s) /\ Numbered(s) /\ Clean(s, p) /\ Kinds(s) \subseteq K

\* The frame fr can be called on s: no text is left in the buffer below a script.
SeesClean(s, fr, p) == Sees(fr) /\ s # <<>> /\ IsParse(Last(s)) => p[Last(s).n].buf = <<>>

\* A return.
LEMMA SitsPop ==
  ASSUME NEW s, NEW K, NEW p, Sits(s, K, p), s # <<>>
  PROVE  Sits(Front(s), K, p)
<1> DEFINE t == Front(s) n == Len(s)
<1>1. SomeSeq(s) /\ Numbered(s) /\ Clean(s, p) /\ Kinds(s) \subseteq K
  BY DEF Sits
<1>2. SomeSeq(t) /\ Numbered(t)
  BY <1>1, NumberedPop
<1>3. DOMAIN s = DOMAIN t \union {n} /\ \A i \in DOMAIN t : t[i] = s[i]
  BY <1>1, FrontSeq
<1> HIDE DEF t, n
<1>4. \A i \in DOMAIN t : i \in DOMAIN s /\ t[i] = s[i]
  BY <1>3
<1>5. Clean(t, p)
  BY <1>1, <1>4 DEF Clean
<1>6. Kinds(t) \subseteq K
  BY <1>1, <1>4 DEF Kinds
<1> QED
  BY <1>2, <1>5, <1>6 DEF Sits, t

\* A call.
LEMMA SitsPush ==
  ASSUME NEW s, NEW K, NEW p, Sits(s, K, p), NEW fr, Callable(s, fr), SeesClean(s, fr, p)
  PROVE  Sits(Append(s, fr), K \union {fr.f}, p)
<1> DEFINE t == Append(s, fr) n == Len(s)
<1>1. SomeSeq(t) /\ Numbered(t)
  BY NumberedPush DEF Sits
<1>2. /\ DOMAIN t = DOMAIN s \union {n + 1} /\ \A i \in DOMAIN s : t[i] = s[i]
      /\ t[n + 1] = fr
  BY PushSeq DEF Sits
<1>3. n \in Nat /\ DOMAIN s = 1 .. n /\ (s # <<>> => n \in DOMAIN s)
  BY SeqShape DEF Sits
<1>4. SeesClean(s, fr, p) => (Sees(fr) /\ s # <<>> /\ IsParse(s[n]) => p[s[n].n].buf = <<>>)
  BY Zenon DEF SeesClean, Last, n
<1> HIDE DEF t, n
<1>5. Clean(t, p)
  <2> SUFFICES ASSUME NEW i \in DOMAIN t, i + 1 \in DOMAIN t, IsParse(t[i]), Sees(t[i + 1])
               PROVE  p[t[i].n].buf = <<>>
    BY DEF Clean
  <2>1. i \in DOMAIN s /\ t[i] = s[i]
    BY <1>2, <1>3
  <2>2. CASE i + 1 \in DOMAIN s
    BY <1>2, <2>1, <2>2 DEF Sits, Clean
  <2>3. CASE i = n
    <3>1. s # <<>>
      BY <2>1, <2>3
    <3> QED
      BY <1>2, <1>4, <2>1, <2>3, <3>1
  <2> QED
    BY <1>2, <1>3, <2>1, <2>2, <2>3
<1>6. Kinds(t) \subseteq K \union {fr.f}
  BY <1>2 DEF Sits, Kinds
<1> QED
  BY <1>1, <1>5, <1>6 DEF Sits, t

\* The frame at the top goes on.
Continues(fr, gr) ==
  /\ Typed(fr) /\ fr.f = gr.f /\ fr.f # "splice"
  /\ IsParse(fr) => fr.of = gr.of /\ fr.n = gr.n
  /\ fr.f = "js" => fr.from = gr.from

\* The top frame goes on as the call it is.
LEMMA SitsSwap ==
  ASSUME NEW s, NEW K, NEW p, Sits(s, K, p), s # <<>>, NEW fr
  PROVE  Continues(fr, Last(s)) =>
           Sits(Append(Front(s), fr), K, p) /\ SplicesOf(Append(Front(s), fr)) = SplicesOf(s)
<1> DEFINE r == Front(s) t == Append(r, fr) n == Len(s)
<1>1. /\ SomeSeq(r) /\ DOMAIN s = DOMAIN r \union {n} /\ n \notin DOMAIN r
      /\ \A i \in DOMAIN r : r[i] = s[i]
  BY FrontSeq DEF Sits
<1>2. n \in Nat /\ DOMAIN s = 1 .. n /\ n \in DOMAIN s
  BY SeqShape DEF Sits
<1>3. Len(r) + 1 = n
  <2>1. Len(r) = Len(s) - 1
    BY FrontSeq DEF Sits
  <2> QED
    BY <1>2, <2>1
<1>4. SUFFICES ASSUME Continues(fr, s[n]) PROVE Sits(t, K, p) /\ SplicesOf(t) = SplicesOf(s)
  BY Zenon DEF Last, r, t, n
<1> HIDE DEF r, n
<1>5. /\ SomeSeq(t) /\ DOMAIN t = DOMAIN r \union {n}
      /\ (\A i \in DOMAIN r : t[i] = r[i]) /\ t[n] = fr
  BY <1>1, <1>3, PushSeq
<1> HIDE DEF t
<1>6. DOMAIN t = DOMAIN s /\ \A i \in DOMAIN s : i # n => t[i] = s[i]
  BY <1>1, <1>5
<1>7. \A i \in DOMAIN s : t[i].f = s[i].f
  BY <1>4, <1>5, <1>6 DEF Continues
<1>8. SplicesOf(t) = SplicesOf(s)
  BY <1>6, <1>7 DEF SplicesOf
<1>9. n \notin SplicesOf(s)
  BY <1>4 DEF SplicesOf, Continues
<1>10. \A i \in SplicesOf(s) : t[i] = s[i]
  BY <1>6, <1>9 DEF SplicesOf
<1>11. {t[i].n : i \in SplicesOf(t)} = {s[i].n : i \in SplicesOf(s)}
  BY <1>8, <1>10
<1>12. \A i \in DOMAIN s : IsParse(t[i]) => IsParse(s[i]) /\ t[i].of = s[i].of /\ t[i].n = s[i].n
  BY <1>4, <1>5, <1>6 DEF Continues, IsParse
<1>13. \A i \in DOMAIN s : Sees(t[i]) => Sees(s[i])
  BY <1>4, <1>5, <1>6 DEF Continues, Sees
<1>14. \A i \in DOMAIN t : Typed(t[i]) /\ (t[i].f = "page" => i = 1)
  BY <1>4, <1>5, <1>6, <1>7 DEF Sits, Numbered, Continues
<1>15. ASSUME NEW i \in DOMAIN t, IsParse(t[i])
       PROVE  /\ t[i].of \in {"page", "feed", "finish", "fragment"} /\ t[i].n \in 0 .. Depth
              /\ t[i].of = "fragment" => i > 1 /\ t[i - 1].f = "splice" /\ t[i - 1].n = t[i].n
              /\ t[i].of # "fragment" => t[i].n = 0
              /\ t[i].of = "page" => i > 1 /\ t[i - 1].f = "page"
  <2>1. i \in DOMAIN s /\ IsParse(s[i]) /\ t[i].of = s[i].of /\ t[i].n = s[i].n
    BY <1>6, <1>12, <1>15
  <2>2. /\ s[i].of \in {"page", "feed", "finish", "fragment"} /\ s[i].n \in 0 .. Depth
        /\ s[i].of = "fragment" => i > 1 /\ s[i - 1].f = "splice" /\ s[i - 1].n = s[i].n
        /\ s[i].of # "fragment" => s[i].n = 0
        /\ s[i].of = "page" => i > 1 /\ s[i - 1].f = "page"
    BY <2>1 DEF Sits, Numbered
  <2>3. i > 1 => i - 1 \in DOMAIN s /\ t[i - 1] = s[i - 1]
    BY <1>2, <1>6, <2>1
  <2> QED
    BY <2>1, <2>2, <2>3
<1>16. \A i, j \in SplicesOf(t) : i < j => t[i].n < t[j].n
  BY <1>8, <1>10 DEF Sits, Numbered
<1>17. {t[i].n : i \in SplicesOf(t)} = 1 .. Cardinality(SplicesOf(t))
  BY <1>8, <1>11 DEF Sits, Numbered
<1>18. Numbered(t)
  BY <1>14, <1>15, <1>16, <1>17 DEF Numbered
<1>19. Clean(t, p)
  <2> SUFFICES ASSUME NEW i \in DOMAIN t, i + 1 \in DOMAIN t, IsParse(t[i]), Sees(t[i + 1])
               PROVE  p[t[i].n].buf = <<>>
    BY DEF Clean
  <2>1. IsParse(s[i]) /\ Sees(s[i + 1]) /\ t[i].n = s[i].n
    BY <1>6, <1>12, <1>13
  <2> QED
    BY <1>6, <2>1 DEF Sits, Clean
<1>20. Kinds(t) \subseteq K
  BY <1>6, <1>7 DEF Sits, Kinds
<1> QED
  BY <1>5, <1>8, <1>18, <1>19, <1>20 DEF Sits

-----------------------------------------------------------------------------
(* What scripts see: each parser on the stack has a container of its own.  *)

\* A frame is of a kind that is on the stack.
LEMMA FrameKinds ==
  ASSUME NEW s, NEW i \in DOMAIN s
  PROVE  s[i].f \in Kinds(s)
  BY DEF Kinds

\* With the page nothing is fed or finished: nothing can be written to yet.
LEMMA PageAlone ==
  ASSUME SeenInv, "page" \in Kinds(stack)
  PROVE  \A i \in DOMAIN stack : ~FeedIn(stack[i]) /\ ~FinishIn(stack[i])
<1>1. ~scp.live /\ Fits(stack, scp)
  BY DEF SeenInv, PageFirst, IInv
<1>2. \A i \in DOMAIN stack : ~Reads(stack[i]) /\ ~Finished(stack[i])
  BY <1>1, NotLive
<1>3. DOMAIN stack = 1 .. Len(stack) /\ Len(stack) \in Nat
  BY <1>1, SeqShape DEF Fits
<1>4. \A i \in DOMAIN stack : i > 1 => i - 1 \in DOMAIN stack
  BY <1>3
<1> QED
  BY <1>1, <1>2, <1>4 DEF Fits

\* Two parsers on the stack have two containers.
LEMMA OwnContainer ==
  ASSUME SeenInv, NEW i \in DOMAIN stack, NEW j \in DOMAIN stack, IsParse(stack[i]),
         IsParse(stack[j]), stack[i].n = stack[j].n
  PROVE  i = j
<1>1. Fits(stack, scp) /\ Numbered(stack)
  BY DEF SeenInv, IInv
<1>2. DOMAIN stack = 1 .. Len(stack) /\ Len(stack) \in Nat
  BY <1>1, SeqShape DEF Fits
<1>3. \A k \in DOMAIN stack : k \in Nat /\ (k > 1 => k - 1 \in DOMAIN stack)
  BY <1>2
<1> DEFINE S == SplicesOf(stack)
<1>4. IsFiniteSet(S) /\ Cardinality(S) \in Nat
  BY <1>1, SplicesFinite DEF Fits
<1>5. \A k \in S : stack[k].n \in 1 .. Cardinality(S)
  BY <1>1 DEF Numbered
<1>6. ASSUME NEW k \in DOMAIN stack, IsParse(stack[k]), stack[k].of = "fragment"
      PROVE  k - 1 \in S /\ stack[k - 1].n = stack[k].n /\ stack[k].n > 0
  <2>1. k > 1 /\ stack[k - 1].f = "splice" /\ stack[k - 1].n = stack[k].n
    BY <1>1, <1>6 DEF Numbered
  <2>2. k - 1 \in S
    BY <1>3, <2>1 DEF SplicesOf
  <2>3. stack[k - 1].n > 0
    BY <1>4, <1>5, <2>2
  <2> QED
    BY <2>1, <2>2, <2>3
<1>7. \A k, l \in S : k < l => stack[k].n < stack[l].n
  BY <1>1 DEF Numbered
<1>8. S \subseteq DOMAIN stack
  BY DEF SplicesOf
<1> HIDE DEF S
<1>9. \A k, l \in S : stack[k].n = stack[l].n => k = l
  BY <1>3, <1>5, <1>7, <1>8
<1>10. \A k \in DOMAIN stack : IsParse(stack[k]) /\ stack[k].of # "fragment" => stack[k].n = 0
  BY <1>1 DEF Numbered
<1>11. CASE stack[i].of = "fragment" /\ stack[j].of = "fragment"
  <2>1. i - 1 \in S /\ j - 1 \in S /\ stack[i - 1].n = stack[j - 1].n
    BY <1>6, <1>11
  <2>2. i - 1 = j - 1
    BY <1>9, <2>1
  <2> QED
    BY <1>3, <2>2
<1>12. CASE stack[i].of # "fragment" /\ stack[j].of # "fragment"
  <2>1. \A k \in DOMAIN stack : IsParse(stack[k]) => stack[k].of \in {"page", "feed", "finish", "fragment"}
    BY <1>1 DEF Numbered
  <2>2. \A k \in DOMAIN stack : IsParse(stack[k]) /\ stack[k].of = "page" =>
          k - 1 = 1 /\ "page" \in Kinds(stack)
    BY <1>1, <1>3, FrameKinds DEF Numbered
  <2>3. CASE stack[i].of = "page" \/ stack[j].of = "page"
    <3>1. "page" \in Kinds(stack)
      BY <2>2, <2>3
    <3>2. stack[i].of = "page" /\ stack[j].of = "page"
      BY <1>12, <2>1, <3>1, PageAlone DEF FeedIn, FinishIn, IsParse
    <3>3. i - 1 = 1 /\ j - 1 = 1
      BY <2>2, <3>2
    <3> QED
      BY <1>3, <3>3
  <2>4. CASE stack[i].of # "page" /\ stack[j].of # "page"
    <3>1. FeedIn(stack[i]) \/ FinishIn(stack[i])
      BY <1>12, <2>1, <2>4 DEF FeedIn, FinishIn, IsParse
    <3>2. FeedIn(stack[j]) \/ FinishIn(stack[j])
      BY <1>12, <2>1, <2>4 DEF FeedIn, FinishIn, IsParse
    <3>3. \A k \in DOMAIN stack : FeedIn(stack[k]) => k - 1 \in DOMAIN stack /\ Reads(stack[k - 1])
      BY <1>1, <1>3 DEF Fits
    <3>4. \A k, l \in DOMAIN stack : Busy(stack[k]) /\ Busy(stack[l]) => k = l
      BY <1>1 DEF Fits
    <3>5. \A k \in DOMAIN stack : ~(Reads(stack[k]) /\ FinishIn(stack[k]))
      BY DEF Reads, FinishIn
    <3>6. CASE FeedIn(stack[i]) /\ FeedIn(stack[j])
      <4>1. i - 1 = j - 1
        BY <3>3, <3>4, <3>6 DEF Busy
      <4> QED
        BY <1>3, <4>1
    <3>7. CASE FinishIn(stack[i]) /\ FinishIn(stack[j])
      BY <3>4, <3>7 DEF Busy
    <3>8. ASSUME NEW k \in DOMAIN stack, NEW l \in DOMAIN stack, FeedIn(stack[k]), FinishIn(stack[l])
          PROVE  FALSE
      <4>1. k - 1 \in DOMAIN stack /\ Reads(stack[k - 1])
        BY <3>3, <3>8
      <4>2. k - 1 = l
        BY <3>4, <3>8, <4>1 DEF Busy
      <4> QED
        BY <3>5, <3>8, <4>1, <4>2
    <3> QED
      BY <3>1, <3>2, <3>6, <3>7, <3>8
  <2> QED
    BY <2>3, <2>4
<1>13. CASE stack[i].of = "fragment" /\ stack[j].of # "fragment"
  BY <1>6, <1>10, <1>13
<1>14. CASE stack[i].of # "fragment" /\ stack[j].of = "fragment"
  BY <1>6, <1>10, <1>14
<1> QED
  BY <1>11, <1>12, <1>13, <1>14

\* What a step does to the parsers: at most one changes, that at the top, or one that is
\* left with nothing in its buffer.
ParserGoes ==
  \/ parser' = parser
  \/ \E c, q : q.buf = <<>> /\ parser' = [parser EXCEPT ![c] = q]
  \/ Running /\ IsParse(Top) /\ \E q : parser' = [parser EXCEPT ![Top.n] = q]

\* A step of the parser alone leaves the stack as it sits.
LEMMA StillClean ==
  ASSUME SeenInv, ParserGoes
  PROVE  Sits(stack, Kinds(stack), parser')
<1>1. SomeSeq(stack) /\ Numbered(stack) /\ Clean(stack, parser) /\ DOMAIN parser = 0 .. Depth
  BY DEF SeenInv, IInv, Fits, PollInv
<1>2. SUFFICES ASSUME NEW i \in DOMAIN stack, i + 1 \in DOMAIN stack, IsParse(stack[i]), Sees(stack[i + 1])
               PROVE  parser'[stack[i].n].buf = <<>>
  BY <1>1 DEF Sits, Clean
<1>3. parser[stack[i].n].buf = <<>> /\ stack[i].n \in DOMAIN parser
  BY <1>1, <1>2 DEF Clean, Numbered
<1>4. CASE parser' = parser
  BY <1>3, <1>4
<1>5. ASSUME NEW c, NEW q, q.buf = <<>>, parser' = [parser EXCEPT ![c] = q]
      PROVE  parser'[stack[i].n].buf = <<>>
  BY <1>3, <1>5
<1>6. ASSUME Running, IsParse(Top), NEW q, parser' = [parser EXCEPT ![Top.n] = q]
      PROVE  parser'[stack[i].n].buf = <<>>
  <2>1. DOMAIN stack = 1 .. Len(stack) /\ Len(stack) \in Nat /\ Top = stack[Len(stack)]
        /\ Len(stack) \in DOMAIN stack
    BY <1>1, <1>6, SeqShape, TopShape DEF SeenInv
  <2>2. i # Len(stack)
    BY <1>2, <2>1
  <2>3. stack[i].n # Top.n
    BY <1>2, <1>6, <2>1, <2>2, OwnContainer
  <2> QED
    BY <1>3, <1>6, <2>3
<1> QED
  BY <1>4, <1>5, <1>6 DEF ParserGoes

-----------------------------------------------------------------------------
(* What scripts see, step by step.                                         *)

\* What is ever called, but for what evaluates.
Called == {"js", "parse", "read", "written", "finished", "splice"}

\* The page's own rule stays: nothing is evaluated, or the page is not on the stack.
LEMMA QuietStep ==
  ASSUME SeenInv, NEW p, Sits(stack', Kinds(stack) \union Called, p),
         scp'.live => scp.live \/ loadState # "parsing",
         loadState' = loadState, "pending" \in DOMAIN sm', sm'.pending = sm.pending
  PROVE  PageFirst'
<1>1. Kinds(stack') \subseteq Kinds(stack) \union Called
  BY DEF Sits
<1>2. "page" \notin Called /\ "evaluate" \notin Called
  BY DEF Called
<1>3. Kinds(stack)' = Kinds(stack')
  BY DEF Kinds
<1> QED
  BY <1>1, <1>2, <1>3 DEF SeenInv, PageFirst

\* A step after the page is parsed.
LEMMA LaterStep ==
  ASSUME SeenInv, "page" \notin Kinds(stack'),
         scp'.live => scp.live \/ loadState # "parsing",
         loadState' = loadState \/ loadState' # "parsing", "pending" \in DOMAIN sm'
  PROVE  PageFirst'
<1>1. Kinds(stack)' = Kinds(stack')
  BY DEF Kinds
<1> QED
  BY <1>1 DEF SeenInv, PageFirst

\* The invariant after a step, put together.
LEMMA StepSees ==
  ASSUME PollInv', IInv', PageFirst', NEW K, Sits(stack', K, parser')
  PROVE  SeenInv'
BY DEF Sits, SeenInv, Numbered, Clean, SplicesOf

\* The last frame called is the last.
LEMMA LastPush == ASSUME NEW s, SomeSeq(s), NEW fr PROVE Last(Append(s, fr)) = fr
<1> DEFINE t == Append(s, fr) n == Len(s)
<1>1. Len(t) = n + 1 /\ t[n + 1] = fr
  BY PushSeq
<1> HIDE DEF t, n
<1>2. Last(t) = t[Len(t)]
  BY Zenon DEF Last
<1> QED
  BY <1>1, <1>2 DEF t

\* What runs scripts or listeners calls one at most, and what evaluates evaluates.
Runs(below)      == stack' = below \/ \E fr : Typed(fr) /\ fr.f = "js" /\ stack' = Append(below, fr)
Evaluates(below) == \/ stack' = below
                    \/ \E fr : Typed(fr) /\ fr.f = "evaluate" /\ stack' = Append(below, fr)

\* A frame of script is typed and keeps its origin.
LEMMA JsTyped == \A from, by : Typed(JsFrame(from, by)) /\ JsFrame(from, by).f = "js"
                               /\ JsFrame(from, by).from = from
  BY DEF Typed, JsFrame, IsParse

\* Scripts, their notifications and the evaluation loop add frames of called kinds only.
LEMMA ScriptRuns ==
  ASSUME NEW below
  PROVE  /\ \A from, id : Eval(from, id, below) => Runs(below)
         /\ \A from, by : Notify(from, by, below) => Runs(below)
         /\ \A sm1 : Evaluate(below, sm1) => Evaluates(below)
         /\ \A sm1, was : EndWindow(below, sm1, was) => Evaluates(below)
         /\ Complete(below) => Runs(below)
<1>1. \A from, id : Eval(from, id, below) => Runs(below)
  BY JsTyped DEF Eval, Runs
<1>2. \A from, by : Notify(from, by, below) => Runs(below)
  BY JsTyped DEF Notify, Runs
<1>3. \A sm1 : Evaluate(below, sm1) => Evaluates(below)
  <2> DEFINE fr == [f |-> "evaluate", stage |-> "scripts"]
  <2>1. Typed(fr) /\ fr.f = "evaluate"
    BY DEF Typed, IsParse
  <2> QED
    BY <2>1 DEF Evaluate, Evaluates
<1>4. \A sm1, was : EndWindow(below, sm1, was) => Evaluates(below)
  BY <1>3 DEF EndWindow, Evaluates
<1>5. Complete(below) => Runs(below)
  BY <1>2 DEF Complete, Runs
<1> QED
  BY <1>1, <1>2, <1>3, <1>4, <1>5

\* The function below, if it is a parser, has an empty buffer.
NoText(below, p) == below # <<>> /\ IsParse(Last(below)) => p[Last(below).n].buf = <<>>

\* Running a script adds called frames on top.
LEMMA SitsRuns ==
  ASSUME NEW below, NEW K, NEW p, Sits(below, K, p), NoText(below, p), Runs(below)
  PROVE  Sits(stack', K \union Called, p)
<1>1. CASE stack' = below
  BY <1>1 DEF Sits
<1>2. ASSUME NEW fr, Typed(fr), fr.f = "js", stack' = Append(below, fr)
      PROVE  Sits(stack', K \union Called, p)
  <2>1. Callable(below, fr)
    BY <1>2 DEF Callable, IsParse
  <2>2. SeesClean(below, fr, p)
    BY DEF SeesClean, NoText
  <2>3. Sits(stack', K \union {"js"}, p)
    BY <1>2, <2>1, <2>2, SitsPush
  <2> QED
    BY <2>3 DEF Sits, Called
<1> QED
  BY <1>1, <1>2 DEF Runs

\* ... and an evaluation its own.
LEMMA SitsEvaluates ==
  ASSUME NEW below, NEW K, NEW p, Sits(below, K, p), Evaluates(below)
  PROVE  Sits(stack', K \union {"evaluate"}, p)
<1>1. CASE stack' = below
  BY <1>1 DEF Sits
<1>2. ASSUME NEW fr, Typed(fr), fr.f = "evaluate", stack' = Append(below, fr)
      PROVE  Sits(stack', K \union {"evaluate"}, p)
  <2>1. Callable(below, fr)
    BY <1>2 DEF Callable, IsParse
  <2>2. SeesClean(below, fr, p)
    BY <1>2 DEF SeesClean, Sees
  <2> QED
    BY <1>2, <2>1, <2>2, SitsPush
<1> QED
  BY <1>1, <1>2 DEF Evaluates

\* The function at the top, that returns or goes on.
LEMMA SeenTop ==
  ASSUME SeenInv, Running, NEW K, NEW p, Sits(stack, K, p)
  PROVE  /\ Typed(Top) /\ stack # <<>> /\ Sits(Caller, K, p) /\ Top.f \in Kinds(stack)
         /\ \A fr : Continues(fr, Top) =>
              /\ Sits(Append(Caller, fr), K, p) /\ Last(Append(Caller, fr)) = fr
              /\ SplicesOf(Append(Caller, fr)) = SplicesOf(stack)
         /\ IsParse(Top) => C \in DOMAIN parser
<1>1. stack # <<>> /\ Top = stack[Len(stack)] /\ Len(stack) \in DOMAIN stack
  BY TopShape DEF SeenInv
<1>2. Numbered(stack) /\ DOMAIN parser = 0 .. Depth
  BY DEF SeenInv, PollInv
<1>3. Sits(Caller, K, p)
  BY <1>1, SitsPop DEF Caller
<1>4. \A fr : Continues(fr, Last(stack)) =>
        /\ Sits(Append(Front(stack), fr), K, p)
        /\ SplicesOf(Append(Front(stack), fr)) = SplicesOf(stack)
  BY <1>1, SitsSwap
<1>5. \A fr : Last(Append(Caller, fr)) = fr
  BY <1>3, LastPush DEF Sits
<1>6. Typed(Top) /\ (IsParse(Top) => C \in DOMAIN parser)
  BY <1>1, <1>2 DEF Numbered, C
<1> QED
  BY <1>1, <1>3, <1>4, <1>5, <1>6, FrameKinds DEF Top, Caller, Sits

\* A frame that changes what it does next is the same call.
LEMMA StillTyped ==
  ASSUME NEW fr, Typed(fr), fr.f # "splice"
  PROVE  /\ \A x : Continues([fr EXCEPT !.made = x], fr)
         /\ \A x : Continues([fr EXCEPT !.todo = x], fr)
         /\ \A x, y : Continues([fr EXCEPT !.todo = x, !.made = y], fr)
         /\ \A x : Continues([fr EXCEPT !.stage = x], fr)
         /\ \A x : Continues([fr EXCEPT !.writes = x], fr)
  BY DEF Continues, Typed, IsParse

\* A node's append leaves its parser with an empty buffer.
LEMMA NodeFlushes ==
  ASSUME SeenInv, NEW c \in DOMAIN parser, NEW tok, AppendNode(c, Polled(parser[c]), tok)
  PROVE  ParserGoes /\ parser'[c].buf = <<>>
<1> DEFINE q == NoRun(Polled(parser[c]))
<1>1. Good(killed, Polled(parser[c]))
  BY PolledGood DEF SeenInv, PollInv
<1>2. q.buf = <<>>
  BY <1>1 DEF Good, NoRun
<1>3. parser' = [parser EXCEPT ![c] = q]
  BY DEF AppendNode
<1> HIDE DEF q
<1> QED
  BY <1>2, <1>3 DEF ParserGoes

\* A step in the same load state that leaves what is pending.
LEMMA QuietSeen ==
  ASSUME SeenInv, PollInv', IInv', Sits(stack', Kinds(stack) \union Called, parser'),
         scp'.live => scp.live \/ loadState # "parsing",
         loadState' = loadState, "pending" \in DOMAIN sm', sm'.pending = sm.pending
  PROVE  SeenInv'
<1>1. PageFirst'
  BY QuietStep
<1> QED
  BY <1>1, StepSees

\* A step without the page on the stack.
LEMMA LaterSeen ==
  ASSUME SeenInv, PollInv', IInv', NEW K, Sits(stack', K, parser'), "page" \notin K,
         scp'.live => scp.live \/ loadState # "parsing",
         loadState' = loadState \/ loadState' # "parsing", "pending" \in DOMAIN sm'
  PROVE  SeenInv'
<1>1. "page" \notin Kinds(stack')
  BY DEF Sits
<1>2. PageFirst'
  BY <1>1, LaterStep
<1> QED
  BY <1>2, StepSees

\* More kinds allow no less.
LEMMA WiderSits ==
  ASSUME NEW s, NEW K, NEW p, Sits(s, K, p)
  PROVE  Sits(s, K \union Called, p)
  BY DEF Sits

\* Nothing asks for an evaluation but an evaluation.
LEMMA EvalQuiet ==
  ASSUME SeenInv, NEW from, NEW id, NEW below, Eval(from, id, below)
  PROVE  "pending" \in DOMAIN sm' /\ sm'.pending = sm.pending
<1>1. sm' = sm \/ sm' = [sm EXCEPT !.evaluating = TRUE]
  BY DEF Eval
<1> QED
  BY <1>1 DEF SeenInv, PageFirst

\* What a step that leaves the script manager alone leaves.
LEMMA SeenRest ==
  ASSUME SeenInv
  PROVE  /\ UNCHANGED sm => "pending" \in DOMAIN sm' /\ sm'.pending = sm.pending
         /\ \A id : Streamed(id) => scp'.live = scp.live
         /\ "pending" \in DOMAIN sm
<1>1. \A id : Streamed(id) => scp'.live = scp.live
  BY Recorded DEF SeenInv, SameFlags
<1> QED
  BY <1>1 DEF SeenInv, PageFirst

\* A parser takes a token.
LEMMA NextSits ==
  ASSUME SeenInv, Parsing, ParserGoes
  PROVE  /\ Sits(NextToken, Kinds(stack), parser')
         /\ parser'[C].buf = <<>> => NoText(NextToken, parser')
<1>1. Running /\ Top.f = "parse"
  BY DEF Parsing, Is
<1>2. Typed(Top) /\ Sits(stack, Kinds(stack), parser')
  BY <1>1, SeenTop, StillClean
<1> DEFINE fr == [Top EXCEPT !.todo = Tail(@), !.made = FALSE]
<1>3. Continues(fr, Top)
  BY <1>1, <1>2 DEF Continues, Typed, IsParse
<1>4. fr.n = C
  BY <1>1, <1>2 DEF Typed, IsParse, C
<1> HIDE DEF fr
<1>5. Sits(Append(Caller, fr), Kinds(stack), parser') /\ Last(Append(Caller, fr)) = fr
  BY <1>1, <1>2, <1>3, SeenTop
<1>6. NextToken = Append(Caller, fr)
  BY DEF NextToken, fr
<1> QED
  BY <1>4, <1>5, <1>6 DEF NoText

\* The steps of the text tokens.
LEMMA SeenText == ASSUME SeenInv, PollInv', IInv', SwallowToken \/ TextToken PROVE SeenInv'
<1>1. Parsing /\ Running /\ IsParse(Top) /\ Streamed(Token.id) /\ stack' = NextToken
      /\ UNCHANGED <<loadState, sm>>
  BY DEF SwallowToken, TextToken, Parsing, Is, IsParse
<1>2. ParserGoes
  <2>1. CASE SwallowToken
    BY <2>1 DEF SwallowToken, Page_, ParserGoes
  <2>2. CASE TextToken
    <3> DEFINE p == Polled(parser[C])
    <3>1. \/ parser' = [parser EXCEPT ![C] = p]
          \/ \E id : AppendTextChunk(C, p, id)
          \/ \E id : AppendFoster(C, p, id)
      BY <2>2 DEF TextToken
    <3> HIDE DEF p
    <3>2. \A id : AppendTextChunk(C, p, id) => \E q : parser' = [parser EXCEPT ![C] = q]
      BY DEF AppendTextChunk
    <3>3. \A id : AppendFoster(C, p, id) => \E q : parser' = [parser EXCEPT ![C] = q]
      BY <3>2 DEF AppendFoster
    <3>4. \E q : parser' = [parser EXCEPT ![C] = q]
      BY <3>1, <3>2, <3>3
    <3> QED
      BY <1>1, <3>4 DEF ParserGoes, C
  <2> QED
    BY <2>1, <2>2
<1>3. Sits(stack', Kinds(stack) \union Called, parser')
  BY <1>1, <1>2, NextSits, WiderSits
<1>4. scp'.live = scp.live /\ "pending" \in DOMAIN sm' /\ sm'.pending = sm.pending
  BY <1>1, SeenRest
<1> QED
  BY <1>1, <1>3, <1>4, QuietSeen

\* The steps of custom elements.
LEMMA SeenCustom == ASSUME SeenInv, PollInv', IInv', CreateCustom \/ AppendCustom PROVE SeenInv'
<1>1. Parsing /\ Running /\ IsParse(Top) /\ Top.f = "parse" /\ UNCHANGED <<loadState, sm>>
  BY DEF CreateCustom, AppendCustom, Parsing, Is, IsParse, Document
<1>2. "pending" \in DOMAIN sm' /\ sm'.pending = sm.pending
  BY <1>1, SeenRest
<1>3. CASE CreateCustom
  <2> DEFINE fr == [Top EXCEPT !.made = TRUE] below == Append(Caller, fr)
             js == JsFrame("ctor", Loose(Token.id))
  <2>1. parser' = parser /\ scp' = scp /\ Notify("ctor", Loose(Token.id), below)
    BY <1>3 DEF CreateCustom, Page_, Document
  <2>2. Typed(Top) /\ Sits(stack, Kinds(stack), parser')
    BY <1>1, <2>1, SeenTop, StillClean DEF ParserGoes
  <2>3. Continues(fr, Top)
    BY <1>1, <2>2 DEF Continues, Typed, IsParse
  <2> HIDE DEF fr
  <2>4. Sits(below, Kinds(stack), parser')
    BY <1>1, <2>2, <2>3, SeenTop
  <2>5. Typed(js) /\ js.f = "js" /\ js.from = "ctor"
    BY JsTyped
  <2>6. stack' = below \/ stack' = Append(below, js)
    BY <2>1 DEF Notify
  <2> HIDE DEF js, below
  <2>7. ASSUME stack' = Append(below, js)
        PROVE  Sits(stack', Kinds(stack) \union Called, parser')
    <3>1. Callable(below, js) /\ SeesClean(below, js, parser')
      BY <2>5 DEF Callable, SeesClean, IsParse, Sees
    <3>2. Sits(stack', Kinds(stack) \union {"js"}, parser')
      BY <2>4, <2>5, <2>7, <3>1, SitsPush
    <3> QED
      BY <3>2 DEF Sits, Called
  <2>8. Sits(stack', Kinds(stack) \union Called, parser')
    BY <2>4, <2>6, <2>7, WiderSits
  <2> QED
    BY <1>1, <1>2, <2>1, <2>8, QuietSeen
<1>4. CASE AppendCustom
  <2> DEFINE p == Polled(parser[C])
  <2>1. Streamed(Token.id)
    BY <1>4 DEF AppendCustom
  <2>2. scp'.live = scp.live
    BY <2>1, SeenRest
  <2>3. CASE p.terminated
    <3>1. parser' = [parser EXCEPT ![C] = p] /\ stack' = NextToken
      BY <1>4, <2>3 DEF AppendCustom
    <3>2. ParserGoes
      BY <1>1, <3>1 DEF ParserGoes, C
    <3>3. Sits(stack', Kinds(stack) \union Called, parser')
      BY <1>1, <3>1, <3>2, NextSits, WiderSits
    <3> QED
      BY <1>1, <1>2, <2>2, <3>3, QuietSeen
  <2>4. CASE ~p.terminated
    <3>1. AppendNode(C, p, Token) /\ Notify("reaction", Loose(Token.id), NextToken)
      BY <1>4, <2>4 DEF AppendCustom
    <3>2. C \in DOMAIN parser
      BY <1>1, SeenTop DEF SeenInv, Sits, Fits, IInv
    <3>3. ParserGoes /\ parser'[C].buf = <<>>
      BY <3>1, <3>2, NodeFlushes
    <3>4. Sits(NextToken, Kinds(stack), parser') /\ NoText(NextToken, parser')
      BY <1>1, <3>3, NextSits
    <3>5. Runs(NextToken)
      BY <3>1, ScriptRuns
    <3>6. Sits(stack', Kinds(stack) \union Called, parser')
      BY <3>4, <3>5, SitsRuns
    <3> QED
      BY <1>1, <1>2, <2>2, <3>6, QuietSeen
  <2> QED
    BY <2>3, <2>4
<1> QED
  BY <1>3, <1>4

\* A script is read: it runs on a parser whose text is complete.
LEMMA SeenScript == ASSUME SeenInv, PollInv', IInv', ScriptToken PROVE SeenInv'
<1> DEFINE p == Polled(parser[C]) tok == Token
           stays == tok.k = "open" /\ Top.of = "feed"
           fr == [Top EXCEPT !.todo = <<>>]
           after == IF tok.k = "open" THEN Append(Caller, fr) ELSE NextToken
<1>1. Parsing /\ Running /\ IsParse(Top) /\ Top.f = "parse" /\ loadState' = loadState
  BY DEF ScriptToken, Parsing, Is, IsParse
<1>2. scp'.live = scp.live
  <2>1. \/ scp' = scp
        \/ scp' = [scp EXCEPT !.parsed = Append(@, tok.id), !.open = IF stays THEN tok.id ELSE None]
    BY DEF ScriptToken
  <2>2. "live" \in DOMAIN scp
    BY DEF SeenInv, IInv, Fields
  <2> QED
    BY <2>1, <2>2
<1>3. Typed(Top) /\ C \in DOMAIN parser
  BY <1>1, SeenTop DEF SeenInv, Sits, Fits, IInv
<1>4. Continues(fr, Top)
  BY <1>1, <1>3 DEF Continues, Typed, IsParse
<1>5. fr.n = C
  BY <1>1, <1>3 DEF Typed, IsParse, C
<1>6. ASSUME ParserGoes
      PROVE  /\ Sits(after, Kinds(stack), parser') /\ Sits(NextToken, Kinds(stack), parser')
             /\ parser'[C].buf = <<>> => NoText(after, parser')
  <2>1. Sits(stack, Kinds(stack), parser')
    BY <1>6, StillClean
  <2>2. /\ Sits(NextToken, Kinds(stack), parser')
        /\ parser'[C].buf = <<>> => NoText(NextToken, parser')
    BY <1>1, <1>6, NextSits
  <2> HIDE DEF fr
  <2>3. Sits(Append(Caller, fr), Kinds(stack), parser') /\ Last(Append(Caller, fr)) = fr
    BY <1>1, <1>4, <2>1, SeenTop
  <2>4. parser'[C].buf = <<>> => NoText(Append(Caller, fr), parser')
    BY <1>5, <2>3 DEF NoText
  <2> QED
    BY <2>2, <2>3, <2>4
<1>7. CASE p.terminated
  <2>1. parser' = [parser EXCEPT ![C] = p] /\ UNCHANGED sm
        /\ stack' = (IF stays THEN NextToken ELSE after)
    BY <1>7 DEF ScriptToken
  <2> HIDE DEF p, after
  <2>2. ParserGoes
    BY <1>1, <2>1 DEF ParserGoes, C
  <2>3. Sits(stack', Kinds(stack), parser')
    BY <1>6, <2>1, <2>2
  <2>4. Sits(stack', Kinds(stack) \union Called, parser')
    BY <2>3, WiderSits
  <2>5. "pending" \in DOMAIN sm' /\ sm'.pending = sm.pending
    BY <2>1, SeenRest
  <2> QED
    BY <1>1, <1>2, <2>4, <2>5, QuietSeen
<1>8. CASE ~p.terminated
  <2>1. AppendNode(C, p, tok)
    BY <1>8 DEF ScriptToken
  <2>2. ParserGoes /\ parser'[C].buf = <<>>
    BY <1>3, <2>1, NodeFlushes
  <2>3. \/ stack' = NextToken /\ UNCHANGED sm
        \/ stack' = after /\ sm' = [sm EXCEPT !.deferred = Append(@, tok.id)]
        \/ \E from : Eval(from, tok.id, after)
    BY <1>8 DEF ScriptToken
  <2> HIDE DEF after, p, tok
  <2>4. Sits(after, Kinds(stack), parser') /\ Sits(NextToken, Kinds(stack), parser')
        /\ NoText(after, parser')
    BY <1>6, <2>2
  <2>5. Sits(stack', Kinds(stack) \union Called, parser')
    <3>1. stack' = NextToken \/ Runs(after)
      BY <2>3, ScriptRuns DEF Runs
    <3>2. CASE stack' = NextToken
      BY <2>4, <3>2, WiderSits
    <3>3. CASE Runs(after)
      BY <2>4, <3>3, SitsRuns
    <3> QED
      BY <3>1, <3>2, <3>3
  <2>6. "pending" \in DOMAIN sm' /\ sm'.pending = sm.pending
    <3>1. CASE UNCHANGED sm \/ sm' = [sm EXCEPT !.deferred = Append(@, tok.id)]
      BY <3>1 DEF SeenInv, PageFirst
    <3>2. ASSUME NEW from, Eval(from, tok.id, after)
          PROVE  "pending" \in DOMAIN sm' /\ sm'.pending = sm.pending
      BY <3>2, EvalQuiet
    <3> QED
      BY <2>3, <3>1, <3>2
  <2> QED
    BY <1>1, <1>2, <2>5, <2>6, QuietSeen
<1> QED
  BY <1>7, <1>8

\* html5ever panics: the feed and its read are dropped.
LEMMA SeenPanic == ASSUME SeenInv, PollInv', IInv', PanicToken PROVE SeenInv'
<1> DEFINE n == Len(stack) q == NoRun(parser[0])
<1>1. /\ Running /\ scp' = NoStream /\ UNCHANGED <<loadState, sm>>
      /\ parser' = [parser EXCEPT ![0] = q]
  BY DEF PanicToken, Parsing, Is
<1>2. SomeSeq(stack) /\ Fits(stack, scp) /\ stack # <<>> /\ Top = stack[n] /\ n \in DOMAIN stack
  BY <1>1, TopShape DEF SeenInv, IInv, Fits
<1>3. n \in Nat /\ DOMAIN stack = 1 .. n
  BY <1>2, SeqShape
<1>4. ParserGoes
  <2>1. Good(killed, parser[0])
    BY HtmlParserConstants DEF SeenInv, PollInv
  <2>2. q.buf = <<>>
    BY <2>1 DEF Good, NoRun
  <2> HIDE DEF q
  <2> QED
    BY <1>1, <2>2 DEF ParserGoes
<1>5. Sits(stack, Kinds(stack), parser')
  BY <1>4, StillClean
<1>6. stack' = Front(Front(stack)) /\ Front(stack) # <<>>
  <2> DEFINE r == Front(stack) t == Front(r) u == SubSeq(stack, 1, (n - 1) - 1)
  <2>1. n > 1 /\ stack' = u
    BY PanicCut DEF SeenInv
  <2>2. /\ SomeSeq(r) /\ Len(r) = n - 1 /\ DOMAIN stack = DOMAIN r \union {n} /\ n \notin DOMAIN r
        /\ \A i \in DOMAIN r : r[i] = stack[i]
    BY <1>2, FrontSeq
  <2>3. n - 1 \in 1 .. Len(stack) + 1
    BY <1>3, <2>1
  <2>4. /\ SomeSeq(u) /\ DOMAIN u = 1 .. (n - 1) - 1 /\ Len(u) = (n - 1) - 1
        /\ \A i \in 1 .. (n - 1) - 1 : u[i] = stack[i]
    BY <1>2, <2>3, CutSeq
  <2> HIDE DEF n, u, r
  <2>5. r # <<>>
    <3>1. n - 1 \in DOMAIN r
      BY <1>3, <2>1, <2>2
    <3> QED
      BY <3>1
  <2>6. /\ SomeSeq(t) /\ Len(t) = Len(r) - 1 /\ DOMAIN r = DOMAIN t \union {Len(r)}
        /\ \A i \in DOMAIN t : t[i] = r[i]
    BY <2>2, <2>5, FrontSeq
  <2> HIDE DEF t
  <2>7. DOMAIN t = 1 .. (n - 1) - 1
    BY <2>2, <2>6, SeqShape
  <2>8. \A i \in DOMAIN t : t[i] = u[i]
    BY <2>2, <2>4, <2>6, <2>7
  <2>9. t = u
    BY <2>4, <2>6, <2>7, <2>8, SameSeq
  <2> QED
    BY <2>1, <2>5, <2>9 DEF t, r
<1>7. Sits(stack', Kinds(stack), parser')
  <2>1. Sits(Front(stack), Kinds(stack), parser')
    BY <1>2, <1>5, SitsPop
  <2> QED
    BY <1>6, <2>1, SitsPop
<1>8. Sits(stack', Kinds(stack) \union Called, parser')
  BY <1>7, WiderSits
<1>9. "pending" \in DOMAIN sm' /\ sm'.pending = sm.pending
  BY <1>1, SeenRest
<1>10. ~scp'.live
  BY <1>1 DEF NoStream
<1> QED
  BY <1>1, <1>8, <1>9, <1>10, QuietSeen

\* A parser ends, and with it the text that it kept.
LEMMA SeenEndParse == ASSUME SeenInv, PollInv', IInv', EndParse PROVE SeenInv'
<1>1. /\ Running /\ IsParse(Top) /\ stack' = Caller /\ UNCHANGED <<loadState, sm>>
  BY DEF EndParse, Is, IsParse, Returns
<1>2. scp'.live = scp.live
  <2>1. scp' = scp \/ scp' = [scp EXCEPT !.feeding = FALSE, !.pending = <<>>]
    BY DEF EndParse
  <2>2. "live" \in DOMAIN scp
    BY DEF SeenInv, IInv, Fields
  <2> QED
    BY <2>1, <2>2
<1>3. ParserGoes
  <2>1. parser' = parser \/ parser' = [parser EXCEPT ![C] = NoRun(@)]
    BY DEF EndParse, Page_
  <2> QED
    BY <1>1, <2>1 DEF ParserGoes, C
<1>4. Sits(stack, Kinds(stack), parser')
  BY <1>3, StillClean
<1>5. Sits(stack', Kinds(stack) \union Called, parser')
  <2>1. Sits(Caller, Kinds(stack), parser')
    BY <1>1, <1>4, SeenTop
  <2> QED
    BY <1>1, <2>1, WiderSits
<1>6. "pending" \in DOMAIN sm' /\ sm'.pending = sm.pending
  BY <1>1, SeenRest
<1> QED
  BY <1>1, <1>2, <1>5, <1>6, QuietSeen

\* A script returns: with the page nothing was to be evaluated again.
LEMMA SeenEndJs == ASSUME SeenInv, PollInv', IInv', EndJs PROVE SeenInv'
<1>1. Running /\ scp' = scp /\ loadState' = loadState /\ parser' = parser
  BY DEF EndJs, Is, Page_
<1>2. Sits(stack, Kinds(stack), parser')
  BY <1>1, StillClean DEF ParserGoes
<1>3. Sits(Caller, Kinds(stack), parser')
  BY <1>1, <1>2, SeenTop
<1>4. "pending" \in DOMAIN sm
  BY DEF SeenInv, PageFirst
<1> DEFINE w == [sm EXCEPT !.evaluating = Top.was] d == [sm EXCEPT !.deferred = Tail(@)]
<1>5. \/ EndWindow(Caller, sm, Top.was)
      \/ stack' = Caller /\ (sm' = d \/ UNCHANGED sm)
  BY DEF EndJs, Returns
<1>6. "pending" \in DOMAIN w /\ w.pending = sm.pending /\ "pending" \in DOMAIN d /\ d.pending = sm.pending
  BY <1>4
<1>7. \/ stack' = Caller /\ (sm' = w \/ sm' = d \/ UNCHANGED sm)
      \/ sm.pending /\ Evaluate(Caller, w)
  BY <1>5 DEF EndWindow
<1> HIDE DEF w, d
<1>8. CASE stack' = Caller /\ (sm' = w \/ sm' = d \/ UNCHANGED sm)
  <2>1. Sits(stack', Kinds(stack) \union Called, parser')
    BY <1>3, <1>8, WiderSits
  <2>2. "pending" \in DOMAIN sm' /\ sm'.pending = sm.pending
    BY <1>4, <1>6, <1>8
  <2> QED
    BY <1>1, <2>1, <2>2, QuietSeen
<1>9. CASE sm.pending /\ Evaluate(Caller, w)
  <2>1. "page" \notin Kinds(stack)
    BY <1>9 DEF SeenInv, PageFirst
  <2>2. Evaluates(Caller)
    BY <1>9, ScriptRuns
  <2>3. Sits(stack', Kinds(stack) \union {"evaluate"}, parser')
    BY <1>3, <2>2, SitsEvaluates
  <2>4. "pending" \in DOMAIN sm'
    BY <1>6, <1>9 DEF Evaluate
  <2>5. "page" \notin Kinds(stack) \union {"evaluate"}
    BY <2>1
  <2> QED
    BY <1>1, <2>3, <2>4, <2>5, LaterSeen
<1> QED
  BY <1>7, <1>8, <1>9

\* A splice, a terminate, a call that throws and an element that is taken out.
LEMMA SeenScripts ==
  ASSUME SeenInv, PollInv', IInv', Splice \/ Terminate \/ CallThrows \/ Detach
  PROVE  SeenInv'
<1>1. UNCHANGED <<parser, scp, loadState, sm>>
  <2>1. CASE Splice
    BY <2>1, Zenon DEF Splice
  <2>2. CASE Terminate \/ CallThrows \/ Detach
    BY <2>2 DEF Terminate, CallThrows, Detach, Document, Page_
  <2> QED
    BY <2>1, <2>2
<1>2. Sits(stack, Kinds(stack), parser')
  BY <1>1, StillClean DEF ParserGoes
<1>3. stack' = stack \/ (Running /\ stack' = Caller)
  <2>1. CASE Splice
    BY <2>1, Zenon DEF Splice, Is, Returns
  <2>2. CASE Terminate \/ CallThrows \/ Detach
    BY <2>2 DEF Terminate, CallThrows, Detach
  <2> QED
    BY <2>1, <2>2
<1>4. Running => Sits(Caller, Kinds(stack), parser')
  BY <1>2, SeenTop
<1>5. Sits(stack', Kinds(stack) \union Called, parser')
  BY <1>2, <1>3, <1>4, WiderSits
<1>6. "pending" \in DOMAIN sm' /\ sm'.pending = sm.pending
  BY <1>1, SeenRest
<1> QED
  BY <1>1, <1>5, <1>6, QuietSeen

\* A function that is no script is called.
LEMMA SitsCall ==
  ASSUME NEW s, NEW K, NEW p, Sits(s, K, p), NEW fr, Callable(s, fr), ~Sees(fr), fr.f \in K
  PROVE  Sits(Append(s, fr), K, p) /\ Last(Append(s, fr)) = fr /\ Append(s, fr) # <<>>
<1>1. SeesClean(s, fr, p)
  BY DEF SeesClean
<1>2. Sits(Append(s, fr), K \union {fr.f}, p)
  BY <1>1, SitsPush
<1>3. Last(Append(s, fr)) = fr /\ Append(s, fr) # <<>>
  BY LastPush, PushSeq DEF Sits
<1> QED
  BY <1>2, <1>3 DEF Sits

\* The functions of a write.
LEMMA WriteCalls ==
  ASSUME NEW s, NEW fr,
         \/ fr = Frame("written") \/ fr = Frame("read")
         \/ fr = [f |-> "finished", stage |-> "scripts"]
         \/ \E of, tokens : of \in {"feed", "finish"} /\ fr = ParseFrame(of, 0, tokens)
  PROVE  Callable(s, fr) /\ ~Sees(fr) /\ fr.f \in Called
<1>1. 0 \in 0 .. Depth
  BY HtmlParserConstants
<1>2. CASE fr = Frame("written") \/ fr = Frame("read")
  BY <1>2 DEF Callable, Typed, IsParse, Sees, Frame, Called
<1>3. CASE fr = [f |-> "finished", stage |-> "scripts"]
  BY <1>3 DEF Callable, Typed, IsParse, Sees, Called
<1>4. CASE \E of, tokens : of \in {"feed", "finish"} /\ fr = ParseFrame(of, 0, tokens)
  BY <1>1, <1>4 DEF Callable, Typed, IsParse, Sees, ParseFrame, Called
<1> QED
  BY <1>2, <1>3, <1>4

\* The script that writes.
LEMMA SeenCaller1 ==
  ASSUME SeenInv, MayCall, ParserGoes
  PROVE  /\ Sits(Caller1, Kinds(stack) \union Called, parser') /\ SomeSeq(Caller1)
         /\ SplicesOf(Caller1) = SplicesOf(stack)
<1>1. Running /\ Top.f = "js"
  BY DEF MayCall, Is
<1>2. Sits(stack, Kinds(stack), parser')
  BY StillClean
<1> DEFINE fr == [Top EXCEPT !.writes = Top.writes + 1]
<1>3. Typed(Top)
  BY <1>1, <1>2, SeenTop
<1>4. Continues(fr, Top)
  BY <1>1, <1>3 DEF Continues, Typed, IsParse
<1> HIDE DEF fr
<1>5. Sits(Append(Caller, fr), Kinds(stack), parser') /\ SplicesOf(Append(Caller, fr)) = SplicesOf(stack)
  BY <1>1, <1>2, <1>4, SeenTop
<1>6. Caller1 = Append(Caller, fr)
  BY DEF Caller1, fr
<1> QED
  BY <1>5, <1>6, WiderSits DEF Sits

\* A write into the page: the parser of the fragment is a new one.
LEMMA SeenWriteInline ==
  ASSUME SeenInv, PollInv', IInv', NEW kinds, WriteInline(kinds)
  PROVE  SeenInv'
<1> DEFINE n == FragmentsOpen + 1 K == Kinds(stack) \union Called
<1>1. MayCall /\ UNCHANGED <<scp, loadState, sm>>
  BY DEF WriteInline, Document
<1>2. "pending" \in DOMAIN sm' /\ sm'.pending = sm.pending
  BY <1>1, SeenRest
<1>3. \/ stack' = Caller1 /\ UNCHANGED Page_
      \/ /\ n <= Depth /\ parser' = [parser EXCEPT ![n] = NewParser]
         /\ \E id, c, tokens : stack' = Caller1 \o
              <<[f |-> "splice", n |-> n, script |-> id, parent |-> c], ParseFrame("fragment", n, tokens)>>
  BY DEF WriteInline
<1>4. n = Cardinality(SplicesOf(stack)) + 1
  BY DEF FragmentsOpen, SplicesOf
<1>5. n \in Nat
  BY <1>4, SplicesFinite DEF SeenInv, IInv, Fits
<1>6. NewParser.buf = <<>>
  BY DEF NewParser
<1> HIDE DEF n
<1>7. ParserGoes
  BY <1>3, <1>6 DEF ParserGoes, Page_
<1>8. Sits(Caller1, K, parser') /\ SomeSeq(Caller1) /\ SplicesOf(Caller1) = SplicesOf(stack)
  BY <1>1, <1>7, SeenCaller1
<1>9. ASSUME n <= Depth, NEW id, NEW c, NEW tokens, stack' = Caller1 \o
              <<[f |-> "splice", n |-> n, script |-> id, parent |-> c], ParseFrame("fragment", n, tokens)>>
      PROVE  Sits(stack', K, parser')
  <2> DEFINE a == [f |-> "splice", n |-> n, script |-> id, parent |-> c]
             b == ParseFrame("fragment", n, tokens) s == Append(Caller1, a)
  <2>1. stack' = Append(s, b)
    BY <1>8, <1>9, TwoCalls
  <2>2. a.f = "splice" /\ a.n = n /\ Typed(a) /\ ~Sees(a) /\ ~IsParse(a)
    BY DEF Typed, IsParse, Sees
  <2>3. b.f = "parse" /\ b.of = "fragment" /\ b.n = n /\ Typed(b) /\ ~Sees(b)
    BY DEF Typed, IsParse, Sees, ParseFrame
  <2> HIDE DEF a, b
  <2>4. Callable(Caller1, a) /\ a.f \in K
    BY <1>4, <1>8, <2>2 DEF Callable, Called
  <2>5. Sits(s, K, parser') /\ Last(s) = a /\ s # <<>>
    BY <1>8, <2>2, <2>4, SitsCall
  <2> HIDE DEF s
  <2>6. n \in 0 .. Depth
    BY <1>5, <1>9, HtmlParserConstants
  <2>7. Callable(s, b) /\ b.f \in K
    BY <2>2, <2>3, <2>5, <2>6 DEF Callable, Called
  <2> QED
    BY <2>1, <2>3, <2>5, <2>7, SitsCall
<1>10. Sits(stack', K, parser')
  BY <1>3, <1>8, <1>9
<1> QED
  BY <1>1, <1>2, <1>10, QuietSeen

\* A read calls the parser, or returns.
LEMMA SeenReadMore == ASSUME SeenInv, PollInv', IInv', ReadMore PROVE SeenInv'
<1> DEFINE K == Kinds(stack) \union Called
<1>1. Running /\ UNCHANGED <<parser, loadState, sm>>
  BY DEF ReadMore, Is, Page_
<1>2. scp'.live = scp.live
  <2>1. scp' = [scp EXCEPT !.feeding = FALSE] \/ scp' = [scp EXCEPT !.pending = <<>>]
    BY DEF ReadMore
  <2>2. "live" \in DOMAIN scp
    BY DEF SeenInv, IInv, Fields
  <2> QED
    BY <2>1, <2>2
<1>3. Sits(stack, Kinds(stack), parser')
  BY <1>1, StillClean DEF ParserGoes
<1>4. Sits(Caller, Kinds(stack), parser')
  BY <1>1, <1>3, SeenTop
<1>5. Sits(stack, K, parser') /\ Sits(Caller, K, parser')
  BY <1>3, <1>4, WiderSits
<1>6. stack' = Caller \/ \E tokens : stack' = stack \o <<ParseFrame("feed", 0, tokens)>>
  BY DEF ReadMore, Returns, Calls
<1>7. ASSUME NEW tokens, stack' = stack \o <<ParseFrame("feed", 0, tokens)>>
      PROVE  Sits(stack', K, parser')
  <2> DEFINE fr == ParseFrame("feed", 0, tokens)
  <2>1. Callable(stack, fr) /\ ~Sees(fr) /\ fr.f \in K
    BY WriteCalls
  <2>2. stack' = Append(stack, fr)
    BY <1>3, <1>7, TwoCalls DEF Sits
  <2> HIDE DEF fr
  <2> QED
    BY <1>5, <2>1, <2>2, SitsCall
<1>8. Sits(stack', K, parser')
  BY <1>5, <1>6, <1>7
<1>9. "pending" \in DOMAIN sm' /\ sm'.pending = sm.pending
  BY <1>1, SeenRest
<1> QED
  BY <1>1, <1>2, <1>8, <1>9, QuietSeen

\* A write to the script-created parser: open() never makes one while the page is parsed.
LEMMA SeenWriteStream ==
  ASSUME SeenInv, PollInv', IInv', NEW kinds, WriteStream(kinds)
  PROVE  SeenInv'
<1> DEFINE K == Kinds(stack) \union Called
<1>1. MayCall /\ UNCHANGED <<loadState, sm>>
  BY DEF WriteStream, Crash, Document
<1>2. "pending" \in DOMAIN sm' /\ sm'.pending = sm.pending
  BY <1>1, SeenRest
<1>3. NewParser.buf = <<>>
  BY DEF NewParser
<1>4. ParserGoes
  <2>1. parser' = parser \/ parser' = [parser EXCEPT ![0] = NewParser]
    BY DEF WriteStream, Crash, Page_
  <2> QED
    BY <1>3, <2>1 DEF ParserGoes
<1>5. Sits(Caller1, K, parser') /\ SomeSeq(Caller1)
  BY <1>1, <1>4, SeenCaller1
<1>6. CASE Crash
  <2>1. stack' = stack /\ scp' = scp
    BY <1>6 DEF Crash, Document
  <2>2. Sits(stack', K, parser')
    BY <1>4, <2>1, StillClean, WiderSits
  <2> QED
    BY <1>1, <1>2, <2>1, <2>2, QuietSeen
<1>7. CASE ~Crash
  <2> DEFINE toks == Written(kinds) d == Stream asked == Asks(toks) s == Caller1
             w == Frame("written") r == Frame("read") fr == ParseFrame("feed", 0, toks)
  <2>1. Read(toks)
    BY <1>7 DEF WriteStream
  <2>2. DOMAIN d = Fields /\ (d.live => scp.live \/ loadState # "parsing")
    BY DEF Stream, Opened, NewStream, NoStream, SeenInv, IInv, Fields
  <2>3. DOMAIN asked = Fields /\ asked.live = d.live
    BY <2>2 DEF Asks, Fields
  <2>4. /\ scp' = d \/ scp' = [asked EXCEPT !.pending = @ \o toks]
           \/ scp' = [asked EXCEPT !.feeding = TRUE]
        /\ stack' = s \o <<w>> \/ stack' = s \o <<w, r, fr>>
    BY <2>1 DEF Read
  <2>5. \A p : /\ Callable(p, w) /\ ~Sees(w) /\ w.f \in K
               /\ Callable(p, r) /\ ~Sees(r) /\ r.f \in K
               /\ Callable(p, fr) /\ ~Sees(fr) /\ fr.f \in K
    BY WriteCalls
  <2> HIDE DEF d, asked, toks, s, w, r, fr, K
  <2>6. scp'.live => scp.live \/ loadState # "parsing"
    BY <2>2, <2>3, <2>4 DEF Fields
  <2>7. Sits(s, K, parser') /\ SomeSeq(s)
    BY <1>5 DEF s
  <2>8. Sits(Append(s, w), K, parser')
    BY <2>5, <2>7, SitsCall
  <2>9. Sits(Append(Append(s, w), r), K, parser')
    BY <2>5, <2>8, SitsCall
  <2>10. Sits(Append(Append(Append(s, w), r), fr), K, parser')
    BY <2>5, <2>9, SitsCall
  <2>11. s \o <<w>> = Append(s, w) /\ s \o <<w, r, fr>> = Append(Append(Append(s, w), r), fr)
    BY <2>7, TwoCalls, ThreeCalls
  <2>12. Sits(stack', K, parser')
    BY <2>4, <2>8, <2>10, <2>11
  <2> QED
    BY <1>1, <1>2, <2>6, <2>12, QuietSeen DEF K
<1> QED
  BY <1>6, <1>7

\* The parser is finished: the script that it still held open runs on a complete text.
LEMMA SeenFinish ==
  ASSUME SeenInv, PollInv', IInv', NEW below,
         \A p : Sits(stack, Kinds(stack), p) => Sits(below, Kinds(stack), p),
         Finish(below)
  PROVE  SeenInv'
<1> DEFINE K == Kinds(stack) \union Called
           a == [f |-> "finished", stage |-> "scripts"] b == ParseFrame("finish", 0, <<>>)
           frames == below \o <<a, b>> q == NoRun(parser[0])
<1>1. loadState' = loadState
  BY DEF Finish
<1>2. scp'.live = scp.live
  <2>1. scp' = [scp EXCEPT !.handle = FALSE, !.feeding = TRUE, !.open = None]
    BY DEF Finish
  <2>2. "live" \in DOMAIN scp
    BY DEF SeenInv, IInv, Fields
  <2> QED
    BY <2>1, <2>2
<1>3. q.buf = <<>> /\ 0 \in DOMAIN parser
  <2>1. Good(killed, parser[0]) /\ 0 \in DOMAIN parser
    BY HtmlParserConstants DEF SeenInv, PollInv
  <2> QED
    BY <2>1 DEF Good, NoRun
<1>4. \/ stack' = frames /\ UNCHANGED <<parser, sm>>
      \/ parser' = [parser EXCEPT ![0] = q] /\ Eval("script", scp.open, frames)
  BY DEF Finish, Page_
<1>5. b.n = 0 /\ ~Sees(b)
  BY DEF ParseFrame, Sees
<1> HIDE DEF q
<1>6. ParserGoes
  BY <1>3, <1>4 DEF ParserGoes
<1>7. Sits(below, K, parser')
  <2>1. Sits(below, Kinds(stack), parser')
    BY <1>6, StillClean
  <2> QED
    BY <2>1, WiderSits
<1>8. \A p : Callable(p, a) /\ ~Sees(a) /\ a.f \in K /\ Callable(p, b) /\ ~Sees(b) /\ b.f \in K
  BY WriteCalls
<1>9. frames = Append(Append(below, a), b)
  BY <1>7, TwoCalls DEF Sits
<1> HIDE DEF a, b, frames, K
<1>10. Sits(Append(below, a), K, parser')
  BY <1>7, <1>8, SitsCall
<1>11. Sits(frames, K, parser') /\ Last(frames) = b
  BY <1>8, <1>9, <1>10, SitsCall
<1>12. CASE stack' = frames /\ UNCHANGED <<parser, sm>>
  <2>1. "pending" \in DOMAIN sm' /\ sm'.pending = sm.pending
    BY <1>12, SeenRest
  <2> QED
    BY <1>1, <1>2, <1>11, <1>12, <2>1, QuietSeen DEF K
<1>13. CASE parser' = [parser EXCEPT ![0] = q] /\ Eval("script", scp.open, frames)
  <2>1. "pending" \in DOMAIN sm' /\ sm'.pending = sm.pending
    BY <1>13, EvalQuiet
  <2>2. Runs(frames)
    BY <1>13, ScriptRuns
  <2>3. NoText(frames, parser')
    BY <1>3, <1>5, <1>11, <1>13 DEF NoText
  <2>4. Sits(stack', K \union Called, parser')
    BY <1>11, <2>2, <2>3, SitsRuns
  <2>5. Sits(stack', K, parser')
    BY <2>4 DEF Sits, K
  <2> QED
    BY <1>1, <1>2, <2>1, <2>5, QuietSeen DEF K
<1> QED
  BY <1>4, <1>12, <1>13

\* The end of a write, and close.
LEMMA SeenClose == ASSUME SeenInv, PollInv', IInv', WriteDone \/ Close PROVE SeenInv'
<1>1. ASSUME UNCHANGED <<parser, scp, loadState, sm>>, stack' = stack \/ (Running /\ stack' = Caller)
      PROVE  SeenInv'
  <2>1. Sits(stack, Kinds(stack), parser')
    BY <1>1, StillClean DEF ParserGoes
  <2>2. Running => Sits(Caller, Kinds(stack), parser')
    BY <2>1, SeenTop
  <2>3. Sits(stack', Kinds(stack) \union Called, parser')
    BY <1>1, <2>1, <2>2, WiderSits
  <2>4. "pending" \in DOMAIN sm' /\ sm'.pending = sm.pending
    BY <1>1, SeenRest
  <2> QED
    BY <1>1, <2>3, <2>4, QuietSeen
<1>2. CASE Crash
  BY <1>1, <1>2 DEF Crash, Page_, Document
<1>3. CASE WriteDone /\ ~Crash
  <2>1. CASE closeRequested /\ scp.live /\ ~scp.feeding
    <3>1. Finish(Caller) /\ Running
      BY <1>3, <2>1 DEF WriteDone, Is
    <3>2. \A p : Sits(stack, Kinds(stack), p) => Sits(Caller, Kinds(stack), p)
      BY <3>1, SeenTop
    <3> QED
      BY <3>1, <3>2, SeenFinish
  <2>2. CASE ~(closeRequested /\ scp.live /\ ~scp.feeding)
    <3>1. UNCHANGED <<parser, scp, loadState, sm>> /\ Running /\ stack' = Caller
      BY <1>3, <2>2 DEF WriteDone, Returns, Is, Page_
    <3> QED
      BY <1>1, <3>1
  <2> QED
    BY <2>1, <2>2
<1>4. CASE Close /\ ~Crash
  <2>1. CASE scp.feeding
    BY <1>1, <1>4, <2>1 DEF Close, Page_
  <2>2. CASE ~scp.feeding
    <3>1. Finish(stack)
      BY <1>4, <2>2 DEF Close
    <3> QED
      BY <3>1, SeenFinish
  <2> QED
    BY <2>1, <2>2
<1> QED
  BY <1>2, <1>3, <1>4

\* What follows a parse: it evaluates, so the page is off the stack.
LEMMA SeenAfter ==
  ASSUME SeenInv, PollInv', IInv', NEW pending \in BOOLEAN,
         FinishScripts \/ FinishComplete \/ EvaluateScripts \/ HookLoaded \/ HookComplete(pending)
  PROVE  SeenInv'
<1>1. Running /\ scp' = scp /\ parser' = parser /\ Top.f \in {"finished", "evaluate"}
  BY DEF FinishScripts, FinishComplete, EvaluateScripts, HookLoaded, HookComplete, Is, Document, Page_
<1>2. Sits(stack, Kinds(stack), parser')
  BY <1>1, StillClean DEF ParserGoes
<1>3. Typed(Top) /\ Top.f \in Kinds(stack) /\ Top = stack[Len(stack)] /\ Len(stack) \in DOMAIN stack
  BY <1>1, <1>2, SeenTop, TopShape DEF SeenInv
<1>4. "page" \notin Kinds(stack)
  <2>1. CASE Top.f = "evaluate"
    BY <1>3, <2>1 DEF SeenInv, PageFirst
  <2>2. CASE Top.f = "finished"
    <3>1. scp.live
      BY <1>3, <2>2 DEF SeenInv, IInv, Fits, Finished
    <3> QED
      BY <3>1 DEF SeenInv, PageFirst
  <2> QED
    BY <1>1, <2>1, <2>2
<1> DEFINE at(x) == Append(Caller, [Top EXCEPT !.stage = x])
           K == Kinds(stack) \union Called \union {"evaluate"}
<1>5. \A x : Sits(at(x), Kinds(stack), parser') /\ NoText(at(x), parser')
  <2> TAKE x
  <2> DEFINE fr == [Top EXCEPT !.stage = x]
  <2>1. Continues(fr, Top) /\ ~IsParse(fr)
    BY <1>1, <1>3 DEF Continues, Typed, IsParse
  <2> HIDE DEF fr
  <2>2. Sits(Append(Caller, fr), Kinds(stack), parser') /\ Last(Append(Caller, fr)) = fr
    BY <1>1, <1>2, <2>1, SeenTop
  <2>3. NoText(Append(Caller, fr), parser')
    BY <2>1, <2>2 DEF NoText
  <2> QED
    BY <2>2, <2>3 DEF fr
<1>6. NoText(stack, parser')
  BY <1>1 DEF NoText, IsParse, Top
<1>7. Runs(stack) \/ \E x : Runs(at(x)) \/ Evaluates(at(x))
  <2>1. CASE FinishScripts
    <3>1. Evaluate(at("complete"), [sm EXCEPT !.static = TRUE])
      BY <2>1 DEF FinishScripts
    <3> QED
      BY <3>1, ScriptRuns
  <2>2. CASE FinishComplete
    <3>1. Complete(at("drop"))
      BY <2>2 DEF FinishComplete
    <3> QED
      BY <3>1, ScriptRuns
  <2>3. CASE EvaluateScripts
    <3>1. CASE sm.static /\ sm.deferred # <<>>
      BY <2>3, <3>1, ScriptRuns DEF EvaluateScripts, Runs
    <3>2. CASE ~(sm.static /\ sm.deferred # <<>>)
      <4>1. stack' = at("scripts") \/ stack' = at("loaded") \/ stack' = at("end")
        BY <2>3, <3>2 DEF EvaluateScripts, Becomes
      <4> QED
        BY <4>1 DEF Runs
    <3> QED
      BY <3>1, <3>2
  <2>4. CASE HookLoaded
    <3>1. stack' = at("complete") \/ \E by : Notify("event", by, at("complete"))
      BY <2>4 DEF HookLoaded
    <3> HIDE DEF at
    <3>2. Runs(at("complete"))
      BY <3>1, ScriptRuns DEF Runs
    <3> QED
      BY <3>2
  <2>5. CASE HookComplete(pending)
    <3>1. stack' = at("end") \/ Complete(at("end"))
      BY <2>5 DEF HookComplete
    <3> HIDE DEF at
    <3>2. Runs(at("end"))
      BY <3>1, ScriptRuns DEF Runs
    <3> QED
      BY <3>2
  <2> QED
    BY <2>1, <2>2, <2>3, <2>4, <2>5
<1> HIDE DEF at
<1>8. Sits(stack', K, parser')
  <2>1. CASE Runs(stack)
    BY <1>2, <1>6, <2>1, SitsRuns DEF Sits
  <2>2. ASSUME NEW x, Runs(at(x)) PROVE Sits(stack', K, parser')
    <3>1. Sits(stack', Kinds(stack) \union Called, parser')
      BY <1>5, <2>2, SitsRuns
    <3> QED
      BY <3>1 DEF Sits
  <2>3. ASSUME NEW x, Evaluates(at(x)) PROVE Sits(stack', K, parser')
    <3>1. Sits(stack', Kinds(stack) \union {"evaluate"}, parser')
      BY <1>5, <2>3, SitsEvaluates
    <3> QED
      BY <3>1 DEF Sits
  <2> QED
    BY <1>7, <2>1, <2>2, <2>3
<1>9. loadState' = loadState \/ loadState' # "parsing"
  BY DEF FinishScripts, FinishComplete, EvaluateScripts, HookLoaded, HookComplete, Complete, Document
<1>10. "pending" \in DOMAIN sm'
  <2>1. "pending" \in DOMAIN sm
    BY SeenRest
  <2>2. \/ sm' = sm \/ \E x : sm' = [sm EXCEPT !.deferred = x]
        \/ \E x : sm' = [sm EXCEPT !.pending = x] \/ sm' = [sm EXCEPT !.evaluating = x]
        \/ sm' = [[sm EXCEPT !.static = TRUE] EXCEPT !.pending = TRUE]
        \/ sm' = [[sm EXCEPT !.static = TRUE] EXCEPT !.evaluating = TRUE, !.pending = FALSE]
    BY DEF FinishScripts, FinishComplete, EvaluateScripts, HookLoaded, HookComplete, Eval, Evaluate
  <2> QED
    BY <2>1, <2>2
<1>11. "page" \notin K
  BY <1>4 DEF Called
<1> HIDE DEF K
<1> QED
  BY <1>1, <1>8, <1>9, <1>10, <1>11, LaterSeen

\* The last stage of an evaluation, the end of the page, a timer and the last load.
LEMMA SeenLast ==
  ASSUME SeenInv, PollInv', IInv', EvaluateEnd \/ PageDone \/ Task \/ LoadsDone
  PROVE  SeenInv'
<1> DEFINE E == {"evaluate"}
<1>1. "pending" \in DOMAIN sm
  BY SeenRest
<1>2. CASE EvaluateEnd \/ PageDone
  <2>1. Running /\ Top.f \in {"evaluate", "page"} /\ UNCHANGED <<parser, scp, loadState>>
    BY <1>2 DEF EvaluateEnd, PageDone, Is, Document, Page_
  <2>2. Sits(stack, Kinds(stack), parser')
    BY <2>1, StillClean DEF ParserGoes
  <2>3. /\ Sits(Caller, Kinds(stack), parser') /\ Top.f \in Kinds(stack)
        /\ Top = stack[Len(stack)] /\ Len(stack) \in DOMAIN stack /\ stack # <<>>
    BY <2>1, <2>2, SeenTop, TopShape DEF SeenInv
  <2>4. "page" \notin Kinds(Caller)
    <3>1. CASE Top.f = "evaluate"
      <4>1. "page" \notin Kinds(stack)
        BY <2>3, <3>1 DEF SeenInv, PageFirst
      <4> QED
        BY <2>3, <4>1 DEF Sits
    <3>2. CASE Top.f = "page"
      <4>1. Len(stack) = 1 /\ SomeSeq(stack)
        BY <2>3, <3>2 DEF SeenInv, Numbered, IInv, Fits
      <4>2. SomeSeq(Caller) /\ Len(Caller) = Len(stack) - 1
        BY <2>3, <4>1, FrontSeq DEF Caller
      <4>3. DOMAIN Caller = {}
        BY <4>1, <4>2, SeqShape
      <4> QED
        BY <4>3 DEF Kinds
    <3> QED
      BY <2>1, <3>1, <3>2
  <2>5. Sits(Caller, Kinds(Caller), parser')
    BY <2>3 DEF Sits
  <2>6. Evaluates(Caller)
    BY <1>2, ScriptRuns DEF EvaluateEnd, PageDone
  <2>7. Sits(stack', Kinds(Caller) \union E, parser')
    BY <2>5, <2>6, SitsEvaluates
  <2>8. "pending" \in DOMAIN sm'
    <3>1. \A below, sm1 : Evaluate(below, sm1) /\ "pending" \in DOMAIN sm1 => "pending" \in DOMAIN sm'
      BY DEF Evaluate
    <3>2. CASE EvaluateEnd
      <4> DEFINE e == [sm EXCEPT !.evaluating = FALSE]
      <4>1. "pending" \in DOMAIN e
        BY <1>1
      <4>2. Evaluate(Caller, e) \/ sm' = e
        BY <3>2 DEF EvaluateEnd, EndWindow
      <4> HIDE DEF e
      <4> QED
        BY <3>1, <4>1, <4>2
    <3>3. CASE PageDone
      <4> DEFINE e == [sm EXCEPT !.static = TRUE]
      <4>1. "pending" \in DOMAIN e
        BY <1>1
      <4>2. Evaluate(Caller, e)
        BY <3>3 DEF PageDone
      <4> HIDE DEF e
      <4> QED
        BY <3>1, <4>1, <4>2
    <3> QED
      BY <1>2, <3>2, <3>3
  <2>9. "page" \notin Kinds(Caller) \union E
    BY <2>4
  <2> QED
    BY <2>1, <2>7, <2>8, <2>9, LaterSeen
<1>3. CASE Task \/ LoadsDone
  <2>1. /\ stack = <<>> /\ UNCHANGED <<parser, scp, sm>>
        /\ loadState' = loadState \/ loadState' # "parsing"
    BY <1>3 DEF Task, LoadsDone, Document, Page_, Complete
  <2>2. Runs(stack)
    BY <1>3, ScriptRuns DEF Task, LoadsDone
  <2>3. Sits(stack, Kinds(stack), parser') /\ NoText(stack, parser')
    BY <2>1, StillClean DEF ParserGoes, NoText
  <2>4. Sits(stack', Kinds(stack) \union Called, parser')
    BY <2>2, <2>3, SitsRuns
  <2>5. "page" \notin Kinds(stack) \union Called
    <3>1. DOMAIN stack = {}
      BY <2>1
    <3> QED
      BY <3>1 DEF Kinds, Called
  <2> QED
    BY <1>1, <2>1, <2>4, <2>5, LaterSeen
<1> QED
  BY <1>2, <1>3

\* Every step.
LEMMA StepSeen == ASSUME SeenInv, [Next]_vars PROVE SeenInv'
<1>1. PollInv' /\ IInv'
  BY StepKeeps, StepFits DEF SeenInv
<1>2. CASE UNCHANGED vars
  BY <1>2 DEF vars, SeenInv, PollInv, IInv, Numbered, PageFirst, Clean, SplicesOf, Kinds
<1>3. CASE SwallowToken \/ TextToken \/ ScriptToken \/ CreateCustom \/ AppendCustom
  BY <1>1, <1>3, SeenText, SeenScript, SeenCustom
<1>4. CASE PanicToken \/ EndParse \/ EndJs
  BY <1>1, <1>4, SeenPanic, SeenEndParse, SeenEndJs
<1>5. CASE Splice \/ Terminate \/ CallThrows \/ Detach
  BY <1>1, <1>5, SeenScripts
<1>6. ASSUME NEW kinds, WriteInline(kinds) \/ WriteStream(kinds) PROVE SeenInv'
  BY <1>1, <1>6, SeenWriteInline, SeenWriteStream
<1>7. CASE ReadMore \/ WriteDone \/ Close
  BY <1>1, <1>7, SeenReadMore, SeenClose
<1>8. CASE FinishDrop
  <2>1. Running /\ stack' = Caller /\ scp' = NoStream /\ UNCHANGED <<parser, loadState, sm>>
    BY <1>8 DEF FinishDrop, Is, Returns, Page_
  <2>2. Sits(stack, Kinds(stack), parser')
    BY <2>1, StillClean DEF ParserGoes
  <2>3. Sits(stack', Kinds(stack) \union Called, parser')
    BY <2>1, <2>2, SeenTop, WiderSits
  <2>4. "pending" \in DOMAIN sm' /\ sm'.pending = sm.pending /\ ~scp'.live
    BY <2>1, SeenRest DEF NoStream
  <2> QED
    BY <1>1, <2>1, <2>3, <2>4, QuietSeen
<1>9. ASSUME NEW pending \in BOOLEAN,
             FinishScripts \/ FinishComplete \/ EvaluateScripts \/ HookLoaded \/ HookComplete(pending)
      PROVE  SeenInv'
  BY <1>1, <1>9, SeenAfter
<1>10. CASE EvaluateEnd \/ PageDone \/ Task \/ LoadsDone
  BY <1>1, <1>10, SeenLast
<1>11. TRUE \in BOOLEAN
  OBVIOUS
<1> QED
  BY <1>2, <1>3, <1>4, <1>5, <1>6, <1>7, <1>8, <1>9, <1>10, <1>11 DEF Next

\* Before the page nothing is on the stack.
LEMMA InitSeen == ASSUME Init PROVE SeenInv
<1>1. PollInv /\ IInv
  BY InitInv, InitFits
<1>2. scp = NoStream /\ ~NoStream.live /\ "pending" \in DOMAIN sm /\ ~sm.pending
  BY DEF Init, NoStream
<1>3. 0 \in 0 .. Depth
  BY HtmlParserConstants
<1>4. \A s : SplicesOf(s) = {} => /\ {s[i].n : i \in SplicesOf(s)} = 1 .. Cardinality(SplicesOf(s))
                                  /\ \A i, j \in SplicesOf(s) : i < j => s[i].n < s[j].n
  BY FS_EmptySet
<1>5. CASE stack = <<>>
  <2>1. DOMAIN stack = {}
    BY <1>5
  <2>2. SplicesOf(stack) = {} /\ Kinds(stack) = {}
    BY <2>1 DEF SplicesOf, Kinds
  <2>3. Numbered(stack)
    BY <1>4, <2>1, <2>2 DEF Numbered
  <2>4. Clean(stack, parser)
    BY <2>1 DEF Clean
  <2>5. PageFirst
    BY <1>2, <2>2 DEF PageFirst
  <2> QED
    BY <1>1, <2>3, <2>4, <2>5 DEF SeenInv
<1>6. CASE stack # <<>>
  <2> DEFINE a == Frame("page") b == ParseFrame("page", 0, Tokens(Page, <<>>))
  <2>1. stack = <<a, b>> /\ loadState = "parsing"
    BY <1>6 DEF Init
  <2>2. /\ a.f = "page" /\ Typed(a) /\ ~IsParse(a) /\ ~Sees(a) /\ b.f = "parse" /\ b.of = "page"
        /\ b.n = 0 /\ Typed(b) /\ ~Sees(b)
    BY DEF Typed, IsParse, Sees, Frame, ParseFrame
  <2>3. DOMAIN stack = {1, 2} /\ stack[1] = a /\ stack[2] = b
    BY <2>1
  <2> HIDE DEF a, b
  <2>4. SplicesOf(stack) = {} /\ Kinds(stack) = {"page", "parse"}
    BY <2>2, <2>3 DEF SplicesOf, Kinds
  <2>5. Numbered(stack)
    <3>1. ASSUME NEW i \in DOMAIN stack, IsParse(stack[i])
          PROVE  i = 2 /\ stack[i] = b /\ i - 1 = 1
      BY <2>2, <2>3, <3>1
    <3>2. ASSUME NEW i \in DOMAIN stack, IsParse(stack[i])
          PROVE  /\ stack[i].of \in {"page", "feed", "finish", "fragment"} /\ stack[i].n \in 0 .. Depth
                 /\ stack[i].of = "fragment" => i > 1 /\ stack[i - 1].f = "splice" /\ stack[i - 1].n = stack[i].n
                 /\ stack[i].of # "fragment" => stack[i].n = 0
                 /\ stack[i].of = "page" => i > 1 /\ stack[i - 1].f = "page"
      BY <1>3, <2>2, <2>3, <3>1, <3>2
    <3>3. \A i \in DOMAIN stack : Typed(stack[i]) /\ (stack[i].f = "page" => i = 1)
      BY <2>2, <2>3
    <3> QED
      BY <1>4, <2>4, <3>2, <3>3 DEF Numbered
  <2>6. Clean(stack, parser)
    BY <2>2, <2>3 DEF Clean
  <2>7. PageFirst
    BY <1>2, <2>1, <2>4 DEF PageFirst
  <2> QED
    BY <1>1, <2>5, <2>6, <2>7 DEF SeenInv
<1> QED
  BY <1>5, <1>6

\* Whatever a parser, a fragment or a finished stream appended is in the tree before the
\* script or reaction it runs can look: the text kept back for joining is flushed on the way
\* (Parser.zig, _appendCallback), and no parser on the stack shares its container.
THEOREM FinalTextIsSeen == Spec => []FinalTextSeen
<1>1. Init => SeenInv
  BY InitSeen
<1>2. SeenInv /\ [Next]_vars => SeenInv'
  BY StepSeen
<1>3. SeenInv => FinalTextSeen
  <2> SUFFICES ASSUME SeenInv, NEW i \in 1 .. Len(stack) - 1, stack[i].f = "parse",
                      stack[i + 1].f = "js", stack[i + 1].from # "ctor"
               PROVE  parser[stack[i].n].buf = <<>>
    BY DEF FinalTextSeen
  <2>1. DOMAIN stack = 1 .. Len(stack) /\ Len(stack) \in Nat
    BY SeqShape DEF SeenInv, IInv, Fits
  <2>2. i \in DOMAIN stack /\ i + 1 \in DOMAIN stack
    BY <2>1
  <2> QED
    BY <2>2 DEF SeenInv, Clean, IsParse, Sees
<1> QED
  BY <1>1, <1>2, <1>3, PTL DEF Spec
=============================================================================
