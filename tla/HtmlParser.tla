----------------------------- MODULE HtmlParser -----------------------------
(***************************************************************************)
(* Parsing with scripts: the bindings of src/rust/html5ever (lib.rs,       *)
(* sink.rs), the tree callbacks of src/browser/parser/Parser.zig that      *)
(* html5ever calls back, and document.write/open/close of                  *)
(* src/browser/webapi/Document.zig with the part of ScriptManagerBase.zig  *)
(* and Frame.zig that decides when scripts and load events run.            *)
(*                                                                         *)
(* Everything is on one thread and every call is synchronous: a parser     *)
(* calls the tree, the tree runs a script, the script writes, the write    *)
(* parses. `stack' is that thread's call stack; the actions run its top    *)
(* frame. The one other actor is the watchdog, which terminates the        *)
(* JavaScript of the thread at any moment.                                 *)
(*                                                                         *)
(* Markup is a sequence of tokens: "text" (a chunk of characters),         *)
(* "script" (a classic inline script), "open" (one that is never closed),  *)
(* "module" (an inline module), "custom" (a custom element), "foster" (a   *)
(* text that belongs before the element before it) and "bad" (html5ever    *)
(* panics on it). A token's name is its path: <<i>> on the page, p \o      *)
(* <<n, j>> for the j-th token of the n-th write of the script p.          *)
(***************************************************************************)
EXTENDS Integers, SequencesExt, FiniteSets

CONSTANTS
  Page,      \* the kinds of the page's tokens
  Chunks,    \* what a script may write: sequences of kinds
  MaxOps,    \* bound: calls made by scripts
  MaxTasks,  \* bound: tasks (timers) run after the page
  Interval,  \* TERMINATE_CHECK_INTERVAL
  Depth,     \* bound: parsers on the stack at once
  Blanks,    \* may the frame be a blank one, whose parse never happened?
  Kills      \* may the watchdog terminate?

ASSUME HtmlParserConstants ==
  /\ MaxOps \in Nat /\ MaxTasks \in Nat /\ Interval \in Nat \ {0} /\ Depth \in Nat
  /\ Blanks \subseteq BOOLEAN /\ Kills \in BOOLEAN
  /\ Chunks \subseteq Seq(STRING)

VARIABLES
  stack,          \* the frames of the thread, innermost last
  tree,           \* container -> its nodes: 0 the document, n the fragment of parser n
  parser,         \* Parser n; 0 serves the page, then the script-created parser
  scp,            \* Document._script_created_parser (Streaming), NoStream if null
  closeRequested, \* Document._close_requested
  current,        \* Document._current_script
  wip,            \* Document._write_insertion_point
  loadState,      \* Frame._load_state
  sm,             \* ScriptManagerBase: static_scripts_done, is_evaluating,
                  \* evaluate_pending, defer_scripts
  killed,         \* the terminate flag of the JavaScript environment
  crashed,        \* a null handle was unwrapped
  count           \* calls made and tasks run

vars == <<stack, tree, parser, scp, closeRequested, current, wip, loadState, sm,
          killed, crashed, count>>

None      == <<>>
NewParser == [run |-> None, buf |-> <<>>, left |-> Interval, terminated |-> FALSE, late |-> 0]
\* handle: html5ever's parser exists; open: it is inside an unclosed script;
\* asked, parsed: the tokens read() was given, and those html5ever took
NoStream  == [live |-> FALSE, handle |-> FALSE, feeding |-> FALSE, pending |-> <<>>,
              open |-> None, asked |-> <<>>, parsed |-> <<>>]
NewStream == [NoStream EXCEPT !.live = TRUE, !.handle = TRUE]

Tokens(kinds, path) == [j \in DOMAIN kinds |-> [k |-> kinds[j], id |-> Append(path, j)]]

ParseFrame(of, n, tokens) == [f |-> "parse", of |-> of, n |-> n, todo |-> tokens, made |-> FALSE]
Frame(name) == [f |-> name]

Init ==
  \E blank \in Blanks :
    /\ stack = IF blank THEN <<>>
               ELSE <<Frame("page"), ParseFrame("page", 0, Tokens(Page, <<>>))>>
    /\ loadState = IF blank THEN "complete" ELSE "parsing"
    /\ tree = [n \in 0 .. Depth |-> <<>>] /\ parser = [n \in 0 .. Depth |-> NewParser]
    /\ scp = NoStream /\ closeRequested = FALSE /\ current = None /\ wip = None
    /\ sm = [static |-> FALSE, evaluating |-> FALSE, pending |-> FALSE, deferred |-> <<>>]
    /\ killed = FALSE /\ crashed = FALSE /\ count = [ops |-> 0, tasks |-> 0]

Running    == stack # <<>> /\ ~crashed
Top        == Last(stack)
Is(name)   == Running /\ Top.f = name
Caller     == Front(stack)
Returns    == stack' = Caller
Becomes(f) == stack' = Append(Caller, f)
Calls(fs)  == stack' = stack \o fs

Document == <<scp, closeRequested, current, wip, loadState>>
Page_    == <<tree, parser>>
Rest     == <<killed, crashed, count>>

-----------------------------------------------------------------------------
(* Scripts.                                                                *)

\* Script.eval: the current script and the insertion point are its own until
\* it returns. A terminated environment runs nothing.
JsFrame(from, by) ==
  [f |-> "js", from |-> from, by |-> by, writes |-> 0, current |-> current, wip |-> wip,
   was |-> sm.evaluating]

Eval(from, id, below) ==
  IF killed THEN stack' = below /\ UNCHANGED <<current, wip, sm>>
  ELSE /\ stack' = Append(below, JsFrame(from, id))
       /\ current' = id /\ wip' = None
       /\ sm' = [sm EXCEPT !.evaluating = TRUE]

\* Listeners, reactions and timers run with the document's state as it is.
Notify(from, by, below) ==
  stack' = IF killed THEN below ELSE Append(below, JsFrame(from, by))

\* ScriptManagerBase.evaluate, called with the frames `below' left on the stack
Evaluate(below, sm1) ==
  IF sm1.evaluating
  THEN sm' = [sm1 EXCEPT !.pending = TRUE] /\ stack' = below
  ELSE sm' = [sm1 EXCEPT !.evaluating = TRUE, !.pending = FALSE]
       /\ stack' = Append(below, [f |-> "evaluate", stage |-> "scripts"])

\* endEvaluationWindow
EndWindow(below, sm1, was) ==
  LET sm2 == [sm1 EXCEPT !.evaluating = was]
  IN IF ~was /\ sm1.pending THEN Evaluate(below, sm2) ELSE sm' = sm2 /\ stack' = below

\* The script at the top returns.
EndJs ==
  /\ Is("js")
  /\ LET f == Top IN
     /\ IF f.from \in {"script", "module"} THEN EndWindow(Caller, sm, f.was)
        ELSE IF f.from = "deferred"
        THEN sm' = [sm EXCEPT !.deferred = Tail(@)] /\ Returns
        ELSE Returns /\ UNCHANGED sm
     /\ IF f.from \in {"script", "module", "deferred"}
        THEN current' = f.current /\ wip' = f.wip
        ELSE UNCHANGED <<current, wip>>
  /\ UNCHANGED <<Page_, scp, closeRequested, loadState, Rest>>

\* The watchdog's terminate.
Terminate ==
  /\ Kills /\ ~killed /\ Running /\ killed' = TRUE
  /\ UNCHANGED <<stack, Page_, Document, sm, crashed, count>>

-----------------------------------------------------------------------------
(* The tree callbacks of a parser. c is its container.                     *)
TextNode(id)  == [k |-> "text", id |-> id, ids |-> <<id>>]
Element(tok)  == [k |-> tok.k, id |-> tok.id, ids |-> <<tok.id>>]
IdsOf(nodes)  == [i \in DOMAIN nodes |-> nodes[i].id]
InTree(id, c) == \E i \in DOMAIN tree[c] : tree[c][i].id = id

\* flushPendingText: the buffer, if any, becomes the node's text.
Flushed(nodes, p) ==
  [i \in DOMAIN nodes |-> IF p.buf # <<>> /\ nodes[i].id = p.run
                          THEN [nodes[i] EXCEPT !.ids = p.buf] ELSE nodes[i]]
NoRun(p) == [p EXCEPT !.run = None, !.buf = <<>>]

\* A flag that is not sticky.
Poll_bug(p) ==
  IF p.left > 1 THEN [p EXCEPT !.left = @ - 1, !.terminated = FALSE]
  ELSE [p EXCEPT !.left = Interval, !.terminated = killed]

\* pollTerminate: the flag is read once per Interval appends and is sticky.
Poll(p) ==
  IF p.terminated THEN p
  ELSE IF p.left > 1 THEN [p EXCEPT !.left = @ - 1]
  ELSE [p EXCEPT !.left = Interval, !.terminated = killed]

\* `late' counts what is still appended after a terminate.
Polled(p) == LET q == Poll(p)
             IN IF q.terminated \/ ~killed THEN q ELSE [q EXCEPT !.late = @ + 1]

\* appendTextChunk
SameRun(nodes, p) == p.run # None /\ nodes # <<>> /\ Last(nodes).id = p.run

AppendTextChunk(c, p, id) ==
  IF SameRun(tree[c], p)
  THEN /\ parser' = [parser EXCEPT ![c] =
            [p EXCEPT !.buf = (IF p.buf = <<>> THEN Last(tree[c]).ids ELSE p.buf) \o <<id>>]]
       /\ UNCHANGED tree
  ELSE LET nodes == Flushed(tree[c], p) IN
       IF nodes # <<>> /\ Last(nodes).k = "text"
       THEN /\ parser' = [parser EXCEPT ![c] =
                 [p EXCEPT !.run = Last(nodes).id, !.buf = Append(Last(nodes).ids, id)]]
            /\ tree' = [tree EXCEPT ![c] = nodes]
       ELSE /\ parser' = [parser EXCEPT ![c] = [NoRun(p) EXCEPT !.run = id]]
            /\ tree' = [tree EXCEPT ![c] = Append(nodes, TextNode(id))]

\* An append that leaves the pending text for the end.
AppendNode_bug(c, p, tok) ==
  /\ parser' = [parser EXCEPT ![c] = p]
  /\ tree' = [tree EXCEPT ![c] = Append(@, Element(tok))]

\* _appendCallback of a node
AppendNode(c, p, tok) ==
  /\ parser' = [parser EXCEPT ![c] = NoRun(p)]
  /\ tree' = [tree EXCEPT ![c] = Append(Flushed(@, p), Element(tok))]

\* _appendBasedOnParentNodeCallback of a text: before the element if that has
\* a parent, else as a text under the previous one. It never joins a text.
Elements(nodes) == {i \in DOMAIN nodes : nodes[i].k # "text"}

AppendFoster(c, p, id) ==
  IF Elements(tree[c]) = {} THEN AppendTextChunk(c, p, id)
  ELSE LET i == CHOOSE m \in Elements(tree[c]) : \A n \in Elements(tree[c]) : n <= m
       IN /\ parser' = [parser EXCEPT ![c] = NoRun(p)]
          /\ tree' = [tree EXCEPT ![c] = InsertAt(Flushed(@, p), i, TextNode(id))]

Loose(id) == Append(id, 0)   \* the name of a token whose place is not in order

-----------------------------------------------------------------------------
(* One token of the innermost parser.                                      *)
Parsing == Is("parse") /\ Top.todo # <<>>
Token   == Head(Top.todo)
C       == Top.n

\* The stream's record of what html5ever took.
Streamed(id) == scp' = IF Top.of = "feed" THEN [scp EXCEPT !.parsed = Append(@, id)] ELSE scp
NextToken    == Append(Caller, [Top EXCEPT !.todo = Tail(@), !.made = FALSE])
InScript     == Top.of = "feed" /\ scp.open # None

\* Inside an unclosed script the rest of the stream is that script's text.
SwallowToken ==
  /\ Parsing /\ InScript /\ Streamed(Token.id) /\ stack' = NextToken
  /\ UNCHANGED <<Page_, closeRequested, current, wip, loadState, sm, Rest>>

TextToken ==
  /\ Parsing /\ ~InScript /\ Token.k \in {"text", "foster"}
  /\ LET p == Polled(parser[C]) IN
     IF p.terminated THEN parser' = [parser EXCEPT ![C] = p] /\ UNCHANGED tree
     ELSE IF Token.k = "text" THEN AppendTextChunk(C, p, Token.id)
     ELSE AppendFoster(C, p, Loose(Token.id))
  /\ Streamed(Token.id) /\ stack' = NextToken
  /\ UNCHANGED <<closeRequested, current, wip, loadState, sm, Rest>>

\* A script is appended, and runs when it is popped: a module found while the
\* page is parsed waits. An unclosed one is popped when its parser finishes.
ScriptToken ==
  /\ Parsing /\ ~InScript /\ Token.k \in {"script", "open", "module"}
  /\ LET p == Polled(parser[C])
         tok == Token
         stays == tok.k = "open" /\ Top.of = "feed"
         after == IF tok.k = "open" THEN Append(Caller, [Top EXCEPT !.todo = <<>>]) ELSE NextToken
     IN /\ IF p.terminated
           THEN parser' = [parser EXCEPT ![C] = p] /\ UNCHANGED tree
           ELSE AppendNode(C, p, tok)
        /\ scp' = IF Top.of # "feed" THEN scp
                  ELSE [scp EXCEPT !.parsed = Append(@, tok.id),
                                   !.open = IF stays THEN tok.id ELSE None]
        /\ IF p.terminated \/ stays
           THEN stack' = (IF stays THEN NextToken ELSE after) /\ UNCHANGED <<current, wip, sm>>
           ELSE IF tok.k = "module" /\ ~sm.static
           THEN /\ sm' = [sm EXCEPT !.deferred = Append(@, tok.id)]
                /\ stack' = after /\ UNCHANGED <<current, wip>>
           ELSE Eval(IF tok.k = "module" THEN "module" ELSE "script", tok.id, after)
  /\ UNCHANGED <<closeRequested, loadState, Rest>>

\* createElementCallback: the constructor of a custom element runs here, before
\* the element is in the tree.
CreateCustom ==
  /\ Parsing /\ ~InScript /\ Token.k = "custom" /\ ~Top.made
  /\ Notify("ctor", Loose(Token.id), Append(Caller, [Top EXCEPT !.made = TRUE]))
  /\ UNCHANGED <<Page_, Document, sm, Rest>>

\* appendCallback: the reactions run when the node is in the tree.
AppendCustom ==
  /\ Parsing /\ ~InScript /\ Token.k = "custom" /\ Top.made
  /\ LET p == Polled(parser[C]) IN
     IF p.terminated
     THEN parser' = [parser EXCEPT ![C] = p] /\ stack' = NextToken /\ UNCHANGED tree
     ELSE AppendNode(C, p, Token) /\ Notify("reaction", Loose(Token.id), NextToken)
  /\ Streamed(Token.id)
  /\ UNCHANGED <<closeRequested, current, wip, loadState, sm, Rest>>

\* html5ever panics inside feed: html5ever_streaming_parser_feed catches it,
\* Streaming.feed destroys the parser, read() returns the error and write drops
\* the Streaming, with what was pending.
PanicToken ==
  /\ Parsing /\ Top.of = "feed" /\ ~InScript /\ Token.k = "bad"
  /\ LET w == CHOOSE i \in DOMAIN stack : stack[i].f = "read" /\ \A j \in DOMAIN stack :
                stack[j].f = "read" => j <= i
     IN stack' = SubSeq(stack, 1, w - 1)
  /\ scp' = NoStream /\ closeRequested' = FALSE
  /\ tree' = [tree EXCEPT ![0] = Flushed(@, parser[0])]
  /\ parser' = [parser EXCEPT ![0] = NoRun(@)]
  /\ UNCHANGED <<current, wip, loadState, sm, Rest>>

\* A parse function returns. All but feed flush the pending text; Streaming.done
\* then drops what was written while it finished.
EndParse ==
  /\ Is("parse") /\ Top.todo = <<>> /\ Returns
  /\ IF Top.of = "feed" THEN UNCHANGED Page_
     ELSE /\ tree' = [tree EXCEPT ![C] = Flushed(@, parser[C])]
          /\ parser' = [parser EXCEPT ![C] = NoRun(@)]
  /\ scp' = IF Top.of = "finish" THEN [scp EXCEPT !.feeding = FALSE, !.pending = <<>>] ELSE scp
  /\ UNCHANGED <<closeRequested, current, wip, loadState, sm, Rest>>
-----------------------------------------------------------------------------
(* document.write, open and close (Document.zig), called by the script at  *)
(* the top of the stack.                                                   *)
MayCall == Is("js") /\ ~killed /\ count.ops < MaxOps
Counted == count' = [count EXCEPT !.ops = @ + 1] /\ UNCHANGED <<killed, crashed>>

\* _throw_on_dynamic_markup_insertion_counter
InConstructor == \E i \in DOMAIN stack : stack[i].f = "js" /\ stack[i].from = "ctor"
\* The document's own parser is not the one to write to.
Inline        == current # None /\ loadState = "parsing"

ParentsOf(id) == {c \in DOMAIN tree : InTree(id, c)}
Written(kinds) == Tokens(kinds, Append(Top.by, Top.writes + 1))
Caller1        == Append(Caller, [Top EXCEPT !.writes = @ + 1])   \* the script, one write on
FragmentsOpen  == Cardinality({i \in DOMAIN stack : stack[i].f = "splice"})

\* An inline script of the page: the markup is parsed into a fragment of its
\* own, which is spliced in when that is done. A script that is not in the tree
\* has nowhere to write.
WriteInline(kinds) ==
  /\ MayCall /\ ~InConstructor /\ Inline
  /\ LET n == FragmentsOpen + 1 IN
     IF ParentsOf(current) = {} THEN stack' = Caller1 /\ UNCHANGED Page_
     ELSE /\ n <= Depth
          /\ stack' = Caller1 \o <<[f |-> "splice", n |-> n, script |-> current,
                                    parent |-> CHOOSE c \in ParentsOf(current) : TRUE],
                                   ParseFrame("fragment", n, Written(kinds))>>
          /\ tree' = [tree EXCEPT ![n] = <<>>] /\ parser' = [parser EXCEPT ![n] = NewParser]
  /\ Counted /\ UNCHANGED <<Document, sm>>

\* Every write goes right after its script.
Splice_bug ==
  /\ Is("splice") /\ Returns
  /\ LET into == tree[Top.parent]
         at   == {i \in DOMAIN into : into[i].id = Top.script}
     IN tree' = IF at = {} THEN tree
                ELSE [tree EXCEPT ![Top.parent] = ReplaceFirstSubSeq(
                        <<into[CHOOSE i \in at : TRUE]>> \o tree[Top.n],
                        <<into[CHOOSE i \in at : TRUE]>>, into),
                     ![Top.n] = <<>>]
  /\ UNCHANGED <<parser, scp, closeRequested, current, wip, loadState, sm, Rest>>

\* The fragment's children go after the insertion point if it is still under
\* the script's parent, else after the script if that is, else nowhere.
Splice ==
  /\ Is("splice") /\ Returns
  /\ LET into == tree[Top.parent]
         anchors == IF wip # None /\ InTree(wip, Top.parent) THEN {wip}
                    ELSE {id \in {Top.script} : InTree(id, Top.parent)}
     IN IF tree[Top.n] = <<>> \/ anchors = {} THEN UNCHANGED <<tree, wip>>
        ELSE LET at == CHOOSE i \in DOMAIN into : into[i].id \in anchors
             IN /\ tree' = [tree EXCEPT
                     ![Top.parent] = SubSeq(into, 1, at) \o tree[Top.n]
                                       \o SubSeq(into, at + 1, Len(into)),
                     ![Top.n] = <<>>]
                /\ wip' = Last(tree[Top.n]).id
  /\ UNCHANGED <<parser, scp, closeRequested, current, loadState, sm, Rest>>

\* Anything else is written to the script-created parser: open() makes it if
\* there is none and the page is parsed, and empties the document. read() feeds
\* html5ever, or queues the markup for the feed that is in progress.
Opened     == ~scp.live /\ loadState # "parsing"
Stream     == IF Opened THEN NewStream ELSE scp
Asks(toks) == [Stream EXCEPT !.asked = @ \o IdsOf(toks)]

\* A read() that feeds html5ever at once, whoever calls.
Read_bug(toks) ==
  IF ~Stream.live \/ toks = <<>> THEN scp' = Stream /\ stack' = Caller1 \o <<Frame("written")>>
  ELSE /\ scp' = [Asks(toks) EXCEPT !.feeding = TRUE]
       /\ stack' = Caller1 \o <<Frame("written"), Frame("read"), ParseFrame("feed", 0, toks)>>

Read(toks) ==
  IF ~Stream.live \/ toks = <<>> THEN scp' = Stream /\ stack' = Caller1 \o <<Frame("written")>>
  ELSE IF Stream.feeding
  THEN scp' = [Asks(toks) EXCEPT !.pending = @ \o toks]
       /\ stack' = Caller1 \o <<Frame("written")>>
  ELSE /\ scp' = [Asks(toks) EXCEPT !.feeding = TRUE]
       /\ stack' = Caller1 \o <<Frame("written"), Frame("read"), ParseFrame("feed", 0, toks)>>

\* A Streaming that is neither feeding nor has a parser: `self.handle.?'
Unwraps(s) == s.live /\ ~s.feeding /\ ~s.handle
Crash      == crashed' = TRUE /\ UNCHANGED <<stack, Page_, Document, sm, killed, count>>

WriteStream(kinds) ==
  /\ MayCall /\ ~InConstructor /\ ~Inline
  /\ IF Unwraps(scp) /\ kinds # <<>> THEN Crash
     ELSE /\ Read(Written(kinds)) /\ Counted
          /\ IF Opened THEN tree' = [tree EXCEPT ![0] = <<>>]
                            /\ parser' = [parser EXCEPT ![0] = NewParser]
             ELSE UNCHANGED Page_
          /\ UNCHANGED <<closeRequested, current, wip, loadState, sm>>

\* In a constructor both throw.
CallThrows ==
  /\ MayCall /\ InConstructor /\ Counted
  /\ UNCHANGED <<stack, Page_, Document, sm>>

\* What was queued is still queued when it is fed.
ReadMore_bug ==
  /\ Is("read")
  /\ IF scp.pending = <<>>
     THEN scp' = [scp EXCEPT !.feeding = FALSE] /\ Returns
     ELSE UNCHANGED scp /\ Calls(<<ParseFrame("feed", 0, scp.pending)>>)
  /\ UNCHANGED <<Page_, closeRequested, current, wip, loadState, sm, Rest>>

\* Streaming.read: feed again while scripts have queued more.
ReadMore ==
  /\ Is("read")
  /\ IF scp.pending = <<>>
     THEN scp' = [scp EXCEPT !.feeding = FALSE] /\ Returns
     ELSE scp' = [scp EXCEPT !.pending = <<>>] /\ Calls(<<ParseFrame("feed", 0, scp.pending)>>)
  /\ UNCHANGED <<Page_, closeRequested, current, wip, loadState, sm, Rest>>

\* finishScriptCreatedParser and Streaming.done: the handle is given up first.
\* What html5ever still holds open is popped, so an unclosed script runs now.
Finish(below) ==
  /\ closeRequested' = FALSE
  /\ scp' = [scp EXCEPT !.handle = FALSE, !.feeding = TRUE, !.open = None]
  /\ LET frames == below \o <<[f |-> "finished", stage |-> "scripts"],
                              ParseFrame("finish", 0, <<>>)>>
     IN IF scp.open = None \/ parser[0].terminated
        THEN stack' = frames /\ UNCHANGED <<Page_, current, wip, sm>>
        ELSE /\ tree' = [tree EXCEPT ![0] = Flushed(@, parser[0])]
             /\ parser' = [parser EXCEPT ![0] = NoRun(@)]
             /\ Eval("script", scp.open, frames)
  /\ UNCHANGED <<loadState, killed, crashed>>

\* A write that leaves a requested close to the next one.
WriteDone_bug ==
  /\ Is("written") /\ Returns
  /\ UNCHANGED <<Page_, Document, sm, Rest>>

\* The end of a write: a close that came during the feed is done now.
WriteDone ==
  /\ Is("written")
  /\ IF closeRequested /\ scp.live /\ ~scp.feeding
     THEN IF Unwraps(scp) THEN Crash ELSE Finish(Caller) /\ UNCHANGED count
     ELSE /\ closeRequested' = (closeRequested /\ scp.live) /\ Returns
          /\ UNCHANGED <<Page_, scp, current, wip, loadState, sm, Rest>>

\* document.close
Close ==
  /\ MayCall /\ ~InConstructor /\ scp.live
  /\ IF Unwraps(scp) THEN Crash
     ELSE /\ count' = [count EXCEPT !.ops = @ + 1]
          /\ IF scp.feeding
             THEN closeRequested' = TRUE
                  /\ UNCHANGED <<stack, Page_, scp, current, wip, loadState, sm, killed, crashed>>
             ELSE Finish(stack)

\* A script takes its own element out of the document.
Detach ==
  /\ MayCall /\ current # None /\ ParentsOf(current) # {} /\ Counted
  /\ tree' = [c \in DOMAIN tree |-> SelectSeq(tree[c], LAMBDA node : node.id # current)]
  /\ UNCHANGED <<stack, parser, Document, sm>>

-----------------------------------------------------------------------------
(* What follows a parse.                                                   *)

\* scriptCreatedParseDone, then documentIsComplete, and only then the Streaming
\* is dropped.
FinishScripts ==
  /\ Is("finished") /\ Top.stage = "scripts"
  /\ Evaluate(Append(Caller, [Top EXCEPT !.stage = "complete"]), [sm EXCEPT !.static = TRUE])
  /\ UNCHANGED <<Page_, Document, Rest>>

\* documentIsComplete, with the events' listeners run under `below'
Complete(below) ==
  IF loadState = "complete" THEN stack' = below /\ UNCHANGED <<loadState, count>>
  ELSE /\ loadState' = "complete" /\ count' = [count EXCEPT !.tasks = @ + 1]
       /\ Notify("event", <<Len(Page) + 1 + count.tasks>>, below)

FinishComplete ==
  /\ Is("finished") /\ Top.stage = "complete"
  /\ Complete(Append(Caller, [Top EXCEPT !.stage = "drop"]))
  /\ UNCHANGED <<Page_, scp, closeRequested, current, wip, sm, killed, crashed>>

FinishDrop ==
  /\ Is("finished") /\ Top.stage = "drop" /\ scp' = NoStream /\ Returns
  /\ UNCHANGED <<Page_, closeRequested, current, wip, loadState, sm, Rest>>

\* ScriptManagerBase.evaluate: the deferred scripts in order, again if it was
\* called meanwhile, then the frame's hook.
EvaluateScripts ==
  /\ Is("evaluate") /\ Top.stage = "scripts"
  /\ IF sm.static /\ sm.deferred # <<>>
     THEN IF killed THEN sm' = [sm EXCEPT !.deferred = Tail(@)] /\ UNCHANGED <<stack, current, wip>>
          ELSE Eval("deferred", Head(sm.deferred), stack)
     ELSE /\ sm' = [sm EXCEPT !.pending = FALSE]
          /\ Becomes([Top EXCEPT !.stage = IF sm.pending THEN "scripts"
                                           ELSE IF sm.static THEN "loaded" ELSE "end"])
          /\ UNCHANGED <<current, wip>>
  /\ UNCHANGED <<Page_, scp, closeRequested, loadState, Rest>>

\* tailHook: documentIsLoaded, then documentIsComplete unless other loads
\* (images, frames) are pending.
HookLoaded ==
  /\ Is("evaluate") /\ Top.stage = "loaded"
  /\ LET below == Append(Caller, [Top EXCEPT !.stage = "complete"]) IN
     IF loadState # "parsing" THEN stack' = below /\ UNCHANGED <<loadState, count>>
     ELSE /\ loadState' = "load" /\ count' = [count EXCEPT !.tasks = @ + 1]
          /\ Notify("event", <<Len(Page) + 1 + count.tasks>>, below)
  /\ UNCHANGED <<Page_, scp, closeRequested, current, wip, sm, killed, crashed>>

HookComplete(loadsPending) ==
  /\ Is("evaluate") /\ Top.stage = "complete"
  /\ LET below == Append(Caller, [Top EXCEPT !.stage = "end"]) IN
     IF loadsPending THEN stack' = below /\ UNCHANGED <<loadState, count>> ELSE Complete(below)
  /\ UNCHANGED <<Page_, scp, closeRequested, current, wip, sm, killed, crashed>>

EvaluateEnd ==
  /\ Is("evaluate") /\ Top.stage = "end" /\ EndWindow(Caller, sm, FALSE)
  /\ UNCHANGED <<Page_, Document, Rest>>

\* frameDoneCallback, once the page is parsed: staticScriptsDone
PageDone ==
  /\ Is("page") /\ Evaluate(Caller, [sm EXCEPT !.static = TRUE])
  /\ UNCHANGED <<Page_, Document, Rest>>

\* A timer, on an idle thread.
Task ==
  /\ stack = <<>> /\ ~crashed /\ ~killed /\ count.tasks < MaxTasks
  /\ count' = [count EXCEPT !.tasks = @ + 1]
  /\ Notify("task", <<Len(Page) + 1 + count.tasks>>, <<>>)
  /\ UNCHANGED <<Page_, Document, sm, killed, crashed>>

\* The last pending load ends.
LoadsDone ==
  /\ stack = <<>> /\ ~crashed /\ loadState = "load" /\ Complete(<<>>)
  /\ UNCHANGED <<Page_, scp, closeRequested, current, wip, sm, killed, crashed>>

Next ==
  \/ SwallowToken \/ TextToken \/ ScriptToken \/ CreateCustom \/ AppendCustom
  \/ PanicToken \/ EndParse \/ EndJs \/ Terminate
  \/ \E kinds \in Chunks : WriteInline(kinds) \/ WriteStream(kinds)
  \/ Splice \/ CallThrows \/ ReadMore \/ WriteDone \/ Close \/ Detach
  \/ FinishScripts \/ FinishComplete \/ FinishDrop
  \/ EvaluateScripts \/ HookLoaded \/ (\E pending \in BOOLEAN : HookComplete(pending))
  \/ EvaluateEnd \/ PageDone \/ Task \/ LoadsDone

Spec == Init /\ [][Next]_vars

\* The thread runs, and no script runs for ever.
FairSpec == Spec /\ WF_vars(Next)

-----------------------------------------------------------------------------
(* Properties.                                                             *)
Feeds(of) == {i \in DOMAIN stack : stack[i].f = "parse" /\ stack[i].of \in of}

\* html5ever's parser is never called while it is running, never after it was
\* given up, and Streaming.feeding says exactly when it runs (Parser.zig: "not
\* re-entrant").
NoReentry ==
  /\ Cardinality(Feeds({"feed", "finish"})) <= 1
  /\ Feeds({"feed"}) # {} => scp.live /\ scp.handle /\ scp.feeding
  /\ Feeds({"finish"}) # {} => ~scp.handle /\ scp.feeding
  /\ scp.feeding => \E i \in DOMAIN stack :
       stack[i].f = "read" \/ (stack[i].f = "parse" /\ stack[i].of = "finish")

\* A script or a reaction that a parser runs finds the text before it complete:
\* nothing the parser appended is still in its buffer.
FinalTextSeen ==
  \A i \in 1 .. Len(stack) - 1 :
    stack[i].f = "parse" /\ stack[i + 1].f = "js" /\ stack[i + 1].from # "ctor"
      => parser[stack[i].n].buf = <<>>

\* The order of names: a script before what it wrote, that before what follows.
Before(p, q) ==
  \/ Len(p) < Len(q) /\ SubSeq(q, 1, Len(p)) = p
  \/ \E i \in DOMAIN p \cap DOMAIN q :
       p[i] < q[i] /\ \A j \in 1 .. i - 1 : p[j] = q[j]

InOrder(ids) == \A i \in 1 .. Len(ids) - 1 : Before(ids[i], ids[i + 1])
\* the names in a container, but for those with no place in the order
Ordered(c) == SelectSeq(FlattenSeq([i \in DOMAIN tree[c] |-> tree[c][i].ids]),
                        LAMBDA id : \A j \in DOMAIN id : id[j] # 0)

\* However writes nest, the page and every fragment read in the order of the
\* markup, each token once.
WriteOrder == ~scp.live /\ loadState = "parsing" => \A c \in DOMAIN tree : InOrder(Ordered(c))

\* What was written to a script-created parser is parsed in the order of the
\* writes, each token once, and until the parser is closed nothing is lost.
StreamOnce ==
  scp.live /\ scp.handle =>
    scp.asked = scp.parsed
      \o (IF Feeds({"feed"}) = {} THEN <<>>
          ELSE IdsOf(stack[CHOOSE i \in Feeds({"feed"}) : TRUE].todo))
      \o IdsOf(scp.pending)

\* A parse goes on for less than Interval appends after a terminate.
TerminateNoticed == \A n \in DOMAIN parser : parser[n].late < Interval

\* close() during a feed is not forgotten: the parser is finished, or died.
CloseHonoured == (closeRequested /\ scp.handle) ~> (~scp.handle \/ crashed)

\* Dropped once finished: no script runs while a Streaming without a parser can
\* still be reached (Document.zig, finishScriptCreatedParser).
NoDeadParser == ~crashed
=============================================================================
