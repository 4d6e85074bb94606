----------------------------- MODULE ServerLoop ------------------------------
(***************************************************************************)
(* The server loop (src/src/server/Server.zig), the worker threads it      *)
(* starts, and everything they share: the worker queue and its eventfd,    *)
(* the slots with their inboxes, the sockets of the links, the terminate   *)
(* flags.  Real threads: the loop and each worker interleave between any   *)
(* two accesses to what they share.                                        *)
(*                                                                         *)
(* A worker born from a socket (cdp, bidi-only) is named by that socket    *)
(* and dies with its link; a worker born from POST /session is named by    *)
(* its session, and links come and go.                                     *)
(***************************************************************************)
EXTENDS Integers, FiniteSets, SequencesExt

CONSTANTS
  Slots,           \* worker_pool.slab: maxConnections() of them
  Conns,           \* client sockets; an fd number is used again once closed
  Sessions,        \* BOUND: names of HTTP sessions whose threads exist at once
  None,
  MaxLive,         \* max_connections: HTTP connections plus workers
  Backlog,         \* commands an inbox takes before the loop drops the link
  Reaper,          \* --http-session-timeout is set
  Watchdog         \* --watchdog-ms is not 0

Workers == Conns \cup Sessions

ASSUME Constants ==
  /\ IsFiniteSet(Slots) /\ IsFiniteSet(Conns) /\ Slots # {}
  /\ Conns \cap Sessions = {} /\ None \notin Slots \cup Workers
  /\ MaxLive \in Nat \ {0} /\ Backlog \in Nat
  /\ {Reaper, Watchdog} \subseteq BOOLEAN

VARIABLES
  (* the loop's own                                                        *)
  phase,      \* where runOnce is
  begun,      \* shutdown_begun
  paused,     \* listener_paused
  toStop,     \* slot whose inbox has the message and whose driver is next to
              \* be told to terminate (quitSession, dropWebSocket)
  drain,      \* worker_drain
  idle,       \* idle_sessions
  (* a slot, Server.Worker; only the loop reads or writes these            *)
  occupant,   \* the worker that has the slot
  attached,   \* driver is set
  link,       \* the link's socket
  monitored,  \* ... is in the poll set
  listed,     \* session_id is set and in `sessions'
  (* shared                                                                *)
  queue,      \* worker_queue
  wake,       \* edges of the two eventfds not yet delivered
  inbox,      \* of each slot
  term,       \* Env.terminate_requested of each worker, with its cause
  answered,   \* the event a blocked worker waits for is set
  sock,       \* what each socket is
  (* a worker thread's own                                                 *)
  pc, at,     \* `at': its slot
  back,       \* where it goes on after releaseLink
  held,       \* BiDi.link, CDP.link
  giving,     \* the link it is releasing
  gone,       \* Client.disconnected
  fault       \* assertions that failed

turn     == <<phase, begun>>
loopVars == <<turn, paused, toStop, drain, idle>>
seat     == <<occupant, attached, listed>>
slotVars == <<seat, link, monitored>>
server   == <<loopVars, slotVars>>
flags    == <<term, answered>>
shared   == <<queue, wake, inbox, flags, sock>>
mind     == <<at, back, gone>>
own      == <<pc, mind, held, giving>>
vars     == <<server, shared, own, fault>>

Phases == {"events", "drain", "joining", "done"}
Pcs == {"none", "starting", "attachSig", "tick", "pump", "script", "terminal",
        "linkSig", "waitLink", "releaseSig", "waitRelease",
        "teardown"}
(* The thread uses its slot's inbox and its driver between these two.       *)
Driving == {"attachSig", "tick", "pump", "script", "terminal", "linkSig",
            "waitLink", "releaseSig", "waitRelease"}
Edges == {"signal", "shutdown"}
(* Why a worker was told to terminate: by the loop after a message that     *)
(* says so, by shutdown, or by the watchdog or the heap limit.              *)
Causes == {"no", "asked", "shutdown", "stuck"}
(* What the loop and the workers assert.                                    *)
Assertions == {"attached twice", "attach link", "idle twice", "workers left",
               "adopt held", "release empty"}
Kinds == {"cmd", "close", "disconnect", "quit", "link"}

Message(kind, c) == [kind |-> kind, conn |-> c]
Command    == Message("cmd", None)
Close      == Message("close", None)
Disconnect == Message("disconnect", None)
Quit       == Message("quit", None)
NewLink(c) == Message("link", c)
Messages   == [kind : Kinds, conn : Conns \cup {None}]
Requests   == [slot : Slots, op : {"attach", "release_link", "release"}, by : Workers]

Free         == {i \in Slots : occupant[i] = None}
Http         == {c \in Conns : sock[c] = "http"}
liveConnections == Cardinality(Http) + Cardinality(Slots \ Free)
(* Whether losing the link ends the worker.                                 *)
connectionScoped(i) == occupant[i] \in Conns

TypeOK ==
  /\ phase \in Phases /\ wake \subseteq Edges
  /\ begun \in BOOLEAN /\ paused \in BOOLEAN /\ toStop \in Slots \cup {None}
  /\ queue \in Seq(Requests) /\ drain \in Seq(Requests) /\ idle \in Seq(Slots)
  /\ occupant \in [Slots -> Workers \cup {None}]
  /\ attached \in [Slots -> BOOLEAN] /\ monitored \in [Slots -> BOOLEAN]
  /\ listed \in [Slots -> BOOLEAN] /\ link \in [Slots -> Conns \cup {None}]
  /\ inbox \in [Slots -> Seq(Messages)]
  /\ term \in [Workers -> Causes] /\ answered \in [Workers -> BOOLEAN]
  /\ sock \in [Conns -> {"out", "http", "ws"}]
  /\ pc \in [Workers -> Pcs] /\ at \in [Workers -> Slots \cup {None}]
  /\ back \in [Workers -> {"pump", "script", "terminal"}]
  /\ held \in [Workers -> Conns \cup {None}]
  /\ giving \in [Workers -> Conns \cup {None}]
  /\ gone \in [Workers -> BOOLEAN] /\ fault \subseteq Assertions

Init ==
  /\ phase = "events" /\ begun = FALSE /\ paused = FALSE
  /\ toStop = None /\ drain = <<>> /\ idle = <<>>
  /\ occupant = [i \in Slots |-> None] /\ attached = [i \in Slots |-> FALSE]
  /\ link = [i \in Slots |-> None] /\ monitored = [i \in Slots |-> FALSE]
  /\ listed = [i \in Slots |-> FALSE]
  /\ queue = <<>> /\ wake = {} /\ inbox = [i \in Slots |-> <<>>]
  /\ term = [w \in Workers |-> "no"] /\ answered = [w \in Workers |-> FALSE]
  /\ sock = [c \in Conns |-> "out"]
  /\ pc = [w \in Workers |-> "none"] /\ at = [w \in Workers |-> None]
  /\ back = [w \in Workers |-> "pump"]
  /\ held = [w \in Workers |-> None] /\ giving = [w \in Workers |-> None]
  /\ gone = [w \in Workers |-> FALSE] /\ fault = {}

Broken(name, bad) == IF bad THEN {name} ELSE {}

-----------------------------------------------------------------------------
(* Pieces of the loop's handlers                                            *)

Unlink(s, x) ==
  IF Contains(s, x) THEN RemoveAt(s, CHOOSE k \in 1..Len(s) : s[k] = x) ELSE s

(* slotFreed, at every end of an HTTP connection or of a worker: the        *)
(* listener is resumed.  BOUND: epoll takes it (README, findings).          *)
slotFreed == paused' = (paused /\ begun)

(* Into the inbox of slot i; the wakeup of the worker's poll only shortens  *)
(* a wait that is at most a second anyway.                                  *)
push(i, messages) == inbox' = [inbox EXCEPT ![i] = @ \o messages]

(* Mutant: the list still holds a session that has a link.                  *)
clearIdle_bug(i) == UNCHANGED idle

clearIdle(i) == idle' = Unlink(idle, i)

(* A session that is not ending, and has no link, may be reaped.            *)
markIdle(i) == idle' = IF listed[i] /\ Reaper THEN Append(idle, i) ELSE idle

(* The second half of quitSession and dropWebSocket, once the message is    *)
(* in the inbox; the next step of the loop raises the flag.                 *)
askToStop(i) == toStop' = IF attached[i] THEN i ELSE None

(* quitSession                                                              *)
quitSession(i) ==
  /\ listed' = [listed EXCEPT ![i] = FALSE]
  /\ clearIdle(i)
  /\ push(i, <<Quit>>)
  /\ askToStop(i)

Spawned(w, i) ==
  /\ occupant' = [occupant EXCEPT ![i] = w]
  /\ listed' = [listed EXCEPT ![i] = w \in Sessions]
  /\ pc' = [pc EXCEPT ![w] = "starting"]
  /\ at' = [at EXCEPT ![w] = i]

-----------------------------------------------------------------------------
(* One iteration of the loop, runOnce, rotated: the sessions that are due,  *)
(* the batch that epoll returned, connections to accept; then the queue, if *)
(* it was signalled; then shutdown.  A batch is any sequence of events.     *)
(* BOUND: the edges of the eventfds are delivered at the end of the batch.  *)

Loop(p) == phase = p /\ toStop = None

(* An HTTP connection ends: peer, error, deadline, a reply without          *)
(* keepalive.                                                               *)
HttpClose(c) ==
  /\ Loop("events") /\ c \in Http
  /\ sock' = [sock EXCEPT ![c] = "out"]
  /\ slotFreed
  /\ UNCHANGED <<turn, toStop, drain, idle, slotVars, queue, wake, inbox,
                 flags, own, fault>>

(* GET / or /session: the socket gets a slot and a thread.                  *)
UpgradeConnection(c, i) ==
  /\ Loop("events") /\ c \in Http /\ i \in Free /\ pc[c] = "none"
  /\ Spawned(c, i)
  /\ held' = [held EXCEPT ![c] = c]
  /\ sock' = [sock EXCEPT ![c] = "ws"]
  /\ slotFreed
  /\ UNCHANGED <<turn, toStop, drain, idle, attached, link, monitored, queue,
                 wake, inbox, flags, back, gone, giving, fault>>

(* POST /session.  A session whose answer cannot be sent is deleted at      *)
(* once, as by DeleteSession.                                               *)
NewSession(s, i) ==
  /\ Loop("events") /\ Http # {} /\ i \in Free /\ pc[s] = "none"
  /\ Spawned(s, i)
  /\ UNCHANGED <<loopVars, attached, link, monitored, shared, back, gone, held,
                 giving, fault>>

(* GET /session/id: attachConnection to a session that has no link.  Either *)
(* no Link can be made, or it is pushed and polled, or polling it fails.    *)
AttachConnection(c, i) ==
  /\ Loop("events") /\ c \in Http /\ listed[i] /\ link[i] = None
  /\ slotFreed
  /\ \/ /\ sock' = [sock EXCEPT ![c] = "out"]
        /\ UNCHANGED <<idle, link, monitored, inbox>>
     \/ \E polled \in BOOLEAN :
          /\ sock' = [sock EXCEPT ![c] = "ws"]
          /\ link' = [link EXCEPT ![i] = c]
          /\ monitored' = [monitored EXCEPT ![i] = polled]
          /\ push(i, IF polled THEN <<NewLink(c)>>
                               ELSE <<NewLink(c), Disconnect>>)
          /\ clearIdle(i)
  /\ UNCHANGED <<turn, toStop, drain, seat, queue, wake, flags, own, fault>>

(* DELETE /session/id                                                       *)
DeleteSession(i) ==
  /\ Loop("events") /\ Http # {} /\ listed[i]
  /\ quitSession(i)
  /\ UNCHANGED <<turn, paused, drain, occupant, attached, link, monitored,
                 queue, wake, flags, sock, own, fault>>

Polled(i) == Loop("events") /\ monitored[i]

(* processWebSocketEvent: a frame for the worker ...                        *)
ReadCommand(i) ==
  /\ Polled(i)
  /\ Cardinality({k \in DOMAIN inbox[i] : inbox[i][k].kind = "cmd"}) < Backlog
  /\ push(i, <<Command>>)
  /\ UNCHANGED <<server, queue, wake, flags, sock, own, fault>>

(* ... a close frame, or a frame that is no JSON: the framer has pushed the *)
(* message, the worker will let go of the link itself ...                   *)
ReadClose(i) ==
  /\ Polled(i)
  /\ push(i, <<Close>>)
  /\ monitored' = [monitored EXCEPT ![i] = FALSE]
  /\ UNCHANGED <<loopVars, seat, link, queue, wake, flags, sock, own, fault>>

(* ... or end of file, an error, a full backlog: dropWebSocket.             *)
DropWebSocket(i) ==
  /\ Polled(i)
  /\ monitored' = [monitored EXCEPT ![i] = FALSE]
  /\ push(i, <<Disconnect>>)
  /\ IF connectionScoped(i) THEN askToStop(i) ELSE UNCHANGED toStop
  /\ UNCHANGED <<turn, paused, drain, idle, seat, link, queue, wake, flags,
                 sock, own, fault>>

(* driver.browser.env.requestTerminate()                                    *)
RequestTerminate ==
  /\ toStop # None
  /\ term' = [term EXCEPT ![occupant[toStop]] = IF @ = "no" THEN "asked" ELSE @]
  /\ toStop' = None
  /\ UNCHANGED <<turn, paused, drain, idle, slotVars, queue, wake, inbox,
                 answered, sock, own, fault>>

(* The batch is done; a signal makes the loop swap the two buffers.         *)
EndEvents ==
  /\ Loop("events")
  /\ phase' = "drain"
  /\ IF "signal" \in wake THEN drain' = queue /\ queue' = drain
     ELSE UNCHANGED <<drain, queue>>
  /\ wake' = wake \ {"signal"}
  /\ UNCHANGED <<begun, paused, toStop, idle, slotVars, inbox, flags, sock,
                 own, fault>>

Draining(op) == Loop("drain") /\ drain # <<>> /\ Head(drain).op = op
Asked        == Head(drain).slot
Asker        == occupant[Asked]

(* Mutant: a worker that attaches after shutdown began is not told.         *)
AttachWorker_bug ==
  LET i == Asked IN
  /\ Draining("attach")
  /\ fault' = fault \cup Broken("attached twice", attached[i])
                    \cup Broken("attach link", connectionScoped(i) /\ link[i] # None)
  /\ attached' = [attached EXCEPT ![i] = TRUE]
  /\ drain' = Tail(drain)
  /\ IF connectionScoped(i)
     THEN /\ link' = [link EXCEPT ![i] = Asker]
          /\ monitored' = [monitored EXCEPT ![i] = TRUE]
          /\ UNCHANGED idle
     ELSE /\ IF link[i] = None THEN markIdle(i) ELSE UNCHANGED idle
          /\ UNCHANGED <<link, monitored>>
  /\ UNCHANGED <<turn, paused, toStop, occupant, listed, shared, own>>

(* attachWorker: the driver is known from here.  A socket's worker brings   *)
(* its link; a session may have been given one while it started.            *)
AttachWorker ==
  LET i == Asked IN
  /\ Draining("attach")
  /\ fault' = fault \cup Broken("attached twice", attached[i])
                    \cup Broken("attach link", connectionScoped(i) /\ link[i] # None)
  /\ attached' = [attached EXCEPT ![i] = TRUE]
  /\ drain' = Tail(drain)
  /\ IF connectionScoped(i)
     THEN /\ link' = [link EXCEPT ![i] = Asker]
          /\ \E polled \in BOOLEAN :
               /\ monitored' = [monitored EXCEPT ![i] = polled]
               /\ IF polled THEN UNCHANGED <<inbox, toStop>>
                  ELSE push(i, <<Disconnect>>) /\ toStop' = i
          /\ UNCHANGED idle
     ELSE /\ IF link[i] = None THEN markIdle(i) ELSE UNCHANGED idle
          /\ UNCHANGED <<toStop, link, monitored, inbox>>
  /\ IF begun
     THEN term' = [term EXCEPT ![Asker] = IF @ = "no" THEN "shutdown" ELSE @]
     ELSE UNCHANGED term
  /\ UNCHANGED <<turn, paused, occupant, listed, queue, wake, answered, sock, own>>

(* Mutant: the loop forgets to let go of the socket it reads.               *)
ReleaseLink_bug ==
  /\ Draining("release_link")
  /\ markIdle(Asked)
  /\ answered' = [answered EXCEPT ![Asker] = TRUE]
  /\ drain' = Tail(drain)
  /\ UNCHANGED <<turn, paused, toStop, slotVars, queue, wake, inbox, term,
                 sock, own, fault>>

(* releaseLink, and the worker may destroy the link.                        *)
ReleaseLink ==
  LET i == Asked IN
  /\ Draining("release_link")
  /\ fault' = fault \cup Broken("idle twice", listed[i] /\ Contains(idle, i))
  /\ monitored' = [monitored EXCEPT ![i] = FALSE]
  /\ link' = [link EXCEPT ![i] = None]
  /\ markIdle(i)
  /\ answered' = [answered EXCEPT ![Asker] = TRUE]
  /\ drain' = Tail(drain)
  /\ UNCHANGED <<turn, paused, toStop, seat, queue, wake, inbox, term, sock,
                 own>>

(* inbox.deinit destroys the links that nobody popped.                      *)
Unread(i) == {m.conn : m \in {n \in Range(inbox[i]) : n.kind = "link"}}

(* releaseWorker: the slot is free, its memory is the next worker's.        *)
ReleaseWorker ==
  LET i == Asked IN
  /\ Draining("release")
  /\ occupant' = [occupant EXCEPT ![i] = None]
  /\ attached' = [attached EXCEPT ![i] = FALSE]
  /\ link' = [link EXCEPT ![i] = None]
  /\ monitored' = [monitored EXCEPT ![i] = FALSE]
  /\ listed' = [listed EXCEPT ![i] = FALSE]
  /\ clearIdle(i)
  /\ inbox' = [inbox EXCEPT ![i] = <<>>]
  /\ sock' = [c \in Conns |-> IF c \in Unread(i) THEN "out" ELSE sock[c]]
  /\ slotFreed
  /\ answered' = [answered EXCEPT ![Asker] = TRUE]
  /\ drain' = Tail(drain)
  /\ UNCHANGED <<turn, toStop, queue, wake, term, own, fault>>

(* accept: connections are taken while there is room ...                    *)
Accept(c) ==
  /\ Loop("events") /\ ~paused
  /\ sock[c] = "out" /\ liveConnections < MaxLive
  /\ sock' = [sock EXCEPT ![c] = "http"]
  /\ UNCHANGED <<server, queue, wake, inbox, flags, own, fault>>

(* ... and when there is none, saturated() closes an idle HTTP connection   *)
(* or, all of them being busy, pauses the listener.  BOUND: the fds of the  *)
(* process last (README, findings).                                         *)
Saturated ==
  /\ Loop("events") /\ ~paused
  /\ liveConnections >= MaxLive
  /\ \/ \E c \in Http : sock' = [sock EXCEPT ![c] = "out"] /\ slotFreed
     \/ paused' = TRUE /\ UNCHANGED sock
  /\ UNCHANGED <<turn, toStop, drain, idle, slotVars, queue, wake, inbox,
                 flags, own, fault>>

(* reapSessions: the head's deadline has passed.                            *)
ReapSession ==
  /\ Loop("events") /\ idle # <<>>
  /\ quitSession(Head(idle))
  /\ UNCHANGED <<turn, paused, drain, occupant, attached, link, monitored,
                 queue, wake, flags, sock, own, fault>>

(* beginShutdown: no more connections; every attached worker is told to     *)
(* terminate.  Its link's read side is shut too: end of file follows what   *)
(* was buffered, as it may at any time.                                     *)
beginShutdown ==
  LET told == {i \in Slots \ Free : attached[i]} IN
  /\ paused' = TRUE
  /\ sock' = [c \in Conns |-> IF c \in Http THEN "out" ELSE sock[c]]
  /\ term' = [w \in Workers |->
       IF term[w] = "no" /\ \E i \in told : occupant[i] = w
       THEN "shutdown" ELSE term[w]]

(* The end of runOnce: shutdown comes last, and once no worker is left it   *)
(* ends run().                                                              *)
EndDrain ==
  /\ Loop("drain") /\ drain = <<>>
  /\ begun' = (begun \/ "shutdown" \in wake)
  /\ IF begun' /\ ~begun THEN beginShutdown ELSE UNCHANGED <<paused, sock, term>>
  /\ wake' = wake \ {"shutdown"}
  /\ phase' = IF begun' /\ Free = Slots THEN "joining" ELSE "events"
  /\ UNCHANGED <<toStop, drain, idle, slotVars, queue, inbox, answered, own, fault>>

(* deinit: the threads are joined.                                          *)
Deinit ==
  /\ phase = "joining" /\ \A w \in Workers : pc[w] = "none"
  /\ phase' = "done"
  /\ fault' = fault \cup Broken("workers left", Free # Slots)
  /\ UNCHANGED <<begun, paused, toStop, drain, idle, slotVars, shared, own>>

(* shutdown(), from a signal handler or another thread.                     *)
Stop ==
  /\ phase \in {"events", "drain"} /\ ~begun
  /\ wake' = wake \cup {"shutdown"}
  /\ UNCHANGED <<server, queue, inbox, flags, sock, own, fault>>

-----------------------------------------------------------------------------
(* A worker thread                                                          *)

Goes(w, p) == pc' = [pc EXCEPT ![w] = p]

(* notifyLoop: the request is queued under the mutex, and only then the     *)
(* loop is signalled.                                                       *)
Queue(w, op) ==
  /\ queue' = Append(queue, [slot |-> at[w], op |-> op, by |-> w])
  /\ answered' = [answered EXCEPT ![w] = FALSE]

(* CDP.init / BiDi.init went well.                                          *)
Start(w) ==
  /\ pc[w] = "starting"
  /\ Queue(w, "attach") /\ Goes(w, "attachSig")
  /\ UNCHANGED <<server, wake, inbox, term, sock, mind, held, giving, fault>>

(* ... or failed, and closed the socket the worker was born from.  BOUND:   *)
(* memory lasts; the `create' before it fails without closing.              *)
StartFails(w) ==
  /\ pc[w] = "starting"
  /\ Queue(w, "release") /\ Goes(w, "releaseSig")
  /\ sock' = [c \in Conns |-> IF c = held[w] THEN "out" ELSE sock[c]]
  /\ held' = [held EXCEPT ![w] = None]
  /\ UNCHANGED <<server, wake, inbox, term, mind, giving, fault>>

Signals == [attachSig |-> "tick", linkSig |-> "waitLink", releaseSig |-> "waitRelease"]

Signal_bug(w) ==
  /\ pc[w] \in DOMAIN Signals
  /\ Goes(w, Signals[pc[w]])
  /\ IF Len(queue) = 1 THEN wake' = wake \cup {"signal"} ELSE UNCHANGED wake
  /\ UNCHANGED <<server, queue, inbox, flags, sock, mind, held, giving, fault>>

Signal(w) ==
  /\ pc[w] \in DOMAIN Signals
  /\ Goes(w, Signals[pc[w]])
  /\ wake' = wake \cup {"signal"}
  /\ UNCHANGED <<server, queue, inbox, flags, sock, mind, held, giving, fault>>

(* Mutant: a worker that terminates does not look for its quit.             *)
Pops_bug(mode, m) ==
  CASE mode = "pump"     -> TRUE
    [] mode = "script"   -> m.kind # "cmd"
    [] mode = "terminal" -> m.kind \in {"close", "disconnect"}

(* What drainInbox may pop: anything, only what is allowed during a         *)
(* synchronous request of a script, or only what ends the link or session.  *)
Pops(mode, m) ==
  CASE mode = "pump"     -> TRUE
    [] mode = "script"   -> m.kind # "cmd"
    [] mode = "terminal" -> m.kind \in {"close", "disconnect", "quit"}

Mail(w) == IF at[w] = None THEN <<>> ELSE inbox[at[w]]

(* The next message that drainInbox pops in this mode.                      *)
First(w, mode, k) ==
  Pops(mode, Mail(w)[k]) /\ \A j \in 1..(k - 1) : ~Pops(mode, Mail(w)[j])

Pop(w, k) == inbox' = [inbox EXCEPT ![at[w]] = RemoveAt(@, k)]

(* run() returns: releaseConnection.                                        *)
Leave(w) == Queue(w, "release") /\ Goes(w, "releaseSig")

(* Driver.tick looks at the flag once, at its start.                        *)
Tick(w) ==
  /\ pc[w] = "tick" /\ (gone[w] => term[w] # "no")
  /\ Goes(w, IF term[w] = "no" THEN "pump" ELSE "terminal")
  /\ UNCHANGED <<server, shared, mind, held, giving, fault>>

(* Mutant: what a nested drain has seen is forgotten.                       *)
Done_bug(w, mode) ==
  IF mode = "script" THEN UNCHANGED <<gone, queue, answered, pc>>
  ELSE gone' = [gone EXCEPT ![w] = TRUE] /\ Leave(w)

(* A drain that finds the end leaves run(), or, in a nested tick, returns   *)
(* to the script.                                                           *)
Done(w, mode) ==
  /\ gone' = [gone EXCEPT ![w] = TRUE]
  /\ IF mode = "script" THEN UNCHANGED <<queue, answered, pc>> ELSE Leave(w)

(* .cmd: nothing to speak of, a script, or session.end, which quits through *)
(* the worker's own inbox.  A worker that is terminating drops it.          *)
OnCommand(w) ==
  \E k \in DOMAIN Mail(w) :
    /\ pc[w] = "pump" /\ First(w, "pump", k)
    /\ Mail(w)[k].kind = "cmd"
    /\ \/ Pop(w, k) /\ UNCHANGED pc
       \/ term[w] = "no" /\ Pop(w, k) /\ Goes(w, "script")
       \/ /\ term[w] = "no"
          /\ inbox' = [inbox EXCEPT ![at[w]] = Append(RemoveAt(@, k), Quit)]
          /\ UNCHANGED pc
    /\ UNCHANGED <<server, queue, wake, flags, sock, mind, held, giving,
                   fault>>

(* drainInbox does not ask whether a drain nested in it has seen the end:   *)
(* it pops on, and returns as ever once the inbox has no more for it.       *)
Drains(w, mode, k) == pc[w] = mode /\ First(w, mode, k) /\ Pop(w, k)

(* .link: adoptLink, from the loop or from a nested tick.                   *)
OnLink(w) ==
  \E mode \in {"pump", "script"}, k \in DOMAIN Mail(w) :
    LET m == Mail(w)[k] IN
    /\ Drains(w, mode, k) /\ m.kind = "link"
    /\ fault' = fault \cup Broken("adopt held", held[w] # None)
    /\ IF held[w] = None
       THEN held' = [held EXCEPT ![w] = m.conn] /\ UNCHANGED sock
       ELSE sock' = [sock EXCEPT ![m.conn] = "out"] /\ UNCHANGED held
    /\ UNCHANGED <<server, queue, wake, flags, pc, mind, giving>>

(* .quit, and .close or .disconnect of a worker that lives with its link.   *)
OnEnd(w) ==
  \E mode \in {"pump", "script", "terminal"}, k \in DOMAIN Mail(w) :
    LET m == Mail(w)[k] IN
    /\ Drains(w, mode, k)
    /\ \/ m.kind = "quit"
       \/ m.kind \in {"close", "disconnect"} /\ w \in Conns
    /\ Done(w, mode)
    /\ UNCHANGED <<server, wake, term, sock, at, back, held, giving, fault>>

(* .close or .disconnect of a session: BiDi.releaseLink blocks until the    *)
(* loop has let go of the socket.                                           *)
OnLinkGone(w) ==
  \E mode \in {"pump", "script", "terminal"}, k \in DOMAIN Mail(w) :
    LET m == Mail(w)[k] IN
    /\ w \in Sessions
    /\ Drains(w, mode, k) /\ m.kind \in {"close", "disconnect"}
    /\ IF held[w] = None
       THEN /\ fault' = fault \cup {"release empty"}
            /\ UNCHANGED <<queue, answered, pc, back, held, giving>>
       ELSE /\ Queue(w, "release_link") /\ Goes(w, "linkSig")
            /\ giving' = [giving EXCEPT ![w] = held[w]]
            /\ held' = [held EXCEPT ![w] = None]
            /\ back' = [back EXCEPT ![w] = mode]
            /\ UNCHANGED fault
    /\ UNCHANGED <<server, wake, term, sock, at, gone>>

DestroyLink(w) ==
  /\ pc[w] = "waitLink" /\ answered[w]
  /\ sock' = [sock EXCEPT ![giving[w]] = "out"]
  /\ answered' = [answered EXCEPT ![w] = FALSE]
  /\ giving' = [giving EXCEPT ![w] = None]
  /\ Goes(w, back[w])
  /\ back' = [back EXCEPT ![w] = "pump"]
  /\ UNCHANGED <<server, queue, wake, inbox, term, at, gone, held, fault>>

(* A page's script runs, and may make synchronous requests.  One that is    *)
(* begun after the end was seen drains nothing; the model lets it, as the   *)
(* drains around it pop the same.                                           *)
RunScript(w) ==
  /\ pc[w] = "pump" /\ term[w] = "no"
  /\ Goes(w, "script")
  /\ UNCHANGED <<server, shared, mind, held, giving, fault>>

ScriptReturns(w) ==
  /\ pc[w] = "script"
  /\ Goes(w, "pump")
  /\ UNCHANGED <<server, shared, mind, held, giving, fault>>

(* The watchdog, or the heap limit, tells a script to stop.                 *)
Stuck(w) ==
  /\ Watchdog /\ pc[w] = "script" /\ term[w] = "no"
  /\ term' = [term EXCEPT ![w] = "stuck"]
  /\ UNCHANGED <<server, queue, wake, inbox, answered, sock, own, fault>>

(* The inbox is drained and the runner's second is over: the next tick      *)
(* begins.                                                                  *)
PumpEnds(w) ==
  /\ pc[w] = "pump" /\ Mail(w) = <<>>
  /\ Goes(w, "tick")
  /\ UNCHANGED <<server, shared, mind, held, giving, fault>>

(* The tick fails: a client that has seen the end does not tick again, be   *)
(* it for the runner in this tick or in the next one; or the browser broke. *)
TickFails(w) ==
  /\ pc[w] \in {"tick", "pump"}
  /\ pc[w] = "tick" => gone[w] /\ term[w] = "no"
  /\ Leave(w)
  /\ UNCHANGED <<server, wake, inbox, term, sock, mind, held, giving, fault>>

(* `closing connection', reason pending-terminate: nothing in the inbox     *)
(* says why, or no longer: a nested drain may have taken what did.          *)
Killed(w) ==
  /\ pc[w] = "terminal"
  /\ \A k \in DOMAIN Mail(w) : ~First(w, "terminal", k)
  /\ Leave(w)
  /\ UNCHANGED <<server, wake, inbox, term, sock, mind, held, giving, fault>>

(* Mutant: prepareForTeardown before the release is answered.               *)
Disarm_bug(w) ==
  /\ pc[w] = "waitRelease"
  /\ Goes(w, "teardown")
  /\ term' = [term EXCEPT ![w] = "no"]
  /\ UNCHANGED <<server, queue, wake, inbox, answered, sock, mind, held,
                 giving, fault>>

(* prepareForTeardown, once the loop has let go of the worker.              *)
Disarm(w) ==
  /\ pc[w] = "waitRelease" /\ answered[w]
  /\ Goes(w, "teardown")
  /\ term' = [term EXCEPT ![w] = "no"]
  /\ answered' = [answered EXCEPT ![w] = FALSE]
  /\ UNCHANGED <<server, queue, wake, inbox, sock, mind, held, giving, fault>>

(* CDP.deinit / BiDi.deinit, then the thread ends.                          *)
Teardown(w) ==
  /\ pc[w] = "teardown"
  /\ sock' = [c \in Conns |-> IF c = held[w] THEN "out" ELSE sock[c]]
  /\ held' = [held EXCEPT ![w] = None]
  /\ Goes(w, "none")
  /\ at' = [at EXCEPT ![w] = None]
  /\ gone' = [gone EXCEPT ![w] = FALSE]
  /\ UNCHANGED <<server, queue, wake, inbox, flags, back, giving, fault>>

-----------------------------------------------------------------------------
Work(w) ==                    \* what a thread does on its own, every branch
  \/ Start(w) \/ StartFails(w) \/ Signal(w) \/ Tick(w)
  \/ OnCommand(w) \/ OnLink(w) \/ OnEnd(w) \/ OnLinkGone(w)
  \/ DestroyLink(w) \/ PumpEnds(w) \/ TickFails(w) \/ Killed(w)
  \/ Disarm(w) \/ Teardown(w)

Step ==                       \* what the loop does on its own
  \/ RequestTerminate \/ EndEvents
  \/ AttachWorker \/ ReleaseLink \/ ReleaseWorker \/ EndDrain \/ Deinit

Events ==
  \/ \E c \in Conns : HttpClose(c) \/ Accept(c)
  \/ \E c \in Conns, i \in Slots : UpgradeConnection(c, i) \/ AttachConnection(c, i)
  \/ \E s \in Sessions, i \in Slots : NewSession(s, i)
  \/ \E i \in Slots :
       DeleteSession(i) \/ ReadCommand(i) \/ ReadClose(i) \/ DropWebSocket(i)
  \/ Saturated \/ ReapSession \/ Stop

Ended == phase = "done" /\ UNCHANGED vars

Next ==
  \/ Step \/ Events \/ Ended
  \/ \E w \in Workers : Work(w) \/ RunScript(w) \/ ScriptReturns(w) \/ Stuck(w)

Spec == Init /\ [][Next]_vars

(* The loop is never descheduled for good; epoll's timeouts and events make *)
(* it go round.  So is no worker: each tick ends with a drain, whatever     *)
(* scripts ran before it.  A script is only sure to end when it is told to, *)
(* and the watchdog tells one that does not.                                *)
Fairness ==
  /\ WF_vars(Step)
  /\ \A w \in Workers :
       /\ SF_vars(Work(w))
       /\ WF_vars(term[w] # "no" /\ ScriptReturns(w))
       /\ WF_vars(Stuck(w))

FairSpec == Spec /\ Fairness

-----------------------------------------------------------------------------
(* The assertions of attachWorker, markIdle, adoptLink and deinit hold.     *)
(* "release empty", which BiDi.releaseLink asserts, does not (README).      *)
AssertsHold == fault \subseteq {"release empty"}

(* `appendAssumeCapacity' in notifyLoop: two requests per slot are          *)
(* allocated in each buffer.  And every request is of the worker that still *)
(* has the slot, so none is applied to the next worker in the same memory.  *)
QueueFits ==
  /\ Len(queue) <= 2 * Cardinality(Slots)
  /\ Len(drain) <= 2 * Cardinality(Slots)
  /\ \A r \in Range(queue) \cup Range(drain) : occupant[r.slot] = r.by

(* A request that is queued will be drained: the signal is on its way, or   *)
(* its sender is about to give it.                                          *)
NoLostWakeup ==
  queue # <<>> => \/ "signal" \in wake
                  \/ \E w \in Workers : pc[w] \in DOMAIN Signals

Owners(c) ==
  {<<w, "held">> : w \in {v \in Workers : held[v] = c}}
    \cup {<<w, "giving">> : w \in {v \in Workers : giving[v] = c}}
    \cup UNION {{<<i, k>> : k \in {j \in DOMAIN inbox[i] :
                    inbox[i][j] = NewLink(c)}} : i \in Slots}

(* Every link has exactly one owner, who will destroy it: a worker, or the  *)
(* inbox it still sits in.  The loop never keeps or polls a destroyed one.  *)
LinksOwned ==
  /\ \A c \in Conns :
       Cardinality(Owners(c)) = IF sock[c] = "ws" THEN 1 ELSE 0
  /\ \A i \in Slots :
       /\ monitored[i] => link[i] # None
       /\ link[i] # None =>
            /\ sock[link[i]] = "ws"
            /\ \E o \in Owners(link[i]) : o[1] \in {i, occupant[i]}

Released(w) ==
  \/ pc[w] \in {"none", "teardown"}
  \/ pc[w] \in {"releaseSig", "waitRelease"} /\ answered[w]

(* A slot belongs to its worker until the loop has answered its release;    *)
(* the loop never reaches the driver of a worker that tears it down, nor    *)
(* raises the terminate flag of one that disarmed it; and nothing is left   *)
(* in a free slot.                                                          *)
SlotsExact ==
  /\ \A w \in Workers : ~Released(w) => occupant[at[w]] = w
  /\ \A i \in Slots :
       IF occupant[i] = None
       THEN ~attached[i] /\ ~monitored[i] /\ ~listed[i] /\ link[i] = None
              /\ inbox[i] = <<>>
       ELSE ~Released(occupant[i]) /\ at[occupant[i]] = i
  /\ \A w \in Workers : term[w] # "no" => pc[w] \in Driving
  /\ toStop # None => attached[toStop]

(* The reaper's list is exactly the sessions that nobody talks to and       *)
(* nobody deleted, each once.                                               *)
IdleExact ==
  /\ IsInjective(idle)
  /\ Range(idle) = {i \in Slots : Reaper /\ listed[i] /\ attached[i] /\ link[i] = None}

(* `the listener was paused (since we had no free slots)' (Server.zig:458): *)
(* it is paused no longer than that.                                        *)
ListenerOpen == paused /\ ~begun => liveConnections >= MaxLive

(* The loop's books agree with what its workers do: the state's shape, the  *)
(* queue, the slots, the reaper's list and the pause of the listener.       *)
Accounts == TypeOK /\ QueueFits /\ SlotsExact /\ IdleExact /\ ListenerOpen

(* `the message is in the inbox before the flag is observed' (Server.zig:   *)
(* 553, 721): a worker that the loop asked to stop, and that leaves because *)
(* of it, has read why, and so has answered the peer's close or the quit.   *)
(* Not that it says so only once: when a nested drain took the message, the *)
(* tick warns of a pending terminate and sends a second frame all the same  *)
(* (README, section 6).                                                     *)
StopExplained ==
  [][\A w \in Workers :
       pc[w] = "terminal" /\ pc'[w] = "releaseSig" /\ term[w] = "asked"
         => gone'[w]]_vars

Told(w) ==
  /\ pc[w] \in Driving /\ occupant[at[w]] = w
  /\ \E m \in Range(Mail(w)) :
       m.kind = "quit" \/ (m.kind \in {"close", "disconnect"} /\ w \in Conns)

(* A worker whose session is deleted, reaped or ended, or whose only link   *)
(* is gone, ends, whatever it is doing and wherever its start-up is.        *)
EndsWhenTold == \A w \in Workers : Told(w) ~> pc[w] = "none"

(* Shutdown ends the loop and every thread.                                 *)
ShutdownEnds == begun ~> phase = "done"
=============================================================================
