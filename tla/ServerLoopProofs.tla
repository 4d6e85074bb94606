-------------------------- MODULE ServerLoopProofs --------------------------
(***************************************************************************)
(* For every number of slots, sockets and sessions: the server loop and    *)
(* its workers keep their types and assertions, no wakeup is lost, the     *)
(* worker queue has room, slots are their workers' and the reaper's list   *)
(* is exact.  The inductive invariant is IInv.  The second half is about   *)
(* who owns which socket: a link is always owned once, by a worker or by   *)
(* the inbox it was pushed to, the loop never polls one that was           *)
(* destroyed; the listener is not paused longer than it must be; and whom  *)
(* the loop asks to stop can tell why.                                     *)
(***************************************************************************)
EXTENDS ServerLoop, TLAPS, SequenceTheorems, FiniteSetTheorems

-----------------------------------------------------------------------------
(* Sequences.                                                               *)

\* One element more, and calls of push.
LEMMA PutLast ==
  ASSUME NEW S, NEW s \in Seq(S), NEW x \in S
  PROVE  /\ Append(s, x) \in Seq(S) /\ s \o <<x>> = Append(s, x)
         /\ Len(Append(s, x)) = Len(s) + 1 /\ DOMAIN Append(s, x) = 1 .. Len(s) + 1
         /\ \A i \in 1 .. Len(s) : Append(s, x)[i] = s[i]
         /\ Append(s, x)[Len(s) + 1] = x
<1>1. /\ Append(s, x) \in Seq(S) /\ Append(s, x) # <<>> /\ Len(Append(s, x)) = Len(s) + 1
      /\ \A i \in 1 .. Len(s) : Append(s, x)[i] = s[i]
      /\ Append(s, x)[Len(s) + 1] = x
  BY AppendProperties
<1>2. DOMAIN Append(s, x) = 1 .. Len(s) + 1
  BY <1>1, LenProperties
<1> QED
  BY <1>1, <1>2, AppendIsConcat

\* An element less.
LEMMA TakeAway ==
  ASSUME NEW S, NEW s \in Seq(S), NEW k \in 1 .. Len(s)
  PROVE  /\ RemoveAt(s, k) \in Seq(S) /\ Len(RemoveAt(s, k)) = Len(s) - 1
         /\ DOMAIN RemoveAt(s, k) = 1 .. Len(s) - 1
         /\ \A j \in 1 .. Len(s) - 1 : RemoveAt(s, k)[j] = s[IF j < k THEN j ELSE j + 1]
<1> DEFINE a == SubSeq(s, 1, k - 1) b == SubSeq(s, k + 1, Len(s)) n == Len(s)
<1>1. n \in Nat /\ k \in Int /\ 1 <= k /\ k <= n
  BY LenProperties
<1> HIDE DEF n
<1>2. /\ a \in Seq(S) /\ Len(a) = k - 1 /\ \A j \in 1 .. k - 1 : a[j] = s[j]
  <2>1. \A i \in 1 .. k - 1 : s[i] \in S
    BY <1>1, ElementOfSeq DEF n
  <2>2. /\ a \in Seq(S) /\ Len(a) = IF 1 <= k - 1 THEN (k - 1) - 1 + 1 ELSE 0
        /\ \A j \in 1 .. (k - 1) - 1 + 1 : a[j] = s[1 + j - 1]
    BY <1>1, <2>1, SubSeqProperties
  <2> HIDE DEF a
  <2>3. \A j \in 1 .. k - 1 : j \in 1 .. (k - 1) - 1 + 1 /\ 1 + j - 1 = j
    BY <1>1
  <2>4. Len(a) = k - 1
    BY <1>1, <2>2
  <2> QED
    BY <2>2, <2>3, <2>4
<1>3. /\ b \in Seq(S) /\ Len(b) = n - k /\ \A j \in 1 .. n - k : b[j] = s[k + j]
  <2>1. \A i \in k + 1 .. n : s[i] \in S
    BY <1>1, ElementOfSeq DEF n
  <2>2. /\ b \in Seq(S) /\ Len(b) = IF k + 1 <= n THEN n - (k + 1) + 1 ELSE 0
        /\ \A j \in 1 .. n - (k + 1) + 1 : b[j] = s[(k + 1) + j - 1]
    BY <1>1, <2>1, SubSeqProperties DEF n
  <2> HIDE DEF b
  <2>3. \A j \in 1 .. n - k : j \in 1 .. n - (k + 1) + 1 /\ (k + 1) + j - 1 = k + j
    BY <1>1
  <2>4. Len(b) = n - k
    BY <1>1, <2>2
  <2> QED
    BY <2>2, <2>3, <2>4
<1>4. RemoveAt(s, k) = a \o b
  BY DEF RemoveAt, n
<1> HIDE DEF a, b
<1>5. /\ a \o b \in Seq(S) /\ Len(a \o b) = Len(a) + Len(b)
      /\ \A j \in 1 .. Len(a) + Len(b) :
           (a \o b)[j] = IF j <= Len(a) THEN a[j] ELSE b[j - Len(a)]
  BY <1>2, <1>3, ConcatProperties
<1>6. Len(a) + Len(b) = n - 1
  BY <1>1, <1>2, <1>3
<1>7. \A j \in 1 .. n - 1 : (a \o b)[j] = s[IF j < k THEN j ELSE j + 1]
  <2> SUFFICES ASSUME NEW j \in 1 .. n - 1 PROVE (a \o b)[j] = s[IF j < k THEN j ELSE j + 1]
    OBVIOUS
  <2>1. (a \o b)[j] = IF j <= k - 1 THEN a[j] ELSE b[j - (k - 1)]
    <3>1. Len(a) = k - 1
      BY <1>2
    <3> QED
      BY <1>5, <1>6, <3>1
  <2>2. CASE j < k
    <3>1. j \in 1 .. k - 1 /\ j <= k - 1
      BY <1>1, <2>2
    <3> QED
      BY <1>2, <2>1, <2>2, <3>1
  <2>3. CASE ~(j < k)
    <3>1. j - (k - 1) \in 1 .. n - k /\ ~(j <= k - 1) /\ k + (j - (k - 1)) = j + 1
      BY <1>1, <2>3
    <3> QED
      BY <1>3, <2>1, <2>3, <3>1
  <2> QED
    BY <2>2, <2>3
<1>8. DOMAIN (a \o b) = 1 .. n - 1
  BY <1>5, <1>6, LenProperties
<1> QED
  BY <1>4, <1>5, <1>6, <1>7, <1>8 DEF n

\* What is left of a list without x.
LEMMA Unlinked ==
  ASSUME NEW S, NEW s \in Seq(S), NEW x
  PROVE  /\ Unlink(s, x) \in Seq(S)
         /\ IsInjective(s) => /\ IsInjective(Unlink(s, x))
                              /\ Range(Unlink(s, x)) = Range(s) \ {x}
<1>1. CASE ~Contains(s, x)
  <2>1. Unlink(s, x) = s
    BY <1>1 DEF Unlink
  <2>2. x \notin Range(s)
    BY <1>1, LenProperties DEF Contains, Range
  <2> QED
    BY <2>1, <2>2
<1>2. CASE Contains(s, x)
  <2> DEFINE k == CHOOSE j \in 1 .. Len(s) : s[j] = x
             r == RemoveAt(s, k)
             n == Len(s)
  <2>1. k \in 1 .. n /\ s[k] = x
    BY <1>2 DEF Contains
  <2>2. Unlink(s, x) = r
    BY <1>2 DEF Unlink
  <2> HIDE DEF k
  <2>3. /\ r \in Seq(S) /\ DOMAIN r = 1 .. n - 1
        /\ \A j \in 1 .. n - 1 : r[j] = s[IF j < k THEN j ELSE j + 1]
    BY <2>1, TakeAway
  <2>4. n \in Nat /\ DOMAIN s = 1 .. n
    BY LenProperties
  <2> HIDE DEF r, n
  <2> DEFINE at1(j) == IF j < k THEN j ELSE j + 1
  <2>5. \A j \in 1 .. n - 1 : at1(j) \in 1 .. n /\ at1(j) # k
    BY <2>1, <2>4
  <2>6. \A i, j \in 1 .. n - 1 : at1(i) = at1(j) => i = j
    BY <2>1, <2>4
  <2>7. \A m \in 1 .. n : m # k => \E j \in 1 .. n - 1 : at1(j) = m
    <3> SUFFICES ASSUME NEW m \in 1 .. n, m # k PROVE \E j \in 1 .. n - 1 : at1(j) = m
      OBVIOUS
    <3>1. CASE m < k
      <4>1. m \in 1 .. n - 1 /\ at1(m) = m
        BY <2>1, <2>4, <3>1
      <4> QED
        BY <4>1
    <3>2. CASE ~(m < k)
      <4>1. m - 1 \in 1 .. n - 1 /\ at1(m - 1) = m
        BY <2>1, <2>4, <3>2
      <4> QED
        BY <4>1
    <3> QED
      BY <3>1, <3>2
  <2>8. \A j \in 1 .. n - 1 : r[j] = s[at1(j)]
    BY <2>3
  <2> HIDE DEF at1
  <2>9. IsInjective(s) => IsInjective(r)
    BY <2>3, <2>4, <2>5, <2>6, <2>8 DEF IsInjective
  <2>10. ASSUME IsInjective(s) PROVE Range(r) = Range(s) \ {x}
    <3>1. \A y \in Range(r) : y \in Range(s) /\ y # x
      <4> SUFFICES ASSUME NEW j \in 1 .. n - 1 PROVE r[j] \in Range(s) /\ r[j] # x
        BY <2>3 DEF Range
      <4>1. at1(j) \in 1 .. n /\ at1(j) # k /\ r[j] = s[at1(j)]
        BY <2>5, <2>8
      <4>2. r[j] # x
        BY <2>1, <2>4, <2>10, <4>1 DEF IsInjective
      <4> QED
        BY <2>4, <4>1, <4>2 DEF Range
    <3>2. \A y \in Range(s) : y # x => y \in Range(r)
      <4> SUFFICES ASSUME NEW m \in 1 .. n, s[m] # x PROVE s[m] \in Range(r)
        BY <2>4 DEF Range
      <4>1. PICK j \in 1 .. n - 1 : at1(j) = m
        BY <2>1, <2>7
      <4> QED
        BY <2>3, <2>8, <4>1 DEF Range
    <3> QED
      BY <3>1, <3>2
  <2> QED
    BY <2>2, <2>3, <2>9, <2>10
<1> QED
  BY <1>1, <1>2

\* The first element, and the others.
LEMMA HeadTail ==
  ASSUME NEW S, NEW s \in Seq(S), s # <<>>
  PROVE  /\ Head(s) \in S /\ Head(s) = s[1] /\ Tail(s) \in Seq(S)
         /\ Len(s) \in Nat \ {0} /\ DOMAIN s = 1 .. Len(s) /\ 1 \in DOMAIN s
         /\ Len(Tail(s)) = Len(s) - 1 /\ DOMAIN Tail(s) = 1 .. Len(s) - 1
         /\ \A j \in 1 .. Len(s) - 1 : Tail(s)[j] = s[j + 1] /\ j + 1 \in DOMAIN s
<1>1. Len(s) \in Nat \ {0} /\ DOMAIN s = 1 .. Len(s)
  BY EmptySeq, LenProperties
<1>2. /\ Head(s) = s[1] /\ Tail(s) \in Seq(S) /\ Len(Tail(s)) = Len(s) - 1
      /\ \A j \in 1 .. Len(s) - 1 : Tail(s)[j] = s[j + 1]
  BY HeadTailProperties
<1>3. DOMAIN Tail(s) = 1 .. Len(s) - 1
  BY <1>2, LenProperties
<1>4. 1 \in DOMAIN s /\ \A j \in 1 .. Len(s) - 1 : j + 1 \in DOMAIN s
  BY <1>1
<1> QED
  BY <1>1, <1>2, <1>3, <1>4, ElementOfSeq

-----------------------------------------------------------------------------
(* Types.                                                                   *)

\* A thread has a slot until it ends.
Placed == \A w \in Workers : pc[w] # "none" => at[w] \in Slots
Typed  == TypeOK /\ Placed

\* The members of queues, inboxes and lists.
LEMMA Members ==
  /\ \A w \in Workers, i \in Slots, op \in {"attach", "release_link", "release"} :
       [slot |-> i, op |-> op, by |-> w] \in Requests
  /\ \A r \in Requests : r.slot \in Slots /\ r.by \in Workers
                         /\ r.op \in {"attach", "release_link", "release"}
  /\ {Command, Close, Disconnect, Quit} \subseteq Messages
  /\ \A c \in Conns : NewLink(c) \in Messages
  /\ \A m \in Messages : m.kind \in Kinds /\ m.conn \in Conns \cup {None}
BY DEF Requests, Messages, Kinds, Command, Close, Disconnect, Quit, NewLink, Message

\* push keeps inboxes inboxes.
LEMMA PushType ==
  ASSUME inbox \in [Slots -> Seq(Messages)], NEW i \in Slots, NEW ms \in Seq(Messages),
         push(i, ms)
  PROVE  inbox' \in [Slots -> Seq(Messages)]
<1>1. inbox[i] \o ms \in Seq(Messages)
  BY ConcatProperties
<1> QED
  BY <1>1 DEF push

\* What the loop's list of idle sessions may become.
LEMMA IdleType ==
  ASSUME idle \in Seq(Slots), NEW i \in Slots
  PROVE  (markIdle(i) \/ clearIdle(i)) => idle' \in Seq(Slots)
<1>1. Append(idle, i) \in Seq(Slots)
  BY PutLast
<1>2. Unlink(idle, i) \in Seq(Slots)
  BY Unlinked
<1>3. markIdle(i) => idle' = Append(idle, i) \/ idle' = idle
  BY DEF markIdle
<1> QED
  BY <1>1, <1>2, <1>3 DEF clearIdle

\* quitSession.
LEMMA QuitType ==
  ASSUME TypeOK, NEW i \in Slots, quitSession(i)
  PROVE  /\ listed' \in [Slots -> BOOLEAN] /\ idle' \in Seq(Slots)
         /\ inbox' \in [Slots -> Seq(Messages)] /\ toStop' \in Slots \cup {None}
<1>1. <<Quit>> \in Seq(Messages)
  BY Members
<1> QED
  BY <1>1, PushType, IdleType DEF quitSession, askToStop, TypeOK

\* The first request of a batch.
LEMMA AskedType ==
  ASSUME TypeOK, drain # <<>>
  PROVE  /\ Head(drain) \in Requests /\ Asked \in Slots /\ Tail(drain) \in Seq(Requests)
         /\ Head(drain).by \in Workers
BY HeadTail, Members DEF TypeOK, Asked

\* What the loop does with its sockets.
LEMMA ConnectionTypes ==
  ASSUME Typed, NEW c \in Conns, NEW i \in Slots,
         HttpClose(c) \/ Accept(c) \/ UpgradeConnection(c, i) \/ AttachConnection(c, i)
  PROVE  Typed'
<1> USE DEF Typed, TypeOK, Placed, Workers
<1>1. CASE HttpClose(c)
  BY <1>1 DEF HttpClose, slotFreed, turn, slotVars, seat, flags, own, mind
<1>2. CASE Accept(c)
  BY <1>2 DEF Accept, server, loopVars, turn, slotVars, seat, flags, own, mind
<1>3. CASE UpgradeConnection(c, i)
  BY <1>3 DEF UpgradeConnection, Spawned, slotFreed, turn, flags, Pcs, Free
<1>4. CASE AttachConnection(c, i)
  <2>1. inbox' \in [Slots -> Seq(Messages)]
    <3>1. <<NewLink(c)>> \in Seq(Messages) /\ <<NewLink(c), Disconnect>> \in Seq(Messages)
      BY Members
    <3> QED
      BY <1>4, <3>1, PushType DEF AttachConnection
  <2>2. idle' \in Seq(Slots) 
    BY <1>4, IdleType DEF AttachConnection
  <2>3. /\ sock' \in [Conns -> {"out", "http", "ws"}] /\ link' \in [Slots -> Conns \cup {None}]
        /\ monitored' \in [Slots -> BOOLEAN] /\ paused' \in BOOLEAN
    <3>1. paused' \in BOOLEAN
      BY <1>4 DEF AttachConnection, slotFreed
    <3>2. CASE UNCHANGED <<idle, link, monitored, inbox>> /\ sock' = [sock EXCEPT ![c] = "out"]
      BY <3>1, <3>2
    <3>3. ASSUME NEW polled \in BOOLEAN, sock' = [sock EXCEPT ![c] = "ws"],
                 link' = [link EXCEPT ![i] = c], monitored' = [monitored EXCEPT ![i] = polled]
          PROVE  /\ sock' \in [Conns -> {"out", "http", "ws"}]
                 /\ link' \in [Slots -> Conns \cup {None}] /\ monitored' \in [Slots -> BOOLEAN]
      BY <3>3
    <3> QED
      BY <1>4, <3>1, <3>2, <3>3 DEF AttachConnection
  <2> QED
    BY <1>4, <2>1, <2>2, <2>3 DEF AttachConnection, turn, seat, flags, own, mind
<1> QED
  BY <1>1, <1>2, <1>3, <1>4

\* A session gets a thread.
LEMMA SessionTypes ==
  ASSUME Typed, NEW i \in Slots, NEW s \in Sessions, NewSession(s, i)
  PROVE  Typed'
BY DEF NewSession, Spawned, loopVars, turn, shared, flags, Pcs, Typed, TypeOK, Placed, Workers

\* What the loop does with the links of slots.
LEMMA LinkTypes ==
  ASSUME Typed, NEW i \in Slots,
         DeleteSession(i) \/ ReapSession \/ ReadCommand(i) \/ ReadClose(i) \/ DropWebSocket(i)
  PROVE  Typed'
<1> USE DEF Typed, TypeOK, Placed, Workers
<1>2. CASE DeleteSession(i)
  BY <1>2, QuitType DEF DeleteSession, turn, flags, own, mind
<1>3. CASE ReapSession
  <2>1. Head(idle) \in Slots
    BY <1>3, HeadTail DEF ReapSession
  <2>2. /\ listed' \in [Slots -> BOOLEAN] /\ idle' \in Seq(Slots)
        /\ inbox' \in [Slots -> Seq(Messages)] /\ toStop' \in Slots \cup {None}
    BY <1>3, <2>1, QuitType DEF ReapSession
  <2> QED
    BY <1>3, <2>2 DEF ReapSession, turn, flags, own, mind
<1>4. CASE ReadCommand(i) \/ ReadClose(i) \/ DropWebSocket(i)
  <2>1. <<Command>> \in Seq(Messages) /\ <<Close>> \in Seq(Messages)
          /\ <<Disconnect>> \in Seq(Messages)
    BY Members
  <2>2. inbox' \in [Slots -> Seq(Messages)]
    BY <1>4, <2>1, PushType DEF ReadCommand, ReadClose, DropWebSocket
  <2> QED
    BY <1>4, <2>2 DEF ReadCommand, ReadClose, DropWebSocket, askToStop, server, loopVars,
      slotVars, seat, turn, flags, own, mind
<1> QED
  BY <1>2, <1>3, <1>4

\* The rounds of the loop.
LEMMA RoundTypes ==
  ASSUME Typed, RequestTerminate \/ EndEvents \/ EndDrain \/ Deinit \/ Saturated \/ Stop
  PROVE  Typed'
<1> USE DEF Typed, TypeOK, Placed
<1>1. CASE RequestTerminate
  BY <1>1 DEF RequestTerminate, slotVars, seat, turn, own, mind, Causes
<1>2. CASE EndEvents
  BY <1>2 DEF EndEvents, slotVars, seat, flags, own, mind, Phases, Edges
<1>3. CASE EndDrain
  <2>1. paused' \in BOOLEAN /\ sock' \in [Conns -> {"out", "http", "ws"}]
        /\ term' \in [Workers -> Causes]
    <3>1. CASE beginShutdown
      BY <3>1 DEF beginShutdown, Causes
    <3>2. CASE UNCHANGED <<paused, sock, term>>
      BY <3>2
    <3> QED
      BY <1>3, <3>1, <3>2 DEF EndDrain
  <2>2. begun' \in BOOLEAN /\ phase' \in Phases
    BY <1>3 DEF EndDrain, Phases
  <2> QED
    BY <1>3, <2>1, <2>2 DEF EndDrain, slotVars, seat, own, mind
<1>4. CASE Deinit
  <2>1. fault' \subseteq Assertions
    <3>1. Broken("workers left", Free # Slots) \subseteq Assertions
      BY DEF Broken, Assertions
    <3> QED
      BY <1>4, <3>1 DEF Deinit
  <2> QED
    BY <1>4, <2>1 DEF Deinit, slotVars, seat, shared, flags, own, mind, Phases
<1>5. CASE Saturated
  BY <1>5 DEF Saturated, slotFreed, slotVars, seat, turn, flags, own, mind
<1>6. CASE Stop
  BY <1>6 DEF Stop, server, loopVars, slotVars, seat, turn, flags, own, mind, Edges
<1> QED
  BY <1>1, <1>2, <1>3, <1>4, <1>5, <1>6

\* What the loop does on behalf of workers.
LEMMA DrainTypes ==
  ASSUME Typed, AttachWorker \/ ReleaseLink \/ ReleaseWorker
  PROVE  Typed'
<1>1. TypeOK /\ Placed /\ drain # <<>>
  BY DEF Typed, AttachWorker, ReleaseLink, ReleaseWorker, Draining
<1>2. Asked \in Slots /\ Tail(drain) \in Seq(Requests)
  BY <1>1, AskedType
<1>3. fault' \subseteq Assertions
  <2>1. /\ Broken("attached twice", attached[Asked]) \subseteq Assertions
        /\ Broken("attach link", connectionScoped(Asked) /\ link[Asked] # None) \subseteq Assertions
        /\ Broken("idle twice", listed[Asked] /\ Contains(idle, Asked)) \subseteq Assertions
    BY DEF Broken, Assertions
  <2> QED
    BY <1>1, <2>1 DEF AttachWorker, ReleaseLink, ReleaseWorker, TypeOK
<1>4. idle' \in Seq(Slots)
  BY <1>1, <1>2, IdleType DEF AttachWorker, ReleaseLink, ReleaseWorker, TypeOK
<1>5. inbox' \in [Slots -> Seq(Messages)]
  <2>1. <<Disconnect>> \in Seq(Messages) /\ <<>> \in Seq(Messages)
    BY Members
  <2> QED
    BY <1>1, <1>2, <2>1, PushType DEF AttachWorker, ReleaseLink, ReleaseWorker, TypeOK
<1>6. drain' \in Seq(Requests)
  BY <1>2 DEF AttachWorker, ReleaseLink, ReleaseWorker
<1> HIDE DEF Asked
<1>7. CASE AttachWorker
  <2>1. link' \in [Slots -> Conns \cup {None}] /\ monitored' \in [Slots -> BOOLEAN]
    <3>1. connectionScoped(Asked) => Asker \in Conns
      BY DEF connectionScoped, Asker, Asked
    <3> QED
      BY <1>1, <1>7, <3>1 DEF AttachWorker, TypeOK
  <2>2. toStop' \in Slots \cup {None} /\ attached' \in [Slots -> BOOLEAN]
    BY <1>1, <1>2, <1>7 DEF AttachWorker, TypeOK
  <2>3. term' \in [Workers -> Causes]
    <3>1. CASE term' = [term EXCEPT ![Asker] = IF @ = "no" THEN "shutdown" ELSE @]
      BY <1>1, <3>1 DEF TypeOK, Causes
    <3> QED
      BY <1>1, <1>7, <3>1 DEF AttachWorker, TypeOK
  <2> QED
    BY <1>1, <1>3, <1>4, <1>5, <1>6, <1>7, <2>1, <2>2, <2>3
      DEF AttachWorker, Typed, TypeOK, Placed, turn, own, mind
<1>8. CASE ReleaseLink
  BY <1>1, <1>2, <1>3, <1>4, <1>6, <1>8
    DEF ReleaseLink, Typed, TypeOK, Placed, turn, seat, own, mind
<1>9. CASE ReleaseWorker
  BY <1>1, <1>2, <1>4, <1>5, <1>6, <1>9
    DEF ReleaseWorker, Typed, TypeOK, Placed, turn, own, mind, slotFreed
<1> QED
  BY <1>7, <1>8, <1>9

\* The mail of a worker that has a message is its slot's.
LEMMA MailType ==
  ASSUME Typed, NEW w \in Workers, NEW k \in DOMAIN Mail(w)
  PROVE  /\ at[w] \in Slots /\ Mail(w) = inbox[at[w]] /\ inbox[at[w]] \in Seq(Messages)
         /\ k \in 1 .. Len(inbox[at[w]]) /\ Mail(w)[k] \in Messages
         /\ RemoveAt(inbox[at[w]], k) \in Seq(Messages)
<1>1. DOMAIN <<>> = {}
  OBVIOUS
<1>2. at[w] \in Slots /\ Mail(w) = inbox[at[w]]
  BY <1>1 DEF Mail, Typed, TypeOK
<1>3. inbox[at[w]] \in Seq(Messages)
  BY <1>2 DEF Typed, TypeOK
<1>4. k \in 1 .. Len(inbox[at[w]])
  BY <1>2, <1>3, LenProperties
<1> QED
  BY <1>2, <1>3, <1>4, TakeAway, ElementOfSeq

\* A worker's call of the loop.
LEMMA QueueType ==
  ASSUME Typed, NEW w \in Workers, pc[w] # "none",
         NEW op \in {"attach", "release_link", "release"}, Queue(w, op)
  PROVE  queue' \in Seq(Requests) /\ answered' \in [Workers -> BOOLEAN]
<1>1. [slot |-> at[w], op |-> op, by |-> w] \in Requests
  BY Members DEF Typed, Placed
<1> QED
  BY <1>1, PutLast DEF Queue, Typed, TypeOK

\* A worker starts, signals, runs scripts and ends.
LEMMA ThreadTypes ==
  ASSUME Typed, NEW w \in Workers,
         Start(w) \/ StartFails(w) \/ Signal(w) \/ Tick(w) \/ DestroyLink(w) \/ PumpEnds(w)
           \/ TickFails(w) \/ Killed(w) \/ Disarm(w) \/ Teardown(w)
           \/ RunScript(w) \/ ScriptReturns(w) \/ Stuck(w)
  PROVE  Typed'
<1>1. CASE Start(w) \/ StartFails(w) \/ TickFails(w) \/ Killed(w)
  <2>1. queue' \in Seq(Requests) /\ answered' \in [Workers -> BOOLEAN]
    BY <1>1, QueueType DEF Start, StartFails, TickFails, Killed, Leave
  <2>2. pc' \in [Workers -> Pcs] /\ \A v \in Workers : pc'[v] # "none" => at[v] \in Slots
    BY <1>1 DEF Start, StartFails, TickFails, Killed, Leave, Goes, Typed, TypeOK, Placed, Pcs
  <2>3. sock' \in [Conns -> {"out", "http", "ws"}] /\ held' \in [Workers -> Conns \cup {None}]
    BY ZenonT(60), <1>1 DEF Start, StartFails, TickFails, Killed, Typed, TypeOK
  <2> QED
    BY <1>1, <2>1, <2>2, <2>3 DEF Start, StartFails, TickFails, Killed, Typed, TypeOK,
      Placed, server, loopVars, slotVars, seat, turn, mind
<1>2. CASE Signal(w)
  BY <1>2 DEF Signal, Signals, Goes, Typed, TypeOK, Placed, Pcs, Edges, server, loopVars,
    slotVars, seat, turn, flags, mind
<1>3. CASE Tick(w) \/ PumpEnds(w) \/ RunScript(w) \/ ScriptReturns(w)
  BY ZenonT(60), <1>3 DEF Tick, PumpEnds, RunScript, ScriptReturns, Goes, Typed, TypeOK, Placed, Pcs,
    server, shared, loopVars, slotVars, seat, turn, flags, mind
<1>4. CASE DestroyLink(w)
  BY <1>4 DEF DestroyLink, Goes, Typed, TypeOK, Placed, Pcs, server, loopVars, slotVars,
    seat, turn
<1>6. CASE Disarm(w)
  BY <1>6 DEF Disarm, Goes, Typed, TypeOK, Placed, Pcs, Causes, server, loopVars, slotVars,
    seat, turn, mind
<1>7. CASE Teardown(w)
  BY <1>7 DEF Teardown, Goes, Typed, TypeOK, Placed, Pcs, server, loopVars, slotVars, seat,
    turn, flags
<1>5. CASE Stuck(w)
  BY <1>5 DEF Stuck, Typed, TypeOK, Placed, Causes, server, loopVars, slotVars, seat, turn,
    own, mind
<1> QED
  BY <1>1, <1>2, <1>3, <1>4, <1>5, <1>6, <1>7

\* A worker handles a message.
LEMMA MailTypes ==
  ASSUME Typed, NEW w \in Workers, OnCommand(w) \/ OnLink(w) \/ OnEnd(w) \/ OnLinkGone(w)
  PROVE  Typed'
<1>1. CASE OnCommand(w)
  <2>1. PICK k \in DOMAIN Mail(w) :
          /\ pc[w] = "pump"
          /\ \/ Pop(w, k) /\ (pc' = pc \/ Goes(w, "script"))
             \/ /\ inbox' = [inbox EXCEPT ![at[w]] = Append(RemoveAt(@, k), Quit)]
                /\ pc' = pc
    BY <1>1 DEF OnCommand
  <2>2. inbox' \in [Slots -> Seq(Messages)]
    <3>1. Append(RemoveAt(inbox[at[w]], k), Quit) \in Seq(Messages)
      BY MailType, Members, PutLast
    <3>2. at[w] \in Slots /\ RemoveAt(inbox[at[w]], k) \in Seq(Messages)
      BY MailType
    <3> QED
      BY <2>1, <3>1, <3>2 DEF Pop, Typed, TypeOK
  <2> QED
    BY ZenonT(60), <1>1, <2>1, <2>2 DEF OnCommand, Goes, Typed, TypeOK, Placed, Pcs, server, loopVars,
      slotVars, seat, turn, flags, mind
<1>2. CASE OnLink(w)
  <2>1. PICK mode \in {"pump", "script"}, k \in DOMAIN Mail(w) :
          /\ Pop(w, k) /\ Mail(w)[k].kind = "link"
          /\ fault' = fault \cup Broken("adopt held", held[w] # None)
          /\ IF held[w] = None
             THEN held' = [held EXCEPT ![w] = Mail(w)[k].conn] /\ UNCHANGED sock
             ELSE sock' = [sock EXCEPT ![Mail(w)[k].conn] = "out"] /\ UNCHANGED held
    BY <1>2 DEF OnLink, Drains
  <2>2. inbox' \in [Slots -> Seq(Messages)]
    BY <2>1, MailType DEF Pop, Typed, TypeOK
  <2>3. Mail(w)[k].conn \in Conns \cup {None}
    BY MailType, Members
  <2>4. fault' \subseteq Assertions
    <3>1. Broken("adopt held", held[w] # None) \subseteq Assertions
      BY DEF Broken, Assertions
    <3> QED
      BY <2>1, <3>1 DEF Typed, TypeOK
  <2> QED
    BY ZenonT(60), <1>2, <2>1, <2>2, <2>3, <2>4 DEF OnLink, Typed, TypeOK, Placed, server, loopVars,
      slotVars, seat, turn, flags, mind
<1>3. CASE OnEnd(w)
  <2>1. PICK mode \in {"pump", "script", "terminal"}, k \in DOMAIN Mail(w) :
          pc[w] = mode /\ Pop(w, k) /\ Done(w, mode)
    BY <1>3 DEF OnEnd, Drains
  <2>2. inbox' \in [Slots -> Seq(Messages)]
    BY <2>1, MailType DEF Pop, Typed, TypeOK
  <2>3. queue' \in Seq(Requests) /\ answered' \in [Workers -> BOOLEAN]
    <3>1. CASE mode = "script"
      BY <2>1, <3>1 DEF Done, Typed, TypeOK
    <3>2. CASE mode # "script"
      BY <2>1, <3>2, QueueType DEF Done, Leave
    <3> QED
      BY <3>1, <3>2
  <2> QED
    BY ZenonT(60), <1>3, <2>1, <2>2, <2>3 DEF OnEnd, Done, Leave, Goes, Typed, TypeOK, Placed, Pcs,
      server, loopVars, slotVars, seat, turn
<1>4. CASE OnLinkGone(w)
  <2>1. PICK mode \in {"pump", "script", "terminal"}, k \in DOMAIN Mail(w) :
          /\ pc[w] = mode /\ Pop(w, k)
          /\ IF held[w] = None
             THEN /\ fault' = fault \cup {"release empty"}
                  /\ UNCHANGED <<queue, answered, pc, back, held, giving>>
             ELSE /\ Queue(w, "release_link") /\ Goes(w, "linkSig")
                  /\ giving' = [giving EXCEPT ![w] = held[w]]
                  /\ held' = [held EXCEPT ![w] = None]
                  /\ back' = [back EXCEPT ![w] = mode]
                  /\ UNCHANGED fault
    BY <1>4 DEF OnLinkGone, Drains
  <2>2. inbox' \in [Slots -> Seq(Messages)]
    BY <2>1, MailType DEF Pop, Typed, TypeOK
  <2>3. queue' \in Seq(Requests) /\ answered' \in [Workers -> BOOLEAN]
    <3>1. CASE held[w] = None
      BY <2>1, <3>1 DEF Typed, TypeOK
    <3>2. CASE held[w] # None
      BY <2>1, <3>2, QueueType
    <3> QED
      BY <3>1, <3>2
  <2>4. fault' \subseteq Assertions
    BY ZenonT(60), <2>1 DEF Assertions, Typed, TypeOK
  <2>5. /\ pc' \in [Workers -> Pcs] /\ (\A v \in Workers : pc'[v] # "none" => at[v] \in Slots)
        /\ held' \in [Workers -> Conns \cup {None}] /\ giving' \in [Workers -> Conns \cup {None}]
        /\ back' \in [Workers -> {"pump", "script", "terminal"}]
    BY ZenonT(60), <2>1 DEF Goes, Typed, TypeOK, Placed, Pcs
  <2> QED
    BY ZenonT(60), <1>4, <2>2, <2>3, <2>4, <2>5 DEF OnLinkGone, Typed, TypeOK, Placed, server,
      loopVars, slotVars, seat, turn
<1> QED
  BY <1>1, <1>2, <1>3, <1>4

\* Every step keeps the types.
LEMMA TypedStep == ASSUME Typed, [Next]_vars PROVE Typed'
<1>1. CASE UNCHANGED vars
  BY <1>1 DEF vars, server, loopVars, turn, slotVars, seat, shared, flags, own, mind, Typed,
    TypeOK, Placed
<1>2. CASE Step
  BY <1>2, RoundTypes, DrainTypes DEF Step
<1>3. CASE Saturated \/ Stop
  BY <1>3, RoundTypes
<1>4. ASSUME NEW c \in Conns, HttpClose(c) \/ Accept(c) PROVE Typed'
  BY <1>4, ConnectionTypes, Constants
<1>5. ASSUME NEW c \in Conns, NEW i \in Slots,
             UpgradeConnection(c, i) \/ AttachConnection(c, i)
      PROVE  Typed'
  BY <1>5, ConnectionTypes
<1>6. ASSUME NEW i \in Slots,
             DeleteSession(i) \/ ReadCommand(i) \/ ReadClose(i) \/ DropWebSocket(i)
      PROVE  Typed'
  BY <1>6, LinkTypes
<1>7. ASSUME NEW s \in Sessions, NEW i \in Slots, NewSession(s, i) PROVE Typed'
  BY <1>7, SessionTypes
<1>8. CASE ReapSession
  BY <1>8, Constants, LinkTypes
<1>9. ASSUME NEW w \in Workers, Work(w) PROVE Typed'
  BY <1>9, ThreadTypes, MailTypes DEF Work
<1>10. ASSUME NEW w \in Workers, RunScript(w) \/ ScriptReturns(w) \/ Stuck(w) PROVE Typed'
  BY <1>10, ThreadTypes
<1>11. CASE Events
  BY <1>3, <1>4, <1>5, <1>6, <1>7, <1>8, <1>11 DEF Events
<1> QED
  BY <1>1, <1>2, <1>9, <1>10, <1>11 DEF Next, Ended

\* At first there is nothing.
LEMMA TypedInit == ASSUME Init PROVE Typed
<1>1. /\ <<>> \in Seq(Requests) /\ <<>> \in Seq(Slots)
      /\ [i \in Slots |-> <<>>] \in [Slots -> Seq(Messages)]
  OBVIOUS
<1>2. /\ phase \in Phases /\ wake \subseteq Edges /\ fault \subseteq Assertions
      /\ begun \in BOOLEAN /\ paused \in BOOLEAN /\ toStop \in Slots \cup {None}
      /\ queue \in Seq(Requests) /\ drain \in Seq(Requests) /\ idle \in Seq(Slots)
  BY <1>1 DEF Init, Phases
<1>3. /\ occupant \in [Slots -> Workers \cup {None}]
      /\ attached \in [Slots -> BOOLEAN] /\ monitored \in [Slots -> BOOLEAN]
      /\ listed \in [Slots -> BOOLEAN] /\ link \in [Slots -> Conns \cup {None}]
      /\ inbox \in [Slots -> Seq(Messages)]
  BY <1>1 DEF Init
<1>4. /\ term \in [Workers -> Causes] /\ answered \in [Workers -> BOOLEAN]
      /\ sock \in [Conns -> {"out", "http", "ws"}]
      /\ pc \in [Workers -> Pcs] /\ at \in [Workers -> Slots \cup {None}]
      /\ back \in [Workers -> {"pump", "script", "terminal"}]
      /\ held \in [Workers -> Conns \cup {None}] /\ giving \in [Workers -> Conns \cup {None}]
      /\ gone \in [Workers -> BOOLEAN]
  BY DEF Init, Causes, Pcs
<1>5. Placed
  BY DEF Init, Placed
<1> QED
  BY <1>2, <1>3, <1>4, <1>5 DEF Typed, TypeOK

-----------------------------------------------------------------------------
(* The requests of the workers.                                             *)

\* What a worker has asked for and the loop has not done.
Pending == Range(drain) \cup Range(queue)

\* A worker asks twice only to be attached and then to let go.
Follows(r, q) == r.by = q.by => r.op = "attach" /\ q.op # "attach"

\* Along both buffers, the older first; and none is being drained while events are read.
InTurn ==
  /\ \A j \in DOMAIN drain : \A i \in 1 .. j - 1 : Follows(drain[i], drain[j])
  /\ \A j \in DOMAIN queue : \A i \in 1 .. j - 1 : Follows(queue[i], queue[j])
  /\ \A i \in DOMAIN drain, j \in DOMAIN queue : Follows(drain[i], queue[j])
  /\ phase = "events" => drain = <<>>

\* A request is queued.
LEMMA QueueGrows ==
  ASSUME Typed, InTurn, NEW w \in Workers, pc[w] # "none",
         NEW op \in {"attach", "release_link", "release"}, Queue(w, op),
         UNCHANGED <<drain, phase>>, NEW r, r = [slot |-> at[w], op |-> op, by |-> w],
         \A q \in Pending : Follows(q, r)
  PROVE  InTurn' /\ Pending' = Pending \cup {r} /\ r \in Requests /\ queue' = Append(queue, r)
<1> DEFINE n == Len(queue)
<1>1. r \in Requests /\ queue \in Seq(Requests) /\ queue' = Append(queue, r)
  BY Members DEF Queue, Typed, TypeOK, Placed
<1>2. /\ DOMAIN queue' = 1 .. n + 1 /\ (\A i \in 1 .. n : queue'[i] = queue[i])
      /\ queue'[n + 1] = r /\ n \in Nat /\ DOMAIN queue = 1 .. n
  BY <1>1, PutLast, LenProperties
<1> HIDE DEF n
<1>3. 1 .. n + 1 = 1 .. n \cup {n + 1} /\ n + 1 \notin 1 .. n
      /\ (\A i \in 1 .. n + 1 - 1 : i \in 1 .. n)
      /\ \A j \in 1 .. n : \A i \in 1 .. j - 1 : i \in 1 .. n
  BY <1>2
<1>4. Range(queue') = Range(queue) \cup {r}
  BY <1>2, <1>3 DEF Range
<1>5. \A i \in 1 .. n : Follows(queue[i], r)
  BY <1>2 DEF Pending, Range
<1>6. \A i \in DOMAIN drain : Follows(drain[i], r)
  BY DEF Pending, Range
<1>7. \A j \in DOMAIN queue' : \A i \in 1 .. j - 1 : Follows(queue'[i], queue'[j])
  <2> SUFFICES ASSUME NEW j \in 1 .. n + 1, NEW i \in 1 .. j - 1
               PROVE  Follows(queue'[i], queue'[j])
    BY <1>2
  <2>1. CASE j \in 1 .. n
    BY <1>2, <1>3, <2>1 DEF InTurn
  <2>2. CASE j = n + 1
    BY <1>2, <1>3, <1>5, <2>2
  <2> QED
    BY <1>3, <2>1, <2>2
<1>8. \A i \in DOMAIN drain, j \in DOMAIN queue' : Follows(drain[i], queue'[j])
  BY <1>2, <1>3, <1>6 DEF InTurn
<1> QED
  BY <1>1, <1>4, <1>7, <1>8 DEF InTurn, Pending, Follows

\* The first request of the batch is taken.
LEMMA QueueShrinks ==
  ASSUME Typed, InTurn, drain # <<>>, drain' = Tail(drain), UNCHANGED <<queue, phase>>
  PROVE  /\ InTurn' /\ Head(drain) \in Pending /\ Pending' \subseteq Pending
         /\ \A q \in Pending : q = Head(drain) \/ q \in Pending'
         /\ \A q \in Pending' : Follows(Head(drain), q)
<1> DEFINE n == Len(drain) d == Tail(drain)
<1>1. /\ Head(drain) = drain[1] /\ n \in Nat \ {0} /\ DOMAIN drain = 1 .. n /\ 1 \in DOMAIN drain
      /\ DOMAIN d = 1 .. n - 1
      /\ \A j \in 1 .. n - 1 : d[j] = drain[j + 1] /\ j + 1 \in DOMAIN drain
  BY HeadTail DEF Typed, TypeOK
<1> HIDE DEF n, d
<1>2. \A j \in 1 .. n - 1 : \A i \in 1 .. j - 1 :
        i \in 1 .. n - 1 /\ i + 1 \in 1 .. (j + 1) - 1 /\ 1 \in 1 .. (j + 1) - 1
  BY <1>1
<1>3. \A m \in 1 .. n : m = 1 \/ (m - 1 \in 1 .. n - 1 /\ (m - 1) + 1 = m)
  BY <1>1
<1>4. \A j \in 1 .. n - 1 : 1 \in 1 .. (j + 1) - 1
  BY <1>1
<1>5. \A j \in DOMAIN d : \A i \in 1 .. j - 1 : Follows(d[i], d[j])
  BY <1>1, <1>2 DEF InTurn
<1>6. \A i \in DOMAIN d, j \in DOMAIN queue : Follows(d[i], queue[j])
  BY <1>1 DEF InTurn
<1>7. drain' = d
  BY DEF d
<1>8. \A q \in Range(d) : q \in Range(drain) /\ Follows(Head(drain), q)
  <2> SUFFICES ASSUME NEW j \in 1 .. n - 1 PROVE d[j] \in Range(drain) /\ Follows(Head(drain), d[j])
    BY <1>1 DEF Range
  <2> QED
    BY <1>1, <1>4 DEF Range, InTurn
<1>9. \A q \in Range(drain) : q = Head(drain) \/ q \in Range(d)
  <2> SUFFICES ASSUME NEW m \in 1 .. n PROVE drain[m] = Head(drain) \/ drain[m] \in Range(d)
    BY <1>1 DEF Range
  <2>1. CASE m = 1
    BY <1>1, <2>1
  <2>2. CASE m - 1 \in 1 .. n - 1 /\ (m - 1) + 1 = m
    <3>1. d[m - 1] = drain[m] /\ m - 1 \in DOMAIN d
      BY <1>1, <2>2
    <3> QED
      BY <3>1 DEF Range
  <2> QED
    BY <1>3, <2>1, <2>2
<1>10. \A q \in Range(queue) : Follows(Head(drain), q)
  BY <1>1 DEF Range, InTurn
<1>11. Head(drain) \in Range(drain)
  BY <1>1 DEF Range
<1>12. phase' = "events" => drain' = <<>>
  BY DEF InTurn
<1>13. InTurn'
  BY <1>5, <1>6, <1>7, <1>12 DEF InTurn, Follows
<1> QED
  BY <1>7, <1>8, <1>9, <1>10, <1>11, <1>13 DEF Pending

\* The buffers are swapped when the old batch is done.
LEMMA QueueSwaps ==
  ASSUME Typed, InTurn, EndEvents
  PROVE  InTurn' /\ Pending' = Pending
<1>1. drain = <<>> /\ phase' = "drain"
  BY DEF EndEvents, InTurn, Loop
<1>2. DOMAIN <<>> = {}
  OBVIOUS
<1>3. (drain' = queue /\ queue' = <<>>) \/ (drain' = drain /\ queue' = queue)
  BY <1>1 DEF EndEvents
<1>4. InTurn'
  BY <1>1, <1>2, <1>3 DEF InTurn, Follows
<1> QED
  BY <1>1, <1>3, <1>4 DEF Pending

\* Nothing happens to the requests.
LEMMA QueueRests ==
  ASSUME InTurn, UNCHANGED <<drain, queue>>, phase' # "events" \/ phase' = phase \/ drain = <<>>
  PROVE  InTurn' /\ Pending' = Pending
BY DEF InTurn, Pending, Follows

-----------------------------------------------------------------------------
(* Wakeups.                                                                 *)

\* The loop swaps its buffers only when the last batch is done.
Woken == NoLostWakeup /\ (phase = "events" => drain = <<>>)

\* A worker between its request and its signal stays there, and the signal is delivered
\* by nobody else.
LEMMA StaysAwake ==
  ASSUME Woken, queue' = queue, "signal" \in wake => "signal" \in wake',
         \A w \in Workers : pc[w] \in DOMAIN Signals => pc'[w] = pc[w],
         phase' = "events" => drain' = <<>>
  PROVE  Woken'
BY DEF Woken, NoLostWakeup, Signals

\* The steps of the loop but for the swap.
LEMMA LoopAwake ==
  ASSUME Typed, Woken,
         Saturated \/ Stop \/ RequestTerminate \/ AttachWorker \/ ReleaseLink \/ ReleaseWorker
           \/ EndDrain \/ Deinit \/ ReapSession
           \/ (\E c \in Conns : HttpClose(c) \/ Accept(c))
           \/ (\E c \in Conns, i \in Slots : AttachConnection(c, i))
           \/ (\E i \in Slots : DeleteSession(i) \/ ReadCommand(i) \/ ReadClose(i)
                                 \/ DropWebSocket(i))
  PROVE  Woken'
<1>1. queue' = queue /\ pc' = pc /\ ("signal" \in wake => "signal" \in wake')
  BY DEF Saturated, Stop, RequestTerminate, AttachWorker, ReleaseLink, ReleaseWorker, EndDrain,
    Deinit, ReapSession, HttpClose, Accept, AttachConnection, DeleteSession, ReadCommand,
    ReadClose, DropWebSocket, own, shared
<1>2. phase' = "events" => drain' = <<>>
  <2>1. CASE AttachWorker \/ ReleaseLink \/ ReleaseWorker
    BY <2>1 DEF AttachWorker, ReleaseLink, ReleaseWorker, Draining, Loop, turn
  <2>2. CASE EndDrain
    BY <2>2 DEF EndDrain
  <2>3. CASE Deinit
    BY <2>3 DEF Deinit
  <2>4. CASE ~(AttachWorker \/ ReleaseLink \/ ReleaseWorker \/ EndDrain \/ Deinit)
    <3>1. phase' = phase /\ drain' = drain
      BY <2>4 DEF Saturated, Stop, RequestTerminate, ReapSession, HttpClose, Accept,
        AttachConnection, DeleteSession, ReadCommand, ReadClose, DropWebSocket, turn, server,
        loopVars
    <3> QED
      BY <3>1 DEF Woken
  <2> QED
    BY <2>1, <2>2, <2>3, <2>4
<1> QED
  BY <1>1, <1>2, StaysAwake

\* The steps of the workers.
LEMMA WorkerAwake ==
  ASSUME Typed, Woken, NEW w \in Workers,
         Work(w) \/ RunScript(w) \/ ScriptReturns(w) \/ Stuck(w)
  PROVE  Woken'
<1>1. phase' = phase /\ drain' = drain
  BY DEF Work, Start, StartFails, Signal, Tick, OnCommand, OnLink, OnEnd, OnLinkGone,
    DestroyLink, PumpEnds, TickFails, Killed, Disarm, Teardown, RunScript, ScriptReturns, Stuck,
    server, loopVars, turn
<1>2. pc \in [Workers -> Pcs] /\ DOMAIN Signals = {"attachSig", "linkSig", "releaseSig"}
  BY DEF Typed, TypeOK, Signals
<1>3. CASE Signal(w)
  BY <1>1, <1>3 DEF Signal, Woken, NoLostWakeup
<1>4. CASE queue' # queue
  <2>1. pc' = [pc EXCEPT ![w] = "attachSig"] \/ pc' = [pc EXCEPT ![w] = "linkSig"]
          \/ pc' = [pc EXCEPT ![w] = "releaseSig"]
    BY <1>4 DEF Work, Start, StartFails, Signal, Tick, OnCommand, OnLink, OnEnd, OnLinkGone,
      DestroyLink, PumpEnds, TickFails, Killed, Disarm, Teardown, RunScript, ScriptReturns,
      Stuck, Goes, Leave, Done, shared
  <2>2. pc'[w] \in DOMAIN Signals
    BY <1>2, <2>1
  <2> QED
    BY <1>1, <2>2 DEF Woken, NoLostWakeup
<1>5. CASE ~Signal(w) /\ queue' = queue
  <2>1. wake' = wake
    BY <1>5 DEF Work, Start, StartFails, Tick, OnCommand, OnLink, OnEnd, OnLinkGone,
      DestroyLink, PumpEnds, TickFails, Killed, Disarm, Teardown, RunScript, ScriptReturns,
      Stuck, shared
  <2>2. pc' = pc \/ \E p \in Pcs : pc' = [pc EXCEPT ![w] = p] /\ pc[w] \notin DOMAIN Signals
    <3>1. CASE Start(w) \/ StartFails(w) \/ TickFails(w) \/ Killed(w)
      BY <1>2, <3>1 DEF Start, StartFails, TickFails, Killed, Leave, Goes, Pcs
    <3>2. CASE Tick(w) \/ PumpEnds(w) \/ RunScript(w) \/ ScriptReturns(w) \/ Disarm(w)
                 \/ Teardown(w)
      BY <1>2, <3>2 DEF Tick, PumpEnds, RunScript, ScriptReturns, Disarm, Teardown, Goes, Pcs
    <3>3. CASE DestroyLink(w)
      <4>1. back[w] \in Pcs
        BY DEF Typed, TypeOK, Pcs
      <4> QED
        BY <1>2, <3>3, <4>1 DEF DestroyLink, Goes
    <3>4. CASE OnCommand(w) \/ OnLink(w) \/ Stuck(w)
      BY <1>2, <3>4 DEF OnCommand, OnLink, Stuck, Goes, own, Pcs
    <3>5. CASE OnEnd(w)
      BY <1>2, <3>5 DEF OnEnd, Drains, Done, Leave, Goes, Pcs
    <3>6. CASE OnLinkGone(w)
      BY <1>2, <3>6 DEF OnLinkGone, Drains, Goes, Pcs
    <3> QED
      BY <1>5, <3>1, <3>2, <3>3, <3>4, <3>5, <3>6 DEF Work
  <2>3. \A v \in Workers : pc[v] \in DOMAIN Signals => pc'[v] = pc[v]
    BY <1>2, <2>2
  <2> QED
    BY <1>1, <1>5, <2>1, <2>3, StaysAwake DEF Woken
<1> QED
  BY <1>3, <1>4, <1>5

\* No step loses a wakeup.
LEMMA WokenStep == ASSUME Typed, Woken, [Next]_vars PROVE Woken'
<1>1. CASE UNCHANGED vars
  BY <1>1, StaysAwake DEF vars, server, loopVars, turn, shared, own, Woken
<1>2. CASE EndEvents
  <2>1. drain = <<>> /\ phase' = "drain"
    BY <1>2 DEF EndEvents, Woken, Loop
  <2>2. CASE "signal" \in wake
    <3>1. queue' = <<>>
      BY <1>2, <2>1, <2>2 DEF EndEvents
    <3> QED
      BY <2>1, <3>1 DEF Woken, NoLostWakeup
  <2>3. CASE "signal" \notin wake
    <3>1. queue' = queue /\ pc' = pc
      BY <1>2, <2>3 DEF EndEvents, own
    <3> QED
      BY <2>1, <2>3, <3>1, StaysAwake
  <2> QED
    BY <2>2, <2>3
<1>3. ASSUME NEW c \in Conns, NEW i \in Slots, UpgradeConnection(c, i) PROVE Woken'
  <2>1. c \in Workers /\ pc[c] = "none" /\ pc' = [pc EXCEPT ![c] = "starting"]
    BY <1>3 DEF UpgradeConnection, Spawned, Workers
  <2>2. \A w \in Workers : pc[w] \in DOMAIN Signals => pc'[w] = pc[w]
    BY <2>1 DEF Typed, TypeOK, Signals
  <2> QED
    BY <1>3, <2>2, StaysAwake DEF UpgradeConnection, turn, Woken
<1>4. ASSUME NEW s \in Sessions, NEW i \in Slots, NewSession(s, i) PROVE Woken'
  <2>1. s \in Workers /\ pc[s] = "none" /\ pc' = [pc EXCEPT ![s] = "starting"]
    BY <1>4 DEF NewSession, Spawned, Workers
  <2>2. \A w \in Workers : pc[w] \in DOMAIN Signals => pc'[w] = pc[w]
    BY <2>1 DEF Typed, TypeOK, Signals
  <2> QED
    BY <1>4, <2>2, StaysAwake DEF NewSession, loopVars, turn, shared, Woken
<1>5. CASE Step
  BY <1>2, <1>5, LoopAwake DEF Step
<1>6. CASE Events
  BY <1>3, <1>4, <1>6, LoopAwake DEF Events
<1> QED
  BY <1>1, <1>5, <1>6, WorkerAwake DEF Next, Ended

-----------------------------------------------------------------------------
(* Slots and their workers.                                                 *)

\* What a pending request says of its worker and slot.
Asks(r) ==
  /\ r.op = "attach" => pc[r.by] \in Driving /\ ~attached[r.slot]
  /\ r.op = "release_link" => pc[r.by] \in {"linkSig", "waitLink"} /\ ~answered[r.by]
  /\ r.op = "release" => pc[r.by] \in {"releaseSig", "waitRelease"} /\ ~answered[r.by]

\* A request is of the worker that has the slot.
Requested == \A r \in Pending : r.slot = at[r.by] /\ occupant[r.slot] = r.by /\ Asks(r)

\* Where a worker waits to be let go.
Going == {"releaseSig", "waitRelease"}

\* A driver is known while its worker drives; a worker that drives was attached or has
\* asked for it; a slot that is listed has a session, and one whose worker brings its
\* link has none before.
Seated ==
  /\ \A i \in Slots : attached[i] => pc[occupant[i]] \in Driving
  /\ \A w \in Workers : pc[w] \in Driving \ Going =>
       attached[at[w]] \/ \E r \in Pending : r.op = "attach" /\ r.by = w
  /\ \A i \in Slots : listed[i] => occupant[i] \in Sessions
  /\ \A i \in Slots : occupant[i] \in Conns /\ ~attached[i] => link[i] = None

\* Slots, requests and workers agree.
Seats == SlotsExact /\ Requested /\ Seated

\* A worker that was released is nobody's, and asks nothing.
LEMMA SeatFacts ==
  ASSUME Typed, Seats
  PROVE  /\ \A i \in Slots : occupant[i] # None =>
              /\ occupant[i] \in Workers /\ ~Released(occupant[i]) /\ at[occupant[i]] = i
         /\ \A r \in Pending : r.by \in Workers /\ r.slot \in Slots /\ ~Released(r.by)
                               /\ r.op \in {"attach", "release_link", "release"}
         /\ \A w \in Workers : ~Released(w) => at[w] \in Slots /\ occupant[at[w]] = w
         /\ None \notin Workers /\ None \notin Slots
         /\ \A i \in Slots : (attached[i] \/ monitored[i] \/ listed[i]) => occupant[i] # None
<1>1. None \notin Workers /\ None \notin Slots
  BY Constants
<1>2. \A i \in Slots : occupant[i] # None =>
        occupant[i] \in Workers /\ ~Released(occupant[i]) /\ at[occupant[i]] = i
  BY DEF Typed, TypeOK, Seats, SlotsExact
<1>3. \A r \in Pending : r \in Requests
  BY LenProperties, ElementOfSeq DEF Pending, Range, Typed, TypeOK
<1>4. \A r \in Pending : r.by \in Workers /\ r.slot \in Slots /\ ~Released(r.by)
                         /\ r.op \in {"attach", "release_link", "release"}
  BY <1>1, <1>2, <1>3, Members DEF Seats, Requested
<1>5. \A w \in Workers : ~Released(w) => at[w] \in Slots /\ occupant[at[w]] = w
  BY DEF Released, Typed, Placed, Seats, SlotsExact
<1>6. \A i \in Slots : (attached[i] \/ monitored[i] \/ listed[i]) => occupant[i] # None
  BY DEF Seats, SlotsExact
<1> QED
  BY <1>1, <1>2, <1>4, <1>5, <1>6

\* Slots keep their workers.
LEMMA SlotsQuiet ==
  ASSUME Typed, Seats, Pending' = Pending, UNCHANGED <<occupant, attached, at, pc>>,
         \A w \in Workers : answered'[w] = answered[w],
         \A w \in Workers : term'[w] # "no" => term[w] # "no" \/ pc[w] \in Driving,
         \A i \in Slots : listed'[i] => listed[i],
         \A i \in Slots : occupant[i] = None =>
           monitored'[i] = monitored[i] /\ listed'[i] = listed[i] /\ link'[i] = link[i]
             /\ inbox'[i] = inbox[i],
         \A i \in Slots : occupant[i] \in Conns /\ ~attached[i] => link'[i] = link[i],
         toStop' = toStop \/ toStop' = None \/ (toStop' \in Slots /\ attached[toStop'])
  PROVE  Seats'
<1>1. \A w \in Workers : Released(w)' <=> Released(w)
  BY DEF Released
<1>2. SlotsExact'
  <2>1. \A w \in Workers : ~Released(w)' => occupant'[at'[w]] = w
    BY <1>1 DEF Seats, SlotsExact
  <2>2. ASSUME NEW i \in Slots, occupant'[i] = None
        PROVE  ~attached'[i] /\ ~monitored'[i] /\ ~listed'[i] /\ link'[i] = None
                 /\ inbox'[i] = <<>>
    BY <2>2 DEF Seats, SlotsExact
  <2>3. ASSUME NEW i \in Slots, occupant'[i] # None
        PROVE  ~Released(occupant[i])' /\ at'[occupant'[i]] = i
    BY <1>1, <2>3, SeatFacts DEF Released
  <2>4. \A w \in Workers : term'[w] # "no" => pc'[w] \in Driving
    BY DEF Seats, SlotsExact
  <2>5. toStop' # None => attached'[toStop']
    BY DEF Seats, SlotsExact
  <2> QED
    BY <2>1, <2>2, <2>3, <2>4, <2>5 DEF SlotsExact
<1>3. Requested'
  BY SeatFacts DEF Seats, Requested, Asks
<1>4. Seated'
  BY DEF Seats, Seated
<1> QED
  BY <1>2, <1>3, <1>4 DEF Seats

\* A driving worker goes on driving.
LEMMA WorkerMoves ==
  ASSUME Typed, Seats, NEW w \in Workers, pc[w] \in Driving, ~Released(w),
         NEW p \in Driving, pc' = [pc EXCEPT ![w] = p],
         Pending' = Pending,
         UNCHANGED <<occupant, attached, listed, link, monitored, at, toStop>>,
         \A v \in Workers : v # w => answered'[v] = answered[v] /\ term'[v] = term[v],
         \A i \in Slots : occupant[i] # w => inbox'[i] = inbox[i],
         p \in Going => pc[w] \in Going /\ ~answered'[w],
         p \notin Going => pc[w] \notin Going,
         \A r \in Pending : r.by = w /\ r.op = "release_link" =>
           p \in {"linkSig", "waitLink"} /\ ~answered'[w]
  PROVE  Seats'
<1>1. /\ \A v \in Workers : v # w => pc'[v] = pc[v]
      /\ pc'[w] = p /\ p \notin {"none", "teardown"}
  BY DEF Typed, TypeOK, Driving
<1>2. \A v \in Workers : Released(v)' <=> Released(v)
  <2>1. ~Released(w)'
    BY <1>1 DEF Released, Going
  <2>2. \A v \in Workers : v # w => (Released(v)' <=> Released(v))
    BY <1>1 DEF Released
  <2> QED
    BY <2>1, <2>2
<1>3. SlotsExact'
  <2>1. \A v \in Workers : ~Released(v)' => occupant'[at'[v]] = v
    BY <1>2 DEF Seats, SlotsExact
  <2>2. ASSUME NEW i \in Slots, occupant'[i] = None
        PROVE  ~attached'[i] /\ ~monitored'[i] /\ ~listed'[i] /\ link'[i] = None
                 /\ inbox'[i] = <<>>
    <3>1. occupant[i] # w
      BY <2>2, SeatFacts
    <3> QED
      BY <2>2, <3>1 DEF Seats, SlotsExact
  <2>3. ASSUME NEW i \in Slots, occupant'[i] # None
        PROVE  ~Released(occupant[i])' /\ at'[occupant'[i]] = i
    BY <1>2, <2>3, SeatFacts DEF Released
  <2>4. \A v \in Workers : term'[v] # "no" => pc'[v] \in Driving
    BY <1>1 DEF Seats, SlotsExact
  <2>5. toStop' # None => attached'[toStop']
    BY DEF Seats, SlotsExact
  <2> QED
    BY <2>1, <2>2, <2>3, <2>4, <2>5 DEF SlotsExact
<1>4. Requested'
  <2> SUFFICES ASSUME NEW r \in Pending
               PROVE  r.slot = at[r.by] /\ occupant[r.slot] = r.by /\ Asks(r)'
    BY DEF Requested
  <2>1. r.by \in Workers /\ r.slot = at[r.by] /\ occupant[r.slot] = r.by /\ Asks(r)
    BY SeatFacts DEF Seats, Requested
  <2>2. CASE r.by # w
    BY <1>1, <2>1, <2>2 DEF Asks
  <2>3. CASE r.by = w
    <3>1. r.op = "release" => p \in Going /\ ~answered'[w]
      BY <2>1, <2>3 DEF Asks, Going
    <3> QED
      BY <1>1, <2>1, <2>3, <3>1 DEF Asks, Going
  <2> QED
    BY <2>2, <2>3
<1>5. Seated'
  <2>1. \A i \in Slots : attached'[i] => pc'[occupant'[i]] \in Driving
    BY <1>1, SeatFacts DEF Seats, Seated
  <2>2. \A v \in Workers : pc'[v] \in Driving \ Going =>
          attached'[at'[v]] \/ \E r \in Pending' : r.op = "attach" /\ r.by = v
    BY <1>1 DEF Seats, Seated
  <2> QED
    BY <2>1, <2>2 DEF Seats, Seated
<1> QED
  BY <1>3, <1>4, <1>5 DEF Seats

\* A worker that was released goes on alone.
LEMMA ReleasedMoves ==
  ASSUME Typed, Seats, NEW w \in Workers, Released(w),
         NEW p \in {"none", "teardown", "waitRelease"}, pc' = [pc EXCEPT ![w] = p],
         p = "waitRelease" => answered'[w],
         Pending' = Pending,
         UNCHANGED <<occupant, attached, listed, link, monitored, inbox, toStop>>,
         \A v \in Workers : v # w => answered'[v] = answered[v] /\ term'[v] = term[v] /\ at'[v] = at[v],
         p # "waitRelease" => term'[w] = "no"
  PROVE  Seats'
<1>1. /\ \A v \in Workers : v # w => pc'[v] = pc[v]
      /\ pc'[w] = p /\ Released(w)'
  BY DEF Typed, TypeOK, Released
<1>2. \A v \in Workers : Released(v)' <=> Released(v)
  <2>1. \A v \in Workers : v # w => (Released(v)' <=> Released(v))
    BY <1>1 DEF Released
  <2> QED
    BY <1>1, <2>1
<1>3. \A i \in Slots : occupant[i] # w
  BY SeatFacts
<1>4. \A r \in Pending : r.by # w
  BY SeatFacts
<1>5. SlotsExact'
  <2>1. \A v \in Workers : ~Released(v)' => occupant'[at'[v]] = v
    BY <1>1, <1>2 DEF Seats, SlotsExact
  <2>2. ASSUME NEW i \in Slots, occupant'[i] = None
        PROVE  ~attached'[i] /\ ~monitored'[i] /\ ~listed'[i] /\ link'[i] = None
                 /\ inbox'[i] = <<>>
    BY <2>2 DEF Seats, SlotsExact
  <2>3. ASSUME NEW i \in Slots, occupant'[i] # None
        PROVE  ~Released(occupant[i])' /\ at'[occupant'[i]] = i
    BY <1>2, <1>3, <2>3, SeatFacts DEF Released
  <2>4. \A v \in Workers : term'[v] # "no" => pc'[v] \in Driving
    <3>1. "waitRelease" \in Driving
      BY DEF Driving
    <3> QED
      BY <1>1, <3>1 DEF Seats, SlotsExact
  <2>5. toStop' # None => attached'[toStop']
    BY DEF Seats, SlotsExact
  <2> QED
    BY <2>1, <2>2, <2>3, <2>4, <2>5 DEF SlotsExact
<1>6. Requested'
  BY <1>1, <1>4, SeatFacts DEF Seats, Requested, Asks
<1>7. Seated'
  <2>1. \A i \in Slots : attached'[i] => pc'[occupant'[i]] \in Driving
    BY <1>1, <1>3, SeatFacts DEF Seats, Seated
  <2>2. \A v \in Workers : pc'[v] \in Driving \ Going =>
          attached'[at'[v]] \/ \E r \in Pending' : r.op = "attach" /\ r.by = v
    <3>1. p \notin Driving \ Going
      BY DEF Driving, Going
    <3> QED
      BY <1>1, <3>1 DEF Seats, Seated
  <2> QED
    BY <2>1, <2>2 DEF Seats, Seated
<1> QED
  BY <1>5, <1>6, <1>7 DEF Seats

\* A worker asks the loop for something.
LEMMA WorkerAsks ==
  ASSUME Typed, InTurn, Seats, NEW w \in Workers,
         NEW op \in {"attach", "release_link", "release"}, Queue(w, op),
         NEW p, pc' = [pc EXCEPT ![w] = p],
         \/ op = "attach" /\ pc[w] = "starting" /\ p = "attachSig"
         \/ op = "release_link" /\ pc[w] \in {"pump", "script", "terminal"} /\ p = "linkSig"
         \/ op = "release" /\ pc[w] \in {"starting", "tick", "pump", "script", "terminal"}
              /\ p = "releaseSig",
         UNCHANGED <<phase, drain, occupant, attached, listed, link, monitored, at, toStop, term>>,
         \A i \in Slots : occupant[i] # w => inbox'[i] = inbox[i]
  PROVE  InTurn' /\ Seats'
<1> DEFINE r == [slot |-> at[w], op |-> op, by |-> w]
<1>1. r.slot = at[w] /\ r.op = op /\ r.by = w
  OBVIOUS
<1>2. pc[w] \notin {"none", "teardown"} \cup Going \cup {"linkSig", "waitLink"}
  BY DEF Going
<1>3. ~Released(w) /\ at[w] \in Slots /\ occupant[at[w]] = w
  BY <1>2, SeatFacts DEF Released, Going
<1>4. \A q \in Pending : q.by = w => q.op = "attach" /\ pc[w] # "starting"
  BY <1>2, SeatFacts DEF Seats, Requested, Asks, Driving, Going
<1>5. \A q \in Pending : Follows(q, r)
  BY <1>1, <1>4 DEF Follows
<1>6. InTurn' /\ Pending' = Pending \cup {r}
  BY <1>2, <1>5, QueueGrows
<1> HIDE DEF r
<1>7. /\ \A v \in Workers : v # w => pc'[v] = pc[v] /\ answered'[v] = answered[v]
      /\ pc'[w] = p /\ ~answered'[w] /\ p \in Driving /\ p \notin {"none", "teardown"}
  BY DEF Typed, TypeOK, Queue, Driving
<1>8. \A v \in Workers : Released(v)' <=> Released(v)
  <2>1. ~Released(w)'
    BY <1>7 DEF Released
  <2>2. \A v \in Workers : v # w => (Released(v)' <=> Released(v))
    BY <1>7 DEF Released
  <2> QED
    BY <1>3, <2>1, <2>2
<1>9. SlotsExact'
  <2>1. \A v \in Workers : ~Released(v)' => occupant'[at'[v]] = v
    BY <1>8 DEF Seats, SlotsExact
  <2>2. ASSUME NEW i \in Slots, occupant'[i] = None
        PROVE  ~attached'[i] /\ ~monitored'[i] /\ ~listed'[i] /\ link'[i] = None
                 /\ inbox'[i] = <<>>
    <3>1. occupant[i] # w
      BY <2>2, SeatFacts
    <3> QED
      BY <2>2, <3>1 DEF Seats, SlotsExact
  <2>3. ASSUME NEW i \in Slots, occupant'[i] # None
        PROVE  ~Released(occupant[i])' /\ at'[occupant'[i]] = i
    BY <1>8, <2>3, SeatFacts DEF Released
  <2>4. \A v \in Workers : term'[v] # "no" => pc'[v] \in Driving
    BY <1>7 DEF Seats, SlotsExact
  <2>5. toStop' # None => attached'[toStop']
    BY DEF Seats, SlotsExact
  <2> QED
    BY <2>1, <2>2, <2>3, <2>4, <2>5 DEF SlotsExact
<1>10. pc[w] = "starting" => ~attached[at[w]]
  <2>1. "starting" \notin Driving
    BY DEF Driving
  <2> QED
    BY <1>3, <2>1 DEF Seats, Seated
<1>11. Requested'
  <2> SUFFICES ASSUME NEW q \in Pending \cup {r}
               PROVE  q.slot = at[q.by] /\ occupant[q.slot] = q.by /\ Asks(q)'
    BY <1>6 DEF Requested
  <2>1. CASE q = r
    BY <1>1, <1>3, <1>7, <1>10, <2>1 DEF Asks
  <2>2. CASE q \in Pending
    <3>1. q.by \in Workers /\ q.slot = at[q.by] /\ occupant[q.slot] = q.by /\ Asks(q)
      BY <2>2, SeatFacts DEF Seats, Requested
    <3>2. CASE q.by # w
      BY <1>7, <3>1, <3>2 DEF Asks
    <3>3. CASE q.by = w
      BY <1>4, <1>7, <2>2, <3>1, <3>3 DEF Asks
    <3> QED
      BY <3>2, <3>3, <3>1
  <2> QED
    BY <2>1, <2>2
<1>12. Seated'
  <2>1. \A i \in Slots : attached'[i] => pc'[occupant'[i]] \in Driving
    BY <1>7, SeatFacts DEF Seats, Seated
  <2>2. ASSUME NEW v \in Workers, pc'[v] \in Driving \ Going
        PROVE  attached'[at'[v]] \/ \E q \in Pending' : q.op = "attach" /\ q.by = v
    <3>1. CASE v # w
      BY <1>6, <1>7, <2>2, <3>1 DEF Seats, Seated
    <3>2. CASE v = w /\ op = "attach"
      BY <1>1, <1>6, <3>2
    <3>3. CASE v = w /\ op # "attach"
      <4>1. p = "linkSig" /\ pc[w] \in Driving \ Going
        BY <1>7, <2>2, <3>3 DEF Driving, Going
      <4> QED
        BY <1>6, <3>3, <4>1 DEF Seats, Seated
    <3> QED
      BY <3>1, <3>2, <3>3
  <2> QED
    BY <2>1, <2>2 DEF Seats, Seated
<1> QED
  BY <1>6, <1>9, <1>11, <1>12 DEF Seats

\* A push changes one inbox.
LEMMA PushOne ==
  ASSUME Typed, NEW i \in Slots, NEW ms, push(i, ms)
  PROVE  inbox'[i] = inbox[i] \o ms /\ \A j \in Slots : j # i => inbox'[j] = inbox[j]
BY DEF push, Typed, TypeOK

\* The rounds of the loop.
LEMMA RoundSeats ==
  ASSUME Typed, InTurn, Seats,
         RequestTerminate \/ EndEvents \/ EndDrain \/ Deinit \/ Saturated \/ Stop
  PROVE  InTurn' /\ Seats'
<1>1. CASE RequestTerminate
  <2>1. InTurn' /\ Pending' = Pending
    BY <1>1, QueueRests DEF RequestTerminate, turn
  <2>2. \A w \in Workers : term'[w] # "no" => term[w] # "no" \/ pc[w] \in Driving
    <3>1. pc[occupant[toStop]] \in Driving
      BY <1>1 DEF RequestTerminate, Seats, SlotsExact, Seated, Typed, TypeOK
    <3> QED
      BY <1>1, <3>1 DEF RequestTerminate, Typed, TypeOK
  <2> QED
    BY <1>1, <2>1, <2>2, SlotsQuiet DEF RequestTerminate, slotVars, seat, own, mind
<1>2. CASE EndEvents
  <2>1. InTurn' /\ Pending' = Pending
    BY <1>2, QueueSwaps
  <2> QED
    BY <1>2, <2>1, SlotsQuiet DEF EndEvents, slotVars, seat, flags, own, mind
<1>3. CASE EndDrain
  <2>1. InTurn' /\ Pending' = Pending
    BY <1>3, QueueRests DEF EndDrain
  <2>2. \A w \in Workers : term'[w] # "no" => term[w] # "no" \/ pc[w] \in Driving
    <3>1. CASE term' = term
      BY <3>1
    <3>2. CASE beginShutdown
      <4> SUFFICES ASSUME NEW w \in Workers, term'[w] # "no", term[w] = "no"
                   PROVE  pc[w] \in Driving
        OBVIOUS
      <4>1. \E i \in {j \in Slots \ Free : attached[j]} : occupant[i] = w
        BY <3>2 DEF beginShutdown
      <4> QED
        BY <4>1 DEF Seats, Seated
    <3> QED
      BY <1>3, <3>1, <3>2 DEF EndDrain
  <2> QED
    BY <1>3, <2>1, <2>2, SlotsQuiet DEF EndDrain, slotVars, seat, own, mind
<1>4. CASE Deinit
  <2>1. InTurn' /\ Pending' = Pending
    BY <1>4, QueueRests DEF Deinit, shared
  <2> QED
    BY <1>4, <2>1, SlotsQuiet DEF Deinit, slotVars, seat, shared, flags, own, mind
<1>5. CASE Saturated
  <2>1. InTurn' /\ Pending' = Pending
    BY <1>5, QueueRests DEF Saturated, turn
  <2> QED
    BY <1>5, <2>1, SlotsQuiet DEF Saturated, slotVars, seat, flags, own, mind
<1>6. CASE Stop
  <2>1. InTurn' /\ Pending' = Pending
    BY <1>6, QueueRests DEF Stop, server, loopVars, turn
  <2> QED
    BY <1>6, <2>1, SlotsQuiet DEF Stop, server, loopVars, slotVars, seat, flags, own, mind
<1> QED
  BY <1>1, <1>2, <1>3, <1>4, <1>5, <1>6

\* What arrives for a slot.
LEMMA EventSeats ==
  ASSUME Typed, InTurn, Seats, IdleExact, NEW c, NEW i \in Slots,
         \/ c \in Conns /\ (HttpClose(c) \/ Accept(c) \/ AttachConnection(c, i))
         \/ DeleteSession(i) \/ ReapSession \/ ReadCommand(i) \/ ReadClose(i) \/ DropWebSocket(i)
  PROVE  InTurn' /\ Seats'
<1>1. CASE c \in Conns /\ (HttpClose(c) \/ Accept(c))
  <2>1. InTurn' /\ Pending' = Pending
    BY <1>1, QueueRests DEF HttpClose, Accept, server, loopVars, turn
  <2> QED
    BY <1>1, <2>1, SlotsQuiet DEF HttpClose, Accept, server, loopVars, turn, slotVars, seat,
      flags, own, mind
<1>2. CASE c \in Conns /\ AttachConnection(c, i)
  <2>1. InTurn' /\ Pending' = Pending
    BY <1>2, QueueRests DEF AttachConnection, turn
  <2>2. occupant[i] # None /\ occupant[i] \notin Conns
    BY <1>2, SeatFacts, Constants DEF AttachConnection, Seats, Seated
  <2>3. \A j \in Slots : j # i => inbox'[j] = inbox[j] /\ link'[j] = link[j]
                                    /\ monitored'[j] = monitored[j]
    BY <1>2, PushOne DEF AttachConnection, Typed, TypeOK
  <2> QED
    BY <1>2, <2>1, <2>2, <2>3, SlotsQuiet DEF AttachConnection, seat, flags, own, mind
<1>3. ASSUME NEW j \in Slots, listed[j], quitSession(j),
             UNCHANGED <<turn, paused, drain, occupant, attached, link, monitored,
                         queue, wake, flags, sock, own, fault>>
      PROVE  InTurn' /\ Seats'
  <2>1. InTurn' /\ Pending' = Pending
    BY <1>3, QueueRests DEF turn
  <2>2. occupant[j] # None
    BY <1>3, SeatFacts
  <2>3. /\ \A k \in Slots : k # j => inbox'[k] = inbox[k] /\ listed'[k] = listed[k]
        /\ \A k \in Slots : listed'[k] => listed[k]
    BY <1>3, PushOne DEF quitSession, Typed, TypeOK
  <2>4. toStop' = None \/ (toStop' \in Slots /\ attached[toStop'])
    BY <1>3 DEF quitSession, askToStop
  <2> QED
    BY <1>3, <2>1, <2>2, <2>3, <2>4, SlotsQuiet DEF flags, own, mind
<1>4. CASE DeleteSession(i)
  BY <1>3, <1>4 DEF DeleteSession
<1>5. CASE ReapSession
  <2>1. Head(idle) \in Slots /\ Head(idle) \in Range(idle)
    BY <1>5, HeadTail DEF ReapSession, Typed, TypeOK, Range
  <2>2. listed[Head(idle)]
    BY <2>1 DEF IdleExact
  <2> QED
    BY <1>3, <1>5, <2>1, <2>2 DEF ReapSession
<1>6. CASE ReadCommand(i) \/ ReadClose(i) \/ DropWebSocket(i)
  <2>1. InTurn' /\ Pending' = Pending
    BY <1>6, QueueRests DEF ReadCommand, ReadClose, DropWebSocket, server, loopVars, turn
  <2>2. occupant[i] # None
    BY <1>6, SeatFacts DEF ReadCommand, ReadClose, DropWebSocket, Polled
  <2>3. \A k \in Slots : k # i => inbox'[k] = inbox[k] /\ monitored'[k] = monitored[k]
    BY <1>6, PushOne DEF ReadCommand, ReadClose, DropWebSocket, server, slotVars, Typed, TypeOK
  <2>4. toStop' = toStop \/ toStop' = None \/ (toStop' \in Slots /\ attached[toStop'])
    BY <1>6 DEF ReadCommand, ReadClose, DropWebSocket, askToStop, server, loopVars
  <2> QED
    BY <1>6, <2>1, <2>2, <2>3, <2>4, SlotsQuiet DEF ReadCommand, ReadClose, DropWebSocket,
      server, slotVars, seat, flags, own, mind
<1> QED
  BY <1>1, <1>2, <1>4, <1>5, <1>6

\* A worker that drives has its slot, and its mail is there.
LEMMA Driver ==
  ASSUME Typed, Seats, NEW w \in Workers, pc[w] \in Driving \ Going \/ pc[w] = "starting"
  PROVE  /\ ~Released(w) /\ at[w] \in Slots /\ occupant[at[w]] = w
         /\ \A k : Pop(w, k) => \A i \in Slots : occupant[i] # w => inbox'[i] = inbox[i]
<1>1. ~Released(w)
  BY DEF Released, Driving, Going
<1>2. at[w] \in Slots /\ occupant[at[w]] = w
  BY <1>1, SeatFacts
<1> QED
  BY <1>1, <1>2 DEF Pop, Typed, TypeOK

\* A worker drives on.
LEMMA DrivingSeats ==
  ASSUME Typed, InTurn, Seats, NEW w \in Workers,
         Tick(w) \/ PumpEnds(w) \/ RunScript(w) \/ ScriptReturns(w) \/ OnCommand(w)
           \/ DestroyLink(w) \/ Signal(w) \/ Disarm(w) \/ Teardown(w)
  PROVE  InTurn' /\ Seats'
<1>1. InTurn' /\ Pending' = Pending
  BY QueueRests DEF Tick, PumpEnds, RunScript, ScriptReturns, OnCommand, DestroyLink, Signal,
    Disarm, Teardown, server, loopVars, turn, shared
<1>2. UNCHANGED <<occupant, attached, listed, link, monitored, toStop>>
  BY DEF Tick, PumpEnds, RunScript, ScriptReturns, OnCommand, DestroyLink, Signal,
    Disarm, Teardown, server, loopVars, slotVars, seat
<1>3. {"pump", "script", "terminal", "tick", "waitLink"} \subseteq Driving \ Going
  BY DEF Driving, Going
<1>4. CASE Tick(w) \/ PumpEnds(w) \/ RunScript(w) \/ ScriptReturns(w)
  <2>1. PICK p \in {"pump", "terminal", "tick", "script"} : pc' = [pc EXCEPT ![w] = p]
    BY <1>4 DEF Tick, PumpEnds, RunScript, ScriptReturns, Goes
  <2>2. pc[w] \in {"tick", "pump", "script"} /\ UNCHANGED <<at, answered, term, inbox>>
    BY <1>4 DEF Tick, PumpEnds, RunScript, ScriptReturns, shared, flags, mind
  <2>3. \A r \in Pending : r.by = w => r.op # "release_link"
    BY <2>2 DEF Seats, Requested, Asks
  <2> QED
    <3>1. /\ pc[w] \in Driving /\ pc[w] \notin Going /\ ~Released(w)
          /\ p \in Driving /\ p \notin Going
      BY <1>3, <2>1, <2>2, Driver
    <3>2. UNCHANGED <<occupant, attached, listed, link, monitored, at, toStop>>
      BY <1>2, <2>1, <2>2
    <3> QED
      BY <1>1, <2>1, <2>2, <2>3, <3>1, <3>2, WorkerMoves
<1>5. CASE OnCommand(w)
  <2>1. pc[w] = "pump" /\ UNCHANGED <<at, answered, term>>
    BY <1>5 DEF OnCommand, flags, mind
  <2>2. PICK p \in {"pump", "script"} : pc' = [pc EXCEPT ![w] = p]
    <3>1. pc = [pc EXCEPT ![w] = "pump"]
      BY <2>1 DEF Typed, TypeOK
    <3> QED
      BY <1>5, <3>1 DEF OnCommand, Goes
  <2>3. \A i \in Slots : occupant[i] # w => inbox'[i] = inbox[i]
    BY <1>3, <1>5, <2>1, Driver DEF OnCommand, Pop, Typed, TypeOK
  <2>4. \A r \in Pending : r.by = w => r.op # "release_link"
    BY <2>1 DEF Seats, Requested, Asks
  <2> QED
    <3>1. /\ pc[w] \in Driving /\ pc[w] \notin Going /\ ~Released(w)
          /\ p \in Driving /\ p \notin Going
      BY <1>3, <2>1, <2>2, Driver
    <3>2. UNCHANGED <<occupant, attached, listed, link, monitored, at, toStop>>
      BY <1>2, <2>1, <2>2
    <3> QED
      BY <1>1, <2>1, <2>2, <2>3, <2>4, <3>1, <3>2, WorkerMoves
<1>6. CASE DestroyLink(w)
  <2>1. /\ pc[w] = "waitLink" /\ answered[w] /\ UNCHANGED <<at, term, inbox>>
        /\ pc' = [pc EXCEPT ![w] = back[w]] /\ back[w] \in {"pump", "script", "terminal"}
        /\ \A v \in Workers : v # w => answered'[v] = answered[v]
    BY <1>6 DEF DestroyLink, Goes, Typed, TypeOK
  <2>2. \A r \in Pending : r.by = w => r.op # "release_link"
    BY <2>1 DEF Seats, Requested, Asks
  <2> QED
    <3>1. /\ pc[w] \in Driving /\ pc[w] \notin Going /\ ~Released(w)
          /\ back[w] \in Driving /\ back[w] \notin Going
      BY <1>3, <2>1, <2>2, Driver
    <3>2. UNCHANGED <<occupant, attached, listed, link, monitored, at, toStop>>
      BY <1>2, <2>1, <2>2
    <3> QED
      BY ZenonT(60), <1>1, <2>1, <2>2, <3>1, <3>2, WorkerMoves
<1>7. CASE Signal(w) /\ pc[w] # "releaseSig"
  <2>1. PICK p \in {"tick", "waitLink"} :
          /\ pc' = [pc EXCEPT ![w] = p] /\ (p = "tick" <=> pc[w] = "attachSig")
          /\ pc[w] \in {"attachSig", "linkSig"}
    <3>1. /\ Signals["attachSig"] = "tick" /\ Signals["linkSig"] = "waitLink"
          /\ pc[w] \in {"attachSig", "linkSig"}
      BY <1>7 DEF Signal, Signals
    <3>2. pc' = [pc EXCEPT ![w] = Signals[pc[w]]]
      BY <1>7 DEF Signal, Goes
    <3> QED
      BY <3>1, <3>2
  <2>2. UNCHANGED <<at, answered, term, inbox>>
    BY <1>7 DEF Signal, flags, mind
  <2>3. {"attachSig", "linkSig"} \subseteq Driving \ Going
    BY DEF Driving, Going
  <2>4. \A r \in Pending : r.by = w /\ r.op = "release_link" => p = "waitLink" /\ ~answered'[w]
    BY <2>1, <2>2 DEF Seats, Requested, Asks
  <2> QED
    <3>1. /\ pc[w] \in Driving /\ pc[w] \notin Going /\ ~Released(w)
          /\ p \in Driving /\ p \notin Going
      BY <1>3, <2>1, <2>2, <2>3, Driver
    <3>2. UNCHANGED <<occupant, attached, listed, link, monitored, at, toStop>>
      BY <1>2, <2>1, <2>2
    <3> QED
      BY <1>1, <2>1, <2>2, <2>4, <3>1, <3>2, WorkerMoves
<1>8. CASE Signal(w) /\ pc[w] = "releaseSig"
  <2>1. pc' = [pc EXCEPT ![w] = "waitRelease"] /\ UNCHANGED <<at, answered, term, inbox>>
    BY <1>8 DEF Signal, Signals, Goes, flags, mind
  <2>2. {"releaseSig", "waitRelease"} \subseteq Driving /\ Going = {"releaseSig", "waitRelease"}
    BY DEF Driving, Going
  <2>3. CASE answered[w]
    <3>1. Released(w)
      BY <1>8, <2>3 DEF Released
    <3> QED
      BY <1>1, <1>2, <2>1, <2>3, <3>1, ReleasedMoves
  <2>4. CASE ~answered[w]
    <3>1. ~Released(w) /\ \A r \in Pending : r.by = w => r.op # "release_link"
      BY <1>8, <2>4 DEF Released, Seats, Requested, Asks
    <3> QED
      BY <1>1, <1>2, <1>8, <2>1, <2>2, <2>4, <3>1, WorkerMoves
  <2> QED
    BY <2>3, <2>4
<1>9. CASE Disarm(w) \/ Teardown(w)
  <2>1. PICK p \in {"teardown", "none"} : pc' = [pc EXCEPT ![w] = p]
    BY <1>9 DEF Disarm, Teardown, Goes
  <2>2. Released(w)
    BY <1>9 DEF Disarm, Teardown, Released
  <2>3. inbox' = inbox /\ \A v \in Workers : v # w =>
          answered'[v] = answered[v] /\ term'[v] = term[v] /\ at'[v] = at[v]
    BY <1>9 DEF Disarm, Teardown, flags, mind, Typed, TypeOK
  <2>4. term'[w] = "no"
    <3>1. pc[w] = "teardown" => term[w] = "no"
      BY DEF Seats, SlotsExact, Driving
    <3> QED
      BY <1>9, <3>1 DEF Disarm, Teardown, flags, Typed, TypeOK
  <2> QED
    BY <1>1, <1>2, <2>1, <2>2, <2>3, <2>4, ReleasedMoves
<1> QED
  BY <1>4, <1>5, <1>6, <1>7, <1>8, <1>9

\* A worker asks, or is told something.
LEMMA AskingSeats ==
  ASSUME Typed, InTurn, Seats, NEW w \in Workers,
         Start(w) \/ StartFails(w) \/ TickFails(w) \/ Killed(w) \/ OnLink(w) \/ OnEnd(w)
           \/ OnLinkGone(w) \/ Stuck(w)
  PROVE  InTurn' /\ Seats'
<1>1. UNCHANGED <<phase, drain, occupant, attached, listed, link, monitored, toStop, at>>
  BY DEF Start, StartFails, TickFails, Killed, OnLink, OnEnd, OnLinkGone, Stuck, server, loopVars,
    turn, slotVars, seat, own, mind
<1>2. {"pump", "script", "terminal"} \subseteq Driving \ Going
  BY DEF Driving, Going
<1>3. ASSUME queue' = queue, pc' = pc, answered' = answered, term' = term \/ Stuck(w),
             pc[w] \in {"pump", "script", "terminal"}, (\E k : Pop(w, k)) \/ inbox' = inbox
      PROVE  InTurn' /\ Seats'
  <2>1. InTurn' /\ Pending' = Pending
    BY <1>1, <1>3, QueueRests
  <2>2. \A i \in Slots : occupant[i] = None => inbox'[i] = inbox[i]
    BY <1>2, <1>3, Driver, Constants
  <2>3. \A v \in Workers : term'[v] # "no" => term[v] # "no" \/ pc[v] \in Driving
    BY <1>2, <1>3 DEF Stuck, Typed, TypeOK
  <2> QED
    BY <1>1, <1>3, <2>1, <2>2, <2>3, SlotsQuiet
<1>4. CASE Start(w)
  BY <1>1, <1>4, WorkerAsks DEF Start, Goes
<1>5. CASE StartFails(w) \/ TickFails(w) \/ Killed(w)
  BY <1>1, <1>5, WorkerAsks DEF StartFails, TickFails, Killed, Leave, Goes
<1>6. CASE OnLink(w)
  BY <1>3, <1>6 DEF OnLink, Drains, flags
<1>7. CASE OnEnd(w)
  <2>1. PICK mode \in {"pump", "script", "terminal"}, k \in DOMAIN Mail(w) :
          pc[w] = mode /\ Pop(w, k) /\ Done(w, mode)
    BY <1>7 DEF OnEnd, Drains
  <2>2. term' = term
    BY <1>7 DEF OnEnd
  <2>3. CASE mode = "script"
    BY <1>3, <2>1, <2>2, <2>3 DEF Done
  <2>4. CASE mode # "script"
    <3>1. Queue(w, "release") /\ pc' = [pc EXCEPT ![w] = "releaseSig"]
      BY <2>1, <2>4 DEF Done, Leave, Goes
    <3>2. \A i \in Slots : occupant[i] # w => inbox'[i] = inbox[i]
      BY <1>2, <2>1, Driver
    <3> QED
      BY <1>1, <2>1, <2>2, <3>1, <3>2, WorkerAsks
  <2> QED
    BY <2>3, <2>4
<1>8. CASE OnLinkGone(w)
  <2>1. PICK mode \in {"pump", "script", "terminal"}, k \in DOMAIN Mail(w) :
          /\ pc[w] = mode /\ Pop(w, k)
          /\ IF held[w] = None THEN UNCHANGED <<queue, answered, pc>>
             ELSE Queue(w, "release_link") /\ Goes(w, "linkSig")
    BY <1>8 DEF OnLinkGone, Drains
  <2>2. term' = term
    BY <1>8 DEF OnLinkGone
  <2>3. CASE held[w] = None
    BY <1>3, <2>1, <2>2, <2>3
  <2>4. CASE held[w] # None
    <3>1. Queue(w, "release_link") /\ pc' = [pc EXCEPT ![w] = "linkSig"]
      BY <2>1, <2>4 DEF Goes
    <3>2. \A i \in Slots : occupant[i] # w => inbox'[i] = inbox[i]
      BY <1>2, <2>1, Driver
    <3> QED
      BY <1>1, <2>1, <2>2, <3>1, <3>2, WorkerAsks
  <2> QED
    BY <2>3, <2>4
<1>9. CASE Stuck(w)
  BY <1>3, <1>9 DEF Stuck, own
<1> QED
  BY <1>4, <1>5, <1>6, <1>7, <1>8, <1>9

\* A free slot gets a thread.
LEMMA SpawnSeats ==
  ASSUME Typed, InTurn, Seats, NEW w \in Workers, NEW i \in Free, pc[w] = "none", Spawned(w, i),
         UNCHANGED <<phase, toStop, drain, queue, attached, link, monitored, inbox, flags>>
  PROVE  InTurn' /\ Seats'
<1>1. InTurn' /\ Pending' = Pending
  BY QueueRests
<1>2. i \in Slots /\ occupant[i] = None /\ Released(w)
  BY DEF Free, Released
<1>3. /\ occupant'[i] = w /\ pc'[w] = "starting" /\ at'[w] = i /\ listed'[i] = (w \in Sessions)
      /\ \A j \in Slots : j # i => occupant'[j] = occupant[j] /\ listed'[j] = listed[j]
      /\ \A v \in Workers : v # w => pc'[v] = pc[v] /\ at'[v] = at[v]
  BY <1>2 DEF Spawned, Typed, TypeOK
<1>4. /\ UNCHANGED <<answered, term>> /\ w # None
      /\ \A j \in Slots : occupant[j] # w
      /\ \A q \in Pending : q.by \in Workers /\ q.slot \in Slots /\ q.by # w /\ q.slot # i
  BY <1>2, SeatFacts, Constants DEF flags, Seats, Requested
<1>5. ~Released(w)' /\ \A v \in Workers : v # w => (Released(v)' <=> Released(v))
  BY <1>3, <1>4 DEF Released
<1>6. SlotsExact'
  <2>1. \A v \in Workers : ~Released(v)' => occupant'[at'[v]] = v
    <3> SUFFICES ASSUME NEW v \in Workers, ~Released(v)' PROVE occupant'[at'[v]] = v
      OBVIOUS
    <3>1. CASE v = w
      BY <1>3, <3>1
    <3>2. CASE v # w
      <4>1. at[v] \in Slots /\ occupant[at[v]] = v
        BY <1>5, <3>2, SeatFacts
      <4>2. at[v] # i
        BY <1>2, <4>1, Constants
      <4> QED
        BY <1>3, <3>2, <4>1, <4>2
    <3> QED
      BY <3>1, <3>2
  <2>2. ASSUME NEW j \in Slots, occupant'[j] = None
        PROVE  ~attached'[j] /\ ~monitored'[j] /\ ~listed'[j] /\ link'[j] = None
                 /\ inbox'[j] = <<>>
    BY <1>3, <1>4, <2>2 DEF Seats, SlotsExact
  <2>3. ASSUME NEW j \in Slots, occupant'[j] # None
        PROVE  ~Released(occupant[j])' /\ at'[occupant'[j]] = j
    <3>1. CASE j = i
      BY <1>3, <1>5, <3>1 DEF Released
    <3>2. CASE j # i
      <4>1. /\ occupant[j] \in Workers /\ ~Released(occupant[j]) /\ at[occupant[j]] = j
            /\ occupant'[j] = occupant[j] /\ occupant[j] # w
        BY <1>3, <1>4, <2>3, <3>2, SeatFacts
      <4> QED
        BY <1>3, <1>5, <4>1 DEF Released
    <3> QED
      BY <3>1, <3>2
  <2>4. \A v \in Workers : term'[v] # "no" => pc'[v] \in Driving
    <3>1. term[w] = "no"
      BY DEF Seats, SlotsExact, Driving
    <3> QED
      BY <1>3, <1>4, <3>1 DEF Seats, SlotsExact
  <2>5. toStop' # None => attached'[toStop']
    BY DEF Seats, SlotsExact
  <2> QED
    BY <2>1, <2>2, <2>3, <2>4, <2>5 DEF SlotsExact
<1>7. Requested'
  BY <1>1, <1>3, <1>4 DEF Seats, Requested, Asks
<1>8. Seated'
  <2>1. ASSUME NEW j \in Slots, attached'[j] PROVE pc'[occupant'[j]] \in Driving
    <3>1. attached[j] /\ occupant[j] \in Workers /\ occupant[j] # w /\ j # i
      BY <1>2, <1>4, <2>1, SeatFacts
    <3> QED
      BY <1>3, <3>1 DEF Seats, Seated
  <2>2. ASSUME NEW v \in Workers, pc'[v] \in Driving \ Going
        PROVE  attached'[at'[v]] \/ \E q \in Pending' : q.op = "attach" /\ q.by = v
    <3>1. v # w
      BY <1>3, <2>2 DEF Driving
    <3> QED
      BY <1>1, <1>3, <2>2, <3>1 DEF Seats, Seated
  <2>3. \A j \in Slots : listed'[j] => occupant'[j] \in Sessions
    BY <1>3 DEF Seats, Seated
  <2>4. \A j \in Slots : occupant'[j] \in Conns /\ ~attached'[j] => link'[j] = None
    BY <1>2, <1>3 DEF Seats, Seated, SlotsExact
  <2> QED
    BY <2>1, <2>2, <2>3, <2>4 DEF Seated
<1> QED
  BY <1>1, <1>6, <1>7, <1>8 DEF Seats

\* The request that the loop is at.
LEMMA FirstRequest ==
  ASSUME Typed, InTurn, Seats, drain # <<>>, drain' = Tail(drain), UNCHANGED <<queue, phase>>
  PROVE  /\ InTurn' /\ Pending' \subseteq Pending
         /\ Asked \in Slots /\ Asker \in Workers /\ Head(drain).by = Asker /\ at[Asker] = Asked
         /\ occupant[Asked] = Asker /\ ~Released(Asker) /\ Asks(Head(drain))
         /\ Head(drain).slot = Asked /\ Head(drain) \in Pending
         /\ \A q \in Pending : q = Head(drain) \/ q \in Pending'
         /\ \A q \in Pending' : q.by \in Workers /\ q.slot \in Slots
              /\ (q.by = Asker => Head(drain).op = "attach" /\ q.op # "attach")
              /\ (q.slot = Asked => q.by = Asker)
<1>1. /\ InTurn' /\ Head(drain) \in Pending /\ Pending' \subseteq Pending
      /\ (\A q \in Pending : q = Head(drain) \/ q \in Pending')
      /\ \A q \in Pending' : Follows(Head(drain), q)
  BY QueueShrinks
<1>2. /\ Head(drain).by \in Workers /\ Head(drain).slot \in Slots /\ ~Released(Head(drain).by)
      /\ Head(drain).slot = at[Head(drain).by] /\ occupant[Head(drain).slot] = Head(drain).by
      /\ Asks(Head(drain))
  BY <1>1, SeatFacts DEF Seats, Requested
<1>3. Asked \in Slots /\ Asker = Head(drain).by /\ at[Asker] = Asked /\ Head(drain).slot = Asked
  BY <1>2 DEF Asked, Asker
<1>4. \A q \in Pending' : q.by \in Workers /\ q.slot \in Slots /\ occupant[q.slot] = q.by
  BY <1>1, SeatFacts DEF Seats, Requested
<1> QED
  BY <1>1, <1>2, <1>3, <1>4 DEF Follows

\* The loop gets to know a driver.
LEMMA AttachSeats ==
  ASSUME Typed, InTurn, Seats, AttachWorker
  PROVE  InTurn' /\ Seats'
<1> DEFINE i == Asked w == Asker
<1>1. drain # <<>> /\ Head(drain).op = "attach" /\ drain' = Tail(drain)
      /\ UNCHANGED <<queue, phase, occupant, listed, answered, pc, at>>
  BY DEF AttachWorker, Draining, turn, own, mind
<1>2. /\ InTurn' /\ Pending' \subseteq Pending
      /\ i \in Slots /\ w \in Workers /\ Head(drain).by = w /\ occupant[i] = w /\ at[w] = i
      /\ Asks(Head(drain)) /\ Head(drain).slot = i
      /\ \A q \in Pending : q = Head(drain) \/ q \in Pending'
      /\ \A q \in Pending' : q.by \in Workers /\ q.slot \in Slots
           /\ (q.by = w => q.op # "attach") /\ (q.slot = i => q.by = w)
  BY <1>1, FirstRequest
<1>3. pc[w] \in Driving /\ ~attached[i] /\ w # None
  BY <1>1, <1>2, Constants DEF Asks
<1>4. /\ attached' = [attached EXCEPT ![i] = TRUE]
      /\ \A j \in Slots : j # i => link'[j] = link[j] /\ monitored'[j] = monitored[j]
                                    /\ inbox'[j] = inbox[j]
      /\ toStop' = toStop \/ toStop' = i
      /\ \A v \in Workers : v # w => term'[v] = term[v]
  <2>1. attached' = [attached EXCEPT ![i] = TRUE]
    BY DEF AttachWorker
  <2>2. \A j \in Slots : j # i => link'[j] = link[j] /\ monitored'[j] = monitored[j]
    BY DEF AttachWorker, Typed, TypeOK
  <2>3. \A j \in Slots : j # i => inbox'[j] = inbox[j]
    BY <1>2, PushOne DEF AttachWorker
  <2>4. toStop' = toStop \/ toStop' = i
    BY DEF AttachWorker
  <2>5. \A v \in Workers : v # w => term'[v] = term[v]
    BY DEF AttachWorker, Typed, TypeOK
  <2> QED
    BY <2>1, <2>2, <2>3, <2>4, <2>5
<1> HIDE DEF i, w
<1>5. attached'[i] /\ \A j \in Slots : j # i => attached'[j] = attached[j]
  BY <1>2, <1>4 DEF Typed, TypeOK
<1>6. \A v \in Workers : Released(v)' <=> Released(v)
  BY <1>1 DEF Released
<1>7. SlotsExact'
  <2>1. \A v \in Workers : ~Released(v)' => occupant'[at'[v]] = v
    BY <1>1, <1>6 DEF Seats, SlotsExact
  <2>2. ASSUME NEW j \in Slots, occupant'[j] = None
        PROVE  ~attached'[j] /\ ~monitored'[j] /\ ~listed'[j] /\ link'[j] = None
                 /\ inbox'[j] = <<>>
    <3>1. j # i
      BY <1>1, <1>2, <1>3, <2>2
    <3> QED
      BY <1>1, <1>4, <1>5, <2>2, <3>1 DEF Seats, SlotsExact
  <2>3. ASSUME NEW j \in Slots, occupant'[j] # None
        PROVE  ~Released(occupant[j])' /\ at'[occupant'[j]] = j
    BY <1>1, <1>6, <2>3, SeatFacts DEF Released
  <2>4. \A v \in Workers : term'[v] # "no" => pc'[v] \in Driving
    BY <1>1, <1>3, <1>4 DEF Seats, SlotsExact
  <2>5. toStop' # None => attached'[toStop']
    <3>1. toStop # None => toStop \in Slots /\ attached[toStop]
      BY DEF Typed, TypeOK, Seats, SlotsExact
    <3> QED
      BY <1>4, <1>5, <3>1
  <2> QED
    BY <2>1, <2>2, <2>3, <2>4, <2>5 DEF SlotsExact
<1>8. Requested'
  <2> SUFFICES ASSUME NEW q \in Pending' PROVE (q.slot = at[q.by] /\ occupant[q.slot] = q.by /\ Asks(q))'
    BY DEF Requested
  <2>1. q \in Pending /\ q.slot = at[q.by] /\ occupant[q.slot] = q.by /\ Asks(q)
    BY <1>2 DEF Seats, Requested
  <2>2. q.op = "attach" => q.slot # i /\ q.slot \in Slots
    BY <1>2
  <2> QED
    BY <1>1, <1>5, <2>1, <2>2 DEF Asks
<1>9. Seated'
  <2>1. \A j \in Slots : attached'[j] => pc'[occupant'[j]] \in Driving
    BY <1>1, <1>2, <1>3, <1>5 DEF Seats, Seated
  <2>2. ASSUME NEW v \in Workers, pc'[v] \in Driving \ Going
        PROVE  attached'[at'[v]] \/ \E q \in Pending' : q.op = "attach" /\ q.by = v
    <3>1. CASE v = w
      BY <1>1, <1>2, <1>5, <3>1
    <3>2. CASE v # w
      <4>1. at[v] \in Slots
        BY <1>1, <2>2 DEF Typed, Placed, Driving
      <4>2. attached[at[v]] \/ \E q \in Pending : q.op = "attach" /\ q.by = v
        BY <1>1, <2>2 DEF Seats, Seated
      <4> QED
        BY <1>1, <1>2, <1>5, <3>2, <4>1, <4>2
    <3> QED
      BY <3>1, <3>2
  <2>3. \A j \in Slots : listed'[j] => occupant'[j] \in Sessions
    BY <1>1 DEF Seats, Seated
  <2>4. \A j \in Slots : occupant'[j] \in Conns /\ ~attached'[j] => link'[j] = None
    BY <1>1, <1>4, <1>5 DEF Seats, Seated
  <2> QED
    BY <2>1, <2>2, <2>3, <2>4 DEF Seated
<1> QED
  BY <1>2, <1>7, <1>8, <1>9 DEF Seats

\* The loop lets go of a link.
LEMMA LetGoSeats ==
  ASSUME Typed, InTurn, Seats, ReleaseLink
  PROVE  InTurn' /\ Seats'
<1> DEFINE i == Asked w == Asker
<1>1. drain # <<>> /\ Head(drain).op = "release_link" /\ drain' = Tail(drain)
      /\ UNCHANGED <<queue, phase, occupant, attached, listed, term, inbox, toStop, pc, at>>
  BY DEF ReleaseLink, Draining, turn, seat, own, mind
<1>2. /\ InTurn' /\ Pending' \subseteq Pending
      /\ i \in Slots /\ w \in Workers /\ Head(drain).by = w /\ occupant[i] = w /\ at[w] = i
      /\ Asks(Head(drain))
      /\ \A q \in Pending : q = Head(drain) \/ q \in Pending'
      /\ \A q \in Pending' : q.by \in Workers /\ q.slot \in Slots /\ q.by # w
  BY <1>1, FirstRequest
<1>3. pc[w] \in {"linkSig", "waitLink"} /\ w # None
  BY <1>1, <1>2, Constants DEF Asks
<1>4. /\ \A v \in Workers : v # w => answered'[v] = answered[v]
      /\ \A j \in Slots : j # i => link'[j] = link[j] /\ monitored'[j] = monitored[j]
      /\ link'[i] = None
  BY <1>2 DEF ReleaseLink, Typed, TypeOK
<1> HIDE DEF i, w
<1>6. \A v \in Workers : Released(v)' <=> Released(v)
  <2>1. \A v \in Workers : v = w => ~Released(v) /\ ~Released(v)'
    BY <1>1, <1>3 DEF Released
  <2>2. \A v \in Workers : v # w => (Released(v)' <=> Released(v))
    BY <1>1, <1>4 DEF Released
  <2> QED
    BY <2>1, <2>2
<1>7. SlotsExact'
  <2>1. \A v \in Workers : ~Released(v)' => occupant'[at'[v]] = v
    BY <1>1, <1>6 DEF Seats, SlotsExact
  <2>2. ASSUME NEW j \in Slots, occupant'[j] = None
        PROVE  ~attached'[j] /\ ~monitored'[j] /\ ~listed'[j] /\ link'[j] = None
                 /\ inbox'[j] = <<>>
    <3>1. j # i
      BY <1>1, <1>2, <1>3, <2>2
    <3> QED
      BY <1>1, <1>4, <2>2, <3>1 DEF Seats, SlotsExact
  <2>3. ASSUME NEW j \in Slots, occupant'[j] # None
        PROVE  ~Released(occupant[j])' /\ at'[occupant'[j]] = j
    <3>1. occupant'[j] = occupant[j] /\ occupant[j] \in Workers /\ ~Released(occupant[j])
            /\ at[occupant[j]] = j
      BY <1>1, <2>3, SeatFacts
    <3> QED
      BY <1>1, <1>6, <3>1 DEF Released
  <2>4. \A v \in Workers : term'[v] # "no" => pc'[v] \in Driving
    BY <1>1 DEF Seats, SlotsExact
  <2>5. toStop' # None => attached'[toStop']
    BY <1>1 DEF Seats, SlotsExact
  <2> QED
    BY <2>1, <2>2, <2>3, <2>4, <2>5 DEF SlotsExact
<1>8. Requested'
  <2> SUFFICES ASSUME NEW q \in Pending' PROVE (q.slot = at[q.by] /\ occupant[q.slot] = q.by /\ Asks(q))'
    BY DEF Requested
  <2>1. q \in Pending /\ q.slot = at[q.by] /\ occupant[q.slot] = q.by /\ Asks(q)
    BY <1>2 DEF Seats, Requested
  <2> QED
    BY <1>1, <1>2, <1>4, <2>1 DEF Asks
<1>9. Seated'
  <2>1. /\ \A j \in Slots : attached'[j] => pc'[occupant'[j]] \in Driving
        /\ \A j \in Slots : listed'[j] => occupant'[j] \in Sessions
    BY <1>1 DEF Seats, Seated
  <2>2. ASSUME NEW v \in Workers, pc'[v] \in Driving \ Going
        PROVE  attached'[at'[v]] \/ \E q \in Pending' : q.op = "attach" /\ q.by = v
    BY <1>1, <1>2, <2>2 DEF Seats, Seated
  <2>4. \A j \in Slots : occupant'[j] \in Conns /\ ~attached'[j] => link'[j] = None
    BY <1>1, <1>4 DEF Seats, Seated
  <2> QED
    BY <2>1, <2>2, <2>4 DEF Seated
<1> QED
  BY <1>2, <1>7, <1>8, <1>9 DEF Seats

\* The loop lets go of a worker.
LEMMA FreeSeats ==
  ASSUME Typed, InTurn, Seats, ReleaseWorker
  PROVE  InTurn' /\ Seats'
<1> DEFINE i == Asked w == Asker
<1>1. drain # <<>> /\ Head(drain).op = "release" /\ drain' = Tail(drain) /\ toStop' = None
      /\ UNCHANGED <<queue, phase, term, pc, at>>
  BY DEF ReleaseWorker, Draining, Loop, turn, own, mind
<1>2. /\ InTurn' /\ Pending' \subseteq Pending
      /\ i \in Slots /\ w \in Workers /\ Head(drain).by = w /\ occupant[i] = w /\ at[w] = i
      /\ Asks(Head(drain))
      /\ \A q \in Pending : q = Head(drain) \/ q \in Pending'
      /\ \A q \in Pending' : q.by \in Workers /\ q.slot \in Slots /\ q.by # w /\ q.slot # i
  BY <1>1, FirstRequest
<1>3. pc[w] \in Going /\ w # None
  BY <1>1, <1>2, Constants DEF Asks, Going
<1>4. /\ \A v \in Workers : v # w => answered'[v] = answered[v]
      /\ answered'[w] = TRUE
      /\ \A j \in Slots : j # i =>
           /\ link'[j] = link[j] /\ monitored'[j] = monitored[j] /\ occupant'[j] = occupant[j]
           /\ attached'[j] = attached[j] /\ listed'[j] = listed[j] /\ inbox'[j] = inbox[j]
      /\ occupant'[i] = None /\ attached'[i] = FALSE /\ link'[i] = None
      /\ monitored'[i] = FALSE /\ listed'[i] = FALSE /\ inbox'[i] = <<>>
  BY <1>2 DEF ReleaseWorker, Typed, TypeOK
<1> HIDE DEF i, w
<1>5. \A v \in Workers : ~Released(v) /\ v # w => at[v] \in Slots /\ occupant[at[v]] = v /\ at[v] # i
  BY <1>2, SeatFacts
<1>6. \A v \in Workers : IF v = w THEN Released(v)' ELSE Released(v)' <=> Released(v)
  <2>1. \A v \in Workers : v = w => Released(v)'
    BY <1>1, <1>3, <1>4 DEF Released, Going
  <2>2. \A v \in Workers : v # w => (Released(v)' <=> Released(v))
    BY <1>1, <1>4 DEF Released
  <2> QED
    BY <2>1, <2>2
<1>7. SlotsExact'
  <2>1. \A v \in Workers : ~Released(v)' => occupant'[at'[v]] = v
    BY <1>1, <1>4, <1>5, <1>6
  <2>2. ASSUME NEW j \in Slots, occupant'[j] = None
        PROVE  ~attached'[j] /\ ~monitored'[j] /\ ~listed'[j] /\ link'[j] = None
                 /\ inbox'[j] = <<>>
    BY <1>4, <2>2 DEF Seats, SlotsExact
  <2>3. ASSUME NEW j \in Slots, occupant'[j] # None
        PROVE  ~Released(occupant[j])' /\ at'[occupant'[j]] = j
    <3>1. j # i /\ occupant'[j] = occupant[j]
      BY <1>4, <2>3
    <3>2. occupant[j] \in Workers /\ ~Released(occupant[j]) /\ at[occupant[j]] = j
      BY <2>3, <3>1, SeatFacts
    <3>3. occupant[j] # w
      BY <1>2, <3>1, <3>2
    <3> QED
      BY <1>1, <1>6, <3>1, <3>2, <3>3 DEF Released
  <2>4. \A v \in Workers : term'[v] # "no" => pc'[v] \in Driving
    BY <1>1 DEF Seats, SlotsExact
  <2>5. toStop' # None => attached'[toStop']
    BY <1>1
  <2> QED
    BY <2>1, <2>2, <2>3, <2>4, <2>5 DEF SlotsExact
<1>8. Requested'
  <2> SUFFICES ASSUME NEW q \in Pending' PROVE (q.slot = at[q.by] /\ occupant[q.slot] = q.by /\ Asks(q))'
    BY DEF Requested
  <2>1. q \in Pending /\ q.slot = at[q.by] /\ occupant[q.slot] = q.by /\ Asks(q)
    BY <1>2 DEF Seats, Requested
  <2> QED
    BY <1>1, <1>2, <1>4, <2>1 DEF Asks
<1>9. Seated'
  <2>1. /\ \A j \in Slots : attached'[j] => pc'[occupant'[j]] \in Driving
        /\ \A j \in Slots : listed'[j] => occupant'[j] \in Sessions
    BY <1>1, <1>4 DEF Seats, Seated
  <2>2. ASSUME NEW v \in Workers, pc'[v] \in Driving \ Going
        PROVE  attached'[at'[v]] \/ \E q \in Pending' : q.op = "attach" /\ q.by = v
    <3>1. v # w /\ ~Released(v)
      BY <1>1, <1>3, <2>2 DEF Released, Driving, Going
    <3>2. at[v] \in Slots /\ at[v] # i
      BY <1>5, <3>1
    <3> QED
      BY <1>1, <1>2, <1>4, <2>2, <3>1, <3>2 DEF Seats, Seated
  <2>4. \A j \in Slots : occupant'[j] \in Conns /\ ~attached'[j] => link'[j] = None
    BY <1>4 DEF Seats, Seated
  <2> QED
    BY <2>1, <2>2, <2>4 DEF Seated
<1> QED
  BY <1>2, <1>7, <1>8, <1>9 DEF Seats

\* Every step keeps the queue and the slots.
LEMMA SeatsStep ==
  ASSUME Typed, InTurn, Seats, IdleExact, [Next]_vars
  PROVE  InTurn' /\ Seats'
<1>1. CASE UNCHANGED vars
  <2>1. InTurn' /\ Pending' = Pending
    BY <1>1, QueueRests DEF vars, server, loopVars, turn, shared
  <2> QED
    BY <1>1, <2>1, SlotsQuiet DEF vars, server, loopVars, slotVars, seat, shared, flags, own, mind
<1>2. CASE Step
  BY <1>2, RoundSeats, AttachSeats, LetGoSeats, FreeSeats DEF Step
<1>3. CASE Events
  <2>1. ASSUME NEW c \in Conns, HttpClose(c) \/ Accept(c) PROVE InTurn' /\ Seats'
    <3>1. PICK i \in Slots : TRUE
      BY Constants
    <3> QED
      BY <2>1, EventSeats
  <2>2. ASSUME NEW c \in Conns, NEW i \in Slots, UpgradeConnection(c, i) PROVE InTurn' /\ Seats'
    BY <2>2, SpawnSeats DEF UpgradeConnection, turn, Workers
  <2>3. ASSUME NEW s \in Sessions, NEW i \in Slots, NewSession(s, i) PROVE InTurn' /\ Seats'
    BY <2>3, SpawnSeats DEF NewSession, loopVars, turn, shared, Workers
  <2>4. ASSUME NEW c \in Conns, NEW i \in Slots, AttachConnection(c, i) PROVE InTurn' /\ Seats'
    BY <2>4, EventSeats
  <2>5. ASSUME NEW i \in Slots,
               DeleteSession(i) \/ ReapSession \/ ReadCommand(i) \/ ReadClose(i) \/ DropWebSocket(i)
        PROVE  InTurn' /\ Seats'
    BY <2>5, EventSeats
  <2>6. CASE ReapSession
    BY <2>5, <2>6, Constants
  <2> QED
    BY <1>3, <2>1, <2>2, <2>3, <2>4, <2>5, <2>6, RoundSeats DEF Events
<1>4. ASSUME NEW w \in Workers, Work(w) \/ RunScript(w) \/ ScriptReturns(w) \/ Stuck(w)
      PROVE  InTurn' /\ Seats'
  BY <1>4, DrivingSeats, AskingSeats DEF Work
<1> QED
  BY <1>1, <1>2, <1>3, <1>4 DEF Next, Ended

-----------------------------------------------------------------------------
(* The links of sessions, and the reaper's list.                            *)

\* Where an inbox has a new link.
Links(s) == {k \in DOMAIN s : s[k].kind = "link"}
Once(s)  == \A j, k \in Links(s) : j = k

\* No new link is added.
Fewer(s, t) == (Links(s) = {} => Links(t) = {}) /\ (Once(s) => Once(t))

\* A message that is no link is added, or a message is taken.
LEMMA LinksAdded ==
  ASSUME NEW s \in Seq(Messages), NEW m \in Messages
  PROVE  /\ m.kind # "link" => Links(s \o <<m>>) = Links(s)
         /\ m.kind = "link" /\ Links(s) = {} => Once(s \o <<m>>) 
<1> DEFINE t == Append(s, m) n == Len(s)
<1>1. /\ s \o <<m>> = t /\ DOMAIN t = 1 .. n + 1 /\ DOMAIN s = 1 .. n /\ n \in Nat
      /\ \A i \in 1 .. n : t[i] = s[i]
      /\ t[n + 1] = m
  BY PutLast, LenProperties
<1> HIDE DEF t, n
<1>2. 1 .. n + 1 = 1 .. n \cup {n + 1} /\ n + 1 \notin 1 .. n
  BY <1>1
<1>3. m.kind # "link" => Links(t) = Links(s)
  BY <1>1, <1>2 DEF Links
<1>4. m.kind = "link" /\ Links(s) = {} => Once(t)
  BY <1>1, <1>2 DEF Links, Once
<1> QED
  BY <1>1, <1>3, <1>4

\* A message is taken.
LEMMA LinksTaken ==
  ASSUME NEW s \in Seq(Messages), NEW k \in 1 .. Len(s)
  PROVE  /\ Fewer(s, RemoveAt(s, k))
         /\ Once(s) /\ s[k].kind = "link" => Links(RemoveAt(s, k)) = {}
<1> DEFINE t == RemoveAt(s, k) n == Len(s)
<1>1. /\ DOMAIN t = 1 .. n - 1 /\ DOMAIN s = 1 .. n /\ n \in Nat /\ k \in 1 .. n
      /\ \A j \in 1 .. n - 1 : t[j] = s[IF j < k THEN j ELSE j + 1]
  BY TakeAway, LenProperties
<1> HIDE DEF t, n
<1> DEFINE f(j) == IF j < k THEN j ELSE j + 1
<1>2. /\ \A j \in 1 .. n - 1 : f(j) \in 1 .. n /\ f(j) # k
      /\ \A i, j \in 1 .. n - 1 : f(i) = f(j) => i = j
  BY <1>1
<1>3. \A j \in 1 .. n - 1 : t[j] = s[f(j)]
  BY <1>1
<1> HIDE DEF f
<1>4. \A j \in Links(t) : j \in 1 .. n - 1 /\ f(j) \in Links(s) /\ f(j) # k
  BY <1>1, <1>2, <1>3 DEF Links
<1>5. Links(s) = {} => Links(t) = {}
  BY <1>4
<1>6. Once(s) => Once(t)
  BY <1>2, <1>4 DEF Once
<1>7. Once(s) /\ s[k].kind = "link" => Links(t) = {}
  <2>1. s[k].kind = "link" => k \in Links(s)
    BY <1>1 DEF Links
  <2> QED
    BY <1>4, <2>1 DEF Once
<1> QED
  BY <1>5, <1>6, <1>7 DEF Fewer, t

\* The inboxes of all slots, when one message is added or taken.
LEMMA InboxesFewer ==
  ASSUME Typed, NEW i \in Slots
  PROVE  /\ \A j \in Slots : inbox'[j] = inbox[j] => Fewer(inbox[j], inbox'[j])
         /\ \A m \in {Command, Close, Disconnect, Quit} :
              push(i, <<m>>) => \A j \in Slots : Fewer(inbox[j], inbox'[j])
         /\ \A w \in Workers : \A k \in DOMAIN Mail(w) :
              \/ Pop(w, k)
              \/ inbox' = [inbox EXCEPT ![at[w]] = Append(RemoveAt(@, k), Quit)]
              => \A j \in Slots : Fewer(inbox[j], inbox'[j])
<1>1. \A j \in Slots : inbox'[j] = inbox[j] => Fewer(inbox[j], inbox'[j])
  BY DEF Fewer
<1>2. ASSUME NEW m \in {Command, Close, Disconnect, Quit}, push(i, <<m>>), NEW j \in Slots
      PROVE  Fewer(inbox[j], inbox'[j])
  <2>1. m \in Messages /\ m.kind # "link"
    BY Members DEF Command, Close, Disconnect, Quit, Message
  <2>2. inbox[i] \in Seq(Messages) /\ inbox'[i] = inbox[i] \o <<m>>
    BY <1>2, PushOne DEF Typed, TypeOK
  <2>3. Links(inbox'[i]) = Links(inbox[i])
    BY <2>1, <2>2, LinksAdded
  <2> QED
    BY <1>1, <1>2, <2>3, PushOne DEF Fewer, Once
<1>3. ASSUME NEW w \in Workers, NEW k \in DOMAIN Mail(w),
             \/ Pop(w, k)
             \/ inbox' = [inbox EXCEPT ![at[w]] = Append(RemoveAt(@, k), Quit)],
             NEW j \in Slots
      PROVE  Fewer(inbox[j], inbox'[j])
  <2> DEFINE s == inbox[at[w]] t == RemoveAt(inbox[at[w]], k)
  <2>1. at[w] \in Slots /\ s \in Seq(Messages) /\ t \in Seq(Messages) /\ k \in 1 .. Len(s)
    BY MailType
  <2>2. Fewer(s, t)
    BY <2>1, LinksTaken
  <2>3. Links(Append(t, Quit)) = Links(t)
    <3> HIDE DEF t
    <3>1. Quit \in Messages /\ Quit.kind # "link"
      BY Members DEF Quit, Message
    <3>2. t \o <<Quit>> = Append(t, Quit)
      BY <2>1, <3>1, PutLast
    <3> QED
      BY <2>1, <3>1, <3>2, LinksAdded
  <2>4. inbox'[at[w]] = t \/ inbox'[at[w]] = Append(t, Quit)
    BY <1>3, <2>1 DEF Pop, Typed, TypeOK
  <2>5. j # at[w] => inbox'[j] = inbox[j]
    BY <1>3, <2>1 DEF Pop, Typed, TypeOK
  <2> HIDE DEF t
  <2> QED
    BY <1>1, <2>2, <2>3, <2>4, <2>5 DEF Fewer, Once
<1> QED
  BY <1>1, <1>2, <1>3

\* A session that waits for the loop to let go of its link.
Leaving(w) == pc[w] \in {"linkSig", "waitLink"} /\ ~answered[w]

\* A session's link is new in the inbox, held, or being given back: one of these, once,
\* and only while the loop has it.
Apart(i, w) ==
  /\ Once(inbox[i])
  /\ Links(inbox[i]) = {} \/ (held[w] = None /\ ~Leaving(w))
  /\ held[w] = None \/ ~Leaving(w)
  /\ link[i] = None => Links(inbox[i]) = {} /\ held[w] = None /\ ~Leaving(w)

\* The same for every slot; only sessions are given links.
LinkOnce ==
  /\ \A w \in Sessions : pc[w] = "none" => held[w] = None
  /\ \A i \in Slots : Links(inbox[i]) # {} => occupant[i] \in Sessions
  /\ \A i \in Slots, w \in Sessions : occupant[i] = w => Apart(i, w)

\* Links rest where they are.
LEMMA OnceQuiet ==
  ASSUME LinkOnce,
         \A w \in Sessions : pc'[w] = "none" => held'[w] = None,
         \A i \in Slots : Fewer(inbox[i], inbox'[i]),
         \A i \in Slots : \/ occupant'[i] = occupant[i]
                          \/ Links(inbox'[i]) = {} /\ occupant'[i] \notin Sessions,
         \A i \in Slots, w \in Sessions : occupant[i] = w /\ occupant'[i] = w =>
           link'[i] = link[i] /\ held'[w] \in {held[w], None} /\ (Leaving(w)' => Leaving(w))
  PROVE  LinkOnce'
<1>1. \A i \in Slots : Links(inbox'[i]) # {} => occupant'[i] \in Sessions
  BY DEF LinkOnce, Fewer
<1>2. \A i \in Slots, w \in Sessions : occupant'[i] = w => Apart(i, w)'
  BY DEF LinkOnce, Fewer, Apart
<1> QED
  BY <1>1, <1>2 DEF LinkOnce

\* An inbox that is empty has no links.
LEMMA NoLinks == Links(<<>>) = {} /\ \A s : Fewer(s, <<>>) /\ Fewer(s, s)
<1>1. Links(<<>>) = {}
  BY DEF Links
<1> QED
  BY <1>1 DEF Fewer, Once

\* The loop's steps that give no session a link and take none from it.
LEMMA LoopOnce ==
  ASSUME Typed, InTurn, Seats, LinkOnce,
         \/ RequestTerminate \/ EndEvents \/ EndDrain \/ Deinit \/ Saturated \/ Stop
         \/ (\E c \in Conns : HttpClose(c) \/ Accept(c))
         \/ ReapSession \/ AttachWorker \/ ReleaseWorker
         \/ (\E i \in Slots : DeleteSession(i) \/ ReadCommand(i) \/ ReadClose(i)
                               \/ DropWebSocket(i))
         \/ (\E c \in Conns, i \in Slots : UpgradeConnection(c, i))
  PROVE  LinkOnce'
<1>1. CASE \/ RequestTerminate \/ EndEvents \/ EndDrain \/ Deinit \/ Saturated \/ Stop
           \/ (\E c \in Conns : HttpClose(c) \/ Accept(c))
  <2>1. UNCHANGED <<pc, held, inbox, occupant, link, answered>>
    BY <1>1 DEF RequestTerminate, EndEvents, EndDrain, Deinit, Saturated, Stop, HttpClose, Accept,
      server, slotVars, seat, shared, flags, own
  <2> QED
    BY <2>1, OnceQuiet, NoLinks DEF LinkOnce, Leaving
<1>2. CASE ReapSession \/ \E i \in Slots : DeleteSession(i) \/ ReadCommand(i) \/ ReadClose(i)
                                             \/ DropWebSocket(i)
  <2>1. UNCHANGED <<pc, held, occupant, link, answered>>
    BY <1>2 DEF ReapSession, DeleteSession, ReadCommand, ReadClose, DropWebSocket, server, slotVars,
      seat, shared, flags, own
  <2>2. \E i \in Slots, m \in {Command, Close, Disconnect, Quit} : push(i, <<m>>)
    <3>1. CASE ReapSession
      <4>1. Head(idle) \in Slots /\ push(Head(idle), <<Quit>>)
        BY <3>1, HeadTail DEF ReapSession, quitSession, Typed, TypeOK
      <4> QED
        BY <4>1
    <3>2. CASE \E i \in Slots : DeleteSession(i) \/ ReadCommand(i) \/ ReadClose(i)
                                  \/ DropWebSocket(i)
      BY <3>2 DEF DeleteSession, quitSession, ReadCommand, ReadClose, DropWebSocket
    <3> QED
      BY <1>2, <3>1, <3>2
  <2>3. \A i \in Slots : Fewer(inbox[i], inbox'[i])
    BY <2>2, InboxesFewer
  <2> QED
    BY <2>1, <2>3, OnceQuiet DEF LinkOnce, Leaving
<1>3. CASE AttachWorker
  <2>1. UNCHANGED <<pc, held, occupant, answered>> /\ Asked \in Slots
    BY <1>3, AskedType DEF AttachWorker, Draining, own, Typed
  <2>2. \A i \in Slots : Fewer(inbox[i], inbox'[i])
    <3>1. inbox' = inbox \/ push(Asked, <<Disconnect>>)
      BY <1>3 DEF AttachWorker
    <3> QED
      BY <2>1, <3>1, NoLinks, InboxesFewer
  <2>3. \A i \in Slots : occupant[i] \in Sessions => link'[i] = link[i]
    BY <1>3, Constants DEF AttachWorker, connectionScoped, Typed, TypeOK
  <2> QED
    BY <2>1, <2>2, <2>3, OnceQuiet DEF LinkOnce, Leaving
<1>4. CASE ReleaseWorker
  <2>1. UNCHANGED <<pc, held>> /\ Asked \in Slots
    BY <1>4, AskedType DEF ReleaseWorker, Draining, own, Typed
  <2>2. /\ occupant'[Asked] = None /\ inbox'[Asked] = <<>>
        /\ \A i \in Slots : i # Asked =>
             occupant'[i] = occupant[i] /\ inbox'[i] = inbox[i] /\ link'[i] = link[i]
        /\ \A w \in Workers : ~answered'[w] => ~answered[w]
    BY <1>4, <2>1 DEF ReleaseWorker, Typed, TypeOK
  <2>3. None \notin Sessions /\ Sessions \subseteq Workers
    BY Constants DEF Workers
  <2>4. \A i \in Slots : Fewer(inbox[i], inbox'[i])
    BY <2>2, NoLinks
  <2>5. \A w \in Sessions : Leaving(w)' => Leaving(w)
    BY <2>1, <2>2, <2>3 DEF Leaving
  <2>6. \A i \in Slots : \/ occupant'[i] = occupant[i]
                         \/ Links(inbox'[i]) = {} /\ occupant'[i] \notin Sessions
    BY <2>2, <2>3, NoLinks
  <2>7. \A i \in Slots, w \in Sessions : occupant[i] = w /\ occupant'[i] = w => link'[i] = link[i]
    BY <2>2, <2>3
  <2>8. \A w \in Sessions : pc'[w] = "none" => held'[w] = None
    BY <2>1 DEF LinkOnce
  <2> QED
    BY <2>1, <2>4, <2>5, <2>6, <2>7, <2>8, OnceQuiet
<1>5. ASSUME NEW c \in Conns, NEW i \in Slots, UpgradeConnection(c, i) PROVE LinkOnce'
  <2>1. /\ UNCHANGED <<inbox, answered, link>> /\ occupant'[i] = c
        /\ \A j \in Slots : j # i => occupant'[j] = occupant[j]
        /\ \A w \in Workers : w # c => pc'[w] = pc[w] /\ held'[w] = held[w]
    BY <1>5 DEF UpgradeConnection, Spawned, flags, Typed, TypeOK
  <2>2. c \notin Sessions /\ Sessions \subseteq Workers
    BY Constants DEF Workers
  <2>3. inbox[i] = <<>>
    BY <1>5 DEF UpgradeConnection, Free, Seats, SlotsExact
  <2>4. \A w \in Sessions : Leaving(w)' => Leaving(w)
    BY <2>1, <2>2 DEF Leaving
  <2> QED
    BY <2>1, <2>2, <2>3, <2>4, OnceQuiet, NoLinks DEF LinkOnce
<1> QED
  BY <1>1, <1>2, <1>3, <1>4, <1>5

\* A session is given a link, or loses it, or begins.
LEMMA LinkedOnce ==
  ASSUME Typed, InTurn, Seats, LinkOnce,
         \/ (\E c \in Conns, i \in Slots : AttachConnection(c, i))
         \/ ReleaseLink
         \/ (\E s \in Sessions, i \in Slots : NewSession(s, i))
  PROVE  LinkOnce'
<1>1. ASSUME NEW c \in Conns, NEW i \in Slots, AttachConnection(c, i) PROVE LinkOnce'
  <2>1. UNCHANGED <<pc, held, occupant, answered>> /\ link[i] = None /\ listed[i]
    BY <1>1 DEF AttachConnection, seat, flags, own
  <2>2. CASE inbox' = inbox /\ link' = link
    BY <2>1, <2>2, OnceQuiet, NoLinks DEF LinkOnce, Leaving
  <2>3. ASSUME NEW polled \in BOOLEAN, link' = [link EXCEPT ![i] = c],
               push(i, IF polled THEN <<NewLink(c)>> ELSE <<NewLink(c), Disconnect>>)
        PROVE  LinkOnce'
    <3>1. occupant[i] \in Sessions
      BY <2>1 DEF Seats, Seated
    <3>2. /\ Links(inbox[i]) = {} /\ held[occupant[i]] = None /\ ~Leaving(occupant[i])
      BY <2>1, <3>1 DEF LinkOnce, Apart
    <3>3. Once(inbox'[i])
      <4> DEFINE s == inbox[i] m == NewLink(c) t == Append(s, m)
      <4>1. /\ s \in Seq(Messages) /\ m \in Messages /\ m.kind = "link"
            /\ Disconnect \in Messages /\ Disconnect.kind # "link"
        BY Members DEF Typed, TypeOK, NewLink, Disconnect, Message
      <4>2. inbox'[i] = s \o <<m>> \/ inbox'[i] = s \o <<m, Disconnect>>
        BY <2>3, PushOne
      <4> HIDE DEF s, m
      <4>3. s \o <<m>> = t /\ t \in Seq(Messages)
        BY <4>1, PutLast
      <4>4. s \o <<m, Disconnect>> = t \o <<Disconnect>>
        BY <4>1 DEF t
      <4>5. Once(t)
        BY <3>2, <4>1, <4>3, LinksAdded DEF s
      <4> HIDE DEF t
      <4>6. Once(t \o <<Disconnect>>)
        <5>1. Links(t \o <<Disconnect>>) = Links(t)
          BY <4>1, <4>3, LinksAdded
        <5> QED
          BY <4>5, <5>1 DEF Once
      <4> QED
        BY <4>2, <4>3, <4>4, <4>5, <4>6
    <3>4. link'[i] = c /\ c # None /\ \A j \in Slots : j # i =>
            inbox'[j] = inbox[j] /\ link'[j] = link[j]
      BY <2>3, PushOne, Constants DEF Workers, Typed, TypeOK
    <3>5. \A j \in Slots : Links(inbox'[j]) # {} => occupant'[j] \in Sessions
      BY <2>1, <3>1, <3>4 DEF LinkOnce
    <3>6. \A j \in Slots, w \in Sessions : occupant'[j] = w => Apart(j, w)'
      <4> SUFFICES ASSUME NEW j \in Slots, NEW w \in Sessions, occupant[j] = w PROVE Apart(j, w)'
        BY <2>1
      <4>1. CASE j = i
        BY <2>1, <3>2, <3>3, <3>4, <4>1 DEF Apart, Leaving
      <4>2. CASE j # i
        BY <2>1, <3>4, <4>2 DEF LinkOnce, Apart, Leaving
      <4> QED
        BY <4>1, <4>2
    <3> QED
      BY <2>1, <3>5, <3>6 DEF LinkOnce
  <2> QED
    BY <1>1, <2>2, <2>3 DEF AttachConnection
<1>2. CASE ReleaseLink
  <2> DEFINE i == Asked w == Asker
  <2>1. drain # <<>> /\ Head(drain).op = "release_link" /\ drain' = Tail(drain)
        /\ UNCHANGED <<queue, phase, occupant, inbox, pc, held>>
    BY <1>2 DEF ReleaseLink, Draining, turn, seat, own
  <2>2. i \in Slots /\ w \in Workers /\ occupant[i] = w /\ at[w] = i /\ Asks(Head(drain))
        /\ Head(drain).by = w
    BY <2>1, FirstRequest
  <2>3. Leaving(w)
    BY <2>1, <2>2 DEF Asks, Leaving
  <2>4. /\ \A v \in Workers : v # w => answered'[v] = answered[v]
        /\ \A j \in Slots : j # i => link'[j] = link[j]
        /\ answered'[w] = TRUE
    BY <1>2, <2>2 DEF ReleaseLink, Typed, TypeOK
  <2> HIDE DEF i, w
  <2>5. \A j \in Slots : occupant[j] # None => at[occupant[j]] = j
    BY SeatFacts
  <2>6. \A j \in Slots, v \in Sessions : occupant'[j] = v => Apart(j, v)'
    <3> SUFFICES ASSUME NEW j \in Slots, NEW v \in Sessions, occupant[j] = v PROVE Apart(j, v)'
      BY <2>1
    <3>1. Apart(j, v) /\ v \in Workers
      BY DEF LinkOnce, Workers
    <3>2. CASE j = i
      <4>1. v = w
        BY <2>2, <3>2
      <4>2. Links(inbox[j]) = {} /\ held[v] = None
        BY <2>3, <3>1, <4>1 DEF Apart
      <4> QED
        BY <2>1, <2>4, <3>1, <4>1, <4>2 DEF Apart, Leaving
    <3>3. CASE j # i
      <4>1. v # w
        BY <2>2, <2>5, <3>1, <3>3, Constants
      <4> QED
        BY <2>1, <2>4, <3>1, <3>3, <4>1 DEF Apart, Leaving
    <3> QED
      BY <3>2, <3>3
  <2> QED
    BY <2>1, <2>6 DEF LinkOnce
<1>3. ASSUME NEW s \in Sessions, NEW i \in Slots, NewSession(s, i) PROVE LinkOnce'
  <2>1. /\ UNCHANGED <<inbox, answered, link, held>> /\ pc[s] = "none" /\ s \in Workers
        /\ occupant'[i] = s /\ pc'[s] = "starting"
        /\ \A j \in Slots : j # i => occupant'[j] = occupant[j]
        /\ \A w \in Workers : w # s => pc'[w] = pc[w]
    BY <1>3 DEF NewSession, Spawned, shared, flags, Typed, TypeOK, Workers
  <2>2. inbox[i] = <<>> /\ link[i] = None /\ Links(inbox[i]) = {}
    BY <1>3, NoLinks DEF NewSession, Free, Seats, SlotsExact
  <2>3. held[s] = None /\ Sessions \subseteq Workers
    BY <2>1 DEF LinkOnce, Workers
  <2>4. \A w \in Sessions : pc'[w] = "none" => held'[w] = None
    BY <2>1, <2>3 DEF LinkOnce
  <2>5. \A j \in Slots : Links(inbox'[j]) # {} => occupant'[j] \in Sessions
    BY <2>1, <2>2 DEF LinkOnce
  <2>6. \A j \in Slots, w \in Sessions : occupant'[j] = w => Apart(j, w)'
    <3> SUFFICES ASSUME NEW j \in Slots, NEW w \in Sessions, occupant'[j] = w PROVE Apart(j, w)'
      OBVIOUS
    <3>1. CASE j = i
      BY <2>1, <2>2, <2>3, <3>1 DEF Apart, Leaving, Once
    <3>2. CASE j # i
      <4>1. occupant[j] = w /\ Apart(j, w)
        BY <2>1, <3>2 DEF LinkOnce
      <4>2. w # s
        BY <2>1, <4>1, Constants, SeatFacts DEF Released
      <4> QED
        BY <2>1, <2>3, <3>2, <4>1, <4>2 DEF Apart, Leaving
    <3> QED
      BY <3>1, <3>2
  <2> QED
    BY <2>4, <2>5, <2>6 DEF LinkOnce
<1> QED
  BY <1>1, <1>2, <1>3

\* A worker's steps that neither take nor give back a link.
LEMMA WorkerOnce ==
  ASSUME Typed, Seats, LinkOnce, NEW w \in Workers,
         \/ Start(w) \/ StartFails(w) \/ Signal(w) \/ Tick(w) \/ OnCommand(w) \/ OnEnd(w)
         \/ DestroyLink(w) \/ PumpEnds(w) \/ TickFails(w) \/ Killed(w) \/ Disarm(w)
         \/ Teardown(w) \/ RunScript(w) \/ ScriptReturns(w) \/ Stuck(w)
         \/ (OnLinkGone(w) /\ held[w] = None)
  PROVE  LinkOnce'
<1>1. UNCHANGED <<occupant, link>>
  BY DEF Start, StartFails, Signal, Tick, OnCommand, OnEnd, OnLinkGone, DestroyLink, PumpEnds,
    TickFails, Killed, Disarm, Teardown, RunScript, ScriptReturns, Stuck, server, slotVars, seat
<1>2. \A i \in Slots : Fewer(inbox[i], inbox'[i])
  <2>1. CASE inbox' = inbox
    BY <2>1, NoLinks
  <2>2. CASE OnCommand(w) \/ OnEnd(w) \/ OnLinkGone(w)
    <3>1. PICK k \in DOMAIN Mail(w) :
            \/ Pop(w, k)
            \/ inbox' = [inbox EXCEPT ![at[w]] = Append(RemoveAt(@, k), Quit)]
      BY <2>2 DEF OnCommand, OnEnd, OnLinkGone, Drains
    <3> QED
      BY <3>1, InboxesFewer
  <2> QED
    BY <2>1, <2>2 DEF Start, StartFails, Signal, Tick, DestroyLink, PumpEnds, TickFails, Killed,
      Disarm, Teardown, RunScript, ScriptReturns, Stuck, shared
<1>3. held' = held \/ \A v \in Workers : held'[v] \in {held[v], None}
  BY DEF Start, StartFails, Signal, Tick, OnCommand, OnEnd, OnLinkGone, DestroyLink, PumpEnds,
    TickFails, Killed, Disarm, Teardown, RunScript, ScriptReturns, Stuck, own, Typed, TypeOK
<1>4. /\ \A v \in Workers : v # w => pc'[v] = pc[v] /\ answered'[v] = answered[v]
      /\ \/ pc'[w] = pc[w] /\ answered'[w] = answered[w]
         \/ pc[w] = "linkSig" /\ pc'[w] = "waitLink" /\ answered'[w] = answered[w]
         \/ pc'[w] \in {"attachSig", "releaseSig", "tick", "pump", "script", "terminal",
                        "waitRelease", "teardown"}
         \/ pc'[w] = "none" /\ held'[w] = None
  <2> DEFINE Rest == \A v \in Workers : v # w => pc'[v] = pc[v] /\ answered'[v] = answered[v]
  <2>1. CASE Start(w) \/ StartFails(w) \/ TickFails(w) \/ Killed(w)
    BY <2>1 DEF Start, StartFails, TickFails, Killed, Leave, Queue, Goes, Typed, TypeOK
  <2>2. CASE Signal(w)
    <3>1. /\ pc' = [pc EXCEPT ![w] = Signals[pc[w]]] /\ answered' = answered
          /\ pc[w] \in {"attachSig", "linkSig", "releaseSig"}
          /\ Signals["attachSig"] = "tick" /\ Signals["linkSig"] = "waitLink"
          /\ Signals["releaseSig"] = "waitRelease"
      BY <2>2 DEF Signal, Goes, Signals, flags
    <3> QED
      BY <3>1 DEF Typed, TypeOK
  <2>3. CASE Tick(w) \/ PumpEnds(w) \/ RunScript(w) \/ ScriptReturns(w)
    BY <2>3 DEF Tick, PumpEnds, RunScript, ScriptReturns, Goes, shared, flags, Typed, TypeOK
  <2>4. CASE OnCommand(w)
    BY <2>4 DEF OnCommand, Goes, flags, Typed, TypeOK
  <2>5. CASE OnEnd(w)
    <3>1. (pc' = pc /\ answered' = answered) \/ Leave(w)
      BY <2>5 DEF OnEnd, Done
    <3> QED
      BY <3>1 DEF Leave, Queue, Goes, Typed, TypeOK
  <2>6. CASE DestroyLink(w) \/ Disarm(w)
    BY <2>6 DEF DestroyLink, Disarm, Goes, Typed, TypeOK
  <2>7. CASE Teardown(w)
    BY <2>7 DEF Teardown, Goes, flags, Typed, TypeOK
  <2>8. CASE Stuck(w)
    BY <2>8 DEF Stuck, own
  <2>9. CASE OnLinkGone(w) /\ held[w] = None
    BY <2>9 DEF OnLinkGone
  <2> QED
    BY <2>1, <2>2, <2>3, <2>4, <2>5, <2>6, <2>7, <2>8, <2>9
<1>5. \A v \in Workers : Leaving(v)' => Leaving(v)
  BY <1>4 DEF Leaving
<1>6. Sessions \subseteq Workers
  BY DEF Workers
<1>7. \A v \in Sessions : pc'[v] = "none" => held'[v] = None
  BY <1>3, <1>4, <1>6 DEF LinkOnce
<1> QED
  BY <1>1, <1>2, <1>3, <1>5, <1>6, <1>7, OnceQuiet

\* The message that a worker takes.
LEMMA TakesLink ==
  ASSUME Typed, Seats, LinkOnce, NEW w \in Workers, NEW k \in DOMAIN Mail(w),
         pc[w] \in {"pump", "script", "terminal"}, Mail(w)[k].kind = "link"
  PROVE  w \in Sessions /\ held[w] = None
<1>1. at[w] \in Slots /\ occupant[at[w]] = w
  BY Driver DEF Driving, Going
<1>2. k \in Links(inbox[at[w]])
  BY MailType DEF Links
<1> QED
  BY <1>1, <1>2 DEF LinkOnce, Apart

\* A worker takes a link.
LEMMA TakeOnce ==
  ASSUME Typed, Seats, LinkOnce, NEW w \in Workers, OnLink(w)
  PROVE  LinkOnce'
<1>1. PICK mode \in {"pump", "script"}, k \in DOMAIN Mail(w) :
        pc[w] = mode /\ Pop(w, k) /\ Mail(w)[k].kind = "link"
  BY DEF OnLink, Drains
<1>2. w \in Sessions /\ held[w] = None
  BY <1>1, TakesLink
<1>3. at[w] \in Slots /\ occupant[at[w]] = w
  BY <1>1, Driver DEF Driving, Going
<1>4. UNCHANGED <<occupant, link, pc, answered>> /\ \A v \in Workers : v # w => held'[v] = held[v]
  BY <1>2 DEF OnLink, server, slotVars, seat, flags, Typed, TypeOK
<1>5. k \in Links(inbox[at[w]]) /\ Apart(at[w], w)
  BY <1>1, <1>2, <1>3, MailType DEF Links, LinkOnce
<1>6. Links(inbox'[at[w]]) = {} /\ Once(inbox'[at[w]])
  <2>1. inbox'[at[w]] = RemoveAt(inbox[at[w]], k)
    BY <1>1, <1>3 DEF Pop, Typed, TypeOK
  <2>2. Links(inbox'[at[w]]) = {}
    BY <1>1, <1>5, <2>1, MailType, LinksTaken DEF Apart
  <2> QED
    BY <2>2 DEF Once
<1>7. \A i \in Slots : i # at[w] => inbox'[i] = inbox[i]
  BY <1>1, <1>3 DEF Pop, Typed, TypeOK
<1>8. ~Leaving(w) /\ link[at[w]] # None
  BY <1>5 DEF Apart
<1>9. \A v \in Sessions : pc'[v] = "none" => held'[v] = None
  <2>1. pc[w] # "none" /\ Sessions \subseteq Workers
    BY <1>1 DEF Workers
  <2> QED
    BY <1>4, <2>1 DEF LinkOnce
<1>10. \A i \in Slots : Links(inbox'[i]) # {} => occupant'[i] \in Sessions
  BY <1>4, <1>6, <1>7 DEF LinkOnce
<1>11. \A i \in Slots, v \in Sessions : occupant'[i] = v => Apart(i, v)'
  <2> SUFFICES ASSUME NEW i \in Slots, NEW v \in Sessions, occupant[i] = v PROVE Apart(i, v)'
    BY <1>4
  <2>1. CASE i = at[w]
    <3>1. v = w
      BY <1>3, <2>1
    <3> QED
      BY <1>4, <1>6, <1>8, <2>1, <3>1 DEF Apart, Leaving
  <2>2. CASE i # at[w]
    <3>1. v # w /\ v \in Workers
      BY <2>2, SeatFacts, Constants DEF Workers
    <3> QED
      BY <1>4, <1>7, <2>2, <3>1 DEF LinkOnce, Apart, Leaving
  <2> QED
    BY <2>1, <2>2
<1> QED
  BY <1>9, <1>10, <1>11 DEF LinkOnce

\* A session gives its link back.
LEMMA GiveOnce ==
  ASSUME Typed, Seats, LinkOnce, NEW w \in Workers, OnLinkGone(w), held[w] # None
  PROVE  LinkOnce'
<1>1. PICK mode \in {"pump", "script", "terminal"}, k \in DOMAIN Mail(w) :
        /\ w \in Sessions /\ pc[w] = mode /\ Pop(w, k)
        /\ Queue(w, "release_link") /\ Goes(w, "linkSig")
        /\ held' = [held EXCEPT ![w] = None]
  BY DEF OnLinkGone, Drains
<1>2. UNCHANGED <<occupant, link>>
  BY DEF OnLinkGone, server, slotVars, seat
<1>3. at[w] \in Slots /\ occupant[at[w]] = w
  BY <1>1, Driver DEF Driving, Going
<1>4. /\ \A v \in Workers : v # w => held'[v] = held[v] /\ pc'[v] = pc[v] /\ answered'[v] = answered[v]
      /\ held'[w] = None /\ pc'[w] = "linkSig"
  BY <1>1 DEF Queue, Goes, Typed, TypeOK
<1>5. \A i \in Slots : Fewer(inbox[i], inbox'[i])
  BY <1>1, <1>3, InboxesFewer
<1>6. Apart(at[w], w)
  BY <1>1, <1>3 DEF LinkOnce
<1>7. Sessions \subseteq Workers
  BY DEF Workers
<1>8. \A i \in Slots, v \in Sessions : occupant'[i] = v => Apart(i, v)'
  <2> SUFFICES ASSUME NEW i \in Slots, NEW v \in Sessions, occupant[i] = v PROVE Apart(i, v)'
    BY <1>2
  <2>1. CASE i = at[w]
    <3>1. v = w
      BY <1>3, <2>1
    <3> QED
      BY <1>2, <1>4, <1>5, <1>6, <2>1, <3>1 DEF Apart, Fewer
  <2>2. CASE i # at[w]
    <3>1. v # w
      BY <1>7, <2>2, SeatFacts, Constants
    <3> QED
      BY <1>2, <1>4, <1>5, <1>7, <3>1 DEF LinkOnce, Apart, Leaving, Fewer
  <2> QED
    BY <2>1, <2>2
<1> QED
  BY <1>2, <1>4, <1>5, <1>7, <1>8 DEF LinkOnce, Fewer

\* Every step keeps the links apart.
LEMMA OnceStep ==
  ASSUME Typed, InTurn, Seats, LinkOnce, [Next]_vars
  PROVE  LinkOnce'
<1>1. CASE UNCHANGED vars
  BY <1>1, OnceQuiet, NoLinks DEF vars, server, slotVars, seat, shared, flags, own, LinkOnce,
    Leaving
<1>2. CASE Step
  BY <1>2, LoopOnce, LinkedOnce DEF Step
<1>3. CASE Events
  BY <1>3, LoopOnce, LinkedOnce DEF Events
<1>4. ASSUME NEW w \in Workers, Work(w) \/ RunScript(w) \/ ScriptReturns(w) \/ Stuck(w)
      PROVE  LinkOnce'
  BY <1>4, WorkerOnce, TakeOnce, GiveOnce DEF Work
<1> QED
  BY <1>1, <1>2, <1>3, <1>4 DEF Next, Ended

\* The list gets a member.
LEMMA Listed ==
  ASSUME NEW S, NEW s \in Seq(S), NEW x \in S, x \notin Range(s), IsInjective(s)
  PROVE  IsInjective(Append(s, x)) /\ Range(Append(s, x)) = Range(s) \cup {x}
<1> DEFINE t == Append(s, x) n == Len(s)
<1>1. /\ DOMAIN t = 1 .. n + 1 /\ DOMAIN s = 1 .. n /\ n \in Nat
      /\ \A i \in 1 .. n : t[i] = s[i]
      /\ t[n + 1] = x
  BY PutLast, LenProperties
<1> HIDE DEF t, n
<1>2. 1 .. n + 1 = 1 .. n \cup {n + 1} /\ n + 1 \notin 1 .. n
  BY <1>1
<1>3. Range(t) = Range(s) \cup {x}
  BY <1>1, <1>2 DEF Range
<1>4. IsInjective(t)
  <2> SUFFICES ASSUME NEW i \in 1 .. n + 1, NEW j \in 1 .. n + 1, t[i] = t[j] PROVE i = j
    BY <1>1 DEF IsInjective
  <2>1. CASE i \in 1 .. n /\ j \in 1 .. n
    BY <1>1, <2>1 DEF IsInjective
  <2>2. CASE i \in 1 .. n /\ j = n + 1
    BY <1>1, <2>2 DEF Range
  <2>3. CASE i = n + 1 /\ j \in 1 .. n
    BY <1>1, <2>3 DEF Range
  <2>4. CASE i = n + 1 /\ j = n + 1
    BY <2>4
  <2> QED
    BY <1>2, <2>1, <2>2, <2>3, <2>4
<1> QED
  BY <1>3, <1>4 DEF t

\* The sessions the reaper may end.
Idlers == {i \in Slots : Reaper /\ listed[i] /\ attached[i] /\ link[i] = None}

\* Whom the steps that leave the list alone concern.
LEMMA IdleQuiet ==
  ASSUME IdleExact, UNCHANGED idle,
         \A i \in Slots : \/ ~(listed[i] /\ attached[i] /\ link[i] = None)
                               /\ ~(listed'[i] /\ attached'[i] /\ link'[i] = None)
                          \/ listed'[i] = listed[i] /\ attached'[i] = attached[i] /\ link'[i] = link[i]
  PROVE  IdleExact'
<1>1. Idlers' = Idlers
  BY DEF Idlers
<1> QED
  BY <1>1 DEF IdleExact, Idlers

\* A session leaves the list, whether it was there or not.
LEMMA IdleLeft ==
  ASSUME Typed, IdleExact, NEW i \in Slots, clearIdle(i),
         ~(listed'[i] /\ attached'[i] /\ link'[i] = None),
         \A j \in Slots : j # i =>
           listed'[j] = listed[j] /\ attached'[j] = attached[j] /\ link'[j] = link[j]
  PROVE  IdleExact'
<1>1. IsInjective(idle') /\ Range(idle') = Range(idle) \ {i}
  BY Unlinked DEF clearIdle, IdleExact, Typed, TypeOK
<1>2. Idlers' = Idlers \ {i}
  BY DEF Idlers
<1> QED
  BY <1>1, <1>2 DEF IdleExact, Idlers

\* A session joins the list.
LEMMA IdleJoined ==
  ASSUME Typed, IdleExact, NEW i \in Slots, markIdle(i),
         ~(attached[i] /\ link[i] = None), attached'[i], link'[i] = None, UNCHANGED listed,
         \A j \in Slots : j # i => attached'[j] = attached[j] /\ link'[j] = link[j]
  PROVE  IdleExact'
<1>1. i \notin Range(idle)
  BY DEF IdleExact
<1>2. CASE listed[i] /\ Reaper
  <2>1. IsInjective(idle') /\ Range(idle') = Range(idle) \cup {i}
    BY <1>1, <1>2, Listed DEF markIdle, IdleExact, Typed, TypeOK
  <2>2. Idlers' = Idlers \cup {i}
    BY <1>2 DEF Idlers
  <2> QED
    BY <2>1, <2>2 DEF IdleExact, Idlers
<1>3. CASE ~(listed[i] /\ Reaper)
  <2>1. idle' = idle
    BY <1>3 DEF markIdle
  <2>2. Idlers' = Idlers
    BY <1>3 DEF Idlers
  <2> QED
    BY <2>1, <2>2 DEF IdleExact, Idlers
<1> QED
  BY <1>2, <1>3

\* Sessions become idle, or are no longer.
LEMMA IdleMoves ==
  ASSUME Typed, InTurn, Seats, LinkOnce, IdleExact,
         \/ AttachWorker \/ ReleaseLink \/ ReleaseWorker \/ ReapSession
         \/ (\E i \in Slots : DeleteSession(i))
         \/ (\E c \in Conns, i \in Slots : AttachConnection(c, i))
  PROVE  IdleExact'
<1>1. CASE AttachWorker
  <2> DEFINE i == Asked
  <2>1. /\ drain # <<>> /\ Head(drain).op = "attach" /\ drain' = Tail(drain)
        /\ UNCHANGED <<queue, phase, listed, occupant>>
        /\ attached' = [attached EXCEPT ![i] = TRUE]
    BY <1>1 DEF AttachWorker, Draining, turn
  <2>2. i \in Slots /\ ~attached[i] /\ occupant[i] = Asker
    BY <2>1, FirstRequest DEF Asks
  <2>3. attached'[i] /\ \A j \in Slots : j # i => attached'[j] = attached[j]
    BY <2>1, <2>2 DEF Typed, TypeOK
  <2>4. CASE connectionScoped(i)
    <3>1. ~listed[i]
      BY <2>2, <2>4, Constants DEF connectionScoped, Seats, Seated
    <3>2. idle' = idle /\ \A j \in Slots : j # i => link'[j] = link[j]
      BY <1>1, <2>4 DEF AttachWorker, Typed, TypeOK
    <3> QED
      BY <2>1, <2>3, <3>1, <3>2, IdleQuiet
  <2>5. CASE ~connectionScoped(i) /\ link[i] = None
    <3>1. markIdle(i) /\ link' = link
      BY <1>1, <2>5 DEF AttachWorker
    <3> QED
      BY <2>1, <2>2, <2>3, <2>5, <3>1, IdleJoined
  <2>6. CASE ~connectionScoped(i) /\ link[i] # None
    <3>1. idle' = idle /\ link' = link
      BY <1>1, <2>6 DEF AttachWorker
    <3> QED
      BY <2>1, <2>3, <2>6, <3>1, IdleQuiet
  <2> QED
    BY <2>4, <2>5, <2>6
<1>2. CASE ReleaseLink
  <2> DEFINE i == Asked w == Asker
  <2>1. /\ drain # <<>> /\ Head(drain).op = "release_link" /\ drain' = Tail(drain)
        /\ UNCHANGED <<queue, phase, listed, attached>> /\ markIdle(i)
    BY <1>2 DEF ReleaseLink, Draining, turn, seat
  <2>2. /\ i \in Slots /\ w \in Workers /\ occupant[i] = w /\ at[w] = i /\ Asks(Head(drain))
        /\ Head(drain).by = w
        /\ \A q \in Pending : q = Head(drain) \/ q \in Pending'
        /\ \A q \in Pending' : q.by # w
    BY <2>1, FirstRequest
  <2>3. Leaving(w) /\ pc[w] \in Driving \ Going
    BY <2>1, <2>2 DEF Asks, Leaving, Driving, Going
  <2>4. \A q \in Pending : q.op = "attach" => q.by # w
    BY <2>1, <2>2
  <2>5. attached[i]
    BY <2>2, <2>3, <2>4 DEF Seats, Seated
  <2>6. link'[i] = None /\ \A j \in Slots : j # i => link'[j] = link[j]
    BY <1>2, <2>2 DEF ReleaseLink, Typed, TypeOK
  <2>7. CASE w \in Sessions
    <3>1. link[i] # None
      BY <2>2, <2>3, <2>7 DEF LinkOnce, Apart
    <3> QED
      BY <2>1, <2>2, <2>5, <2>6, <3>1, IdleJoined
  <2>8. CASE w \notin Sessions
    <3>1. ~listed[i]
      BY <2>2, <2>8 DEF Seats, Seated
    <3>2. idle' = idle
      BY <2>1, <3>1 DEF markIdle
    <3> QED
      BY <2>1, <2>6, <3>1, <3>2, IdleQuiet
  <2> QED
    BY <2>7, <2>8
<1>3. CASE ReleaseWorker
  <2>1. Asked \in Slots /\ clearIdle(Asked)
    BY <1>3, AskedType DEF ReleaseWorker, Draining, Typed
  <2>2. ~listed'[Asked] /\ \A j \in Slots : j # Asked =>
          listed'[j] = listed[j] /\ attached'[j] = attached[j] /\ link'[j] = link[j]
    BY <1>3, <2>1 DEF ReleaseWorker, Typed, TypeOK
  <2> QED
    BY <2>1, <2>2, IdleLeft
<1>4. ASSUME NEW i \in Slots, quitSession(i), UNCHANGED <<attached, link>> PROVE IdleExact'
  <2>1. clearIdle(i) /\ ~listed'[i] /\ \A j \in Slots : j # i => listed'[j] = listed[j]
    BY <1>4 DEF quitSession, Typed, TypeOK
  <2> QED
    BY <1>4, <2>1, IdleLeft
<1>5. CASE ReapSession
  <2>1. Head(idle) \in Slots
    BY <1>5, HeadTail DEF ReapSession, Typed, TypeOK
  <2> QED
    BY <1>4, <1>5, <2>1 DEF ReapSession
<1>6. ASSUME NEW i \in Slots, DeleteSession(i) PROVE IdleExact'
  BY <1>4, <1>6 DEF DeleteSession
<1>7. ASSUME NEW c \in Conns, NEW i \in Slots, AttachConnection(c, i) PROVE IdleExact'
  <2>1. UNCHANGED <<listed, attached>>
    BY <1>7 DEF AttachConnection, seat
  <2>2. CASE idle' = idle /\ link' = link
    BY <2>1, <2>2, IdleQuiet
  <2>3. CASE clearIdle(i) /\ link' = [link EXCEPT ![i] = c]
    <3>1. link'[i] # None /\ \A j \in Slots : j # i => link'[j] = link[j]
      BY <2>3, Constants DEF Workers, Typed, TypeOK
    <3> QED
      BY <2>1, <2>3, <3>1, IdleLeft
  <2> QED
    BY <1>7, <2>2, <2>3 DEF AttachConnection
<1> QED
  BY <1>1, <1>2, <1>3, <1>5, <1>6, <1>7

\* A worker's steps leave the list alone.
LEMMA WorkerIdle ==
  ASSUME IdleExact, NEW w \in Workers,
         Work(w) \/ RunScript(w) \/ ScriptReturns(w) \/ Stuck(w)
  PROVE  IdleExact'
<1>1. UNCHANGED <<idle, listed, attached, link>>
  BY DEF Work, Start, StartFails, Signal, Tick, OnCommand, OnLink, OnEnd, OnLinkGone,
    DestroyLink, PumpEnds, TickFails, Killed, Disarm, Teardown, RunScript, ScriptReturns, Stuck,
    server, loopVars, slotVars, seat
<1> QED
  BY <1>1, IdleQuiet

\* A new session is not idle before it is attached.
LEMMA SpawnIdle ==
  ASSUME Typed, Seats, IdleExact, NEW w \in Workers, NEW i \in Free, Spawned(w, i),
         UNCHANGED <<idle, attached, link>>
  PROVE  IdleExact'
<1>1. i \in Slots /\ ~attached[i]
  BY DEF Free, Seats, SlotsExact
<1>2. \A j \in Slots : j # i => listed'[j] = listed[j]
  BY <1>1 DEF Spawned, Typed, TypeOK
<1> QED
  BY <1>1, <1>2, IdleQuiet

\* Every step keeps the reaper's list.
LEMMA IdleStep ==
  ASSUME Typed, InTurn, Seats, LinkOnce, IdleExact, [Next]_vars
  PROVE  IdleExact'
<1>1. CASE UNCHANGED <<idle, listed, attached, link>>
  BY <1>1, IdleQuiet
<1>2. CASE UNCHANGED vars
  BY <1>1, <1>2 DEF vars, server, loopVars, slotVars, seat
<1>3. CASE RequestTerminate \/ EndEvents \/ EndDrain \/ Deinit \/ Saturated \/ Stop
             \/ (\E c \in Conns : HttpClose(c) \/ Accept(c))
             \/ (\E i \in Slots : ReadCommand(i) \/ ReadClose(i) \/ DropWebSocket(i))
  BY <1>1, <1>3 DEF RequestTerminate, EndEvents, EndDrain, Deinit, Saturated, Stop, HttpClose,
    Accept, ReadCommand, ReadClose, DropWebSocket, server, loopVars, slotVars, seat
<1>4. CASE Step
  BY <1>3, <1>4, IdleMoves DEF Step
<1>5. ASSUME NEW c \in Conns, NEW i \in Slots, UpgradeConnection(c, i) PROVE IdleExact'
  BY <1>5, SpawnIdle DEF UpgradeConnection, Workers
<1>6. ASSUME NEW s \in Sessions, NEW i \in Slots, NewSession(s, i) PROVE IdleExact'
  BY <1>6, SpawnIdle DEF NewSession, loopVars, Workers
<1>7. CASE Events
  BY <1>3, <1>5, <1>6, <1>7, IdleMoves DEF Events
<1> QED
  BY <1>2, <1>4, <1>7, WorkerIdle DEF Next, Ended

-----------------------------------------------------------------------------
(* What follows: the assertions hold, and the queue fits.                   *)

\* The loop ends when no slot is taken.
Joined == phase \in {"joining", "done"} => Free = Slots

\* The loop ends when nobody is left, and then nobody comes.
LEMMA JoinedStep == ASSUME Joined, [Next]_vars PROVE Joined'
<1>1. CASE UNCHANGED <<phase, occupant>>
  BY <1>1 DEF Joined, Free
<1>2. CASE UNCHANGED vars
  BY <1>1, <1>2 DEF vars, server, loopVars, turn, slotVars, seat
<1>3. CASE EndDrain
  BY <1>3 DEF EndDrain, Joined, Free, slotVars, seat
<1>4. CASE Deinit
  BY <1>4 DEF Deinit, Joined, Free, slotVars, seat
<1>5. CASE EndEvents
  BY <1>5 DEF EndEvents, Joined
<1>6. CASE ReleaseWorker
  BY <1>6 DEF ReleaseWorker, Draining, Loop, turn, Joined
<1>7. CASE RequestTerminate \/ AttachWorker \/ ReleaseLink
  BY <1>1, <1>7 DEF RequestTerminate, AttachWorker, ReleaseLink, turn, slotVars, seat
<1>8. CASE Events
  <2>1. CASE (\E c \in Conns, i \in Slots : UpgradeConnection(c, i))
               \/ \E s \in Sessions, i \in Slots : NewSession(s, i)
    BY <2>1 DEF UpgradeConnection, NewSession, Loop, turn, loopVars, Joined
  <2>2. CASE UNCHANGED <<phase, occupant>>
    BY <1>1, <2>2
  <2> QED
    BY <1>8, <2>1, <2>2 DEF Events, HttpClose, Accept, AttachConnection, DeleteSession, ReadCommand,
      ReadClose, DropWebSocket, Saturated, ReapSession, Stop, server, loopVars, turn, slotVars, seat
<1>9. ASSUME NEW w \in Workers, Work(w) \/ RunScript(w) \/ ScriptReturns(w) \/ Stuck(w)
      PROVE  Joined'
  <2>1. UNCHANGED <<phase, occupant>>
    BY <1>9 DEF Work, Start, StartFails, Signal, Tick, OnCommand, OnLink, OnEnd, OnLinkGone,
      DestroyLink, PumpEnds, TickFails, Killed, Disarm, Teardown, RunScript, ScriptReturns, Stuck,
      server, loopVars, turn, slotVars, seat
  <2> QED
    BY <1>1, <2>1
<1> QED
  BY <1>2, <1>3, <1>4, <1>5, <1>6, <1>7, <1>8, <1>9 DEF Next, Step, Ended

\* No assertion fails but that of BiDi.releaseLink.
LEMMA AssertsStep ==
  ASSUME Typed, InTurn, Seats, LinkOnce, IdleExact, Joined, AssertsHold, [Next]_vars
  PROVE  AssertsHold'
<1>1. CASE fault' = fault
  BY <1>1 DEF AssertsHold
<1>2. CASE UNCHANGED vars
  BY <1>1, <1>2 DEF vars
<1>3. CASE AttachWorker
  <2>1. /\ drain # <<>> /\ Head(drain).op = "attach" /\ drain' = Tail(drain)
        /\ UNCHANGED <<queue, phase>>
        /\ fault' = fault \cup Broken("attached twice", attached[Asked])
                     \cup Broken("attach link", connectionScoped(Asked) /\ link[Asked] # None)
    BY <1>3 DEF AttachWorker, Draining, turn
  <2>2. Asked \in Slots /\ ~attached[Asked]
    BY <2>1, FirstRequest DEF Asks
  <2>3. ~(connectionScoped(Asked) /\ link[Asked] # None)
    BY <2>2 DEF connectionScoped, Seats, Seated
  <2> QED
    BY <2>1, <2>2, <2>3 DEF Broken, AssertsHold
<1>4. CASE ReleaseLink
  <2>1. /\ drain # <<>> /\ Head(drain).op = "release_link" /\ drain' = Tail(drain)
        /\ UNCHANGED <<queue, phase>>
        /\ fault' = fault \cup Broken("idle twice", listed[Asked] /\ Contains(idle, Asked))
    BY <1>4 DEF ReleaseLink, Draining, turn
  <2>2. /\ Asked \in Slots /\ occupant[Asked] = Asker /\ Asks(Head(drain))
        /\ Head(drain).by = Asker
    BY <2>1, FirstRequest
  <2>3. Leaving(Asker)
    BY <2>1, <2>2 DEF Asks, Leaving
  <2>4. listed[Asked] => link[Asked] # None
    BY <2>2, <2>3 DEF LinkOnce, Apart, Seats, Seated
  <2>5. ~(listed[Asked] /\ Contains(idle, Asked))
    <3>1. Contains(idle, Asked) => Asked \in Range(idle)
      BY LenProperties DEF Contains, Range, Typed, TypeOK
    <3> QED
      BY <2>4, <3>1 DEF IdleExact
  <2> QED
    BY <2>1, <2>5 DEF Broken, AssertsHold
<1>5. CASE Deinit
  BY <1>5 DEF Deinit, Joined, Broken, AssertsHold
<1>6. CASE RequestTerminate \/ EndEvents \/ ReleaseWorker \/ EndDrain
  BY <1>1, <1>6 DEF RequestTerminate, EndEvents, ReleaseWorker, EndDrain
<1>7. CASE Events
  BY <1>1, <1>7 DEF Events, HttpClose, Accept, UpgradeConnection, NewSession, AttachConnection,
    DeleteSession, ReadCommand, ReadClose, DropWebSocket, Saturated, ReapSession, Stop
<1>8. ASSUME NEW w \in Workers, OnLink(w) PROVE AssertsHold'
  <2>1. PICK mode \in {"pump", "script"}, k \in DOMAIN Mail(w) :
          /\ pc[w] = mode /\ Mail(w)[k].kind = "link"
          /\ fault' = fault \cup Broken("adopt held", held[w] # None)
    BY <1>8 DEF OnLink, Drains
  <2>2. held[w] = None
    BY <2>1, TakesLink
  <2> QED
    BY <2>1, <2>2 DEF Broken, AssertsHold
<1>9. ASSUME NEW w \in Workers, OnLinkGone(w) PROVE AssertsHold'
  BY <1>9 DEF OnLinkGone, AssertsHold
<1>10. ASSUME NEW w \in Workers, Work(w) \/ RunScript(w) \/ ScriptReturns(w) \/ Stuck(w),
              ~OnLink(w), ~OnLinkGone(w)
       PROVE  AssertsHold'
  BY <1>1, <1>10 DEF Work, Start, StartFails, Signal, Tick, OnCommand, OnEnd, DestroyLink, PumpEnds,
    TickFails, Killed, Disarm, Teardown, RunScript, ScriptReturns, Stuck
<1> QED
  BY <1>2, <1>3, <1>4, <1>5, <1>6, <1>7, <1>8, <1>9, <1>10 DEF Next, Step, Ended

\* A list of requests of which none is asked twice by a slot is at most two per slot long.
LEMMA TwoPerSlot ==
  ASSUME NEW s \in Seq(Requests),
         \A j \in DOMAIN s : \A i \in 1 .. j - 1 :
           s[i].slot = s[j].slot => s[i].op = "attach" /\ s[j].op # "attach"
  PROVE  Len(s) <= 2 * Cardinality(Slots)
<1> DEFINE n == Len(s) T == Slots \X ({1} \cup {2})
           f == [j \in 1 .. n |-> <<s[j].slot, IF s[j].op = "attach" THEN 1 ELSE 2>>]
<1>1. n \in Nat /\ DOMAIN s = 1 .. n /\ \A j \in 1 .. n : s[j].slot \in Slots
  BY LenProperties, ElementOfSeq, Members
<1>2. IsFiniteSet(T) /\ Cardinality(T) = 2 * Cardinality(Slots) /\ Cardinality(Slots) \in Nat
  <2>2. IsFiniteSet({1} \cup {2}) /\ Cardinality({1} \cup {2}) = 2
    <3> DEFINE A == {1} B == A \cup {2}
    <3>1. IsFiniteSet(A) /\ Cardinality(A) = 1 /\ 2 \notin A
      <4>1. IsFiniteSet(A) /\ Cardinality(A) = 1
        BY FS_Singleton
      <4> QED
        BY <4>1
    <3> HIDE DEF A
    <3>2. /\ IsFiniteSet(B)
          /\ Cardinality(B) = IF 2 \in A THEN Cardinality(A) ELSE Cardinality(A) + 1
      BY <3>1, FS_AddElement
    <3> HIDE DEF B
    <3>3. IsFiniteSet(B) /\ Cardinality(B) = 2
      BY <3>1, <3>2
    <3> QED
      BY <3>3, Zenon DEF A, B
  <2>3. Cardinality(T) = Cardinality(Slots) * 2 /\ IsFiniteSet(T)
    BY <2>2, FS_Product, Constants
  <2>4. Cardinality(Slots) \in Nat
    BY FS_CardinalityType, Constants
  <2> QED
    BY <2>3, <2>4
<1> HIDE DEF n
<1>3. \A i, j \in 1 .. n : i < j => i \in 1 .. j - 1
  BY <1>1
<1>4. \A i, j \in 1 .. n : i < j => f[i] # f[j]
  BY <1>1, <1>3
<1>5. f \in [1 .. n -> T]
  BY <1>1
<1>6. \A i, j \in 1 .. n : i = j \/ i < j \/ j < i
  BY <1>1
<1>7. \A i, j \in 1 .. n : f[i] = f[j] => i = j
  BY <1>4, <1>6
<1> HIDE DEF f, T
<1>8. f \in Injection(1 .. n, T)
  BY <1>5, <1>7 DEF Injection, IsInjective
<1>9. Cardinality(1 .. n) <= Cardinality(T)
  BY <1>2, <1>8, FS_Injection
<1>10. Cardinality(1 .. n) = n
  <2>1. Cardinality(1 .. n) = IF 1 > n THEN 0 ELSE n - 1 + 1
    BY <1>1, FS_Interval
  <2> QED
    BY <1>1, <2>1
<1> QED
  BY <1>1, <1>2, <1>9, <1>10 DEF n

\* The two buffers have room.
LEMMA Fits == ASSUME Typed, InTurn, Seats PROVE QueueFits
<1>1. \A q \in Pending : occupant[q.slot] = q.by
  BY DEF Seats, Requested
<1>2. ASSUME NEW s \in Seq(Requests), Range(s) \subseteq Pending,
             \A j \in DOMAIN s : \A i \in 1 .. j - 1 : Follows(s[i], s[j])
      PROVE  Len(s) <= 2 * Cardinality(Slots)
  <2>1. ASSUME NEW j \in DOMAIN s, NEW i \in 1 .. j - 1, s[i].slot = s[j].slot
        PROVE  s[i].op = "attach" /\ s[j].op # "attach"
    <3>1. i \in DOMAIN s
      <4>1. DOMAIN s = 1 .. Len(s) /\ Len(s) \in Nat
        BY LenProperties
      <4> QED
        BY <4>1
    <3>2. s[i] \in Pending /\ s[j] \in Pending
      BY <1>2, <3>1 DEF Range
    <3>3. s[i].by = s[j].by
      BY <1>1, <2>1, <3>2
    <3> QED
      BY <1>2, <3>3 DEF Follows
  <2> QED
    BY <2>1, TwoPerSlot
<1>3. Range(queue) \subseteq Pending /\ Range(drain) \subseteq Pending
  BY DEF Pending
<1>4. Len(queue) <= 2 * Cardinality(Slots)
  BY <1>2, <1>3 DEF InTurn, Typed, TypeOK
<1>5. Len(drain) <= 2 * Cardinality(Slots)
  BY <1>2, <1>3 DEF InTurn, Typed, TypeOK
<1> QED
  BY <1>1, <1>4, <1>5 DEF QueueFits, Pending

-----------------------------------------------------------------------------
(* The inductive invariant.                                                 *)

\* What AssertsHold and NoLostWakeup need, and what keeps it.
IInv ==
  Typed /\ Woken /\ InTurn /\ Seats /\ LinkOnce /\ IdleExact /\ Joined /\ AssertsHold

\* At first nobody is there.
LEMMA InvInit == ASSUME Init PROVE IInv
<1>1. Typed
  BY TypedInit
<1>2. DOMAIN <<>> = {}
  OBVIOUS
<1>3. Range(drain) = {} /\ Range(queue) = {} /\ Range(idle) = {} /\ Pending = {}
  BY <1>2 DEF Range, Pending, Init
<1>4. Woken
  BY DEF Woken, NoLostWakeup, Init
<1>5. InTurn
  BY <1>2 DEF InTurn, Init
<1>6. \A w \in Workers : Released(w)
  BY DEF Released, Init
<1>7. None \notin Workers
  BY Constants
<1>8. Seats
  <2>1. SlotsExact
    BY <1>6 DEF SlotsExact, Init
  <2>2. Requested
    BY <1>3 DEF Requested
  <2>3. Seated
    BY <1>7 DEF Seated, Init, Driving, Workers
  <2> QED
    BY <2>1, <2>2, <2>3 DEF Seats
<1>9. LinkOnce
  <2>1. Sessions \subseteq Workers
    BY DEF Workers
  <2> QED
    BY <1>7, <2>1, NoLinks DEF LinkOnce, Init
<1>10. IdleExact
  <2>1. IsInjective(idle)
    BY <1>2 DEF IsInjective, Init
  <2> QED
    BY <1>3, <2>1 DEF IdleExact, Init
<1>11. Joined /\ AssertsHold
  BY DEF Joined, AssertsHold, Init
<1> QED
  BY <1>1, <1>4, <1>5, <1>8, <1>9, <1>10, <1>11 DEF IInv

\* Every step keeps it.
LEMMA InvStep == ASSUME IInv, [Next]_vars PROVE IInv'
BY TypedStep, WokenStep, SeatsStep, OnceStep, IdleStep, JoinedStep, AssertsStep DEF IInv

\* The state is well formed: this is what the other theorems rest on.
THEOREM TypeCorrect == Spec => []TypeOK
<1>1. IInv => TypeOK
  BY DEF IInv, Typed
<1> QED
  BY <1>1, InvInit, InvStep, PTL DEF Spec

\* Whatever the loop and its workers do in whichever order, none of the assertions of
\* attachWorker, markIdle, adoptLink and deinit fails.
THEOREM AssertionsHold == Spec => []AssertsHold
<1>1. IInv => AssertsHold
  BY DEF IInv
<1> QED
  BY <1>1, InvInit, InvStep, PTL DEF Spec

\* notifyLoop: a request that is in the queue is always followed by a signal.
THEOREM NoWakeupIsLost == Spec => []NoLostWakeup
<1>1. IInv => NoLostWakeup
  BY DEF IInv, Woken
<1> QED
  BY <1>1, InvInit, InvStep, PTL DEF Spec

\* appendAssumeCapacity never runs out of the two places per slot, and a request is never
\* applied to another worker than the one that made it.
THEOREM QueueNeverOverflows == Spec => []QueueFits
<1>1. IInv => QueueFits
  BY Fits DEF IInv
<1> QED
  BY <1>1, InvInit, InvStep, PTL DEF Spec

\* A slot is its worker's until the loop has answered the release, and the loop neither
\* reaches the driver nor raises the flag of a worker after that.
THEOREM SlotsAreHeld == Spec => []SlotsExact
<1>1. IInv => SlotsExact
  BY DEF IInv, Seats
<1> QED
  BY <1>1, InvInit, InvStep, PTL DEF Spec

\* The reaper's list is exact.
THEOREM ReaperIsExact == Spec => []IdleExact
<1>1. IInv => IdleExact
  BY DEF IInv
<1> QED
  BY <1>1, InvInit, InvStep, PTL DEF Spec

-----------------------------------------------------------------------------
(* The new links of an inbox.                                               *)

\* The sockets that are new in an inbox.
News(s) == {s[k].conn : k \in Links(s)}

\* A message that is no link is added, or a link to an inbox without one.
LEMMA NewsAdded ==
  ASSUME NEW s \in Seq(Messages), NEW m \in Messages
  PROVE  /\ m.kind # "link" => News(s \o <<m>>) = News(s)
         /\ m.kind = "link" /\ Links(s) = {} => News(s \o <<m>>) = {m.conn}
<1> DEFINE t == Append(s, m) n == Len(s)
<1>1. /\ s \o <<m>> = t /\ DOMAIN t = 1 .. n + 1 /\ DOMAIN s = 1 .. n /\ n \in Nat
      /\ \A i \in 1 .. n : t[i] = s[i]
      /\ t[n + 1] = m
  BY PutLast, LenProperties
<1> HIDE DEF t, n
<1>2. 1 .. n + 1 = 1 .. n \cup {n + 1} /\ n + 1 \notin 1 .. n
  BY <1>1
<1>3. m.kind # "link" => Links(t) = Links(s) /\ \A k \in Links(s) : t[k] = s[k]
  BY <1>1, <1>2 DEF Links
<1>4. m.kind = "link" /\ Links(s) = {} => Links(t) = {n + 1}
  BY <1>1, <1>2 DEF Links
<1> QED
  BY ZenonT(60), <1>1, <1>3, <1>4 DEF News

\* A message that is no link is taken.
LEMMA NewsTaken ==
  ASSUME NEW s \in Seq(Messages), NEW k \in 1 .. Len(s), s[k].kind # "link"
  PROVE  News(RemoveAt(s, k)) = News(s)
<1> DEFINE t == RemoveAt(s, k) n == Len(s)
<1>1. /\ DOMAIN t = 1 .. n - 1 /\ DOMAIN s = 1 .. n /\ n \in Nat /\ k \in 1 .. n
      /\ \A j \in 1 .. n - 1 : t[j] = s[IF j < k THEN j ELSE j + 1]
  BY TakeAway, LenProperties
<1> HIDE DEF t, n
<1> DEFINE f(j) == IF j < k THEN j ELSE j + 1
<1>2. /\ \A j \in 1 .. n - 1 : f(j) \in 1 .. n
      /\ \A m \in 1 .. n : m # k => \E j \in 1 .. n - 1 : f(j) = m
  <2>1. \A j \in 1 .. n - 1 : f(j) \in 1 .. n
    BY <1>1
  <2>2. ASSUME NEW m \in 1 .. n, m # k PROVE \E j \in 1 .. n - 1 : f(j) = m
    <3>1. CASE m < k
      <4>1. m \in 1 .. n - 1 /\ f(m) = m
        BY <1>1, <3>1
      <4> QED
        BY <4>1
    <3>2. CASE ~(m < k)
      <4>1. m - 1 \in 1 .. n - 1 /\ f(m - 1) = m
        BY <1>1, <2>2, <3>2
      <4> QED
        BY <4>1
    <3> QED
      BY <3>1, <3>2
  <2> QED
    BY <2>1, <2>2
<1>3. \A j \in 1 .. n - 1 : t[j] = s[f(j)]
  BY <1>1
<1> HIDE DEF f
<1>4. \A j \in Links(t) : f(j) \in Links(s) /\ t[j] = s[f(j)]
  BY <1>1, <1>2, <1>3 DEF Links
<1>5. ASSUME NEW m \in Links(s) PROVE \E j \in Links(t) : t[j] = s[m]
  <2>1. m \in 1 .. n /\ m # k
    BY <1>1, <1>5 DEF Links
  <2>2. PICK j \in 1 .. n - 1 : f(j) = m
    BY <1>2, <2>1
  <2> QED
    BY <1>1, <1>3, <1>5, <2>2 DEF Links
<1>6. News(t) \subseteq News(s)
  BY <1>4 DEF News
<1>7. News(s) \subseteq News(t)
  BY <1>5 DEF News
<1> QED
  BY <1>6, <1>7 DEF t

\* The inboxes of all slots, when a message that is no link is added or taken.
LEMMA NewsRest ==
  ASSUME Typed, NEW i \in Slots
  PROVE  /\ \A m \in {Command, Close, Disconnect, Quit} :
              push(i, <<m>>) => \A j \in Slots : News(inbox'[j]) = News(inbox[j])
         /\ \A w \in Workers : \A k \in DOMAIN Mail(w) :
              Mail(w)[k].kind # "link" /\
              ( \/ Pop(w, k)
                \/ inbox' = [inbox EXCEPT ![at[w]] = Append(RemoveAt(@, k), Quit)] )
              => \A j \in Slots : News(inbox'[j]) = News(inbox[j])
<1>1. ASSUME NEW m \in {Command, Close, Disconnect, Quit}, push(i, <<m>>), NEW j \in Slots
      PROVE  News(inbox'[j]) = News(inbox[j])
  <2>1. m \in Messages /\ m.kind # "link"
    BY Members DEF Command, Close, Disconnect, Quit, Message
  <2>2. inbox[i] \in Seq(Messages) /\ inbox'[i] = inbox[i] \o <<m>>
    BY <1>1, PushOne DEF Typed, TypeOK
  <2>3. News(inbox'[i]) = News(inbox[i])
    BY <2>1, <2>2, NewsAdded
  <2> QED
    BY <1>1, <2>3, PushOne
<1>2. ASSUME NEW w \in Workers, NEW k \in DOMAIN Mail(w), Mail(w)[k].kind # "link",
             \/ Pop(w, k)
             \/ inbox' = [inbox EXCEPT ![at[w]] = Append(RemoveAt(@, k), Quit)],
             NEW j \in Slots
      PROVE  News(inbox'[j]) = News(inbox[j])
  <2> DEFINE s == inbox[at[w]] t == RemoveAt(inbox[at[w]], k)
  <2>1. /\ at[w] \in Slots /\ s \in Seq(Messages) /\ t \in Seq(Messages) /\ k \in 1 .. Len(s)
        /\ s[k].kind # "link"
    BY <1>2, MailType
  <2>2. News(t) = News(s)
    BY <2>1, NewsTaken
  <2>3. inbox'[at[w]] = t \/ inbox'[at[w]] = Append(t, Quit)
    BY <1>2, <2>1 DEF Pop, Typed, TypeOK
  <2>4. j # at[w] => inbox'[j] = inbox[j]
    BY <1>2, <2>1 DEF Pop, Typed, TypeOK
  <2> HIDE DEF t
  <2>5. News(Append(t, Quit)) = News(t)
    <3>1. Quit \in Messages /\ Quit.kind # "link"
      BY Members DEF Quit, Message
    <3>2. t \o <<Quit>> = Append(t, Quit)
      BY <2>1, <3>1, PutLast
    <3> QED
      BY <2>1, <3>1, <3>2, NewsAdded
  <2> QED
    BY <2>2, <2>3, <2>4, <2>5
<1> QED
  BY <1>1, <1>2

-----------------------------------------------------------------------------
(* Owners.                                                                  *)

\* Worker x holds or gives back socket c, or slot x has it new in its inbox.
Holds(k, x, c) ==
  \/ k = "held" /\ x \in Workers /\ held[x] = c
  \/ k = "giving" /\ x \in Workers /\ giving[x] = c
  \/ k = "new" /\ x \in Slots /\ c \in News(inbox[x])

\* A socket that is a link is owned, no other is, and none twice.
Alone == \A c \in Conns : \A k, l, x, y : Holds(k, x, c) /\ Holds(l, y, c) => k = l /\ x = y
Kept  == \A c \in Conns : sock[c] = "ws" <=> \E k, x : Holds(k, x, c)
Owned == Alone /\ Kept

\* Nothing changes hands.
LEMMA OwnedQuiet ==
  ASSUME Owned, \A c \in Conns : sock'[c] = "ws" <=> sock[c] = "ws",
         UNCHANGED <<held, giving>>, \A i \in Slots : News(inbox'[i]) = News(inbox[i])
  PROVE  Owned'
<1>1. \A c \in Conns : \A k, x : Holds(k, x, c)' <=> Holds(k, x, c)
  BY DEF Holds
<1> QED
  BY <1>1 DEF Owned, Alone, Kept

\* An owner destroys what it has.
LEMMA OwnedLost ==
  ASSUME Owned, NEW l, NEW y,
         \A c \in Conns : sock'[c] = "ws" <=> (sock[c] = "ws" /\ ~Holds(l, y, c)),
         \A c \in Conns : \A k, x :
           Holds(k, x, c)' <=> (Holds(k, x, c) /\ ~(k = l /\ x = y))
  PROVE  Owned'
<1>1. Alone'
  BY DEF Owned, Alone
<1>2. ASSUME NEW c \in Conns PROVE sock'[c] = "ws" <=> \E k, x : Holds(k, x, c)'
  <2>1. CASE sock'[c] = "ws"
    <3>1. PICK k, x : Holds(k, x, c)
      BY <2>1 DEF Owned, Kept
    <3> QED
      BY <2>1, <3>1
  <2>2. ASSUME NEW k, NEW x, Holds(k, x, c)' PROVE sock'[c] = "ws"
    BY <2>2 DEF Owned, Alone, Kept
  <2> QED
    BY <2>1, <2>2
<1> QED
  BY <1>1, <1>2 DEF Owned, Kept

\* An owner hands what it has to one that has nothing.
LEMMA OwnedMoved ==
  ASSUME Owned, NEW l, NEW y, NEW m, NEW z, l # m,
         \A c \in Conns : sock'[c] = "ws" <=> sock[c] = "ws",
         \A c \in Conns : ~Holds(m, z, c),
         \A c \in Conns : Holds(m, z, c)' <=> Holds(l, y, c),
         \A c \in Conns : \A k, x : ~(k = m /\ x = z) =>
           (Holds(k, x, c)' <=> (Holds(k, x, c) /\ ~(k = l /\ x = y)))
  PROVE  Owned'
<1>1. Alone'
  BY DEF Owned, Alone
<1>2. ASSUME NEW c \in Conns PROVE sock'[c] = "ws" <=> \E k, x : Holds(k, x, c)'
  <2>1. CASE sock'[c] = "ws"
    <3>1. PICK k, x : Holds(k, x, c)
      BY <2>1 DEF Owned, Kept
    <3>2. CASE k = l /\ x = y
      <4>1. Holds(m, z, c)'
        BY <3>1, <3>2
      <4> QED
        BY <2>1, <4>1
    <3>3. CASE ~(k = l /\ x = y)
      <4>1. ~(k = m /\ x = z)
        BY <3>1
      <4>2. Holds(k, x, c)'
        BY <3>1, <3>3, <4>1
      <4> QED
        BY <2>1, <4>2
    <3> QED
      BY <3>2, <3>3
  <2>2. ASSUME NEW k, NEW x, Holds(k, x, c)' PROVE sock'[c] = "ws"
    BY <2>2 DEF Owned, Kept
  <2> QED
    BY <2>1, <2>2
<1> QED
  BY <1>1, <1>2 DEF Owned, Kept

\* A worker gives a link back only while it waits for the loop, and holds none when it is over.
Hands ==
  /\ \A w \in Workers : giving[w] # None => pc[w] \in {"linkSig", "waitLink"}
  /\ \A w \in Workers : pc[w] = "none" => held[w] = None

\* The inbox that has one link has that one.
LEMMA OneNew ==
  ASSUME NEW s, NEW k \in Links(s), Once(s)
  PROVE  News(s) = {s[k].conn}
BY DEF News, Once

\* An inbox without links has no new sockets.
LEMMA NoneNew == News(<<>>) = {} /\ \A s : Links(s) = {} => News(s) = {}
BY NoLinks DEF News

\* The loop's steps that leave the new links of every inbox as they are.
LEMMA LoopNews ==
  ASSUME Typed,
         \/ RequestTerminate \/ EndEvents \/ EndDrain \/ Deinit \/ Saturated \/ Stop
         \/ (\E c \in Conns : HttpClose(c) \/ Accept(c))
         \/ ReapSession \/ AttachWorker \/ ReleaseLink
         \/ (\E i \in Slots : DeleteSession(i) \/ ReadCommand(i) \/ ReadClose(i)
                               \/ DropWebSocket(i))
         \/ (\E s \in Sessions, i \in Slots : NewSession(s, i))
  PROVE  \A i \in Slots : News(inbox'[i]) = News(inbox[i])
<1>1. CASE UNCHANGED inbox
  BY <1>1
<1>2. CASE ReapSession
  <2>1. Head(idle) \in Slots /\ push(Head(idle), <<Quit>>)
    BY <1>2, HeadTail DEF ReapSession, quitSession, Typed, TypeOK
  <2> QED
    BY <2>1, NewsRest
<1>3. CASE AttachWorker
  <2>1. Asked \in Slots
    BY <1>3, AskedType DEF AttachWorker, Draining, Typed
  <2>2. inbox' = inbox \/ push(Asked, <<Disconnect>>)
    BY <1>3 DEF AttachWorker
  <2> QED
    BY <1>1, <2>1, <2>2, NewsRest
<1>4. ASSUME NEW i \in Slots,
             DeleteSession(i) \/ ReadCommand(i) \/ ReadClose(i) \/ DropWebSocket(i)
      PROVE  \A j \in Slots : News(inbox'[j]) = News(inbox[j])
  <2>1. \E m \in {Command, Close, Disconnect, Quit} : push(i, <<m>>)
    BY <1>4 DEF DeleteSession, quitSession, ReadCommand, ReadClose, DropWebSocket
  <2> QED
    BY <2>1, NewsRest
<1> QED
  BY <1>1, <1>2, <1>3, <1>4 DEF RequestTerminate, EndEvents, EndDrain, Deinit, Saturated, Stop,
    HttpClose, Accept, ReleaseLink, NewSession, shared

\* The loop changes nothing.
LEMMA LoopOwned ==
  ASSUME Typed, Owned,
         \/ RequestTerminate \/ EndEvents \/ EndDrain \/ Deinit \/ Saturated \/ Stop
         \/ (\E c \in Conns : HttpClose(c) \/ Accept(c))
         \/ ReapSession \/ AttachWorker \/ ReleaseLink
         \/ (\E i \in Slots : DeleteSession(i) \/ ReadCommand(i) \/ ReadClose(i)
                               \/ DropWebSocket(i))
         \/ (\E s \in Sessions, i \in Slots : NewSession(s, i))
  PROVE  Owned'
<1>1. UNCHANGED <<held, giving>>
  BY DEF RequestTerminate, EndEvents, EndDrain, Deinit, Saturated, Stop, HttpClose, Accept,
    ReapSession, AttachWorker, ReleaseLink, DeleteSession, ReadCommand, ReadClose, DropWebSocket,
    NewSession, own
<1>2. \A c \in Conns : sock'[c] = "ws" <=> sock[c] = "ws"
  <2>1. CASE UNCHANGED sock
    BY <2>1
  <2>2. CASE EndDrain
    BY <2>1, <2>2 DEF EndDrain, beginShutdown, Http
  <2>3. CASE Saturated
    BY <2>1, <2>3 DEF Saturated, Http, Typed, TypeOK
  <2>4. ASSUME NEW c \in Conns, HttpClose(c) \/ Accept(c)
        PROVE  \A d \in Conns : sock'[d] = "ws" <=> sock[d] = "ws"
    BY <2>4 DEF HttpClose, Accept, Http, Typed, TypeOK
  <2> QED
    BY <2>1, <2>2, <2>3, <2>4 DEF RequestTerminate, EndEvents, Deinit, Stop, ReapSession,
      AttachWorker, ReleaseLink, DeleteSession, ReadCommand, ReadClose, DropWebSocket, NewSession,
      shared
<1>3. \A i \in Slots : News(inbox'[i]) = News(inbox[i])
  BY LoopNews
<1> QED
  BY <1>1, <1>2, <1>3, OwnedQuiet

\* The loop gives a socket away.
LEMMA UpgradeOwned ==
  ASSUME Typed, Owned, Hands, NEW c \in Conns, NEW i \in Slots, UpgradeConnection(c, i)
  PROVE  Owned'
<1>1. /\ sock[c] = "http" /\ sock' = [sock EXCEPT ![c] = "ws"] /\ c \in Workers
      /\ held[c] = None /\ held' = [held EXCEPT ![c] = c] /\ UNCHANGED <<giving, inbox>>
  BY DEF UpgradeConnection, Http, Hands, Workers
<1>2. \A d \in Conns : sock'[d] = "ws" <=> (sock[d] = "ws" \/ d = c)
  BY <1>1 DEF Typed, TypeOK
<1>3. \A d \in Conns : \A k, x :
        Holds(k, x, d)' <=> (Holds(k, x, d) \/ (d = c /\ k = "held" /\ x = c))
  <2> SUFFICES ASSUME NEW d \in Conns, NEW k, NEW x
               PROVE  Holds(k, x, d)' <=> (Holds(k, x, d) \/ (d = c /\ k = "held" /\ x = c))
    OBVIOUS
  <2>1. \A w \in Workers : held'[w] = d <=> (held[w] = d \/ (d = c /\ w = c))
    BY <1>1, Constants DEF Typed, TypeOK, Workers
  <2> QED
    BY <1>1, <2>1 DEF Holds
<1>4. sock[c] # "ws"
  BY <1>1
<1> QED
  BY <1>2, <1>3, <1>4 DEF Owned, Alone, Kept

\* Two messages are put.
LEMMA PutBoth ==
  ASSUME NEW S, NEW s \in Seq(S), NEW a \in S, NEW b \in S
  PROVE  s \o <<a, b>> = Append(s, a) \o <<b>>
OBVIOUS

\* A session without a link is given one.
LEMMA AttachNews ==
  ASSUME Typed, LinkOnce, Seats, NEW c \in Conns, NEW i \in Slots, listed[i], link[i] = None,
         NEW polled \in BOOLEAN,
         push(i, IF polled THEN <<NewLink(c)>> ELSE <<NewLink(c), Disconnect>>)
  PROVE  /\ News(inbox'[i]) = {c} /\ News(inbox[i]) = {}
         /\ \A j \in Slots : j # i => inbox'[j] = inbox[j]
<1>1. Links(inbox[i]) = {}
  BY DEF Seats, Seated, LinkOnce, Apart
<1>2. News(inbox'[i]) = {c} /\ News(inbox[i]) = {}
  <2> DEFINE s == inbox[i] m == NewLink(c) t == Append(s, m)
  <2>1. /\ s \in Seq(Messages) /\ m \in Messages /\ m.kind = "link" /\ m.conn = c
        /\ Disconnect \in Messages /\ Disconnect.kind # "link"
    BY Members DEF Typed, TypeOK, NewLink, Disconnect, Message
  <2>2. inbox'[i] = s \o <<m>> \/ inbox'[i] = s \o <<m, Disconnect>>
    BY PushOne
  <2> HIDE DEF s, m
  <2>3. s \o <<m>> = t /\ t \in Seq(Messages)
    BY <2>1, PutLast
  <2>4. s \o <<m, Disconnect>> = t \o <<Disconnect>>
    BY <2>1, PutBoth DEF t
  <2>5. News(t) = {c}
    BY <1>1, <2>1, <2>3, NewsAdded DEF s
  <2> HIDE DEF t
  <2>6. News(t \o <<Disconnect>>) = {c}
    BY <2>1, <2>3, <2>5, NewsAdded
  <2> QED
    BY <1>1, <2>2, <2>3, <2>4, <2>5, <2>6, NoneNew
<1>3. \A j \in Slots : j # i => inbox'[j] = inbox[j]
  BY PushOne
<1> QED
  BY <1>2, <1>3

\* The loop gives a socket to a session.
LEMMA AttachOwned ==
  ASSUME Typed, Owned, LinkOnce, Seats, NEW c \in Conns, NEW i \in Slots, AttachConnection(c, i)
  PROVE  Owned'
<1>1. sock[c] = "http" /\ UNCHANGED <<held, giving>> /\ link[i] = None /\ listed[i]
  BY DEF AttachConnection, Http, own
<1>2. CASE sock' = [sock EXCEPT ![c] = "out"] /\ inbox' = inbox
  <2>1. \A d \in Conns : sock'[d] = "ws" <=> sock[d] = "ws"
    BY <1>1, <1>2 DEF Typed, TypeOK
  <2> QED
    BY <1>1, <1>2, <2>1, OwnedQuiet
<1>3. ASSUME NEW polled \in BOOLEAN, sock' = [sock EXCEPT ![c] = "ws"],
             push(i, IF polled THEN <<NewLink(c)>> ELSE <<NewLink(c), Disconnect>>)
      PROVE  Owned'
  <2>1. /\ News(inbox'[i]) = {c} /\ News(inbox[i]) = {}
        /\ \A j \in Slots : j # i => inbox'[j] = inbox[j]
    BY <1>1, <1>3, AttachNews
  <2>4. \A d \in Conns : sock'[d] = "ws" <=> (sock[d] = "ws" \/ d = c)
    BY <1>3 DEF Typed, TypeOK
  <2>5. \A d \in Conns : \A k, x :
          Holds(k, x, d)' <=> (Holds(k, x, d) \/ (d = c /\ k = "new" /\ x = i))
    BY <1>1, <2>1 DEF Holds
  <2>6. sock[c] # "ws"
    BY <1>1
  <2> QED
    BY <2>4, <2>5, <2>6 DEF Owned, Alone, Kept
<1> QED
  BY <1>2, <1>3 DEF AttachConnection

\* A slot is freed with the links nobody took.
LEMMA FreeOwned ==
  ASSUME Typed, Owned, ReleaseWorker
  PROVE  Owned'
<1>1. Asked \in Slots /\ UNCHANGED <<held, giving>>
  BY AskedType DEF ReleaseWorker, Draining, Typed, own
<1> DEFINE i == Asked
<1>2. /\ inbox'[i] = <<>> /\ (\A j \in Slots : j # i => inbox'[j] = inbox[j])
      /\ \A c \in Conns : sock'[c] = IF c \in Unread(i) THEN "out" ELSE sock[c]
  BY <1>1 DEF ReleaseWorker, Typed, TypeOK
<1>3. Unread(i) = News(inbox[i])
  BY DEF Unread, News, Links, Range
<1> HIDE DEF i
<1>4. \A c \in Conns : c \in News(inbox[i]) <=> Holds("new", i, c)
  BY <1>1 DEF Holds, i
<1>5. \A c \in Conns : sock'[c] = "ws" <=> (sock[c] = "ws" /\ ~Holds("new", i, c))
  BY <1>2, <1>3, <1>4
<1>6. \A c \in Conns : \A k, x : Holds(k, x, c)' <=> (Holds(k, x, c) /\ ~(k = "new" /\ x = i))
  BY <1>1, <1>2, NoneNew DEF Holds
<1> QED
  BY <1>5, <1>6, OwnedLost

\* A worker destroys what it holds or gives back.
LEMMA DestroyOwned ==
  ASSUME Typed, Owned, NEW w \in Workers, StartFails(w) \/ Teardown(w) \/ DestroyLink(w)
  PROVE  Owned'
<1>1. None \notin Conns /\ inbox' = inbox
  BY Constants DEF Workers, StartFails, Teardown, DestroyLink
<1>2. CASE StartFails(w) \/ Teardown(w)
  <2>1. /\ giving' = giving /\ held' = [held EXCEPT ![w] = None]
        /\ sock' = [c \in Conns |-> IF c = held[w] THEN "out" ELSE sock[c]]
    BY <1>2 DEF StartFails, Teardown
  <2>2. \A c \in Conns : sock'[c] = "ws" <=> (sock[c] = "ws" /\ ~Holds("held", w, c))
    BY <2>1 DEF Holds
  <2>3. \A c \in Conns : \A k, x : Holds(k, x, c)' <=> (Holds(k, x, c) /\ ~(k = "held" /\ x = w))
    BY <1>1, <2>1 DEF Holds, Typed, TypeOK
  <2> QED
    BY <2>2, <2>3, OwnedLost
<1>3. CASE DestroyLink(w)
  <2>1. /\ held' = held /\ giving' = [giving EXCEPT ![w] = None]
        /\ sock' = [sock EXCEPT ![giving[w]] = "out"]
    BY <1>3 DEF DestroyLink
  <2>2. \A c \in Conns : sock'[c] = "ws" <=> (sock[c] = "ws" /\ ~Holds("giving", w, c))
    BY <2>1 DEF Holds, Typed, TypeOK
  <2>3. \A c \in Conns : \A k, x : Holds(k, x, c)' <=> (Holds(k, x, c) /\ ~(k = "giving" /\ x = w))
    BY <1>1, <2>1 DEF Holds, Typed, TypeOK
  <2> QED
    BY <2>2, <2>3, OwnedLost
<1> QED
  BY <1>2, <1>3

\* A worker takes a link from its inbox.
LEMMA TakeOwned ==
  ASSUME Typed, Owned, Seats, LinkOnce, NEW w \in Workers, OnLink(w)
  PROVE  Owned'
<1>1. PICK mode \in {"pump", "script"}, k \in DOMAIN Mail(w) :
        /\ pc[w] = mode /\ Pop(w, k) /\ Mail(w)[k].kind = "link"
        /\ IF held[w] = None
           THEN held' = [held EXCEPT ![w] = Mail(w)[k].conn] /\ UNCHANGED sock
           ELSE sock' = [sock EXCEPT ![Mail(w)[k].conn] = "out"] /\ UNCHANGED held
  BY DEF OnLink, Drains
<1>2. w \in Sessions /\ held[w] = None
  BY <1>1, TakesLink
<1>3. at[w] \in Slots /\ occupant[at[w]] = w
  BY <1>1, Driver DEF Driving, Going
<1> DEFINE i == at[w] s == inbox[i]
<1>4. k \in Links(s) /\ Once(s) /\ Mail(w) = s
  BY <1>1, <1>2, <1>3, MailType DEF Links, LinkOnce, Apart
<1>5. News(s) = {s[k].conn} /\ News(inbox'[i]) = {}
  <2>1. inbox'[i] = RemoveAt(s, k)
    BY <1>1, <1>3 DEF Pop, Typed, TypeOK
  <2>2. Links(inbox'[i]) = {}
    BY <1>1, <1>4, <2>1, MailType, LinksTaken
  <2> QED
    BY <1>4, <2>2, OneNew, NoneNew
<1>6. \A j \in Slots : j # i => inbox'[j] = inbox[j]
  BY <1>1, <1>3 DEF Pop, Typed, TypeOK
<1>7. giving' = giving /\ sock' = sock /\ held' = [held EXCEPT ![w] = s[k].conn]
  BY <1>1, <1>2, <1>4 DEF OnLink
<1> HIDE DEF i, s
<1>8. i \in Slots /\ s = inbox[i] /\ None \notin Conns
  BY <1>3, Constants DEF i, s, Workers
<1>9. \A c \in Conns : ~Holds("held", w, c)
  BY <1>2, <1>8 DEF Holds
<1>10. \A c \in Conns : Holds("held", w, c)' <=> Holds("new", i, c)
  BY <1>5, <1>7, <1>8 DEF Holds, Typed, TypeOK
<1>11. \A c \in Conns : \A l, x : ~(l = "held" /\ x = w) =>
         (Holds(l, x, c)' <=> (Holds(l, x, c) /\ ~(l = "new" /\ x = i)))
  BY ZenonT(60), <1>5, <1>6, <1>7 DEF Holds, Typed, TypeOK
<1>12. \A c \in Conns : sock'[c] = "ws" <=> sock[c] = "ws"
  BY <1>7
<1>13. PICK l, m : l = "new" /\ m = "held"
  OBVIOUS
<1>14. /\ l # m
       /\ \A c \in Conns : ~Holds(m, w, c)
       /\ \A c \in Conns : Holds(m, w, c)' <=> Holds(l, i, c)
       /\ \A c \in Conns : \A h, x : ~(h = m /\ x = w) =>
            (Holds(h, x, c)' <=> (Holds(h, x, c) /\ ~(h = l /\ x = i)))
  BY <1>9, <1>10, <1>11, <1>13
<1> QED
  BY <1>12, <1>14, OwnedMoved

\* A session begins to give its link back.
LEMMA GiveOwned ==
  ASSUME Typed, Owned, Hands, NEW w \in Workers, OnLinkGone(w), held[w] # None
  PROVE  Owned'
<1>1. PICK mode \in {"pump", "script", "terminal"}, k \in DOMAIN Mail(w) :
        /\ pc[w] = mode /\ Pop(w, k) /\ Mail(w)[k].kind # "link"
        /\ giving' = [giving EXCEPT ![w] = held[w]] /\ held' = [held EXCEPT ![w] = None]
  BY DEF OnLinkGone, Drains
<1>2. sock' = sock /\ at[w] \in Slots
  BY <1>1 DEF OnLinkGone, Typed, Placed
<1>3. \A i \in Slots : News(inbox'[i]) = News(inbox[i])
  BY <1>1, <1>2, NewsRest
<1>4. giving[w] = None /\ None \notin Conns
  BY <1>1, Constants DEF Hands, Workers
<1>5. \A c \in Conns : ~Holds("giving", w, c)
  BY <1>4 DEF Holds
<1>6. \A c \in Conns : Holds("giving", w, c)' <=> Holds("held", w, c)
  BY <1>1 DEF Holds, Typed, TypeOK
<1>7. \A c \in Conns : \A l, x : ~(l = "giving" /\ x = w) =>
        (Holds(l, x, c)' <=> (Holds(l, x, c) /\ ~(l = "held" /\ x = w)))
  BY <1>1, <1>3, <1>4 DEF Holds, Typed, TypeOK
<1>8. \A c \in Conns : sock'[c] = "ws" <=> sock[c] = "ws"
  BY <1>2
<1>9. PICK l, m : l = "held" /\ m = "giving"
  OBVIOUS
<1>10. /\ l # m
       /\ \A c \in Conns : ~Holds(m, w, c)
       /\ \A c \in Conns : Holds(m, w, c)' <=> Holds(l, w, c)
       /\ \A c \in Conns : \A h, x : ~(h = m /\ x = w) =>
            (Holds(h, x, c)' <=> (Holds(h, x, c) /\ ~(h = l /\ x = w)))
  BY <1>5, <1>6, <1>7, <1>9
<1> QED
  BY <1>8, <1>10, OwnedMoved

\* A worker's other steps leave the new links of every inbox as they are.
LEMMA WorkerNews ==
  ASSUME Typed, NEW w \in Workers,
         \/ Start(w) \/ Signal(w) \/ Tick(w) \/ OnCommand(w) \/ OnEnd(w) \/ PumpEnds(w)
         \/ TickFails(w) \/ Killed(w) \/ Disarm(w) \/ RunScript(w) \/ ScriptReturns(w) \/ Stuck(w)
         \/ (OnLinkGone(w) /\ held[w] = None)
  PROVE  \A i \in Slots : News(inbox'[i]) = News(inbox[i])
<1>1. CASE UNCHANGED inbox
  BY <1>1
<1>2. CASE OnCommand(w) \/ OnEnd(w) \/ OnLinkGone(w)
  <2>1. PICK k \in DOMAIN Mail(w) :
          /\ Mail(w)[k].kind # "link"
          /\ \/ Pop(w, k)
             \/ inbox' = [inbox EXCEPT ![at[w]] = Append(RemoveAt(@, k), Quit)]
    BY <1>2 DEF OnCommand, OnEnd, OnLinkGone, Drains
  <2>2. at[w] \in Slots
    BY MailType
  <2> QED
    BY <2>1, <2>2, NewsRest
<1> QED
  BY <1>1, <1>2 DEF Start, Signal, Tick, PumpEnds, TickFails, Killed, Disarm, RunScript,
    ScriptReturns, Stuck, shared

\* The other steps of a worker.
LEMMA WorkerOwned ==
  ASSUME Typed, Owned, NEW w \in Workers,
         \/ Start(w) \/ Signal(w) \/ Tick(w) \/ OnCommand(w) \/ OnEnd(w) \/ PumpEnds(w)
         \/ TickFails(w) \/ Killed(w) \/ Disarm(w) \/ RunScript(w) \/ ScriptReturns(w) \/ Stuck(w)
         \/ (OnLinkGone(w) /\ held[w] = None)
  PROVE  Owned'
<1>1. UNCHANGED <<held, giving, sock>>
  BY DEF Start, Signal, Tick, OnCommand, OnEnd, PumpEnds, TickFails, Killed, Disarm, RunScript,
    ScriptReturns, Stuck, OnLinkGone, own, shared
<1>2. \A i \in Slots : News(inbox'[i]) = News(inbox[i])
  BY WorkerNews
<1> QED
  BY <1>1, <1>2, OwnedQuiet

-----------------------------------------------------------------------------
(* A worker's own link.                                                     *)

\* A worker born from a socket holds it from its birth to its end, and still when the
\* loop attaches it; a session is born without.
Born ==
  /\ \A w \in Conns : pc[w] = "starting" \/ pc[w] \in Driving \ Going => held[w] = w
  /\ \A r \in Pending : r.op = "attach" /\ r.by \in Conns => held[r.by] = r.by
  /\ \A w \in Sessions : pc[w] = "starting" => held[w] = None

\* A request is queued.
LEMMA PendingGrows ==
  ASSUME Typed, NEW w \in Workers, pc[w] # "none",
         NEW op \in {"attach", "release_link", "release"}, Queue(w, op), drain' = drain
  PROVE  \A r \in Pending' : r \in Pending \/ (r.op = op /\ r.by = w)
<1> DEFINE r == [slot |-> at[w], op |-> op, by |-> w] n == Len(queue)
<1>1. r \in Requests /\ queue \in Seq(Requests) /\ queue' = Append(queue, r)
  BY Members DEF Queue, Typed, TypeOK, Placed
<1>2. /\ DOMAIN queue' = 1 .. n + 1 /\ (\A i \in 1 .. n : queue'[i] = queue[i])
      /\ queue'[n + 1] = r /\ n \in Nat /\ DOMAIN queue = 1 .. n
  BY <1>1, PutLast, LenProperties
<1> HIDE DEF n
<1>3. 1 .. n + 1 = 1 .. n \cup {n + 1}
  BY <1>2
<1>4. \A q \in Range(queue') : q \in Range(queue) \/ q = r
  BY <1>2, <1>3 DEF Range
<1> QED
  BY <1>4 DEF Pending

\* The loop's steps keep what workers hold.
LEMMA LoopBorn ==
  ASSUME Typed, InTurn, Seats, Born, Hands,
         Step \/ ((\E c \in Conns : HttpClose(c) \/ Accept(c)) \/ Saturated \/ ReapSession \/ Stop
           \/ (\E c \in Conns, i \in Slots : AttachConnection(c, i))
           \/ (\E i \in Slots : DeleteSession(i) \/ ReadCommand(i) \/ ReadClose(i)
                                 \/ DropWebSocket(i)))
  PROVE  Born' /\ Hands'
<1>1. UNCHANGED <<pc, held, giving>>
  BY DEF Step, RequestTerminate, EndEvents, EndDrain, Deinit, AttachWorker, ReleaseLink,
    ReleaseWorker, Saturated, Stop, HttpClose, Accept, ReapSession, AttachConnection, DeleteSession,
    ReadCommand, ReadClose, DropWebSocket, own
<1>2. Pending' \subseteq Pending
  <2>1. CASE AttachWorker \/ ReleaseLink \/ ReleaseWorker
    <3>1. drain # <<>> /\ drain' = Tail(drain) /\ UNCHANGED <<queue, phase>>
      BY <2>1 DEF AttachWorker, ReleaseLink, ReleaseWorker, Draining, turn
    <3> QED
      BY <3>1, QueueShrinks
  <2>2. CASE EndEvents
    BY <2>2, QueueSwaps
  <2>3. CASE UNCHANGED <<drain, queue>>
    BY <2>3 DEF Pending
  <2> QED
    BY <2>1, <2>2, <2>3 DEF Step, RequestTerminate, EndDrain, Deinit, Saturated, Stop, HttpClose,
      Accept, ReapSession, AttachConnection, DeleteSession, ReadCommand, ReadClose, DropWebSocket,
      server, loopVars, shared
<1> QED
  BY <1>1, <1>2 DEF Born, Hands

\* A thread begins.
LEMMA SpawnBorn ==
  ASSUME Typed, Seats, Born, Hands,
         \/ (\E c \in Conns, i \in Slots : UpgradeConnection(c, i))
         \/ (\E s \in Sessions, i \in Slots : NewSession(s, i))
  PROVE  Born' /\ Hands'
<1>1. ASSUME NEW c \in Conns, NEW i \in Slots, UpgradeConnection(c, i) PROVE Born' /\ Hands'
  <2>1. /\ c \in Workers /\ c \notin Sessions /\ giving' = giving /\ pc[c] = "none"
        /\ Sessions \subseteq Workers /\ Conns \subseteq Workers
        /\ pc'[c] = "starting" /\ \A w \in Workers : w # c => pc'[w] = pc[w] /\ held'[w] = held[w]
        /\ held'[c] = c
    BY <1>1, Constants DEF UpgradeConnection, Spawned, Typed, TypeOK, Workers
  <2>2. Pending' = Pending
    BY <1>1 DEF UpgradeConnection, Pending
  <2> QED
    BY <2>1, <2>2 DEF Born, Hands
<1>2. ASSUME NEW s \in Sessions, NEW i \in Slots, NewSession(s, i) PROVE Born' /\ Hands'
  <2>1. /\ s \in Workers /\ s \notin Conns /\ UNCHANGED <<held, giving>> /\ pc[s] = "none"
        /\ Sessions \subseteq Workers /\ Conns \subseteq Workers
        /\ pc'[s] = "starting" /\ \A w \in Workers : w # s => pc'[w] = pc[w]
    BY <1>2, Constants DEF NewSession, Spawned, Typed, TypeOK, Workers
  <2>2. Pending' = Pending
    BY <1>2 DEF NewSession, Pending, loopVars, shared
  <2> QED
    BY <2>1, <2>2 DEF Born, Hands
<1> QED
  BY <1>1, <1>2

\* A worker goes on without touching what it holds.
LEMMA MovesBorn ==
  ASSUME Typed, Born, Hands, NEW w \in Workers, UNCHANGED <<held, giving>>,
         \A v \in Workers : v # w => pc'[v] = pc[v],
         \A r \in Pending' : r \in Pending \/ r.op # "attach" \/ (r.by = w /\ pc[w] = "starting"),
         pc'[w] \notin {"none", "starting"} \/ pc'[w] = pc[w],
         pc'[w] \in Driving \ Going => pc[w] = "starting" \/ pc[w] \in Driving \ Going,
         giving[w] # None => pc'[w] \in {"linkSig", "waitLink"}
  PROVE  Born' /\ Hands'
<1>1. Conns \subseteq Workers /\ Sessions \subseteq Workers
  BY DEF Workers
<1>2. Born'
  BY <1>1 DEF Born
<1>3. Hands'
  BY DEF Hands
<1> QED
  BY <1>2, <1>3

\* The steps of a worker that leave its links where they are.
LEMMA WorkerBorn ==
  ASSUME Typed, Seats, Born, Hands, NEW w \in Workers,
         \/ Start(w) \/ Signal(w) \/ Tick(w) \/ OnCommand(w) \/ OnEnd(w) \/ PumpEnds(w)
         \/ TickFails(w) \/ Killed(w) \/ Disarm(w) \/ RunScript(w) \/ ScriptReturns(w) \/ Stuck(w)
         \/ (OnLinkGone(w) /\ held[w] = None)
  PROVE  Born' /\ Hands'
<1>1. UNCHANGED <<held, giving, drain>>
  BY DEF Start, Signal, Tick, OnCommand, OnEnd, PumpEnds, TickFails, Killed, Disarm, RunScript,
    ScriptReturns, Stuck, OnLinkGone, own, server, loopVars
<1>2. /\ "starting" \notin Driving /\ "teardown" \notin Driving /\ Going = {"releaseSig", "waitRelease"}
      /\ {"attachSig", "tick", "pump", "script", "terminal", "linkSig", "waitLink"} \subseteq Driving \ Going
  BY DEF Driving, Going
<1>3. CASE Start(w)
  <2>1. pc[w] = "starting" /\ pc' = [pc EXCEPT ![w] = "attachSig"] /\ Queue(w, "attach")
    BY <1>3 DEF Start, Goes
  <2>2. \A r \in Pending' : r \in Pending \/ (r.op = "attach" /\ r.by = w)
    BY <1>1, <2>1, PendingGrows
  <2>3. giving[w] = None
    BY <2>1 DEF Hands
  <2>4. pc'[w] = "attachSig" /\ \A v \in Workers : v # w => pc'[v] = pc[v]
    BY <2>1 DEF Typed, TypeOK
  <2> QED
    BY <1>1, <1>2, <2>1, <2>2, <2>3, <2>4, MovesBorn
<1>4. CASE Leave(w) /\ pc[w] \in {"tick", "pump", "script", "terminal"}
  <2>1. pc' = [pc EXCEPT ![w] = "releaseSig"] /\ Queue(w, "release")
    BY <1>4 DEF Leave, Goes
  <2>2. \A r \in Pending' : r \in Pending \/ (r.op = "release" /\ r.by = w)
    BY <1>1, <1>4, <2>1, PendingGrows
  <2>3. giving[w] = None
    BY <1>4 DEF Hands
  <2>4. pc'[w] = "releaseSig" /\ \A v \in Workers : v # w => pc'[v] = pc[v]
    BY <2>1 DEF Typed, TypeOK
  <2> QED
    BY <1>1, <1>2, <2>1, <2>2, <2>3, <2>4, MovesBorn
<1>5. ASSUME queue' = queue,
             \/ pc' = pc
             \/ pc[w] \in Driving \ Going /\ giving[w] = None
                  /\ \E p \in {"tick", "pump", "script", "terminal"} : pc' = [pc EXCEPT ![w] = p]
             \/ pc[w] = "linkSig" /\ pc' = [pc EXCEPT ![w] = "waitLink"]
             \/ pc[w] \in Going /\ \E p \in {"waitRelease", "teardown"} : pc' = [pc EXCEPT ![w] = p]
      PROVE  Born' /\ Hands'
  <2>1. Pending' = Pending
    BY <1>1, <1>5 DEF Pending
  <2>2. /\ \A v \in Workers : v # w => pc'[v] = pc[v]
        /\ \/ pc'[w] = pc[w]
           \/ pc[w] \in Driving \ Going /\ giving[w] = None
                /\ pc'[w] \in {"tick", "pump", "script", "terminal"}
           \/ pc[w] = "linkSig" /\ pc'[w] = "waitLink"
           \/ pc[w] \in Going /\ pc'[w] \in {"waitRelease", "teardown"}
    BY <1>5 DEF Typed, TypeOK
  <2>3. giving[w] # None => pc'[w] \in {"linkSig", "waitLink"}
    BY <1>2, <2>2 DEF Hands
  <2> QED
    BY <1>1, <1>2, <2>1, <2>2, <2>3, MovesBorn
<1>6. CASE Signal(w)
  <2>1. /\ queue' = queue /\ pc' = [pc EXCEPT ![w] = Signals[pc[w]]]
        /\ pc[w] \in {"attachSig", "linkSig", "releaseSig"}
        /\ Signals["attachSig"] = "tick" /\ Signals["linkSig"] = "waitLink"
        /\ Signals["releaseSig"] = "waitRelease"
    BY <1>6 DEF Signal, Goes, Signals
  <2>2. pc[w] = "attachSig" => giving[w] = None
    BY DEF Hands
  <2> QED
    BY <1>2, <1>5, <2>1, <2>2
<1>7. CASE Tick(w) \/ PumpEnds(w) \/ RunScript(w) \/ ScriptReturns(w)
  <2>1. /\ queue' = queue /\ pc[w] \in {"tick", "pump", "script"}
        /\ \E p \in {"tick", "pump", "script", "terminal"} : pc' = [pc EXCEPT ![w] = p]
    BY <1>7 DEF Tick, PumpEnds, RunScript, ScriptReturns, Goes, shared
  <2>2. giving[w] = None
    BY <2>1 DEF Hands
  <2> QED
    BY <1>2, <1>5, <2>1, <2>2
<1>8. CASE OnCommand(w)
  <2>1. queue' = queue /\ pc[w] = "pump" /\ (pc' = pc \/ pc' = [pc EXCEPT ![w] = "script"])
    BY <1>8 DEF OnCommand, Goes
  <2>2. giving[w] = None
    BY <2>1 DEF Hands
  <2> QED
    BY <1>2, <1>5, <2>1, <2>2
<1>9. CASE OnEnd(w)
  <2>1. PICK mode \in {"pump", "script", "terminal"}, k \in DOMAIN Mail(w) :
          pc[w] = mode /\ Done(w, mode)
    BY <1>9 DEF OnEnd, Drains
  <2>2. CASE mode = "script"
    BY <1>5, <2>1, <2>2 DEF Done
  <2>3. CASE mode # "script"
    BY <1>4, <2>1, <2>3 DEF Done
  <2> QED
    BY <2>2, <2>3
<1>10. CASE Disarm(w)
  BY <1>2, <1>5, <1>10 DEF Disarm, Goes
<1>11. CASE Stuck(w) \/ (OnLinkGone(w) /\ held[w] = None)
  BY <1>5, <1>11 DEF Stuck, OnLinkGone, own
<1>12. CASE TickFails(w) \/ Killed(w)
  BY <1>4, <1>12 DEF TickFails, Killed
<1> QED
  BY <1>3, <1>6, <1>7, <1>8, <1>9, <1>10, <1>11, <1>12

\* The steps of a worker that move its links.
LEMMA LinkBorn ==
  ASSUME Typed, Seats, LinkOnce, Born, Hands, NEW w \in Workers,
         \/ StartFails(w) \/ DestroyLink(w) \/ Teardown(w) \/ OnLink(w)
         \/ (OnLinkGone(w) /\ held[w] # None)
  PROVE  Born' /\ Hands'
<1>1. Conns \subseteq Workers /\ Sessions \subseteq Workers /\ \A v \in Conns : v \notin Sessions
  BY Constants DEF Workers
<1>2. drain' = drain
  BY DEF StartFails, DestroyLink, Teardown, OnLink, OnLinkGone, server, loopVars
<1>3. /\ "starting" \notin Driving /\ Going = {"releaseSig", "waitRelease"}
      /\ {"pump", "script", "terminal", "linkSig", "waitLink"} \subseteq Driving \ Going
  BY DEF Driving, Going
<1>4. CASE StartFails(w)
  <2>1. /\ pc[w] = "starting" /\ Queue(w, "release") /\ giving' = giving
        /\ pc'[w] = "releaseSig" /\ (\A v \in Workers : v # w => pc'[v] = pc[v] /\ held'[v] = held[v])
    BY <1>4 DEF StartFails, Goes, Typed, TypeOK
  <2>2. \A r \in Pending' : r \in Pending \/ (r.op = "release" /\ r.by = w)
    BY <1>2, <2>1, PendingGrows
  <2>3. \A r \in Pending : r.op = "attach" => r.by # w /\ r.by \in Workers
    BY <1>3, <2>1, SeatFacts DEF Seats, Requested, Asks
  <2>4. Born'
    BY <1>1, <1>3, <2>1, <2>2, <2>3 DEF Born
  <2>5. Hands'
    BY <2>1 DEF Hands
  <2> QED
    BY <2>4, <2>5
<1>5. CASE DestroyLink(w)
  <2>1. /\ pc[w] = "waitLink" /\ held' = held /\ queue' = queue
        /\ giving'[w] = None /\ (\A v \in Workers : v # w => pc'[v] = pc[v] /\ giving'[v] = giving[v])
        /\ pc'[w] \in {"pump", "script", "terminal"}
    BY <1>5 DEF DestroyLink, Goes, Typed, TypeOK
  <2>2. Pending' = Pending
    BY <1>2, <2>1 DEF Pending
  <2>3. Born'
    BY <1>1, <1>3, <2>1, <2>2 DEF Born
  <2>4. Hands'
    BY <2>1 DEF Hands
  <2> QED
    BY <2>3, <2>4
<1>6. CASE Teardown(w)
  <2>1. /\ pc[w] = "teardown" /\ giving' = giving /\ queue' = queue
        /\ pc'[w] = "none" /\ held'[w] = None
        /\ (\A v \in Workers : v # w => pc'[v] = pc[v] /\ held'[v] = held[v])
    BY <1>6 DEF Teardown, Goes, Typed, TypeOK
  <2>2. Pending' = Pending
    BY <1>2, <2>1 DEF Pending
  <2>3. Released(w) /\ \A r \in Pending : r.by # w /\ r.by \in Workers
    BY <2>1, SeatFacts DEF Released
  <2>4. Born'
    BY <1>1, <2>1, <2>2, <2>3 DEF Born, Driving
  <2>5. Hands'
    BY <2>1 DEF Hands
  <2> QED
    BY <2>4, <2>5
<1>7. CASE OnLink(w)
  <2>1. PICK mode \in {"pump", "script"}, k \in DOMAIN Mail(w) :
          pc[w] = mode /\ Mail(w)[k].kind = "link"
    BY <1>7 DEF OnLink, Drains
  <2>2. w \in Sessions
    BY <2>1, TakesLink
  <2>3. UNCHANGED <<queue, pc, giving>> /\ \A v \in Workers : v # w => held'[v] = held[v]
    BY <1>7 DEF OnLink, Typed, TypeOK
  <2>4. Pending' = Pending
    BY <1>2, <2>3 DEF Pending
  <2>5. Born' /\ Hands'
    BY <1>1, <2>1, <2>2, <2>3, <2>4 DEF Born, Hands
  <2> QED
    BY <2>5
<1>8. CASE OnLinkGone(w) /\ held[w] # None
  <2>1. /\ pc[w] \in {"pump", "script", "terminal"} /\ w \in Sessions /\ Queue(w, "release_link")
        /\ pc'[w] = "linkSig"
        /\ \A v \in Workers : v # w => pc'[v] = pc[v] /\ held'[v] = held[v] /\ giving'[v] = giving[v]
    BY <1>8 DEF OnLinkGone, Drains, Goes, Typed, TypeOK
  <2>2. \A r \in Pending' : r \in Pending \/ (r.op = "release_link" /\ r.by = w)
    BY <1>2, <2>1, PendingGrows
  <2>3. Born' /\ Hands'
    BY <1>1, <2>1, <2>2 DEF Born, Hands
  <2> QED
    BY <2>3
<1> QED
  BY <1>4, <1>5, <1>6, <1>7, <1>8

-----------------------------------------------------------------------------
(* The link of a slot.                                                      *)

\* The worker of a slot has socket c, or will find it in its inbox.
Has(i, w, c) == c \in News(inbox[i]) \/ held[w] = c \/ (giving[w] = c /\ Leaving(w))

\* What the loop has as the link of a slot is the slot's or its worker's, and it polls no
\* other.
Tied ==
  /\ \A i \in Slots : monitored[i] => link[i] # None
  /\ \A i \in Slots, w \in Workers : occupant[i] = w /\ link[i] # None => Has(i, w, link[i])

\* Links stay with whom they are.
LEMMA TiedQuiet ==
  ASSUME Typed, Tied, \A i \in Slots : monitored'[i] => link'[i] # None,
         \A i \in Slots : link'[i] # None =>
           link'[i] = link[i] /\ occupant'[i] = occupant[i] /\ News(inbox[i]) \subseteq News(inbox'[i]),
         \A i \in Slots, w \in Workers : link'[i] # None /\ occupant[i] = w =>
           /\ held[w] = None \/ held'[w] = held[w]
           /\ Leaving(w) => Leaving(w)' /\ giving'[w] = giving[w]
  PROVE  Tied'
<1> SUFFICES ASSUME NEW i \in Slots, NEW w \in Workers, occupant'[i] = w, link'[i] # None
             PROVE  Has(i, w, link[i])'
  BY DEF Tied
<1>1. Has(i, w, link[i]) /\ link'[i] = link[i] /\ News(inbox[i]) \subseteq News(inbox'[i])
  BY DEF Tied
<1>2. held[w] = None \/ held'[w] = held[w]
  OBVIOUS
<1>3. Leaving(w) => Leaving(w)' /\ giving'[w] = giving[w]
  OBVIOUS
<1>4. link[i] # None
  BY <1>1
<1> QED
  BY <1>1, <1>2, <1>3, <1>4 DEF Has

\* The loop's steps that give no link and take none.
LEMMA LoopTied ==
  ASSUME Typed, Tied,
         \/ RequestTerminate \/ EndEvents \/ EndDrain \/ Deinit \/ Saturated \/ Stop
         \/ (\E c \in Conns : HttpClose(c) \/ Accept(c)) \/ ReapSession
         \/ (\E i \in Slots : DeleteSession(i) \/ ReadCommand(i) \/ ReadClose(i)
                               \/ DropWebSocket(i))
  PROVE  Tied'
<1>1. UNCHANGED <<pc, held, giving, answered, link, occupant>>
  BY DEF RequestTerminate, EndEvents, EndDrain, Deinit, Saturated, Stop, HttpClose, Accept,
    ReapSession, DeleteSession, quitSession, ReadCommand, ReadClose, DropWebSocket, own, shared,
    flags, slotVars, seat, server
<1>2. \A i \in Slots : monitored'[i] => monitored[i]
  <2>1. CASE UNCHANGED monitored
    BY <2>1
  <2>2. ASSUME NEW j \in Slots, ReadClose(j) \/ DropWebSocket(j)
        PROVE  \A i \in Slots : monitored'[i] => monitored[i]
    BY <2>2 DEF ReadClose, DropWebSocket, Typed, TypeOK
  <2> QED
    BY <2>1, <2>2 DEF RequestTerminate, EndEvents, EndDrain, Deinit, Saturated, Stop, HttpClose,
      Accept, ReapSession, DeleteSession, ReadCommand, slotVars, server
<1>3. \A i \in Slots : News(inbox'[i]) = News(inbox[i])
  BY LoopNews
<1>4. \A w \in Workers : Leaving(w)' <=> Leaving(w)
  BY <1>1 DEF Leaving
<1>5. \A i \in Slots : monitored'[i] => link'[i] # None
  BY <1>1, <1>2 DEF Tied
<1> QED
  BY <1>1, <1>3, <1>4, <1>5, TiedQuiet

\* The loop lets go of a link or of a worker.
LEMMA LetGoTied ==
  ASSUME Typed, InTurn, Seats, Tied, ReleaseLink \/ ReleaseWorker
  PROVE  Tied'
<1> DEFINE i == Asked w == Asker
<1>1. /\ drain # <<>> /\ drain' = Tail(drain) /\ UNCHANGED <<queue, phase>>
  BY DEF ReleaseLink, ReleaseWorker, Draining, turn
<1>2. i \in Slots /\ w \in Workers /\ at[w] = i /\ occupant[i] = w
  BY <1>1, FirstRequest
<1>3. /\ link' = [link EXCEPT ![i] = None] /\ monitored' = [monitored EXCEPT ![i] = FALSE]
      /\ answered' = [answered EXCEPT ![w] = TRUE] /\ UNCHANGED <<pc, held, giving>>
      /\ (occupant' = occupant \/ occupant' = [occupant EXCEPT ![i] = None])
      /\ (inbox' = inbox \/ inbox' = [inbox EXCEPT ![i] = <<>>])
  BY DEF ReleaseLink, ReleaseWorker, seat, own
<1> HIDE DEF i, w
<1>4. link'[i] = None /\ \A j \in Slots : j # i =>
        /\ link'[j] = link[j] /\ monitored'[j] = monitored[j] /\ occupant'[j] = occupant[j]
        /\ inbox'[j] = inbox[j]
  BY <1>2, <1>3 DEF Typed, TypeOK
<1>5. ~monitored'[i]
  BY <1>2, <1>3 DEF Typed, TypeOK
<1>6. \A j \in Slots, v \in Workers : link'[j] # None /\ occupant[j] = v => v # w /\ j # i
  BY <1>2, <1>4, SeatFacts
<1>7. \A v \in Workers : v # w => (Leaving(v) => Leaving(v)')
  BY <1>2, <1>3 DEF Leaving, Typed, TypeOK
<1>8. \A j \in Slots : monitored'[j] => link'[j] # None
  BY <1>4, <1>5 DEF Tied
<1>9. \A j \in Slots : link'[j] # None =>
        link'[j] = link[j] /\ occupant'[j] = occupant[j] /\ News(inbox[j]) \subseteq News(inbox'[j])
  BY <1>4
<1>10. \A j \in Slots, v \in Workers : link'[j] # None /\ occupant[j] = v =>
         /\ held[v] = None \/ held'[v] = held[v]
         /\ Leaving(v) => Leaving(v)' /\ giving'[v] = giving[v]
  BY <1>3, <1>6, <1>7
<1> QED
  BY <1>8, <1>9, <1>10, TiedQuiet

\* The loop gets to know a worker and its link.
LEMMA AttachTied ==
  ASSUME Typed, InTurn, Seats, Born, Tied, AttachWorker
  PROVE  Tied'
<1> DEFINE i == Asked w == Asker
<1>1. /\ drain # <<>> /\ drain' = Tail(drain) /\ UNCHANGED <<queue, phase>>
      /\ Head(drain).op = "attach"
  BY DEF AttachWorker, Draining, turn
<1>2. /\ i \in Slots /\ w \in Workers /\ occupant[i] = w /\ Head(drain).by = w
      /\ Head(drain) \in Pending
  BY <1>1, FirstRequest
<1>3. UNCHANGED <<pc, held, giving, answered, occupant>>
  BY DEF AttachWorker, own
<1>4. \A j \in Slots : News(inbox'[j]) = News(inbox[j])
  BY LoopNews
<1>5. \A v \in Workers : Leaving(v)' <=> Leaving(v)
  BY <1>3 DEF Leaving
<1>6. CASE UNCHANGED <<link, monitored>>
  <2>1. \A j \in Slots : monitored'[j] => link'[j] # None
    BY <1>6 DEF Tied
  <2> QED
    BY <1>3, <1>4, <1>5, <1>6, <2>1, TiedQuiet
<1>7. ASSUME w \in Conns, link' = [link EXCEPT ![i] = w],
             NEW polled \in BOOLEAN, monitored' = [monitored EXCEPT ![i] = polled]
      PROVE  Tied'
  <2>1. held[w] = w
    BY <1>1, <1>2, <1>7 DEF Born
  <2> HIDE DEF i, w
  <2>2. w # None
    BY <1>2, Constants
  <2>3. /\ link'[i] = w
        /\ \A j \in Slots : j # i => link'[j] = link[j] /\ monitored'[j] = monitored[j]
    BY <1>2, <1>7 DEF Typed, TypeOK
  <2>4. \A j \in Slots : monitored'[j] => link'[j] # None
    BY <2>2, <2>3 DEF Tied
  <2>5. ASSUME NEW j \in Slots, NEW v \in Workers, occupant'[j] = v, link'[j] # None
        PROVE  Has(j, v, link[j])'
    <3>1. CASE j = i
      BY <1>2, <1>3, <2>1, <2>3, <2>5, <3>1 DEF Has
    <3>2. CASE j # i
      <4>1. Has(j, v, link[j]) /\ link'[j] = link[j]
        BY <1>3, <2>3, <2>5, <3>2 DEF Tied
      <4> QED
        BY <1>3, <1>4, <1>5, <4>1 DEF Has
    <3> QED
      BY <3>1, <3>2
  <2> QED
    BY <2>4, <2>5 DEF Tied
<1>8. \/ UNCHANGED <<link, monitored>>
      \/ /\ w \in Conns /\ link' = [link EXCEPT ![i] = w]
         /\ \E polled \in BOOLEAN : monitored' = [monitored EXCEPT ![i] = polled]
  BY <1>2 DEF AttachWorker, connectionScoped
<1> HIDE DEF i, w
<1> QED
  BY <1>6, <1>7, <1>8

\* A session is given a link.
LEMMA LinkTied ==
  ASSUME Typed, LinkOnce, Seats, Tied, NEW c \in Conns, NEW i \in Slots, AttachConnection(c, i)
  PROVE  Tied'
<1>1. /\ UNCHANGED <<pc, held, giving, answered, occupant>> /\ listed[i] /\ link[i] = None
      /\ c # None
  BY Constants DEF AttachConnection, own, seat, flags, Workers
<1>2. \A v \in Workers : Leaving(v)' <=> Leaving(v)
  BY <1>1 DEF Leaving
<1>3. CASE UNCHANGED <<link, monitored, inbox>>
  <2>1. \A j \in Slots : monitored'[j] => link'[j] # None
    BY <1>3 DEF Tied
  <2> QED
    BY <1>1, <1>2, <1>3, <2>1, TiedQuiet
<1>4. ASSUME NEW polled \in BOOLEAN, link' = [link EXCEPT ![i] = c],
             monitored' = [monitored EXCEPT ![i] = polled],
             push(i, IF polled THEN <<NewLink(c)>> ELSE <<NewLink(c), Disconnect>>)
      PROVE  Tied'
  <2>1. News(inbox'[i]) = {c} /\ \A j \in Slots : j # i => inbox'[j] = inbox[j]
    BY <1>1, <1>4, AttachNews
  <2>2. /\ link'[i] = c
        /\ \A j \in Slots : j # i => link'[j] = link[j] /\ monitored'[j] = monitored[j]
    BY <1>4 DEF Typed, TypeOK
  <2>3. \A j \in Slots : monitored'[j] => link'[j] # None
    BY <1>1, <2>2 DEF Tied
  <2>4. ASSUME NEW j \in Slots, NEW v \in Workers, occupant'[j] = v, link'[j] # None
        PROVE  Has(j, v, link[j])'
    <3>1. CASE j = i
      BY <2>1, <2>2, <3>1 DEF Has
    <3>2. CASE j # i
      <4>1. Has(j, v, link[j]) /\ link'[j] = link[j]
        BY <1>1, <2>2, <2>4, <3>2 DEF Tied
      <4> QED
        BY <1>1, <1>2, <2>1, <3>2, <4>1 DEF Has
    <3> QED
      BY <3>1, <3>2
  <2> QED
    BY <2>3, <2>4 DEF Tied
<1> QED
  BY <1>3, <1>4 DEF AttachConnection

\* A thread begins in a slot without a link.
LEMMA SpawnTied ==
  ASSUME Typed, Seats, Hands, Tied,
         \/ (\E c \in Conns, i \in Slots : UpgradeConnection(c, i))
         \/ (\E s \in Sessions, i \in Slots : NewSession(s, i))
  PROVE  Tied'
<1>1. PICK i \in Slots, w \in Workers :
        /\ occupant[i] = None /\ occupant' = [occupant EXCEPT ![i] = w] /\ pc[w] = "none"
        /\ pc' = [pc EXCEPT ![w] = "starting"]
        /\ UNCHANGED <<link, monitored, inbox, giving, answered>>
        /\ (held' = held \/ held' = [held EXCEPT ![w] = w])
  BY DEF UpgradeConnection, NewSession, Spawned, Free, Workers, loopVars, shared, flags
<1>2. link[i] = None
  BY <1>1 DEF Seats, SlotsExact
<1>3. \A j \in Slots : monitored'[j] => link'[j] # None
  BY <1>1 DEF Tied
<1>4. \A j \in Slots : link'[j] # None =>
        link'[j] = link[j] /\ occupant'[j] = occupant[j] /\ News(inbox[j]) \subseteq News(inbox'[j])
  BY <1>1, <1>2 DEF Typed, TypeOK
<1>5. held[w] = None
  BY <1>1 DEF Hands
<1>6. \A v \in Workers : (held[v] = None \/ held'[v] = held[v]) /\ (Leaving(v) => Leaving(v)')
  BY <1>1, <1>5 DEF Leaving, Typed, TypeOK
<1> QED
  BY <1>1, <1>3, <1>4, <1>6, TiedQuiet

\* A worker leaves its links where they are.
LEMMA WorkerTied ==
  ASSUME Typed, Seats, Tied, NEW w \in Workers,
         \/ Start(w) \/ Signal(w) \/ Tick(w) \/ OnCommand(w) \/ OnEnd(w) \/ PumpEnds(w)
         \/ TickFails(w) \/ Killed(w) \/ Disarm(w) \/ RunScript(w) \/ ScriptReturns(w) \/ Stuck(w)
         \/ (OnLinkGone(w) /\ held[w] = None)
  PROVE  Tied'
<1>1. UNCHANGED <<held, giving, link, monitored, occupant>>
  BY DEF Start, Signal, Tick, OnCommand, OnEnd, PumpEnds, TickFails, Killed, Disarm, RunScript,
    ScriptReturns, Stuck, OnLinkGone, own, server, slotVars, seat
<1>2. \A i \in Slots : News(inbox'[i]) = News(inbox[i])
  BY WorkerNews
<1>3. \A v \in Workers : Leaving(v) => Leaving(v)'
  <2>1. CASE pc[w] \notin {"linkSig", "waitLink"}
    <3>1. \A v \in Workers : v # w => pc'[v] = pc[v] /\ answered'[v] = answered[v]
      BY ZenonT(60) DEF Start, Signal, Tick, OnCommand, OnEnd, Done, PumpEnds, TickFails, Killed, Disarm,
        RunScript, ScriptReturns, Stuck, OnLinkGone, own, shared, flags, Goes, Queue, Leave,
        Typed, TypeOK
    <3> QED
      BY <2>1, <3>1 DEF Leaving
  <2>2. CASE Signal(w)
    <3>1. Signals["linkSig"] = "waitLink" /\ "waitLink" \notin DOMAIN Signals
      BY DEF Signals
    <3> QED
      BY <2>2, <3>1 DEF Signal, Goes, Leaving, flags, Typed, TypeOK
  <2>3. CASE pc[w] \in {"linkSig", "waitLink"} /\ ~Signal(w)
    BY <2>3 DEF Start, Tick, OnCommand, OnEnd, Drains, PumpEnds, TickFails, Killed, Disarm,
      RunScript, ScriptReturns, Stuck, OnLinkGone
  <2> QED
    BY <2>1, <2>2, <2>3
<1>4. \A i \in Slots : monitored'[i] => link'[i] # None
  BY <1>1 DEF Tied
<1> QED
  BY <1>1, <1>2, <1>3, <1>4, TiedQuiet

\* A worker takes its new link.
LEMMA TakeTied ==
  ASSUME Typed, Seats, LinkOnce, Tied, NEW w \in Workers, OnLink(w)
  PROVE  Tied'
<1>1. PICK mode \in {"pump", "script"}, k \in DOMAIN Mail(w) :
        /\ pc[w] = mode /\ Pop(w, k) /\ Mail(w)[k].kind = "link"
        /\ IF held[w] = None
           THEN held' = [held EXCEPT ![w] = Mail(w)[k].conn] /\ UNCHANGED sock
           ELSE sock' = [sock EXCEPT ![Mail(w)[k].conn] = "out"] /\ UNCHANGED held
  BY DEF OnLink, Drains
<1>2. w \in Sessions /\ held[w] = None
  BY <1>1, TakesLink
<1>3. at[w] \in Slots /\ occupant[at[w]] = w
  BY <1>1, Driver DEF Driving, Going
<1> DEFINE i == at[w] s == inbox[i]
<1>4. k \in Links(s) /\ Once(s) /\ Mail(w) = s
  BY <1>1, <1>2, <1>3, MailType DEF Links, LinkOnce, Apart
<1>5. News(s) = {s[k].conn}
  BY <1>4, OneNew
<1>6. \A j \in Slots : j # i => inbox'[j] = inbox[j]
  BY <1>1, <1>3 DEF Pop, Typed, TypeOK
<1>7. UNCHANGED <<pc, answered, giving, link, monitored, occupant>>
  BY DEF OnLink, flags, server, slotVars, seat
<1>8. held' = [held EXCEPT ![w] = s[k].conn]
  BY <1>1, <1>2, <1>4
<1>9. \A v \in Workers : Leaving(v)' <=> Leaving(v)
  BY <1>7 DEF Leaving
<1> HIDE DEF i
<1>10. ASSUME NEW j \in Slots, NEW v \in Workers, occupant'[j] = v, link'[j] # None
       PROVE  Has(j, v, link[j])'
  <2>1. Has(j, v, link[j]) /\ link'[j] = link[j]
    BY <1>7, <1>10 DEF Tied
  <2>2. CASE j = i
    <3>1. v = w /\ ~Leaving(w)
      BY <1>1, <1>3, <1>7, <1>10, <2>2 DEF Leaving, i
    <3>2. link[j] = s[k].conn
      BY <1>2, <1>5, <1>7, <1>10, <2>1, <2>2, <3>1 DEF Has
    <3> QED
      BY <1>8, <2>1, <3>1, <3>2 DEF Has, Typed, TypeOK
  <2>3. CASE j # i
    <3>1. v # w
      BY <1>7, <1>10, <2>3, SeatFacts DEF i
    <3> QED
      BY <1>6, <1>7, <1>8, <1>9, <2>1, <2>3, <3>1 DEF Has, Typed, TypeOK
  <2> QED
    BY <2>2, <2>3
<1> QED
  BY <1>7, <1>10 DEF Tied

\* A session begins to give its link back.
LEMMA GiveTied ==
  ASSUME Typed, Seats, LinkOnce, Tied, NEW w \in Workers, OnLinkGone(w), held[w] # None
  PROVE  Tied'
<1>1. PICK mode \in {"pump", "script", "terminal"}, k \in DOMAIN Mail(w) :
        /\ pc[w] = mode /\ Pop(w, k) /\ Mail(w)[k].kind # "link" /\ w \in Sessions
        /\ giving' = [giving EXCEPT ![w] = held[w]] /\ held' = [held EXCEPT ![w] = None]
        /\ pc' = [pc EXCEPT ![w] = "linkSig"] /\ answered' = [answered EXCEPT ![w] = FALSE]
  BY DEF OnLinkGone, Drains, Goes, Queue
<1>2. at[w] \in Slots /\ occupant[at[w]] = w
  BY <1>1, Driver DEF Driving, Going
<1>3. \A i \in Slots : News(inbox'[i]) = News(inbox[i])
  BY <1>1, NewsRest, <1>2
<1>4. UNCHANGED <<link, monitored, occupant>>
  BY DEF OnLinkGone, server, slotVars, seat
<1>5. News(inbox[at[w]]) = {} /\ ~Leaving(w)
  <2>1. Apart(at[w], w)
    BY <1>1, <1>2 DEF LinkOnce
  <2>2. Links(inbox[at[w]]) = {}
    BY <2>1 DEF Apart
  <2> QED
    BY <1>1, <2>2, NoneNew DEF Leaving
<1>6. Leaving(w)' /\ giving'[w] = held[w]
  BY <1>1 DEF Leaving, Typed, TypeOK
<1>7. \A v \in Workers : v # w =>
        (Leaving(v)' <=> Leaving(v)) /\ held'[v] = held[v] /\ giving'[v] = giving[v]
  BY <1>1 DEF Leaving, Typed, TypeOK
<1>8. ASSUME NEW j \in Slots, NEW v \in Workers, occupant'[j] = v, link'[j] # None
      PROVE  Has(j, v, link[j])'
  <2>1. Has(j, v, link[j]) /\ link'[j] = link[j]
    BY <1>4, <1>8 DEF Tied
  <2>2. CASE v = w
    <3>1. j = at[w]
      BY <1>4, <1>8, <2>2, SeatFacts
    <3>2. held[w] = link[j]
      BY <1>5, <2>1, <2>2, <3>1 DEF Has
    <3> QED
      BY <1>6, <2>1, <2>2, <3>2 DEF Has
  <2>3. CASE v # w
    BY <1>3, <1>7, <2>1, <2>3 DEF Has
  <2> QED
    BY <2>2, <2>3
<1> QED
  BY <1>4, <1>8 DEF Tied

\* A worker destroys its link: the loop does not have it, or no longer has it.
LEMMA DestroyTied ==
  ASSUME Typed, Seats, Born, Tied, NEW w \in Workers, StartFails(w) \/ Teardown(w) \/ DestroyLink(w)
  PROVE  Tied'
<1>1. UNCHANGED <<link, monitored, occupant, inbox>>
  BY DEF StartFails, Teardown, DestroyLink, server, slotVars, seat
<1>2. /\ \A v \in Workers : v # w =>
           pc'[v] = pc[v] /\ answered'[v] = answered[v] /\ held'[v] = held[v] /\ giving'[v] = giving[v]
      /\ ~Leaving(w)
  BY DEF StartFails, Teardown, DestroyLink, Goes, Queue, flags, Leaving, Typed, TypeOK
<1>3. ASSUME NEW j \in Slots, link[j] # None, occupant[j] = w
      PROVE  held[w] = None \/ held'[w] = held[w]
  <2>1. CASE StartFails(w)
    <3>1. pc[w] = "starting"
      BY <2>1 DEF StartFails
    <3>2. pc[w] \notin Driving
      BY <3>1 DEF Driving
    <3>3. w \in Sessions
      BY <1>3, <3>2 DEF Seats, Seated, Workers
    <3> QED
      BY <3>1, <3>3 DEF Born
  <2>2. CASE Teardown(w)
    <3>1. Released(w)
      BY <2>2 DEF Teardown, Released
    <3> QED
      BY <1>3, <3>1, SeatFacts
  <2>3. CASE DestroyLink(w)
    BY <2>3 DEF DestroyLink
  <2> QED
    BY <2>1, <2>2, <2>3
<1>4. \A j \in Slots : monitored'[j] => link'[j] # None
  BY <1>1 DEF Tied
<1>5. \A v \in Workers : v # w => (Leaving(v)' <=> Leaving(v))
  BY <1>2 DEF Leaving
<1>6. \A j \in Slots, v \in Workers : link'[j] # None /\ occupant[j] = v =>
        /\ held[v] = None \/ held'[v] = held[v]
        /\ Leaving(v) => Leaving(v)' /\ giving'[v] = giving[v]
  BY <1>1, <1>2, <1>3, <1>5
<1> QED
  BY <1>1, <1>4, <1>6, TiedQuiet

\* Who owns what.
Books == Owned /\ Hands /\ Born /\ Tied

\* Nothing happens.
LEMMA BooksQuiet ==
  ASSUME Typed, Books, UNCHANGED vars
  PROVE  Books'
<1>1. /\ UNCHANGED <<sock, held, giving, inbox, pc, drain, queue, link, monitored, occupant, answered>>
  BY DEF vars, server, loopVars, slotVars, seat, shared, flags, own
<1>2. Owned' /\ Hands' /\ Born'
  BY <1>1, OwnedQuiet DEF Books, Hands, Born, Pending
<1>3. \A w \in Workers : Leaving(w)' <=> Leaving(w)
  BY <1>1 DEF Leaving
<1>4. Tied'
  BY <1>1, <1>3 DEF Books, Tied, Has
<1> QED
  BY <1>2, <1>4 DEF Books

\* Every step keeps the books.
LEMMA BooksStep ==
  ASSUME IInv, Books, [Next]_vars
  PROVE  Books'
<1> USE DEF IInv, Books
<1>1. CASE UNCHANGED vars
  BY <1>1, BooksQuiet
<1>2. CASE RequestTerminate \/ EndEvents \/ EndDrain \/ Deinit
  BY <1>2, LoopOwned, LoopBorn, LoopTied DEF Step
<1>3. CASE AttachWorker
  BY <1>3, LoopOwned, LoopBorn, AttachTied DEF Step
<1>4. CASE ReleaseLink
  BY <1>4, LoopOwned, LoopBorn, LetGoTied DEF Step
<1>5. CASE ReleaseWorker
  BY <1>5, FreeOwned, LoopBorn, LetGoTied DEF Step
<1>6. CASE Saturated \/ ReapSession \/ Stop \/ (\E c \in Conns : HttpClose(c) \/ Accept(c))
             \/ (\E i \in Slots : DeleteSession(i) \/ ReadCommand(i) \/ ReadClose(i)
                                   \/ DropWebSocket(i))
  BY <1>6, LoopOwned, LoopBorn, LoopTied
<1>7. ASSUME NEW c \in Conns, NEW i \in Slots, UpgradeConnection(c, i) PROVE Books'
  BY <1>7, UpgradeOwned, SpawnBorn, SpawnTied
<1>8. ASSUME NEW s \in Sessions, NEW i \in Slots, NewSession(s, i) PROVE Books'
  BY <1>8, LoopOwned, SpawnBorn, SpawnTied
<1>9. ASSUME NEW c \in Conns, NEW i \in Slots, AttachConnection(c, i) PROVE Books'
  BY <1>9, AttachOwned, LoopBorn, LinkTied
<1>10. ASSUME NEW w \in Workers,
              \/ Start(w) \/ Signal(w) \/ Tick(w) \/ OnCommand(w) \/ OnEnd(w) \/ PumpEnds(w)
              \/ TickFails(w) \/ Killed(w) \/ Disarm(w) \/ RunScript(w) \/ ScriptReturns(w)
              \/ Stuck(w) \/ (OnLinkGone(w) /\ held[w] = None)
       PROVE  Books'
  BY <1>10, WorkerOwned, WorkerBorn, WorkerTied
<1>11. ASSUME NEW w \in Workers, OnLink(w) PROVE Books'
  BY <1>11, TakeOwned, LinkBorn, TakeTied
<1>12. ASSUME NEW w \in Workers, OnLinkGone(w), held[w] # None PROVE Books'
  BY <1>12, GiveOwned, LinkBorn, GiveTied
<1>13. ASSUME NEW w \in Workers, StartFails(w) \/ Teardown(w) \/ DestroyLink(w) PROVE Books'
  BY <1>13, DestroyOwned, LinkBorn, DestroyTied
<1>14. CASE Step
  BY <1>2, <1>3, <1>4, <1>5, <1>14 DEF Step
<1>15. CASE Events
  BY <1>6, <1>7, <1>8, <1>9, <1>15 DEF Events
<1>16. ASSUME NEW w \in Workers, Work(w) \/ RunScript(w) \/ ScriptReturns(w) \/ Stuck(w)
       PROVE  Books'
  BY <1>10, <1>11, <1>12, <1>13, <1>16 DEF Work
<1> QED
  BY <1>1, <1>14, <1>15, <1>16 DEF Next, Ended

\* At first nothing is owned.
LEMMA BooksInit == ASSUME Init PROVE Books
<1>1. \A k, x : \A c \in Conns : ~Holds(k, x, c)
  BY NoneNew, Constants DEF Init, Holds, Workers
<1>2. Owned
  BY <1>1 DEF Owned, Alone, Kept, Init
<1>3. Hands
  BY DEF Hands, Init
<1>4. Pending = {}
  <2>1. DOMAIN <<>> = {}
    OBVIOUS
  <2> QED
    BY <2>1 DEF Pending, Range, Init
<1>5. Born
  BY <1>4 DEF Born, Init, Driving, Workers
<1>6. Tied
  BY DEF Tied, Init
<1> QED
  BY <1>2, <1>3, <1>5, <1>6 DEF Books

-----------------------------------------------------------------------------
(* The pause of the listener.                                               *)

\* The slots that have a worker.
Taken == Slots \ Free

\* The sockets and workers that are counted are no fewer.
LEMMA OpenQuiet ==
  ASSUME ListenerOpen, paused' /\ ~begun' => paused /\ ~begun,
         Http \subseteq Http', Taken \subseteq Taken'
  PROVE  ListenerOpen'
<1>1. Http' \subseteq Conns /\ Taken' \subseteq Slots
  BY DEF Http, Taken
<1>2. /\ IsFiniteSet(Http') /\ IsFiniteSet(Taken')
  BY <1>1, Constants, FS_Subset
<1> DEFINE H == Http' T == Taken'
<1>3. IsFiniteSet(H) /\ IsFiniteSet(T) /\ Http \in SUBSET H /\ Taken \in SUBSET T
  BY <1>2
<1> HIDE DEF H, T
<1>4. IsFiniteSet(Http) /\ Cardinality(Http) <= Cardinality(H)
  BY <1>3, FS_Subset
<1>5. IsFiniteSet(Taken) /\ Cardinality(Taken) <= Cardinality(T)
  BY <1>3, FS_Subset
<1>6. /\ Cardinality(Http) \in Nat /\ Cardinality(H) \in Nat
      /\ Cardinality(Taken) \in Nat /\ Cardinality(T) \in Nat
  BY <1>3, <1>4, <1>5, FS_CardinalityType
<1>7. liveConnections = Cardinality(Http) + Cardinality(Taken)
  BY DEF liveConnections, Taken
<1>8. liveConnections' = Cardinality(H) + Cardinality(T)
  BY DEF liveConnections, Taken, H, T
<1>9. liveConnections >= MaxLive => liveConnections' >= MaxLive
  BY <1>4, <1>5, <1>6, <1>7, <1>8, Constants
<1> QED
  BY <1>9 DEF ListenerOpen

\* The sockets of a worker are links.
LEMMA WorkerKeepsHttp ==
  ASSUME Typed, Seats, LinkOnce, Owned, NEW w \in Workers,
         Work(w) \/ RunScript(w) \/ ScriptReturns(w) \/ Stuck(w)
  PROVE  Http' = Http
<1>1. \A c \in Conns : held[w] = c \/ giving[w] = c => sock[c] = "ws"
  <2>1. \A c \in Conns : held[w] = c \/ giving[w] = c => Holds("held", w, c) \/ Holds("giving", w, c)
    BY DEF Holds
  <2> QED
    BY <2>1 DEF Owned, Kept
<1>2. CASE StartFails(w) \/ Teardown(w)
  <2>1. sock' = [c \in Conns |-> IF c = held[w] THEN "out" ELSE sock[c]]
    BY <1>2 DEF StartFails, Teardown
  <2> QED
    BY <1>1, <2>1 DEF Http
<1>3. CASE DestroyLink(w)
  <2>1. sock' = [sock EXCEPT ![giving[w]] = "out"]
    BY <1>3 DEF DestroyLink
  <2> QED
    BY <1>1, <2>1 DEF Http, Typed, TypeOK
<1>4. CASE OnLink(w)
  <2>1. PICK mode \in {"pump", "script"}, k \in DOMAIN Mail(w) :
          /\ pc[w] = mode /\ Mail(w)[k].kind = "link"
          /\ held[w] = None => UNCHANGED sock
    BY <1>4 DEF OnLink, Drains
  <2> QED
    BY <2>1, TakesLink DEF Http
<1>5. CASE UNCHANGED sock
  BY <1>5 DEF Http
<1> QED
  BY <1>2, <1>3, <1>4, <1>5 DEF Work, Start, Signal, Tick, OnCommand, OnEnd, OnLinkGone, PumpEnds,
    TickFails, Killed, Disarm, RunScript, ScriptReturns, Stuck, shared

\* Every step keeps the listener from being paused in vain.
LEMMA OpenStep ==
  ASSUME IInv, Owned, ListenerOpen, [Next]_vars
  PROVE  ListenerOpen'
<1>1. ASSUME slotFreed, begun' = begun PROVE ListenerOpen'
  BY <1>1 DEF slotFreed, ListenerOpen
<1>2. ASSUME UNCHANGED <<paused, begun, sock, occupant>> PROVE ListenerOpen'
  BY <1>2 DEF ListenerOpen, liveConnections, Http, Free
<1>3. CASE UNCHANGED vars
  BY <1>2, <1>3 DEF vars, server, loopVars, turn, slotVars, seat, shared
<1>4. CASE Step
  <2>1. CASE ReleaseWorker
    BY <1>1, <2>1 DEF ReleaseWorker, turn
  <2>2. CASE EndDrain
    <3>1. CASE begun' /\ ~begun
      BY <3>1 DEF ListenerOpen
    <3>2. CASE ~(begun' /\ ~begun)
      BY <1>2, <2>2, <3>2 DEF EndDrain, slotVars, seat, IInv, Typed, TypeOK
    <3> QED
      BY <3>1, <3>2
  <2> QED
    BY <1>2, <1>4, <2>1, <2>2 DEF Step, RequestTerminate, EndEvents, AttachWorker, ReleaseLink,
      Deinit, turn, slotVars, seat, shared
<1>5. CASE Events
  <2>1. ASSUME NEW c \in Conns, HttpClose(c) PROVE ListenerOpen'
    BY <1>1, <2>1 DEF HttpClose, turn
  <2>2. ASSUME NEW c \in Conns, Accept(c) PROVE ListenerOpen'
    BY <2>2 DEF Accept, ListenerOpen, server, loopVars
  <2>3. ASSUME NEW c \in Conns, NEW i \in Slots, UpgradeConnection(c, i) \/ AttachConnection(c, i)
        PROVE  ListenerOpen'
    BY <1>1, <2>3 DEF UpgradeConnection, AttachConnection, turn
  <2>4. ASSUME NEW s \in Sessions, NEW i \in Slots, NewSession(s, i) PROVE ListenerOpen'
    <3>1. UNCHANGED <<paused, begun, sock>> /\ occupant' = [occupant EXCEPT ![i] = s]
          /\ s # None
      BY <2>4, Constants DEF NewSession, Spawned, loopVars, turn, shared, Workers
    <3>2. Http \subseteq Http'
      BY <3>1 DEF Http
    <3>3. Taken \subseteq Taken'
      BY <3>1 DEF Taken, Free, IInv, Typed, TypeOK
    <3> QED
      BY <3>1, <3>2, <3>3, OpenQuiet
  <2>5. ASSUME NEW i \in Slots,
               DeleteSession(i) \/ ReadCommand(i) \/ ReadClose(i) \/ DropWebSocket(i)
        PROVE  ListenerOpen'
    BY <1>2, <2>5 DEF DeleteSession, ReadCommand, ReadClose, DropWebSocket, server, loopVars, turn,
      slotVars, seat
  <2>6. CASE Saturated
    <3>1. CASE slotFreed
      BY <1>1, <2>6, <3>1 DEF Saturated, turn
    <3>2. CASE UNCHANGED sock
      <4>1. liveConnections' = liveConnections /\ liveConnections >= MaxLive
        BY <2>6, <3>2 DEF Saturated, liveConnections, Http, Free, slotVars, seat
      <4> QED
        BY <4>1 DEF ListenerOpen
    <3> QED
      BY <2>6, <3>1, <3>2 DEF Saturated
  <2>7. CASE ReapSession \/ Stop
    BY <1>2, <2>7 DEF ReapSession, Stop, server, loopVars, turn, slotVars, seat
  <2> QED
    BY <1>5, <2>1, <2>2, <2>3, <2>4, <2>5, <2>6, <2>7 DEF Events
<1>6. ASSUME NEW w \in Workers, Work(w) \/ RunScript(w) \/ ScriptReturns(w) \/ Stuck(w)
      PROVE  ListenerOpen'
  <2>1. Http' = Http
    BY <1>6, WorkerKeepsHttp DEF IInv
  <2>2. UNCHANGED <<paused, begun, occupant>>
    BY <1>6 DEF Work, Start, StartFails, Signal, Tick, OnCommand, OnLink, OnEnd, OnLinkGone,
      DestroyLink, PumpEnds, TickFails, Killed, Disarm, Teardown, RunScript, ScriptReturns, Stuck,
      server, loopVars, turn, slotVars, seat
  <2> QED
    BY <2>1, <2>2 DEF ListenerOpen, liveConnections, Free
<1> QED
  BY <1>3, <1>4, <1>5, <1>6 DEF Next, Ended

-----------------------------------------------------------------------------
(* Why a worker was asked to stop.                                          *)

\* A message that ends worker w, and an inbox that has one.
Ends(w, m)  == m.kind = "quit" \/ (m.kind \in {"close", "disconnect"} /\ w \in Conns)
Mails(w, s) == \E k \in DOMAIN s : Ends(w, s[k])

\* A message is added.
LEMMA MailsAdded ==
  ASSUME NEW w, NEW s \in Seq(Messages), NEW m \in Messages
  PROVE  (Mails(w, s) \/ Ends(w, m)) => Mails(w, s \o <<m>>)
<1> DEFINE t == Append(s, m) n == Len(s)
<1>1. /\ s \o <<m>> = t /\ DOMAIN t = 1 .. n + 1 /\ DOMAIN s = 1 .. n /\ n \in Nat
      /\ \A i \in 1 .. n : t[i] = s[i]
      /\ t[n + 1] = m
  BY PutLast, LenProperties
<1> HIDE DEF t, n
<1>2. 1 .. n \subseteq 1 .. n + 1 /\ n + 1 \in 1 .. n + 1
  BY <1>1
<1> QED
  BY <1>1, <1>2 DEF Mails

\* A message is taken that does not end the worker.
LEMMA MailsTaken ==
  ASSUME NEW w, NEW s \in Seq(Messages), NEW k \in 1 .. Len(s), ~Ends(w, s[k]), Mails(w, s)
  PROVE  Mails(w, RemoveAt(s, k))
<1> DEFINE t == RemoveAt(s, k) n == Len(s)
<1>1. /\ DOMAIN t = 1 .. n - 1 /\ DOMAIN s = 1 .. n /\ n \in Nat /\ k \in 1 .. n
      /\ \A j \in 1 .. n - 1 : t[j] = s[IF j < k THEN j ELSE j + 1]
  BY TakeAway, LenProperties
<1> HIDE DEF t, n
<1>2. PICK m \in 1 .. n : Ends(w, s[m])
  BY <1>1 DEF Mails
<1>3. m # k
  BY <1>2
<1>4. CASE m < k
  <2>1. m \in 1 .. n - 1 /\ t[m] = s[m]
    BY <1>1, <1>4
  <2> QED
    BY <1>1, <1>2, <2>1 DEF Mails, t
<1>5. CASE ~(m < k)
  <2>1. m - 1 \in 1 .. n - 1 /\ ~(m - 1 < k) /\ m - 1 + 1 = m
    BY <1>1, <1>3, <1>5
  <2>2. t[m - 1] = s[m]
    BY <1>1, <2>1
  <2> QED
    BY <1>1, <1>2, <2>1, <2>2 DEF Mails, t
<1> QED
  BY <1>4, <1>5

\* Worker w knows, or is going, or will find the message.
Reason(w) ==
  gone[w] \/ pc[w] \in Going \cup {"teardown"} \/ (at[w] \in Slots /\ Mails(w, inbox[at[w]]))

\* Whoever was asked to stop has a reason, or is about to be asked and has one; and only
\* those told to terminate drain their inbox as such.
Explained ==
  /\ toStop # None => Reason(occupant[toStop])
  /\ \A w \in Workers : term[w] = "asked" => Reason(w)
  /\ \A w \in Workers :
       pc[w] = "terminal" \/ (pc[w] \in {"linkSig", "waitLink"} /\ back[w] = "terminal")
         => term[w] # "no"

\* Inboxes only get more.
LEMMA Pushed ==
  ASSUME Typed, NEW i \in Slots, NEW m \in Messages, push(i, <<m>>)
  PROVE  /\ \A j \in Slots : \A w : Mails(w, inbox[j]) => Mails(w, inbox'[j])
         /\ \A w : Ends(w, m) => Mails(w, inbox'[i])
<1>1. inbox'[i] = inbox[i] \o <<m>> /\ (\A j \in Slots : j # i => inbox'[j] = inbox[j])
      /\ inbox[i] \in Seq(Messages)
  BY PushOne DEF Typed, TypeOK
<1>2. \A w : (Mails(w, inbox[i]) \/ Ends(w, m)) => Mails(w, inbox'[i])
  BY <1>1, MailsAdded
<1> QED
  BY <1>1, <1>2

\* The messages that quitSession and dropWebSocket push.
LEMMA Farewells ==
  /\ {Command, Close, Disconnect, Quit} \subseteq Messages
  /\ \A w : Ends(w, Quit)
  /\ \A w \in Conns : Ends(w, Disconnect)
BY Members DEF Ends, Quit, Disconnect, Message

\* The loop's steps that take no message: whoever has a reason keeps it.
LEMMA ExplainedLoop ==
  ASSUME Typed, Seats, Explained, UNCHANGED <<pc, at, back, gone, occupant>>,
         \A j \in Slots : \A w : Mails(w, inbox[j]) => Mails(w, inbox'[j]),
         \A w \in Workers : term'[w] = "asked" => term[w] = "asked",
         \A w \in Workers : term[w] # "no" => term'[w] # "no",
         toStop' # None => \/ toStop' = toStop
                           \/ /\ toStop' \in Slots /\ occupant[toStop'] # None
                              /\ Mails(occupant[toStop'], inbox'[toStop'])
  PROVE  Explained'
<1>1. \A w : Reason(w) => Reason(w)'
  BY DEF Reason
<1>2. ASSUME toStop' # None PROVE Reason(occupant[toStop])'
  <2>1. CASE toStop' = toStop
    BY <1>1, <1>2, <2>1 DEF Explained
  <2>2. CASE toStop' \in Slots /\ occupant[toStop'] # None
               /\ Mails(occupant[toStop'], inbox'[toStop'])
    <3>1. at[occupant[toStop']] = toStop'
      BY <2>2, SeatFacts
    <3> QED
      BY <2>2, <3>1 DEF Reason
  <2> QED
    BY <1>2, <2>1, <2>2
<1> QED
  BY <1>1, <1>2 DEF Explained

\* The loop tells a worker by a message, and asks it to stop only then.
LEMMA EventExplained ==
  ASSUME Typed, Seats, Explained,
         \/ EndEvents \/ EndDrain \/ Deinit \/ AttachWorker \/ ReleaseLink
         \/ Saturated \/ ReapSession \/ Stop \/ (\E c \in Conns : HttpClose(c) \/ Accept(c))
         \/ (\E c \in Conns, i \in Slots : AttachConnection(c, i))
         \/ (\E i \in Slots : DeleteSession(i) \/ ReadCommand(i) \/ ReadClose(i)
                               \/ DropWebSocket(i))
  PROVE  Explained'
<1>1. UNCHANGED <<pc, at, back, gone, occupant>>
  BY DEF EndEvents, EndDrain, Deinit, AttachWorker, ReleaseLink, Saturated, ReapSession, Stop,
    HttpClose, Accept, AttachConnection, DeleteSession, quitSession, ReadCommand, ReadClose,
    DropWebSocket, own, mind, seat, slotVars, server
<1>2. \A w \in Workers : /\ term'[w] = "asked" => term[w] = "asked"
                         /\ term[w] # "no" => term'[w] # "no"
  <2>1. CASE UNCHANGED term
    BY <2>1
  <2>2. CASE EndDrain
    BY <2>1, <2>2 DEF EndDrain, beginShutdown
  <2>3. CASE AttachWorker
    BY <2>1, <2>3 DEF AttachWorker, Typed, TypeOK
  <2> QED
    BY <2>1, <2>2, <2>3 DEF EndEvents, Deinit, ReleaseLink, Saturated, ReapSession, Stop,
      HttpClose, Accept, AttachConnection, DeleteSession, ReadCommand, ReadClose, DropWebSocket,
      shared, flags
<1>3. ASSUME NEW i \in Slots, NEW m \in Messages, push(i, <<m>>),
             toStop' \in {toStop, None}
               \/ (toStop' = i /\ occupant[i] # None /\ Ends(occupant[i], m))
      PROVE  Explained'
  <2>1. /\ \A j \in Slots : \A w : Mails(w, inbox[j]) => Mails(w, inbox'[j])
        /\ \A w : Ends(w, m) => Mails(w, inbox'[i])
    BY <1>3, Pushed
  <2> QED
    BY <1>1, <1>2, <1>3, <2>1, ExplainedLoop
<1>4. CASE UNCHANGED <<inbox, toStop>>
  BY <1>1, <1>2, <1>4, ExplainedLoop
<1>5. ASSUME NEW i \in Slots, quitSession(i), listed[i] PROVE Explained'
  <2>1. push(i, <<Quit>>) /\ toStop' \in {i, None} /\ occupant[i] # None
    BY <1>5, SeatFacts DEF quitSession, askToStop
  <2> QED
    BY <1>3, <2>1, Farewells
<1>6. ASSUME NEW i \in Slots, DropWebSocket(i) PROVE Explained'
  <2>1. push(i, <<Disconnect>>) /\ occupant[i] # None
    BY <1>6, SeatFacts DEF DropWebSocket, Polled
  <2>2. toStop' = toStop \/ (toStop' \in {i, None} /\ occupant[i] \in Conns)
    BY <1>6 DEF DropWebSocket, askToStop, connectionScoped
  <2> QED
    BY <1>3, <2>1, <2>2, Farewells
<1>7. ASSUME NEW i \in Slots, ReadCommand(i) \/ ReadClose(i) PROVE Explained'
  <2>1. (push(i, <<Command>>) \/ push(i, <<Close>>)) /\ toStop' = toStop
    BY <1>7 DEF ReadCommand, ReadClose, server, loopVars
  <2> QED
    BY <1>3, <2>1, Farewells
<1>8. CASE AttachWorker
  <2>1. CASE push(Asked, <<Disconnect>>) /\ toStop' = Asked /\ occupant[Asked] \in Conns
    <3>1. Asked \in Slots
      BY <1>8, AskedType DEF AttachWorker, Draining, Typed
    <3>2. occupant[Asked] # None
      BY <2>1, Constants DEF Workers
    <3> QED
      BY <1>3, <2>1, <3>1, <3>2, Farewells
  <2> QED
    BY <1>4, <1>8, <2>1 DEF AttachWorker, connectionScoped
<1>9. CASE ReapSession
  <2>1. Head(idle) \in Slots /\ quitSession(Head(idle)) 
    BY <1>9, HeadTail DEF ReapSession, Typed, TypeOK
  <2>2. occupant[Head(idle)] # None \/ toStop' = None
    BY <2>1, SeatFacts DEF quitSession, askToStop
  <2>3. push(Head(idle), <<Quit>>) /\ toStop' \in {Head(idle), None}
    BY <2>1 DEF quitSession, askToStop
  <2> QED
    BY <1>3, <2>1, <2>2, <2>3, Farewells
<1>10. ASSUME NEW c \in Conns, NEW i \in Slots, AttachConnection(c, i) PROVE Explained'
  <2>1. toStop' = toStop
    BY <1>10 DEF AttachConnection
  <2>2. \A j \in Slots : \A w : Mails(w, inbox[j]) => Mails(w, inbox'[j])
    <3>1. CASE inbox' = inbox
      BY <3>1
    <3>2. ASSUME NEW polled \in BOOLEAN,
                 push(i, IF polled THEN <<NewLink(c)>> ELSE <<NewLink(c), Disconnect>>)
          PROVE  \A j \in Slots : \A w : Mails(w, inbox[j]) => Mails(w, inbox'[j])
      <4> DEFINE s == inbox[i] m == NewLink(c) t == Append(s, m)
      <4>1. s \in Seq(Messages) /\ m \in Messages /\ Disconnect \in Messages
        BY Members DEF Typed, TypeOK
      <4>2. /\ inbox'[i] = s \o <<m>> \/ inbox'[i] = s \o <<m, Disconnect>>
            /\ \A j \in Slots : j # i => inbox'[j] = inbox[j]
        BY <3>2, PushOne
      <4> HIDE DEF m, s
      <4>3. s \o <<m>> = t /\ t \in Seq(Messages) /\ s \o <<m, Disconnect>> = t \o <<Disconnect>>
        BY <4>1, PutLast, PutBoth
      <4> HIDE DEF t
      <4>4. \A w : Mails(w, s) => Mails(w, t)
        BY <4>1, <4>3, MailsAdded
      <4>5. \A w : Mails(w, t) => Mails(w, t \o <<Disconnect>>)
        BY <4>1, <4>3, MailsAdded
      <4>6. \A w : Mails(w, s) => Mails(w, inbox'[i])
        BY <4>2, <4>3, <4>4, <4>5
      <4> QED
        BY <4>2, <4>6 DEF s
    <3> QED
      BY <1>10, <3>1, <3>2 DEF AttachConnection
  <2> QED
    BY <1>1, <1>2, <2>1, <2>2, ExplainedLoop
<1>11. ASSUME NEW i \in Slots, DeleteSession(i) PROVE Explained'
  BY <1>5, <1>11 DEF DeleteSession
<1>12. CASE EndEvents \/ EndDrain \/ Deinit \/ ReleaseLink \/ Saturated \/ Stop
               \/ (\E c \in Conns : HttpClose(c) \/ Accept(c))
  BY <1>4, <1>12 DEF EndEvents, EndDrain, Deinit, ReleaseLink, Saturated, Stop, HttpClose, Accept,
    server, loopVars, shared
<1> QED
  BY <1>6, <1>7, <1>8, <1>9, <1>10, <1>11, <1>12

\* The flag is raised after the message was sent.
LEMMA FlagExplained ==
  ASSUME Typed, Explained, RequestTerminate
  PROVE  Explained'
<1>1. /\ toStop # None /\ toStop' = None /\ UNCHANGED <<pc, at, back, gone, inbox>>
      /\ term' = [term EXCEPT ![occupant[toStop]] = IF @ = "no" THEN "asked" ELSE @]
  BY DEF RequestTerminate, own, mind
<1>2. \A w : Reason(w)' <=> Reason(w)
  BY <1>1 DEF Reason
<1>3. \A w \in Workers : /\ term'[w] = "asked" => term[w] = "asked" \/ w = occupant[toStop]
                         /\ term[w] # "no" => term'[w] # "no"
  BY <1>1 DEF Typed, TypeOK
<1> QED
  BY <1>1, <1>2, <1>3 DEF Explained

\* A slot is freed: its worker is going already.
LEMMA FreeExplained ==
  ASSUME Typed, InTurn, Seats, Explained, ReleaseWorker
  PROVE  Explained'
<1> DEFINE i == Asked w == Asker
<1>1. /\ drain # <<>> /\ drain' = Tail(drain) /\ UNCHANGED <<queue, phase>>
      /\ Head(drain).op = "release"
  BY DEF ReleaseWorker, Draining, turn
<1>2. i \in Slots /\ w \in Workers /\ occupant[i] = w /\ pc[w] \in Going
  BY <1>1, FirstRequest DEF Asks, Going
<1>3. /\ UNCHANGED <<pc, at, back, gone, term, toStop>> /\ toStop = None
      /\ \A j \in Slots : j # i => inbox'[j] = inbox[j]
  BY DEF ReleaseWorker, Draining, Loop, own, mind, Typed, TypeOK
<1> HIDE DEF i, w
<1>4. ASSUME NEW v \in Workers, term[v] = "asked" PROVE Reason(v)'
  <2>1. Reason(v) /\ pc[v] \in Driving
    BY <1>4 DEF Explained, Seats, SlotsExact
  <2>2. CASE Released(v)
    BY <1>3, <2>1, <2>2 DEF Reason, Released, Driving, Going
  <2>3. CASE ~Released(v) /\ at[v] = i
    <3>1. v = w
      BY <1>2, <2>3, SeatFacts
    <3> QED
      BY <1>2, <1>3, <3>1 DEF Reason
  <2>4. CASE at[v] # i
    BY <1>3, <2>1, <2>4 DEF Reason
  <2> QED
    BY <2>2, <2>3, <2>4
<1> QED
  BY <1>3, <1>4 DEF Explained

\* A thread begins: nobody asked it to stop.
LEMMA SpawnExplained ==
  ASSUME Typed, Seats, Explained,
         \/ (\E c \in Conns, i \in Slots : UpgradeConnection(c, i))
         \/ (\E s \in Sessions, i \in Slots : NewSession(s, i))
  PROVE  Explained'
<1>1. PICK i \in Slots, w \in Workers :
        /\ pc[w] = "none" /\ pc' = [pc EXCEPT ![w] = "starting"] /\ at' = [at EXCEPT ![w] = i]
        /\ UNCHANGED <<inbox, gone, term, back, toStop>> /\ toStop = None
  BY DEF UpgradeConnection, NewSession, Spawned, Workers, loopVars, shared, flags, Loop
<1>2. term[w] = "no"
  BY <1>1 DEF Seats, SlotsExact, Driving
<1>3. \A v \in Workers : v # w => pc'[v] = pc[v] /\ at'[v] = at[v]
  BY <1>1 DEF Typed, TypeOK
<1>4. \A v \in Workers : v # w => (Reason(v)' <=> Reason(v))
  BY <1>1, <1>3 DEF Reason
<1>5. pc'[w] = "starting"
  BY <1>1 DEF Typed, TypeOK
<1> QED
  BY <1>1, <1>2, <1>3, <1>4, <1>5 DEF Explained

\* A worker's step leaves the reasons of the others, and is not without its own.
LEMMA WorkerMoved ==
  ASSUME Typed, Seats, Explained, NEW w \in Workers, UNCHANGED <<toStop, occupant, at>>,
         \A v \in Workers : v # w => pc'[v] = pc[v] /\ gone'[v] = gone[v] /\ term'[v] = term[v]
                                     /\ back'[v] = back[v],
         \/ inbox' = inbox
         \/ ~Released(w) /\ \A i \in Slots : i # at[w] => inbox'[i] = inbox[i],
         Reason(w) => Reason(w)',
         term'[w] = "asked" => term[w] = "asked",
         pc'[w] = "terminal" \/ (pc'[w] \in {"linkSig", "waitLink"} /\ back'[w] = "terminal")
           => term'[w] # "no"
  PROVE  Explained'
<1>1. ASSUME NEW v \in Workers, v # w, Reason(v), pc[v] # "none" PROVE Reason(v)'
  <2>1. CASE Released(v)
    BY <1>1, <2>1 DEF Reason, Released, Going
  <2>2. CASE ~Released(v)
    <3>1. inbox' = inbox \/ at[v] # at[w]
      BY <1>1, <2>2, SeatFacts
    <3> QED
      BY <1>1, <3>1 DEF Reason
  <2> QED
    BY <2>1, <2>2
<1>2. \A v \in Workers : Reason(v) /\ pc[v] # "none" => Reason(v)'
  BY <1>1
<1>3. ASSUME toStop # None PROVE Reason(occupant[toStop])'
  <2>1. toStop \in Slots /\ attached[toStop]
    BY <1>3 DEF Typed, TypeOK, Seats, SlotsExact
  <2>2. occupant[toStop] \in Workers /\ ~Released(occupant[toStop])
    BY <2>1, SeatFacts
  <2>3. pc[occupant[toStop]] # "none"
    BY <2>2 DEF Released
  <2> QED
    BY <1>2, <1>3, <2>2, <2>3 DEF Explained
<1>4. \A v \in Workers : term'[v] = "asked" => term[v] = "asked"
  OBVIOUS
<1>5. \A v \in Workers : term[v] = "asked" => pc[v] # "none"
  BY DEF Seats, SlotsExact, Driving
<1>6. \A v \in Workers : term'[v] = "asked" => Reason(v)'
  BY <1>2, <1>4, <1>5 DEF Explained
<1>7. \A v \in Workers : v # w =>
        (pc'[v] = "terminal" \/ (pc'[v] \in {"linkSig", "waitLink"} /\ back'[v] = "terminal")
           => term'[v] # "no")
  BY DEF Explained
<1> QED
  BY <1>3, <1>6, <1>7 DEF Explained

\* A worker's own steps that take no message.
LEMMA StepExplained ==
  ASSUME Typed, Seats, Explained, NEW w \in Workers,
         \/ Start(w) \/ StartFails(w) \/ Signal(w) \/ Tick(w) \/ DestroyLink(w) \/ PumpEnds(w)
         \/ TickFails(w) \/ Killed(w) \/ Disarm(w) \/ RunScript(w) \/ ScriptReturns(w) \/ Stuck(w)
  PROVE  Explained'
<1>1. UNCHANGED <<toStop, occupant, at, inbox, gone>>
  BY DEF Start, StartFails, Signal, Tick, DestroyLink, PumpEnds, TickFails, Killed, Disarm,
    RunScript, ScriptReturns, Stuck, server, loopVars, slotVars, seat, shared, own, mind
<1>2. \A v \in Workers : v # w => pc'[v] = pc[v] /\ term'[v] = term[v] /\ back'[v] = back[v]
  BY DEF Start, StartFails, Signal, Tick, DestroyLink, PumpEnds, TickFails, Killed, Disarm,
    RunScript, ScriptReturns, Stuck, shared, flags, own, mind, Goes, Leave, Typed, TypeOK
<1>3. term'[w] = "asked" => term[w] = "asked"
  BY DEF Start, StartFails, Signal, Tick, DestroyLink, PumpEnds, TickFails, Killed, Disarm,
    RunScript, ScriptReturns, Stuck, shared, flags, Typed, TypeOK
<1>4. ASSUME pc[w] \in Going \cup {"teardown"} PROVE pc'[w] \in Going \cup {"teardown"}
  <2>1. CASE Signal(w)
    <3>1. Signals["releaseSig"] = "waitRelease" /\ "waitRelease" \notin DOMAIN Signals
          /\ "teardown" \notin DOMAIN Signals
      BY DEF Signals
    <3> QED
      BY <1>4, <2>1, <3>1 DEF Signal, Goes, Going, Typed, TypeOK
  <2>2. CASE Disarm(w) \/ Stuck(w)
    BY <1>4, <2>2 DEF Disarm, Stuck, Goes, Typed, TypeOK, own
  <2>3. CASE ~Signal(w) /\ ~Disarm(w) /\ ~Stuck(w)
    BY <1>4, <2>3 DEF Start, StartFails, Tick, DestroyLink, PumpEnds, TickFails, Killed, RunScript,
      ScriptReturns, Going
  <2> QED
    BY <2>1, <2>2, <2>3
<1>5. Reason(w) => Reason(w)'
  BY <1>1, <1>4 DEF Reason
<1>6. ASSUME pc'[w] = "terminal" \/ (pc'[w] \in {"linkSig", "waitLink"} /\ back'[w] = "terminal")
      PROVE  term'[w] # "no"
  <2>1. CASE Signal(w)
    <3>1. Signals = [attachSig |-> "tick", linkSig |-> "waitLink", releaseSig |-> "waitRelease"]
      BY DEF Signals
    <3>2. pc[w] = "linkSig" /\ pc'[w] = "waitLink" /\ back'[w] = back[w] /\ term'[w] = term[w]
      BY <1>6, <2>1, <3>1 DEF Signal, Goes, mind, flags, Typed, TypeOK
    <3> QED
      BY <1>6, <3>2 DEF Explained
  <2>2. CASE Tick(w)
    BY <1>6, <2>2 DEF Tick, Goes, shared, flags, Typed, TypeOK
  <2>3. CASE DestroyLink(w)
    <3>1. /\ pc[w] = "waitLink" /\ pc' = [pc EXCEPT ![w] = back[w]] /\ term' = term
          /\ back' = [back EXCEPT ![w] = "pump"] /\ back[w] \in {"pump", "script", "terminal"}
      BY <2>3 DEF DestroyLink, Goes, Typed, TypeOK
    <3>2. pc'[w] = back[w] /\ back'[w] = "pump"
      BY <3>1 DEF Typed, TypeOK
    <3> QED
      BY <1>6, <3>1, <3>2 DEF Explained
  <2>4. CASE Stuck(w)
    BY <2>4 DEF Stuck, Typed, TypeOK
  <2>5. CASE ~Signal(w) /\ ~Tick(w) /\ ~DestroyLink(w) /\ ~Stuck(w)
    BY <1>6, <2>5 DEF Start, StartFails, PumpEnds, TickFails, Killed, Disarm, RunScript,
      ScriptReturns, Goes, Leave, Typed, TypeOK
  <2> QED
    BY <2>1, <2>2, <2>3, <2>4, <2>5
<1> QED
  BY <1>1, <1>2, <1>3, <1>5, <1>6, WorkerMoved

\* A worker takes a message; the one that ends it, it remembers.
LEMMA MailExplained ==
  ASSUME Typed, Seats, Explained, NEW w \in Workers,
         OnCommand(w) \/ OnLink(w) \/ OnEnd(w) \/ OnLinkGone(w)
  PROVE  Explained'
<1>1. UNCHANGED <<toStop, occupant, at, term>>
  BY DEF OnCommand, OnLink, OnEnd, OnLinkGone, server, loopVars, slotVars, seat, flags, mind
<1>2. PICK k \in DOMAIN Mail(w) :
        /\ pc[w] \in {"pump", "script", "terminal"}
        /\ ~OnEnd(w) => ~Ends(w, Mail(w)[k])
        /\ \/ Pop(w, k)
           \/ inbox' = [inbox EXCEPT ![at[w]] = Append(RemoveAt(@, k), Quit)]
  BY Constants DEF OnCommand, OnLink, OnEnd, OnLinkGone, Drains, Ends
<1>3. ~Released(w)
  BY <1>2, Driver DEF Driving, Going
<1>4. /\ at[w] \in Slots /\ inbox[at[w]] \in Seq(Messages) /\ Mail(w) = inbox[at[w]]
      /\ RemoveAt(inbox[at[w]], k) \in Seq(Messages) /\ k \in 1 .. Len(inbox[at[w]])
  BY MailType
<1>5. \A i \in Slots : i # at[w] => inbox'[i] = inbox[i]
  BY <1>2 DEF Pop, Typed, TypeOK
<1>6. ASSUME ~OnEnd(w), Mails(w, inbox[at[w]]) PROVE Mails(w, inbox'[at[w]])
  <2> DEFINE t == RemoveAt(inbox[at[w]], k)
  <2>1. Mails(w, t)
    BY <1>2, <1>4, <1>6, MailsTaken
  <2>2. inbox'[at[w]] = t \/ inbox'[at[w]] = Append(t, Quit)
    BY <1>2, <1>4 DEF Pop, Typed, TypeOK
  <2> HIDE DEF t
  <2>3. Mails(w, Append(t, Quit))
    <3>1. t \o <<Quit>> = Append(t, Quit) /\ t \in Seq(Messages) /\ Quit \in Messages
      BY <1>4, Farewells, PutLast DEF t
    <3> QED
      BY <2>1, <3>1, MailsAdded
  <2> QED
    BY <2>1, <2>2, <2>3
<1>7. OnEnd(w) => gone'[w]
  BY DEF OnEnd, Done, Typed, TypeOK
<1>8. ~OnEnd(w) => gone' = gone
  BY DEF OnCommand, OnLink, OnLinkGone, mind
<1>9. Reason(w) => Reason(w)'
  BY <1>1, <1>2, <1>4, <1>6, <1>7, <1>8 DEF Reason, Going
<1>10. \A v \in Workers : v # w => pc'[v] = pc[v] /\ gone'[v] = gone[v] /\ back'[v] = back[v]
  BY ZenonT(60) DEF OnCommand, OnLink, OnEnd, OnLinkGone, Done, Leave, Goes, mind, Typed, TypeOK
<1>11. ASSUME pc'[w] = "terminal" \/ (pc'[w] \in {"linkSig", "waitLink"} /\ back'[w] = "terminal")
       PROVE  term[w] # "no"
  <2>1. pc[w] = "terminal"
    BY ZenonT(60), <1>2, <1>11 DEF OnCommand, OnLink, OnEnd, OnLinkGone, Drains, Done, Leave, Goes, mind,
      Typed, TypeOK
  <2> QED
    BY <2>1 DEF Explained
<1> QED
  BY <1>1, <1>3, <1>5, <1>9, <1>10, <1>11, WorkerMoved

\* A thread ends: nobody asks it any more.
LEMMA EndExplained ==
  ASSUME Typed, Seats, Explained, NEW w \in Workers, Teardown(w)
  PROVE  Explained'
<1>1. /\ UNCHANGED <<toStop, occupant, inbox, term, back>> /\ pc[w] = "teardown" /\ pc'[w] = "none"
      /\ \A v \in Workers : v # w => pc'[v] = pc[v] /\ at'[v] = at[v] /\ gone'[v] = gone[v]
  BY DEF Teardown, Goes, server, loopVars, slotVars, seat, flags, Typed, TypeOK
<1>2. term[w] = "no" /\ Released(w)
  BY <1>1 DEF Seats, SlotsExact, Driving, Released
<1>3. toStop # None => occupant[toStop] \in Workers /\ occupant[toStop] # w
  <2>1. toStop # None => toStop \in Slots /\ attached[toStop]
    BY DEF Typed, TypeOK, Seats, SlotsExact
  <2> QED
    BY <1>2, <2>1, SeatFacts
<1>4. \A v \in Workers : v # w => (Reason(v)' <=> Reason(v))
  BY <1>1 DEF Reason
<1> QED
  BY <1>1, <1>2, <1>3, <1>4 DEF Explained

\* Nothing happens.
LEMMA QuietExplained ==
  ASSUME Explained, UNCHANGED vars
  PROVE  Explained'
<1>1. UNCHANGED <<toStop, occupant, at, inbox, gone, pc, term, back>>
  BY DEF vars, server, loopVars, slotVars, seat, shared, flags, own, mind
<1>2. \A w : Reason(w)' <=> Reason(w)
  BY <1>1 DEF Reason
<1> QED
  BY <1>1, <1>2 DEF Explained

\* Every step keeps the reasons.
LEMMA ExplainedStep ==
  ASSUME IInv, Explained, [Next]_vars
  PROVE  Explained'
<1> USE DEF IInv
<1>1. CASE UNCHANGED vars
  BY <1>1, QuietExplained
<1>2. CASE Step
  BY <1>2, FlagExplained, EventExplained, FreeExplained DEF Step
<1>3. CASE Events
  <2>1. ASSUME NEW c \in Conns, NEW i \in Slots, UpgradeConnection(c, i) PROVE Explained'
    BY <2>1, SpawnExplained
  <2>2. ASSUME NEW s \in Sessions, NEW i \in Slots, NewSession(s, i) PROVE Explained'
    BY <2>2, SpawnExplained
  <2> QED
    BY <1>3, <2>1, <2>2, EventExplained DEF Events
<1>4. ASSUME NEW w \in Workers, Work(w) \/ RunScript(w) \/ ScriptReturns(w) \/ Stuck(w)
      PROVE  Explained'
  BY <1>4, StepExplained, MailExplained, EndExplained DEF Work
<1> QED
  BY <1>1, <1>2, <1>3, <1>4 DEF Next, Ended

\* At first nobody was asked.
LEMMA ExplainedInit == ASSUME Init PROVE Explained
BY DEF Init, Explained

\* A set of numbers has a least.
LEMMA Least ==
  ASSUME NEW T \in SUBSET Nat, T # {}
  PROVE  \E x \in T : \A y \in T : x <= y
<1> DEFINE R == {p \in Nat \X Nat : p[1] < p[2]}
<1>1. IsWellFoundedOn(R, Nat)
  BY NatLessThanWellFounded DEF OpToRel
<1>2. \E x \in T : \A y \in T : <<y, x>> \notin R
  <2> HIDE DEF R
  <2> QED
    BY <1>1, WFMin
<1>3. PICK x \in T : \A y \in T : <<y, x>> \notin R
  BY <1>2
<1>4. \A y \in T : ~(y < x)
  BY <1>3
<1>5. \A y \in T : x <= y
  BY <1>4
<1> QED
  BY <1>5

\* A worker that terminates and whose inbox has a message that ends it finds one.
LEMMA FindsEnd ==
  ASSUME Typed, NEW w \in Workers, at[w] \in Slots, Mails(w, inbox[at[w]])
  PROVE  \E k \in DOMAIN Mail(w) : First(w, "terminal", k)
<1> DEFINE s == inbox[at[w]] T == {k \in DOMAIN s : Pops("terminal", s[k])}
<1>1. Mail(w) = s /\ DOMAIN s = 1 .. Len(s) /\ Len(s) \in Nat
  BY Constants, LenProperties DEF Mail, Typed, TypeOK
<1>2. T # {}
  BY DEF Mails, Ends, Pops
<1>3. T \in SUBSET Nat
  BY <1>1
<1>4. PICK k \in T : \A j \in T : k <= j
  BY <1>2, <1>3, Least
<1>5. k \in 1 .. Len(s) /\ Pops("terminal", s[k])
  BY <1>1, <1>4
<1>6. \A j \in 1 .. k - 1 : j \in DOMAIN s /\ ~(k <= j)
  BY <1>1, <1>5
<1>7. \A j \in 1 .. k - 1 : ~Pops("terminal", s[j])
  BY <1>4, <1>6
<1> QED
  BY <1>1, <1>5, <1>7 DEF First

\* Who is killed and has read nothing that says why was not asked by the loop.
LEMMA KilledStep ==
  ASSUME IInv, Explained, [Next]_vars, NEW w \in Workers,
         pc[w] = "terminal", pc'[w] = "releaseSig", gone'[w] = FALSE
  PROVE  term[w] \in {"shutdown", "stuck"}
<1> USE DEF IInv
<1>1. Killed(w)
  <2>1. CASE UNCHANGED pc
    BY <2>1
  <2>2. ASSUME NEW v \in Workers, pc[v] = "none", pc' = [pc EXCEPT ![v] = "starting"]
        PROVE  Killed(w)
    BY <2>2 DEF Typed, TypeOK
  <2>3. CASE Step
    BY <2>1, <2>3 DEF Step, RequestTerminate, EndEvents, AttachWorker, ReleaseLink, ReleaseWorker,
      EndDrain, Deinit, own
  <2>4. CASE Events
    <3>1. ASSUME NEW c \in Conns, NEW i \in Slots, UpgradeConnection(c, i) PROVE Killed(w)
      BY <2>2, <3>1 DEF UpgradeConnection, Spawned, Workers
    <3>2. ASSUME NEW s \in Sessions, NEW i \in Slots, NewSession(s, i) PROVE Killed(w)
      BY <2>2, <3>2 DEF NewSession, Spawned, Workers
    <3> QED
      BY <2>1, <2>4, <3>1, <3>2 DEF Events, HttpClose, Accept, AttachConnection, DeleteSession,
        ReadCommand, ReadClose, DropWebSocket, Saturated, ReapSession, Stop, own
  <2>5. ASSUME NEW v \in Workers, Work(v) \/ RunScript(v) \/ ScriptReturns(v) \/ Stuck(v)
        PROVE  Killed(w)
    <3>1. v = w
      BY ZenonT(60), <2>5 DEF Work, Start, StartFails, Signal, Tick, OnCommand, OnLink, OnEnd, OnLinkGone, Done,
        DestroyLink, PumpEnds, TickFails, Killed, Disarm, Teardown, RunScript, ScriptReturns, Stuck,
        Goes, Leave, own, Typed, TypeOK
    <3>2. ~OnEnd(w)
      BY DEF OnEnd, Done, Typed, TypeOK
    <3>3. ~OnLinkGone(w)
      BY ZenonT(60) DEF OnLinkGone, Goes, Typed, TypeOK
    <3>4. ~Signal(w)
      BY DEF Signal, Signals
    <3> QED
      BY <2>5, <3>1, <3>2, <3>3, <3>4 DEF Work, Start, StartFails, Tick, OnCommand, OnLink, Drains,
        DestroyLink, PumpEnds, TickFails, Disarm, Teardown, RunScript, ScriptReturns, Stuck
  <2> QED
    BY <2>1, <2>3, <2>4, <2>5 DEF Next, Ended, vars, own
<1>2. ~gone[w] /\ \A k \in DOMAIN Mail(w) : ~First(w, "terminal", k)
  BY <1>1 DEF Killed, mind
<1>3. term[w] \in Causes /\ term[w] # "no"
  BY DEF Explained, Typed, TypeOK
<1>4. term[w] # "asked"
  BY <1>2, FindsEnd DEF Explained, Reason, Going
<1> QED
  BY <1>3, <1>4 DEF Causes

-----------------------------------------------------------------------------
(* The theorems.                                                            *)

\* The inductive invariant of links and listener.
LInv == IInv /\ Books /\ ListenerOpen

\* It holds at first.
LEMMA LInvInit == ASSUME Init PROVE LInv
<1>1. ListenerOpen
  BY DEF ListenerOpen, Init
<1> QED
  BY <1>1, InvInit, BooksInit DEF LInv

\* Every step keeps it.
LEMMA LInvStep == ASSUME LInv, [Next]_vars PROVE LInv'
BY InvStep, BooksStep, OpenStep DEF LInv, Books

\* Where the new link of an inbox is.
LEMMA NewAt ==
  ASSUME Typed, NEW i \in Slots, NEW c \in Conns, NEW k \in DOMAIN inbox[i]
  PROVE  inbox[i][k] = NewLink(c) <=> k \in Links(inbox[i]) /\ inbox[i][k].conn = c
<1>1. inbox[i] \in Seq(Messages)
  BY DEF Typed, TypeOK
<1>2. inbox[i][k] \in Messages
  BY <1>1, LenProperties, ElementOfSeq
<1> QED
  BY <1>2 DEF NewLink, Message, Messages, Links

\* The owners of a socket are those that hold it.
LEMMA OwnersHold ==
  ASSUME Typed, NEW c \in Conns
  PROVE  /\ \A o \in Owners(c) :
              \/ \E w \in Workers : o = <<w, "held">> /\ Holds("held", w, c)
              \/ \E w \in Workers : o = <<w, "giving">> /\ Holds("giving", w, c)
              \/ \E i \in Slots : \E k \in Links(inbox[i]) : o = <<i, k>> /\ Holds("new", i, c)
         /\ \A w \in Workers : held[w] = c => <<w, "held">> \in Owners(c)
         /\ \A w \in Workers : giving[w] = c => <<w, "giving">> \in Owners(c)
         /\ \A i \in Slots : c \in News(inbox[i]) =>
              \E k \in Links(inbox[i]) : <<i, k>> \in Owners(c)
<1> DEFINE In(i) == {<<i, k>> : k \in {j \in DOMAIN inbox[i] : inbox[i][j] = NewLink(c)}}
<1>1. \A o \in Owners(c) :
        \/ \E w \in Workers : o = <<w, "held">> /\ held[w] = c
        \/ \E w \in Workers : o = <<w, "giving">> /\ giving[w] = c
        \/ \E i \in Slots : o \in In(i)
  BY DEF Owners
<1>2. \A i \in Slots : \A o \in In(i) :
        \E k \in Links(inbox[i]) : o = <<i, k>> /\ inbox[i][k].conn = c
  BY NewAt
<1>3. \A i \in Slots : \A k \in Links(inbox[i]) : inbox[i][k].conn = c => <<i, k>> \in In(i)
  BY NewAt DEF Links
<1>4. \A i \in Slots : In(i) \subseteq Owners(c)
  BY DEF Owners
<1>5. /\ \A w \in Workers : held[w] = c => <<w, "held">> \in Owners(c)
      /\ \A w \in Workers : giving[w] = c => <<w, "giving">> \in Owners(c)
  BY DEF Owners
<1> HIDE DEF In
<1>6. \A o \in Owners(c) :
        \/ \E w \in Workers : o = <<w, "held">> /\ Holds("held", w, c)
        \/ \E w \in Workers : o = <<w, "giving">> /\ Holds("giving", w, c)
        \/ \E i \in Slots : \E k \in Links(inbox[i]) : o = <<i, k>> /\ Holds("new", i, c)
  BY <1>1, <1>2 DEF Holds, News
<1>7. \A i \in Slots : c \in News(inbox[i]) => \E k \in Links(inbox[i]) : <<i, k>> \in Owners(c)
  BY <1>3, <1>4 DEF News
<1> QED
  BY <1>5, <1>6, <1>7

\* The inbox of a slot has at most one link.
LEMMA OneLink == ASSUME Seats, LinkOnce, NEW i \in Slots PROVE Once(inbox[i])
<1>1. CASE Links(inbox[i]) = {}
  BY <1>1 DEF Once
<1>2. CASE Links(inbox[i]) # {}
  BY <1>2 DEF LinkOnce, Apart
<1> QED
  BY <1>1, <1>2

\* A link is owned once, a socket that is none is not owned.
LEMMA OwnedExactly ==
  ASSUME Typed, Seats, LinkOnce, Owned, NEW c \in Conns
  PROVE  Cardinality(Owners(c)) = IF sock[c] = "ws" THEN 1 ELSE 0
<1>1. ASSUME NEW o \in Owners(c), NEW p \in Owners(c) PROVE o = p
  <2>1. PICK k, x : /\ Holds(k, x, c)
                    /\ \/ k \in {"held", "giving"} /\ o = <<x, k>>
                       \/ k = "new" /\ x \in Slots /\ \E j \in Links(inbox[x]) : o = <<x, j>>
    BY OwnersHold
  <2>2. PICK l, y : /\ Holds(l, y, c)
                    /\ \/ l \in {"held", "giving"} /\ p = <<y, l>>
                       \/ l = "new" /\ y \in Slots /\ \E j \in Links(inbox[y]) : p = <<y, j>>
    BY OwnersHold
  <2>3. k = l /\ x = y
    BY <2>1, <2>2 DEF Owned, Alone
  <2>4. CASE k \in {"held", "giving"}
    BY <2>1, <2>2, <2>3, <2>4
  <2>5. CASE k = "new"
    BY <2>1, <2>2, <2>3, <2>5, OneLink DEF Once
  <2> QED
    BY <2>1, <2>4, <2>5
<1>2. CASE sock[c] = "ws"
  <2>1. PICK k, x : Holds(k, x, c)
    BY <1>2 DEF Owned, Kept
  <2>2. \E o : o \in Owners(c)
    BY <2>1, OwnersHold DEF Holds
  <2>3. \E o : Owners(c) = {o}
    BY <1>1, <2>2
  <2> QED
    BY <1>2, <2>3, FS_Singleton
<1>3. CASE sock[c] # "ws"
  <2>1. Owners(c) = {}
    BY <1>3, OwnersHold DEF Owned, Kept
  <2> QED
    BY <1>3, <2>1, FS_EmptySet
<1> QED
  BY <1>2, <1>3

\* What the loop has as a link is one, and its owner is the slot or the worker of the slot.
LEMMA LinkHeld ==
  ASSUME Typed, Seats, Owned, Tied, NEW i \in Slots, link[i] # None
  PROVE  sock[link[i]] = "ws" /\ \E o \in Owners(link[i]) : o[1] \in {i, occupant[i]}
<1> DEFINE w == occupant[i] c == link[i]
<1>1. w \in Workers /\ c \in Conns
  BY DEF Seats, SlotsExact, Typed, TypeOK
<1>2. Has(i, w, c)
  BY <1>1 DEF Tied
<1> HIDE DEF w, c
<1>3. \E k, x : Holds(k, x, c)
  BY <1>1, <1>2 DEF Has, Holds
<1>4. sock[c] = "ws"
  BY <1>1, <1>3 DEF Owned, Kept
<1>5. CASE c \in News(inbox[i])
  BY <1>1, <1>4, <1>5, OwnersHold DEF c
<1>6. CASE held[w] = c
  <2>1. <<w, "held">> \in Owners(c)
    BY <1>1, <1>6, OwnersHold
  <2> QED
    BY <1>4, <2>1 DEF c, w
<1>7. CASE giving[w] = c
  <2>1. <<w, "giving">> \in Owners(c)
    BY <1>1, <1>7, OwnersHold
  <2> QED
    BY <1>4, <2>1 DEF c, w
<1> QED
  BY <1>2, <1>5, <1>6, <1>7 DEF Has

\* Every link is destroyed by exactly one: the worker that holds it or gives it back, or
\* the inbox it was never taken from; and the loop has no link that is destroyed.
THEOREM EveryLinkHasOneOwner == Spec => []LinksOwned
<1>1. LInv => LinksOwned
  BY OwnedExactly, LinkHeld DEF LInv, IInv, Books, Tied, LinksOwned
<1> QED
  BY <1>1, LInvInit, LInvStep, PTL DEF Spec

\* The loop's books agree with what its workers do, and the listener is paused no longer
\* than there is no room.
THEOREM AccountsAreExact == Spec => []Accounts
<1>1. LInv => Accounts
  BY Fits DEF LInv, IInv, Typed, Seats, Accounts
<1> QED
  BY <1>1, LInvInit, LInvStep, PTL DEF Spec

\* A worker that the loop asked to stop finds the message that says why, or a drain nested
\* in a script of its has found it: whenever it looks, it has read why before it leaves.
THEOREM WhoIsAskedReadsWhy == Spec => StopExplained
<1>1. Init => IInv /\ Explained
  BY InvInit, ExplainedInit
<1>2. IInv /\ Explained /\ [Next]_vars => (IInv /\ Explained)'
  BY InvStep, ExplainedStep
<1>3. ASSUME IInv, Explained, [Next]_vars, NEW w \in Workers,
             pc[w] = "terminal", pc'[w] = "releaseSig", term[w] = "asked"
      PROVE  gone'[w]
  <2>1. gone'[w] \in BOOLEAN
    BY <1>3, TypedStep DEF IInv, Typed, TypeOK
  <2>2. gone'[w] # FALSE
    BY <1>3, KilledStep
  <2> QED
    BY <2>1, <2>2
<1>4. IInv /\ Explained /\ [Next]_vars =>
        [\A w \in Workers :
           pc[w] = "terminal" /\ pc'[w] = "releaseSig" /\ term[w] = "asked"
             => gone'[w]]_vars
  BY <1>3
<1> QED
  BY <1>1, <1>2, <1>4, PTL DEF Spec, StopExplained

=============================================================================
