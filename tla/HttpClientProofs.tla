-------------------------- MODULE HttpClientProofs --------------------------
(***************************************************************************)
(* Type correctness of HttpClient and the exactness of the owners' lists,  *)
(* for every number of transfers, owners, keys and connections and with    *)
(* every re-entrancy of HazardNames.                                       *)
(*                                                                         *)
(* The inductive invariant strengthens TypeOK in two ways.  Every queue,   *)
(* gate, table and frame names only transfers that were created (Born), so *)
(* that handing one of them a state cannot create it; and the call stack   *)
(* has the shape the code's calls give it (Shape), so that a handler that  *)
(* unwinds two frames at once finds the two it expects: a tick inside a    *)
(* blocking request lies on the request's own frame, a pipeline started by *)
(* a tick lies on that tick, and nothing is ever called by a pipeline      *)
(* frame, which is always the last thing its function does.                *)
(***************************************************************************)
EXTENDS HttpClient, TLAPS

(* The transfers newRequest has made, retired or not.                      *)
Born == {t \in Ids : state[t] # "none"}

Callers == {Submitter, Ticker, Redirect, Resumer}

(* Frames about transfers of B, with the fields their operation needs.     *)
KnownFrames(B) ==
  {f \in Frames : /\ f.op \in TransferOps \ {"js"} => f.id \in B
                  /\ f.todo \in Seq(B) /\ f.old \subseteq B
                  /\ f.op = "js" /\ f.how \in {"data", "done"} => f.id \in B
                  /\ f.op = "pipe" => f.pc \in Callers
                  /\ f.op = "sync" => f.id \in Reqs
                  /\ f.op = "abort" => f.how \in States \ {"none"}
                  /\ f.op # "flush" => f.todo = <<>>}

(* A frame f may be pushed on the stack s; Shape(s) says it of every frame *)
(* of s and what is below it.                                              *)
Fits(f, s) ==
  /\ s # <<>> => Head(s).op # "pipe"
  /\ f.op = "tick" /\ f.how = "sync_wait" =>
       s # <<>> /\ Head(s).op \in {"sync", "import"}
  /\ f.op = "pipe" /\ f.pc = Ticker => s # <<>> /\ Head(s).op = "tick"
  /\ f.op = "js" /\ f.how \in {"data", "done"} => s # <<>>

FitsAt(s, i) ==
  /\ i < Len(s) => s[i + 1].op # "pipe"
  /\ s[i].op = "tick" /\ s[i].how = "sync_wait" =>
       i < Len(s) /\ s[i + 1].op \in {"sync", "import"}
  /\ s[i].op = "pipe" /\ s[i].pc = Ticker => i < Len(s) /\ s[i + 1].op = "tick"
  /\ s[i].op = "js" /\ s[i].how \in {"data", "done"} => i < Len(s)
Shape(s) == \A i \in 1..Len(s) : FitsAt(s, i)

Good(B, s) == s \in Seq(KnownFrames(B)) /\ Shape(s)

-----------------------------------------------------------------------------
(* Sequences                                                               *)

(* A sequence over a set is one over any larger set.                      *)
LEMMA SeqGrows ==
  ASSUME NEW B, NEW C, B \subseteq C, NEW s \in Seq(B)
  PROVE  s \in Seq(C)
OBVIOUS

(* Putting an element in front of a well-typed sequence shifts the others. *)
LEMMA PushSeq ==
  ASSUME NEW S, NEW s \in Seq(S), NEW f \in S
  PROVE  /\ <<f>> \o s \in Seq(S)
         /\ <<f>> \o s # <<>>
         /\ Head(<<f>> \o s) = f
         /\ Tail(<<f>> \o s) = s
         /\ Len(<<f>> \o s) = Len(s) + 1
         /\ \A i \in 1..Len(s) : (<<f>> \o s)[i + 1] = s[i]
         /\ (<<f>> \o s)[1] = f
OBVIOUS

(* Pushing two frames is pushing one on top of the other.                 *)
LEMMA Two ==
  ASSUME NEW S, NEW s \in Seq(S), NEW a \in S, NEW b \in S
  PROVE  <<a, b>> \o s = <<a>> \o (<<b>> \o s)
<1>1. <<b>> \o s \in Seq(S) /\ Len(<<b>> \o s) = Len(s) + 1
  OBVIOUS
<1> DEFINE l == <<a, b>> \o s
           m == <<b>> \o s
           r == <<a>> \o m
<1>2. l \in Seq(S) /\ Len(l) = Len(s) + 2
  OBVIOUS
<1>3. r \in Seq(S) /\ Len(r) = Len(s) + 2
  BY <1>1
<1>4. ASSUME NEW i \in 1..Len(l) PROVE l[i] = r[i]
  <2>1. i = 1 \/ i = 2 \/ i - 2 \in 1..Len(s)
    BY <1>2
  <2>2. CASE i = 1 BY <1>1, <2>2
  <2>3. CASE i = 2
    <3>1. r[2] = m[1] BY <1>1
    <3> QED BY <2>3, <3>1
  <2>4. CASE i - 2 \in 1..Len(s)
    <3>1. r[i] = m[i - 1] BY <1>1, <2>4
    <3>2. m[i - 1] = s[i - 2] BY <2>4
    <3>3. l[i] = s[i - 2] BY <2>4
    <3> QED BY <3>1, <3>2, <3>3
  <2> QED BY <2>1, <2>2, <2>3, <2>4
<1> HIDE DEF l, m, r
<1>5. l = r
  BY <1>2, <1>3, <1>4
<1> QED BY <1>5 DEF l, m, r

(* Taking the first element off shifts the others back.                   *)
LEMMA PopSeq ==
  ASSUME NEW S, NEW s \in Seq(S), s # <<>>
  PROVE  /\ Head(s) \in S
         /\ Tail(s) \in Seq(S)
         /\ Len(Tail(s)) = Len(s) - 1 /\ Len(s) >= 1
         /\ Head(s) = s[1]
         /\ \A i \in 1..Len(Tail(s)) : Tail(s)[i] = s[i + 1]
OBVIOUS

(* The empty sequence is one over every set.                              *)
LEMMA EmptyLen ==
  ASSUME NEW S, NEW s \in Seq(S)
  PROVE  s = <<>> <=> Len(s) = 0
OBVIOUS

(* Pushing and popping frames                                              *)

(* A call that fits on the stack leaves a well-shaped stack.              *)
LEMMA Push ==
  ASSUME NEW B, NEW s, Good(B, s), NEW f \in KnownFrames(B), Fits(f, s)
  PROVE  /\ Good(B, <<f>> \o s)
         /\ <<f>> \o s # <<>> /\ Head(<<f>> \o s) = f /\ Tail(<<f>> \o s) = s
<1> DEFINE r == <<f>> \o s
<1>1. /\ s \in Seq(KnownFrames(B)) /\ Shape(s)
  BY DEF Good
<1>2. /\ r \in Seq(KnownFrames(B)) /\ r # <<>> /\ Head(r) = f /\ Tail(r) = s
      /\ Len(r) = Len(s) + 1 /\ Len(s) \in Nat
      /\ \A i \in 1..Len(s) : r[i + 1] = s[i]
      /\ r[1] = f
  BY <1>1, PushSeq
<1>3. Shape(r)
  <2> SUFFICES ASSUME NEW i \in 1..Len(r) PROVE FitsAt(r, i)
    BY DEF Shape
  <2> HIDE DEF r
  <2>1. s # <<>> => Len(s) > 0 /\ Head(s) = s[1]
    BY <1>1, PopSeq
  <2>2. CASE i = 1
    <3>1. i < Len(r) => s # <<>> /\ r[i + 1] = s[1]
      BY <1>1, <1>2, <2>2
    <3>2. s # <<>> => i < Len(r) /\ r[i + 1] = Head(s)
      BY <1>2, <2>1, <2>2
    <3> QED BY <1>2, <2>1, <2>2, <3>1, <3>2 DEF Fits, FitsAt
  <2>3. CASE i > 1
    <3> DEFINE j == i - 1
    <3>1. j \in 1..Len(s) /\ r[i] = s[j] /\ (i < Len(r) <=> j < Len(s))
      BY <1>2, <2>3
    <3>2. i < Len(r) => r[i + 1] = s[j + 1]
      BY <1>2, <2>3
    <3> QED BY <1>1, <3>1, <3>2 DEF Shape, FitsAt
  <2> QED BY <1>2, <2>2, <2>3
<1> QED BY <1>2, <1>3 DEF Good

(* So does a return.                                                      *)
LEMMA Pop ==
  ASSUME NEW B, NEW s, Good(B, s), s # <<>>
  PROVE  /\ Head(s) \in KnownFrames(B)
         /\ Good(B, Tail(s))
         /\ Fits(Head(s), Tail(s))
<1> DEFINE r == Tail(s)
<1>1. s \in Seq(KnownFrames(B)) /\ Shape(s)
  BY DEF Good
<1>2. /\ Head(s) \in KnownFrames(B) /\ r \in Seq(KnownFrames(B))
      /\ Len(s) >= 1 /\ Len(r) = Len(s) - 1 /\ Head(s) = s[1]
      /\ Len(s) \in Nat /\ Len(r) \in Nat
      /\ \A i \in 1..Len(r) : r[i] = s[i + 1]
  BY <1>1, PopSeq
<1> HIDE DEF r
<1>3. r # <<>> <=> Len(s) > 1
  BY <1>2, EmptyLen
<1>4. r # <<>> => Head(r) = s[2]
  <2> SUFFICES ASSUME r # <<>> PROVE Head(r) = s[2]
    OBVIOUS
  <2>1. Head(r) = r[1]
    BY <1>2, PopSeq
  <2> QED BY <1>2, <1>3, <2>1
<1>5. Fits(Head(s), r)
  <2>1. 1 \in 1..Len(s)
    BY <1>2
  <2> QED BY <1>1, <1>2, <1>3, <1>4, <2>1 DEF Fits, Shape, FitsAt
<1>6. Shape(r)
  <2> SUFFICES ASSUME NEW i \in 1..Len(r) PROVE FitsAt(r, i)
    BY DEF Shape
  <2>1. i + 1 \in 1..Len(s) /\ r[i] = s[i + 1] /\ (i < Len(r) <=> i + 1 < Len(s))
    BY <1>2
  <2>2. i < Len(r) => r[i + 1] = s[i + 1 + 1]
    BY <1>2
  <2> QED BY <1>1, <2>1, <2>2 DEF Shape, FitsAt
<1> QED BY <1>2, <1>5, <1>6 DEF Good, r

-----------------------------------------------------------------------------
(* The inductive invariant, in the groups the actions change together      *)

Life  == /\ state \in [Ids -> States] /\ retired \subseteq Born
         /\ owner \in [Ids -> Owners \cup {None}]
Calls == /\ outcome \in [Ids -> Seq({"done", "err", "shutdown"})]
         /\ settled \subseteq Ids /\ notified \subseteq Ids /\ detached \subseteq Born
Buffered == /\ events \in [Ids -> Seq({"data", "done", "err"})]
            /\ started \subseteq Ids /\ hops \in [Ids -> 0..MaxHops]
Waits == /\ pending \in Seq(Born) /\ delayed \in Seq(Born) /\ delayedCount \in Int
Dispatcher == /\ dispatch \in Seq(Born) /\ gated \in Seq(Born) /\ dispatchCount \in Int
Network == conns \subseteq Born /\ free \in Int
Flights == /\ open \subseteq Slots /\ waiters \in [Slots -> Seq(Born)]
           /\ fetchOf \in [Fetches -> Slots \cup {None}]
           /\ verdict \in [Keys -> {"unknown", "allow", "deny", "mixed"}]
Blocks == blocking \in [Owners -> Ids \cup {None}]
Cdp == held \subseteq Born /\ intercepted \in Int
Peer == /\ mailbox \in {None, "close", "disconnect"} /\ disconnected \in BOOLEAN
Faults == fault \subseteq {"unpark", "schedule", "unlink", "deinit", "leak",
                          "clobber", "blocking"}
Calling == Good(Born, stack)

Data == Life /\ Calls /\ Buffered /\ Waits /\ Dispatcher /\ Network /\ Flights
        /\ Blocks /\ Cdp /\ Peer /\ Faults
IInv == Data /\ Calling /\ OwnerLinks

(* A table of sequences over a set is one over any larger set.            *)
LEMMA FunSeqGrows ==
  ASSUME NEW B, NEW C, B \subseteq C, NEW D, NEW f \in [D -> Seq(B)]
  PROVE  f \in [D -> Seq(C)]
<1>1. \A s \in Seq(B) : s \in Seq(C)
  BY SeqGrows
<1> QED BY <1>1

(* A stack over the known transfers stays one when transfers are born.    *)
LEMMA Grow ==
  ASSUME NEW B, NEW C, B \subseteq C, NEW s, Good(B, s)
  PROVE  Good(C, s)
<1>1. \A q \in Seq(B) : q \in Seq(C)
  BY SeqGrows
<1>2. KnownFrames(B) \subseteq KnownFrames(C)
  BY <1>1 DEF KnownFrames
<1>3. s \in Seq(KnownFrames(C))
  BY <1>2, SeqGrows DEF Good
<1> QED BY <1>3 DEF Good

(* What a step leaves alone stays well typed although transfers are born.  *)
LEMMA Keep ==
  ASSUME IInv, Born \subseteq Born'
  PROVE  /\ UNCHANGED <<outcome, settled, notified, detached>> => Calls'
         /\ UNCHANGED <<events, started, hops>> => Buffered'
         /\ UNCHANGED <<pending, delayed, delayedCount>> => Waits'
         /\ UNCHANGED <<dispatch, gated, dispatchCount>> => Dispatcher'
         /\ UNCHANGED <<conns, free>> => Network'
         /\ UNCHANGED <<open, waiters, fetchOf, verdict>> => Flights'
         /\ UNCHANGED blocking => Blocks'
         /\ UNCHANGED <<held, intercepted>> => Cdp'
         /\ UNCHANGED <<mailbox, disconnected>> => Peer'
         /\ UNCHANGED fault => Faults'
         /\ UNCHANGED stack => Calling'
<1>1. Data /\ Calling
  BY DEF IInv
<1>2. \A q \in Seq(Born) : q \in Seq(Born')
  BY SeqGrows
<1>3. UNCHANGED <<outcome, settled, notified, detached>> => Calls'
  BY <1>1 DEF Data, Calls
<1>4. UNCHANGED <<events, started, hops>> => Buffered'
  BY <1>1 DEF Data, Buffered
<1>5. UNCHANGED <<pending, delayed, delayedCount>> => Waits'
  BY <1>1, <1>2 DEF Data, Waits
<1>6. UNCHANGED <<dispatch, gated, dispatchCount>> => Dispatcher'
  BY <1>1, <1>2 DEF Data, Dispatcher
<1>7. UNCHANGED <<conns, free>> => Network'
  BY <1>1 DEF Data, Network
<1>8. UNCHANGED <<open, waiters, fetchOf, verdict>> => Flights'
  BY <1>1, FunSeqGrows DEF Data, Flights
<1>9. UNCHANGED blocking => Blocks'
  BY <1>1 DEF Data, Blocks
<1>10. UNCHANGED <<held, intercepted>> => Cdp'
  BY <1>1 DEF Data, Cdp
<1>11. UNCHANGED <<mailbox, disconnected>> => Peer'
  BY <1>1 DEF Data, Peer
<1>12. UNCHANGED fault => Faults'
  BY <1>1 DEF Data, Faults
<1>13. UNCHANGED stack => Calling'
  BY <1>1, Grow DEF Calling
<1> QED BY <1>3, <1>4, <1>5, <1>6, <1>7, <1>8, <1>9, <1>10, <1>11, <1>12, <1>13

(* The running frame is known, and what is below it is a good stack.      *)
LEMMA OnTop ==
  ASSUME IInv, NEW op, Running(op)
  PROVE  /\ stack # <<>> /\ Top \in KnownFrames(Born) /\ Top.op = op
         /\ Good(Born, stack) /\ Good(Born, Below) /\ Fits(Top, Below)
BY Pop DEF IInv, Calling, Running, Top, Below

(* The types of a known frame's fields.                                   *)
LEMMA FrameFields ==
  ASSUME NEW op, NEW id, NEW how, NEW pc, NEW todo
  PROVE  LET f == Frame(op, id, how, pc, todo) IN
         f.op = op /\ f.id = id /\ f.how = how /\ f.pc = pc /\ f.todo = todo
BY DEF Frame

-----------------------------------------------------------------------------
(* Frames the actions push                                                 *)

(* A record with all fields well typed is a known frame.                  *)
LEMMA NewFrame ==
  ASSUME NEW B \in SUBSET Ids, NEW op \in Ops, NEW id, NEW how \in Variants,
         NEW pc \in Nat, NEW todo \in Seq(B),
         op \in TransferOps \ {"js"} => id \in B,
         op \notin TransferOps \ {"js"} =>
             id \in Ids \cup Owners \cup {None, "page", "client"},
         op = "js" => id \in Ids \cup {None}, op = "pipe" => pc \in Callers,
         op # "sync",
         op = "js" /\ how \in {"data", "done"} => id \in B,
         op = "abort" => how \in States \ {"none"},
         op # "flush" => todo = <<>>
  PROVE  Frame(op, id, how, pc, todo) \in KnownFrames(B)
<1>1. todo \in Seq(Ids)
  BY SeqGrows
<1> QED BY <1>1 DEF Frame, KnownFrames, Frames

(* Born transfers are transfers.                                          *)
LEMMA BornIds == Born \subseteq Ids
BY DEF Born

(* The frames of a module import and of a delivery are known.             *)
LEMMA MadeCall ==
  ASSUME NEW t \in Born, NEW m \in Variants
  PROVE  /\ Import(t, m) \in KnownFrames(Born) /\ Import(t, m).op = "import"
         /\ Deliver(t, m) \in KnownFrames(Born) /\ Deliver(t, m).op = "deliver"
<1>1. <<>> \in Seq(Born) /\ <<>> \in Seq(Ids) /\ t \in Ids
  BY DEF Born
<1> QED BY <1>1 DEF Import, Deliver, Frame, KnownFrames, Frames, Ops, TransferOps

(* The frame of a blocking request (submitSync) is known.                 *)
LEMMA MadeSync ==
  ASSUME NEW B \in SUBSET Ids, NEW t \in B, t \in Reqs, NEW m \in Variants
  PROVE  Sync(t, m) \in KnownFrames(B) /\ Sync(t, m).op = "sync"
<1>1. <<>> \in Seq(B) /\ <<>> \in Seq(Ids)
  OBVIOUS
<1> QED BY <1>1 DEF Sync, Frame, KnownFrames, Frames, Ops, TransferOps

(* The frame of abort() is known.                                         *)
LEMMA MadeAbort ==
  ASSUME NEW t \in Born, NEW m \in States \ {"none"}
  PROVE  /\ Abort(t, m) \in KnownFrames(Born) /\ Abort(t, m).op = "abort"
<1>1. <<>> \in Seq(Born) /\ <<>> \in Seq(Ids) /\ t \in Ids
  BY DEF Born
<1> QED BY <1>1 DEF Variants, Abort, Frame, KnownFrames, Frames, Ops, TransferOps

(* The frame of finishEarly() is known.                                   *)
LEMMA MadeFinish ==
  ASSUME NEW t \in Born
  PROVE  Finish(t) \in KnownFrames(Born) /\ Finish(t).op = "finish"
<1>1. <<>> \in Seq(Born) /\ <<>> \in Seq(Ids) /\ t \in Ids
  BY DEF Born
<1> QED BY <1>1 DEF Variants, Finish, Frame, KnownFrames, Frames, Ops, TransferOps

(* The frame of a pipeline stage is known.                                *)
LEMMA MadePipe ==
  ASSUME NEW B \in SUBSET Ids, NEW t \in B, NEW m \in Stages, NEW w \in Callers
  PROVE  /\ Pipe(t, m, w) \in KnownFrames(B)
         /\ Pipe(t, m, w).op = "pipe" /\ Pipe(t, m, w).pc = w
<1>1. <<>> \in Seq(B) /\ <<>> \in Seq(Ids)
  OBVIOUS
<1>2. m \in Variants
  BY DEF Variants
<1>3. w \in Nat
  BY DEF Callers, Submitter, Ticker, Redirect, Resumer
<1> QED BY <1>1, <1>2, <1>3 DEF Pipe, Frame, KnownFrames, Frames, Ops, TransferOps

(* The frame of a tick is known.                                          *)
LEMMA MadeTick ==
  ASSUME NEW m \in {"all", "sync_wait"}
  PROVE  /\ Tick(m) \in KnownFrames(Born)
         /\ Tick(m).op = "tick" /\ Tick(m).how = m
<1>1. <<>> \in Seq(Born) /\ <<>> \in Seq(Ids)
  OBVIOUS
<1>2. m \in Variants
  BY DEF Variants
<1> QED BY <1>1, <1>2 DEF Tick, Frame, KnownFrames, Frames, Ops, TransferOps

(* The frames of the walks over an owner's or a gate's list are known.    *)
LEMMA MadeOther ==
  ASSUME NEW o \in Owners \cup {"page", "client"}, NEW ids \in SUBSET Born
  PROVE  /\ Kill(o) \in KnownFrames(Born) /\ Kill(o).op = "kill"
         /\ Release(o) \in KnownFrames(Born) /\ Release(o).op = "release"
         /\ Stop(o, ids) \in KnownFrames(Born) /\ Stop(o, ids).op = "stop"
         /\ Js(None, "task") \in KnownFrames(Born)
         /\ Js(None, "task").op = "js" /\ Js(None, "task").how = "task"
<1>1. <<>> \in Seq(Born) /\ <<>> \in Seq(Ids) /\ ids \in SUBSET Ids
  BY BornIds
<1>2. "" \in Variants /\ "task" \in Variants
  BY DEF Variants
<1> USE <1>1, <1>2 DEF Frame, KnownFrames, Frames, Ops, TransferOps
<1>3. Kill(o) \in KnownFrames(Born) /\ Kill(o).op = "kill"
  BY DEF Kill
<1>4. Release(o) \in KnownFrames(Born) /\ Release(o).op = "release"
  BY DEF Release
<1>5. Stop(o, ids) \in KnownFrames(Born) /\ Stop(o, ids).op = "stop"
  BY DEF Stop
<1>6. /\ Js(None, "task") \in KnownFrames(Born)
      /\ Js(None, "task").op = "js" /\ Js(None, "task").how = "task"
  BY DEF Js
<1> QED BY <1>3, <1>4, <1>5, <1>6

-----------------------------------------------------------------------------
(* Pieces of handlers                                                      *)

(* A step that moves no transfer keeps the owners' lists.                 *)
LEMMA SameState ==
  ASSUME IInv, UNCHANGED <<state, retired, owner, detached>>
  PROVE  Born' = Born /\ Life' /\ OwnerLinks'
BY DEF IInv, Data, Life, Born, OwnerLinks, Live

(* A live transfer may take any live state.                               *)
LEMMA MoveState ==
  ASSUME IInv, NEW t \in Born, NEW v \in States \ {"none"},
         state' = [state EXCEPT ![t] = v], UNCHANGED <<retired, owner>>
  PROVE  /\ Born' = Born /\ Life'
         /\ UNCHANGED detached => OwnerLinks'
<1>1. state \in [Ids -> States] /\ t \in Ids /\ state[t] # "none"
  BY DEF IInv, Data, Life, Born
<1>2. /\ state' \in [Ids -> States]
      /\ \A u \in Ids : state'[u] = "none" <=> state[u] = "none"
  BY <1>1
<1>3. Born' = Born
  BY <1>2 DEF Born
<1>4. Live' = Live
  BY <1>2 DEF Live
<1> QED BY <1>2, <1>3, <1>4 DEF IInv, Data, Life, OwnerLinks

EventSeqs == Seq({"data", "done", "err"})

(* scheduleDispatch keeps the data well typed.                            *)
LEMMA Scheduled ==
  ASSUME IInv, NEW t \in Born, NEW st, NEW evs \in EventSeqs,
         NEW broken \in SUBSET {"unpark"}, scheduleDispatch(t, st, evs, broken),
         UNCHANGED <<retired, owner, detached, started, hops>>
  PROVE  Born' = Born /\ Life' /\ OwnerLinks' /\ Dispatcher' /\ Faults' /\ Buffered'
<1>1. Data /\ t \in Ids
  BY BornIds DEF IInv
<1>2. PICK v \in States \ {"none"} : state' = [state EXCEPT ![t] = v]
  <2> DEFINE v == IF st = "delivering" THEN "delivering" ELSE "buffered"
  <2>1. v \in States \ {"none"}
    BY DEF States
  <2>2. state' = [state EXCEPT ![t] = v]
    BY DEF scheduleDispatch
  <2> HIDE DEF v
  <2> QED BY <2>1, <2>2
<1>3. Born' = Born /\ Life' /\ OwnerLinks'
  BY <1>2, MoveState
<1>4. Dispatcher'
  <2>1. /\ dispatch \in Seq(Born) /\ gated \in Seq(Born) /\ dispatchCount \in Int
        /\ Append(dispatch, t) \in Seq(Born)
    BY <1>1 DEF Data, Dispatcher
  <2>2. \/ UNCHANGED <<dispatch, gated, dispatchCount>>
        \/ /\ dispatch' = Append(dispatch, t) /\ UNCHANGED gated
           /\ dispatchCount' = dispatchCount + 1
    BY Zenon DEF scheduleDispatch, dvars
  <2> QED BY SMTT(40), <1>3, <2>1, <2>2 DEF Dispatcher
<1>5. Faults'
  BY <1>1 DEF scheduleDispatch, Broken, Data, Faults
<1>6. Buffered'
  <2>1. events[t] \o evs \in EventSeqs
    BY <1>1 DEF Data, Buffered, EventSeqs
  <2> QED BY <1>1, <2>1 DEF scheduleDispatch, Data, Buffered, EventSeqs
<1> QED BY <1>3, <1>4, <1>5, <1>6

(* The waiters a gate hands out are known, and the gate stays well typed. *)
LEMMA TakenFlush ==
  ASSUME IInv, NEW f \in Born, NEW how \in Variants, NEW below, Good(Born, below),
         below # <<>> => Head(below).op # "pipe", take(f, how, below)
  PROVE  /\ Good(Born, stack') /\ open' \subseteq Slots
         /\ waiters' \in [Slots -> Seq(Born)]
<1>1. Flights
  BY DEF IInv, Data
<1>2. open' \subseteq Slots /\ waiters' \in [Slots -> Seq(Born)]
  <2>1. /\ open' = open \ {fetchOf[f]}
        /\ waiters' = [waiters EXCEPT ![fetchOf[f]] = <<>>]
    BY DEF take
  <2>2. <<>> \in Seq(Born)
    OBVIOUS
  <2> QED BY <1>1, <2>1, <2>2 DEF Flights
<1>3. CASE fetchOf[f] \in open
  <2> DEFINE w == Flush(f, how, waiters[fetchOf[f]])
  <2>1. waiters[fetchOf[f]] \in Seq(Born)
    BY <1>1, <1>3 DEF Flights
  <2>2. w \in KnownFrames(Born)
    BY <2>1, BornIds, NewFrame DEF Flush, Ops, TransferOps
  <2>3. w.op = "flush"
    BY FrameFields DEF Flush
  <2> HIDE DEF w
  <2>4. Fits(w, below)
    BY <2>3 DEF Fits
  <2>5. stack' = <<w>> \o below
    BY <1>3 DEF take, w
  <2> QED BY <1>2, <2>2, <2>4, <2>5, Push
<1>4. CASE fetchOf[f] \notin open
  BY <1>2, <1>4 DEF take
<1> QED BY <1>3, <1>4

(* A callback to a consumer pushes a frame that fits and records one      *)
(* outcome.                                                               *)
LEMMA CalledBack ==
  ASSUME NEW t \in Born, NEW cb \in Variants, NEW below, Good(Born, below),
         below # <<>> => Head(below).op # "pipe",
         cb \in {"data", "done"} => below # <<>>
  PROVE  Good(Born, Callback(t, cb, below))
<1>1. Js(t, cb) \in KnownFrames(Born)
  <2>1. <<>> \in Seq(Born) OBVIOUS
  <2> QED BY <2>1, BornIds, NewFrame DEF Js, Ops, TransferOps
<1>2. Js(t, cb).op = "js" /\ Js(t, cb).how = cb
  BY FrameFields DEF Js
<1>3. Fits(Js(t, cb), below)
  BY <1>2 DEF Fits
<1> QED BY <1>1, <1>3, Push DEF Callback

(* failing a transfer (requestFailed) keeps the data well typed.          *)
LEMMA Failed ==
  ASSUME IInv, NEW t \in Born, NEW aborted, NEW below, Good(Born, below),
         below # <<>> => Head(below).op # "pipe",
         requestFailed(t, aborted, below)
  PROVE  /\ Good(Born, stack') /\ open' \subseteq Slots
         /\ waiters' \in [Slots -> Seq(Born)]
         /\ outcome' \in [Ids -> Seq({"done", "err", "shutdown"})]
         /\ settled' \subseteq Ids /\ notified' \subseteq Ids
<1>1. Data /\ t \in Ids
  BY BornIds DEF IInv
<1>2. /\ outcome' \in [Ids -> Seq({"done", "err", "shutdown"})]
      /\ settled' \subseteq Ids /\ notified' \subseteq Ids
  <2>1. Calls /\ Append(outcome[t], "err") \in Seq({"done", "err", "shutdown"})
    BY <1>1 DEF Data, Calls
  <2>2. \/ UNCHANGED <<notified, settled, outcome>>
        \/ /\ notified' = notified \cup {t} /\ settled' = settled \cup {t}
           /\ outcome' = [outcome EXCEPT ![t] = IF t \in detached THEN @
                                                ELSE Append(@, "err")]
    BY Zenon DEF requestFailed
  <2> QED BY <1>1, <2>1, <2>2 DEF Calls
<1>3. CASE t \in notified \/ aborted
  BY <1>1, <1>2, <1>3 DEF requestFailed, Data, Flights
<1>4. CASE ~(t \in notified \/ aborted) /\ t \in Fetches
  <2>1. take(t, IF fetchOf[t][1] = "cors" THEN "deny" ELSE "store", below)
    BY <1>4 DEF requestFailed
  <2>2. (IF fetchOf[t][1] = "cors" THEN "deny" ELSE "store") \in Variants
    BY DEF Variants
  <2> QED BY <1>2, <2>1, <2>2, TakenFlush
<1>5. CASE ~(t \in notified \/ aborted) /\ t \notin Fetches
  <2>1. stack' = Callback(t, "err", below) /\ UNCHANGED <<open, waiters>>
    BY <1>5 DEF requestFailed
  <2>2. "err" \in Variants /\ "err" \notin {"data", "done"}
    BY DEF Variants
  <2>3. Good(Born, Callback(t, "err", below))
    BY <1>1, <2>2, CalledBack
  <2> QED BY <1>1, <1>2, <2>1, <2>3 DEF Data, Flights
<1> QED BY <1>3, <1>4, <1>5

(* A step that only changes the stack and the flags keeps the invariant.  *)
LEMMA StackOnly ==
  ASSUME IInv, UNCHANGED <<lvars, cbvars, idle, open, waiters>>, Faults',
         Good(Born, stack')
  PROVE  IInv'
<1>1. UNCHANGED <<state, retired, owner, outcome, settled, notified, detached,
                  events, started, hops, pending, delayed, delayedCount,
                  dispatch, gated, dispatchCount, conns, free, open, waiters,
                  fetchOf, verdict, blocking, held, intercepted, mailbox,
                  disconnected>>
  BY DEF lvars, cbvars, idle, evars, qvars, dvars, nvars, cvars, mvars
<1>2. Born' = Born /\ Life' /\ OwnerLinks'
  BY <1>1, SameState
<1>3. Calling'
  BY <1>2 DEF Calling
<1> QED BY <1>1, <1>2, <1>3, Keep DEF IInv, Data

(* What is below the running frame is a good stack.                       *)
LEMMA Popped ==
  ASSUME IInv, NEW op, Running(op)
  PROVE  Good(Born, Below) /\ (Below # <<>> => Head(Below).op # "pipe")
BY OnTop DEF Fits

(* The running frame may call a frame that fits.                          *)
LEMMA Called ==
  ASSUME IInv, NEW op, Running(op), op # "pipe", NEW f \in KnownFrames(Born),
         f.op \notin {"tick", "pipe"}
  PROVE  Good(Born, <<f>> \o stack)
<1>1. Good(Born, stack) /\ stack # <<>> /\ Head(stack).op = op
  BY OnTop DEF Running
<1>2. Fits(f, stack)
  BY <1>1 DEF Fits
<1> QED BY <1>1, <1>2, Push

(* The running frame may be replaced by one that fits below it.           *)
LEMMA Replaced ==
  ASSUME IInv, NEW op, Running(op), NEW f \in KnownFrames(Born), Fits(f, Below)
  PROVE  Good(Born, <<f>> \o Below)
BY OnTop, Push

(* The recorded faults are known ones.                                    *)
LEMMA FaultTyped ==
  ASSUME IInv, UNCHANGED fault
  PROVE  Faults'
BY DEF IInv, Data, Faults

-----------------------------------------------------------------------------
(* Every action preserves the invariant                                    *)

(* The step KillEnd keeps the invariant.                                  *)
LEMMA KillEndInv == ASSUME IInv, KillEnd PROVE IInv'
<1>1. Good(Born, stack')
  BY Popped DEF KillEnd
<1>2. Faults'
  BY DEF KillEnd, Trip, Broken, IInv, Data, Faults
<1> QED BY <1>1, <1>2, StackOnly DEF KillEnd

(* A frame that only returns keeps the invariant.                         *)
LEMMA PopsOnly ==
  ASSUME IInv, StopEnd \/ Return \/ FlushEnd \/ ImportReturn
  PROVE  IInv'
<1>1. Good(Born, stack') /\ UNCHANGED fault
  BY Popped DEF StopEnd, Return, InJs, FlushEnd, ImportReturn
<1> QED BY <1>1, FaultTyped, StackOnly DEF StopEnd, Return, FlushEnd, ImportReturn

(* The step ImportModule keeps the invariant.                             *)
LEMMA ImportModuleInv == ASSUME IInv, NEW t \in Reqs, ImportModule(t) PROVE IInv'
<1>1. t \in Born
  BY DEF ImportModule, Live, Born
<1>2. Import(t, "pump") \in KnownFrames(Born) /\ Import(t, "pump").op = "import"
  <2>1. "pump" \in Variants
    BY DEF Variants
  <2> QED BY <1>1, <2>1, MadeCall
<1>3. Good(Born, stack')
  BY <1>2, Called DEF ImportModule, InJs
<1> QED BY <1>3, FaultTyped, StackOnly DEF ImportModule

(* The step AbortOwner keeps the invariant.                               *)
LEMMA AbortOwnerInv == ASSUME IInv, NEW o \in Owners, AbortOwner(o) PROVE IInv'
<1>1. Kill(o) \in KnownFrames(Born) /\ Kill(o).op = "kill"
  BY MadeOther
<1>2. Good(Born, stack')
  BY <1>1, Called DEF AbortOwner, InJs
<1> QED BY <1>2, FaultTyped, StackOnly DEF AbortOwner

(* A step that calls abort() and changes nothing else keeps the invariant. *)
LEMMA Aborted ==
  ASSUME IInv, NEW t \in Born, NEW below, Good(Born, below),
         below # <<>> => Head(below).op # "pipe", abort(t, below),
         UNCHANGED <<retired, owner, detached, idle, fault>>
  PROVE  IInv'
<1>1. state[t] \in States \ {"none"} /\ "delivering" \in States \ {"none"}
  BY DEF IInv, Data, Life, Born, States
<1>2. Abort(t, state[t]) \in KnownFrames(Born) /\ Abort(t, state[t]).op = "abort"
  BY <1>1, MadeAbort
<1>3. Fits(Abort(t, state[t]), below)
  BY <1>2 DEF Fits
<1>4. LET b == <<Abort(t, state[t])>> \o below
      IN  Good(Born, b) /\ b # <<>> /\ Head(b).op = "abort"
  BY <1>2, <1>3, Push
<1>5. /\ Good(Born, stack') /\ open' \subseteq Slots
      /\ waiters' \in [Slots -> Seq(Born)]
      /\ outcome' \in [Ids -> Seq({"done", "err", "shutdown"})]
      /\ settled' \subseteq Ids /\ notified' \subseteq Ids
  BY <1>4, Failed DEF abort
<1>6. state' = [state EXCEPT ![t] = "delivering"]
  BY DEF abort
<1>7. Born' = Born /\ Life' /\ OwnerLinks'
  BY <1>1, <1>6, MoveState
<1>8. UNCHANGED <<events, started, hops, pending, delayed, delayedCount,
                  dispatch, gated, dispatchCount, conns, free, fetchOf, verdict,
                  blocking, held, intercepted, mailbox, disconnected>>
  BY DEF idle, evars, qvars, dvars, nvars, cvars, mvars
<1>9. Calls' /\ Flights' /\ Calling'
  BY <1>5, <1>7, <1>8 DEF IInv, Data, Calls, Flights, Calling
<1> QED BY <1>7, <1>8, <1>9, Keep DEF IInv, Data

(* Live transfers are born.                                               *)
LEMMA LiveBorn == Live \subseteq Born
BY DEF Live, Born

(* The step StopOne keeps the invariant.                                  *)
LEMMA StopOneInv == ASSUME IInv, NEW t \in Ids, StopOne(t) PROVE IInv'
<1>1. Top \in KnownFrames(Born) /\ Good(Born, stack) /\ stack # <<>> /\ Top.op = "stop"
  BY OnTop DEF StopOne
<1>2. t \in Born
  BY <1>1 DEF StopOne, Stoppable, KnownFrames
<1>3. Head(stack).op # "pipe"
  BY <1>1 DEF Top
<1> QED BY <1>1, <1>2, <1>3, Aborted DEF StopOne

(* The step Cancel keeps the invariant.                                   *)
LEMMA CancelInv == ASSUME IInv, NEW t \in Reqs, Cancel(t) PROVE IInv'
<1>1. t \in Born
  BY LiveBorn DEF Cancel
<1>2. Good(Born, stack) /\ (stack # <<>> => Head(stack).op # "pipe")
  BY OnTop DEF Cancel, InJs, Running
<1> QED BY <1>1, <1>2, Aborted DEF Cancel

(* The step SyncAbort keeps the invariant.                                *)
LEMMA SyncAbortInv == ASSUME IInv, SyncAbort PROVE IInv'
<1>1. Top \in KnownFrames(Born) /\ Top.op = "sync" /\ Good(Born, Below)
  BY OnTop DEF SyncAbort
<1>2. Top.id \in Born /\ Top.id \in Reqs
  BY <1>1 DEF KnownFrames, TransferOps
<1>3. Below # <<>> => Head(Below).op # "pipe"
  BY Popped DEF SyncAbort
<1>4. Sync(Top.id, "exit") \in KnownFrames(Born) /\ Sync(Top.id, "exit").op = "sync"
  BY <1>2, MadeSync, BornIds DEF Variants
<1>5. Fits(Sync(Top.id, "exit"), Below)
  BY <1>3, <1>4 DEF Fits
<1>6. LET b == <<Sync(Top.id, "exit")>> \o Below
      IN  Good(Born, b) /\ b # <<>> /\ Head(b).op = "sync"
  BY <1>1, <1>4, <1>5, Push
<1> QED BY <1>2, <1>6, Aborted DEF SyncAbort

(* Unlinking a transfer from a queue leaves a queue of transfers.         *)
LEMMA UnlinkSeq ==
  ASSUME NEW S, NEW s \in Seq(S), NEW x
  PROVE  Unlink(s, x) \in Seq(S)
<1>1. CASE ~Contains(s, x)
  BY <1>1 DEF Unlink
<1>2. CASE Contains(s, x)
  <2>1. PICK i \in 1..Len(s) : s[i] = x
    BY <1>2 DEF Contains
  <2>2. IndexOf(s, x) \in 1..Len(s)
    BY <2>1 DEF IndexOf
  <2>3. \A j \in 1..Len(s) : RemoveAt(s, j) \in Seq(S)
    BY DEF RemoveAt
  <2> QED BY <1>2, <2>2, <2>3 DEF Unlink
<1> QED BY <1>1, <1>2

(* swapRemove leaves a waiter list of waiters.                            *)
LEMMA SwapRemoveSeq ==
  ASSUME NEW S, NEW s \in Seq(S), NEW x
  PROVE  SwapRemove(s, x) \in Seq(S)
<1>1. CASE ~Contains(s, x)
  BY <1>1 DEF SwapRemove
<1>2. CASE Contains(s, x)
  <2>1. PICK i \in 1..Len(s) : s[i] = x
    BY <1>2 DEF Contains
  <2>2. IndexOf(s, x) \in 1..Len(s) /\ Len(s) \in 1..Len(s)
    BY <2>1 DEF IndexOf
  <2> DEFINE r == [s EXCEPT ![IndexOf(s, x)] = s[Len(s)]]
  <2>3. r \in Seq(S) /\ Len(r) = Len(s)
    BY <2>2
  <2> HIDE DEF r
  <2>4. SubSeq(r, 1, Len(s) - 1) \in Seq(S)
    BY <2>2, <2>3
  <2> QED BY <1>2, <2>4 DEF SwapRemove, r
<1> QED BY <1>1, <1>2

(* deinit unlinks the transfer from everything that names it, its owner first. *)
LEMMA Deinited ==
  ASSUME IInv, NEW t \in Born, NEW st \in States \ {"none"}, deinit(t, st),
         UNCHANGED detached
  PROVE  /\ Born' = Born /\ Life' /\ OwnerLinks' /\ Waits' /\ Dispatcher'
         /\ Network' /\ Faults' /\ intercepted' \in Int
<1>1. Data /\ t \in Ids
  BY BornIds DEF IInv
<1>2. CASE t \in retired
  <2>1. /\ fault' = fault \cup {"deinit"}
        /\ UNCHANGED <<state, retired, owner, qvars, dvars, nvars, intercepted>>
    BY <1>2 DEF deinit
  <2>2. Born' = Born /\ Life' /\ OwnerLinks'
    BY <2>1, SameState
  <2>3. Faults' /\ intercepted' \in Int
    BY <1>1, <2>1 DEF Data, Faults, Cdp
  <2> QED BY <2>1, <2>2, <2>3, Keep DEF qvars, dvars, nvars
<1>3. CASE t \notin retired
  <2>1. /\ retired' = retired \cup {t} /\ state' = [state EXCEPT ![t] = st]
        /\ owner' = [owner EXCEPT ![t] = None]
    BY <1>3 DEF deinit
  <2>2. Born' = Born
    BY <1>1, <2>1 DEF Data, Life, Born
  <2>3. Life'
    BY <1>1, <2>1, <2>2 DEF Data, Life
  <2>4. OwnerLinks'
    <3> SUFFICES ASSUME NEW u \in Ids
                 PROVE  owner'[u] # None <=> /\ state'[u] # "none" /\ u \notin retired'
                                             /\ u \in Reqs /\ u \notin detached
      BY DEF OwnerLinks, Live
    <3>1. owner[u] # None <=> /\ state[u] # "none" /\ u \notin retired
                              /\ u \in Reqs /\ u \notin detached
      BY DEF IInv, OwnerLinks, Live
    <3>2. CASE u = t
      BY <1>1, <2>1, <3>2 DEF Data, Life
    <3>3. CASE u # t
      BY <1>1, <2>1, <3>1, <3>3 DEF Data, Life
    <3> QED BY <3>2, <3>3
  <2>5. /\ Unlink(pending, t) \in Seq(Born) /\ Unlink(delayed, t) \in Seq(Born)
        /\ Unlink(dispatch, t) \in Seq(Born) /\ Unlink(gated, t) \in Seq(Born)
    BY <1>1, UnlinkSeq DEF Data, Waits, Dispatcher
  <2>6. Waits'
    BY <1>1, <1>3, <2>2, <2>5 DEF deinit, unlink, Data, Waits
  <2>7. Dispatcher'
    BY <1>1, <1>3, <2>2, <2>5 DEF deinit, unlink, Data, Dispatcher
  <2>8. Network'
    BY <1>1, <1>3, <2>2 DEF deinit, removeConn, Data, Network
  <2>9. intercepted' \in Int
    BY <1>1, <1>3 DEF deinit, leaveIntercept, Data, Cdp
  <2>10. Faults'
    BY <1>1, <1>3 DEF deinit, Trip, Broken, Data, Faults
  <2> QED BY <2>2, <2>3, <2>4, <2>6, <2>7, <2>8, <2>9, <2>10
<1> QED BY <1>2, <1>3

(* detachInDelivery unlinks the transfer from its owner and marks it so.  *)
LEMMA DetachedInDelivery ==
  ASSUME IInv, NEW t \in Born, detachInDelivery(t), UNCHANGED retired
  PROVE  Born' = Born /\ Life' /\ OwnerLinks' /\ detached' \subseteq Born'
<1>1. Data /\ t \in Ids
  BY BornIds DEF IInv
<1>2. "aborted" \in States \ {"none"}
  BY DEF States
<1>3. /\ state' = [state EXCEPT ![t] = "aborted"] /\ retired' = retired
      /\ owner' = [owner EXCEPT ![t] = None] /\ detached' = detached \cup {t}
  BY DEF detachInDelivery
<1>4. Born' = Born
  BY <1>1, <1>2, <1>3 DEF Data, Life, Born
<1>5. Life' /\ detached' \subseteq Born'
  BY <1>1, <1>2, <1>3, <1>4 DEF Data, Life, Calls
<1>6. OwnerLinks'
  <2> SUFFICES ASSUME NEW u \in Ids
               PROVE  owner'[u] # None <=> /\ state'[u] # "none" /\ u \notin retired
                                           /\ u \in Reqs /\ u \notin detached'
    BY <1>3 DEF OwnerLinks, Live
  <2>1. owner[u] # None <=> /\ state[u] # "none" /\ u \notin retired
                            /\ u \in Reqs /\ u \notin detached
    BY DEF IInv, OwnerLinks, Live
  <2>2. CASE u = t
    BY <1>1, <1>3, <2>2 DEF Data, Life
  <2>3. CASE u # t
    BY <1>1, <1>3, <2>1, <2>3 DEF Data, Life
  <2> QED BY <2>2, <2>3
<1> QED BY <1>4, <1>5, <1>6

(* Leaving a gate keeps the gates well typed.                             *)
LEMMA GateRemoved ==
  ASSUME IInv, NEW t, NEW st, gateRemove(t, st)
  PROVE  waiters' \in [Slots -> Seq(Born)]
<1>1. waiters \in [Slots -> Seq(Born)]
  BY DEF IInv, Data, Flights
<1>2. \A s \in Slots : SwapRemove(waiters[s], t) \in Seq(Born)
  BY <1>1, SwapRemoveSeq
<1> QED BY <1>1, <1>2 DEF gateRemove

(* The record of outcomes grows by outcomes only.                         *)
LEMMA OneMoreCallback ==
  ASSUME IInv, NEW t \in Ids, NEW cb \in {"done", "err", "shutdown"}
  PROVE  [outcome EXCEPT ![t] = Append(@, cb)] \in [Ids -> Seq({"done", "err", "shutdown"})]
BY DEF IInv, Data, Calls

(* The step KillOne keeps the invariant.                                  *)
LEMMA KillOneInv == ASSUME IInv, NEW t \in Ids, KillOne(t) PROVE IInv'
<1>1. Data /\ t \in Born
  BY LiveBorn DEF IInv, KillOne, Targets
<1>2. state[t] \in States \ {"none"}
  BY <1>1 DEF Data, Life, Born
<1>3. UNCHANGED <<settled, events, started, hops, fetchOf, verdict, blocking,
                  held, mailbox, disconnected, stack>>
  BY DEF KillOne, evars, mvars
<1>4. notified' \subseteq Ids
  BY <1>1 DEF KillOne, Data, Calls
<1>5. CASE state[t] = "delivering"
  <2>1. /\ detachInDelivery(t)
        /\ UNCHANGED <<retired, outcome, qvars, dvars, nvars, intercepted, open,
                       waiters, fault>>
    BY <1>5 DEF KillOne
  <2>2. Born' = Born /\ Life' /\ OwnerLinks' /\ detached' \subseteq Born'
    BY <1>1, <2>1, DetachedInDelivery
  <2>3. Calls'
    BY <1>1, <1>3, <1>4, <2>1, <2>2 DEF Data, Calls
  <2> QED BY <1>3, <2>1, <2>2, <2>3, Keep DEF IInv, Data, qvars, dvars, nvars
<1>6. CASE state[t] # "delivering"
  <2>1. /\ outcome' = [outcome EXCEPT ![t] = Append(@, "shutdown")]
        /\ deinit(t, state[t]) /\ UNCHANGED detached
    BY <1>6 DEF KillOne
  <2>2. /\ Born' = Born /\ Life' /\ OwnerLinks' /\ Waits' /\ Dispatcher'
        /\ Network' /\ Faults' /\ intercepted' \in Int
    BY <1>1, <1>2, <2>1, Deinited
  <2>3. Calls'
    BY <1>1, <1>3, <1>4, <2>1, <2>2, OneMoreCallback DEF Data, Calls
  <2>4. \/ /\ open' = open \ {fetchOf[t]}
           /\ waiters' = [waiters EXCEPT ![fetchOf[t]] = <<>>]
        \/ gateRemove(t, state[t]) /\ UNCHANGED open
    BY <1>6 DEF KillOne
  <2>5. open' \subseteq Slots /\ waiters' \in [Slots -> Seq(Born)]
    <3>1. <<>> \in Seq(Born) OBVIOUS
    <3> QED BY <1>1, <2>4, <3>1, GateRemoved DEF Data, Flights
  <2>6. Flights' /\ Cdp'
    BY <1>1, <1>3, <2>2, <2>5 DEF Data, Flights, Cdp
  <2> QED BY <1>3, <2>2, <2>3, <2>6, Keep DEF IInv, Data
<1> QED BY <1>5, <1>6

(* The step AbortEnd keeps the invariant.                                 *)
LEMMA AbortEndInv == ASSUME IInv, AbortEnd PROVE IInv'
<1>1. Top \in KnownFrames(Born) /\ Top.op = "abort" /\ Good(Born, Below)
  BY OnTop DEF AbortEnd
<1>2. Top.id \in Born /\ Top.how \in States \ {"none"}
  BY <1>1 DEF KnownFrames, TransferOps
<1>3. /\ stack' = Below
      /\ UNCHANGED <<outcome, settled, notified, events, started, hops, open,
                     fetchOf, verdict, blocking, held, mailbox, disconnected>>
  BY DEF AbortEnd, evars, mvars
<1>4. CASE Top.how = "delivering"
  <2>1. /\ detachInDelivery(Top.id)
        /\ UNCHANGED <<retired, qvars, dvars, nvars, intercepted, waiters, fault>>
    BY <1>4 DEF AbortEnd
  <2>2. Born' = Born /\ Life' /\ OwnerLinks' /\ detached' \subseteq Born'
    BY <1>2, <2>1, DetachedInDelivery
  <2>3. Calls' /\ Calling'
    BY <1>1, <1>3, <2>1, <2>2 DEF IInv, Data, Calls, Calling
  <2> QED BY <1>3, <2>1, <2>2, <2>3, Keep DEF IInv, Data, qvars, dvars, nvars
<1>5. CASE Top.how # "delivering"
  <2>1. deinit(Top.id, Top.how) /\ gateRemove(Top.id, Top.how) /\ UNCHANGED detached
    BY <1>5 DEF AbortEnd
  <2>2. /\ Born' = Born /\ Life' /\ OwnerLinks' /\ Waits' /\ Dispatcher'
        /\ Network' /\ Faults' /\ intercepted' \in Int
    BY <1>2, <2>1, Deinited
  <2>3. waiters' \in [Slots -> Seq(Born)]
    BY <2>1, GateRemoved
  <2>4. Flights' /\ Cdp' /\ Calling'
    BY <1>1, <1>3, <2>2, <2>3 DEF IInv, Data, Flights, Cdp, Calling
  <2> QED BY <1>3, <2>1, <2>2, <2>4, Keep DEF IInv, Data
<1> QED BY <1>4, <1>5

(* The step Finish keeps the invariant.                                   *)
LEMMA FinishInv == ASSUME IInv, finishDelivery PROVE IInv'
<1>1. Top \in KnownFrames(Born) /\ Top.op = "finish" /\ Good(Born, Below)
  BY OnTop DEF finishDelivery
<1>2. Top.id \in Born /\ Top.id \in Ids /\ Data
  BY <1>1, BornIds DEF KnownFrames, TransferOps, IInv
<1>3. state[Top.id] \in States \ {"none"}
  BY <1>2 DEF Data, Life, Born
<1>4. /\ stack' = Below
      /\ deinit(Top.id, state[Top.id])
      /\ UNCHANGED <<settled, notified, detached, events, started, hops, open,
                     waiters, fetchOf, verdict, blocking, held, mailbox,
                     disconnected>>
  BY DEF finishDelivery, evars, gvars, mvars
<1>5. /\ Born' = Born /\ Life' /\ OwnerLinks' /\ Waits' /\ Dispatcher'
      /\ Network' /\ Faults' /\ intercepted' \in Int
  BY <1>2, <1>3, <1>4, Deinited
<1>6. \/ outcome' = outcome
      \/ outcome' = [outcome EXCEPT ![Top.id] = Append(@, "shutdown")]
  BY DEF finishDelivery
<1>7. Calls'
  <2>1. /\ outcome \in [Ids -> Seq({"done", "err", "shutdown"})]
        /\ [outcome EXCEPT ![Top.id] = Append(@, "shutdown")]
             \in [Ids -> Seq({"done", "err", "shutdown"})]
    BY <1>2, OneMoreCallback DEF Data, Calls
  <2>2. outcome' \in [Ids -> Seq({"done", "err", "shutdown"})]
    BY <1>6, <2>1
  <2> QED BY <1>2, <1>4, <1>5, <2>2 DEF Data, Calls
<1>8. Cdp' /\ Calling'
  BY <1>1, <1>2, <1>4, <1>5 DEF Data, Cdp, Calling
<1> QED BY <1>4, <1>5, <1>7, <1>8, Keep DEF IInv, Data

(* The step ProcessAborted keeps the invariant.                           *)
LEMMA ProcessAbortedInv == ASSUME IInv, NEW t \in Ids, ProcessAborted(t) PROVE IInv'
<1>1. t \in Born /\ "aborted" \in States \ {"none"}
  BY DEF ProcessAborted, Born, States
<1>2. /\ deinit(t, "aborted")
      /\ UNCHANGED <<outcome, settled, notified, detached, events, started, hops,
                     open, waiters, fetchOf, verdict, blocking, held, mailbox,
                     disconnected, stack>>
  BY DEF ProcessAborted, cbvars, evars, gvars, mvars
<1>3. /\ Born' = Born /\ Life' /\ OwnerLinks' /\ Waits' /\ Dispatcher'
      /\ Network' /\ Faults' /\ intercepted' \in Int
  BY <1>1, <1>2, Deinited
<1>4. Cdp'
  BY <1>2, <1>3 DEF IInv, Data, Cdp
<1> QED BY <1>2, <1>3, <1>4, Keep DEF IInv, Data

(* A running pipeline stage is about a transfer that was created.         *)
LEMMA PipeTop ==
  ASSUME IInv, Running("pipe")
  PROVE  /\ Top.id \in Born /\ Top.pc \in Callers /\ Top.op = "pipe"
         /\ Good(Born, Below) /\ Fits(Top, Below)
         /\ Below # <<>> => Head(Below).op # "pipe"
<1>1. Top \in KnownFrames(Born) /\ Top.op = "pipe" /\ Good(Born, Below) /\ Fits(Top, Below)
  BY OnTop
<1> QED BY <1>1 DEF KnownFrames, Frames, TransferOps, Fits

(* A pipeline that goes on to its next stage still fits.                  *)
LEMMA Advanced ==
  ASSUME IInv, Running("pipe"), NEW stage \in Stages, Goto(stage)
  PROVE  Good(Born, stack')
<1>1. Top \in KnownFrames(Born) /\ Top.op = "pipe" /\ Fits(Top, Below)
  BY OnTop
<1> DEFINE f == [Top EXCEPT !.how = stage]
<1>2. f \in KnownFrames(Born) /\ f.op = "pipe" /\ f.pc = Top.pc
  BY ZenonT(60), <1>1 DEF KnownFrames, Frames, Variants
<1> HIDE DEF f
<1>3. Fits(f, Below)
  BY <1>1, <1>2 DEF Fits
<1> QED BY <1>2, <1>3, Replaced DEF Goto, f

(* The step PipeThrow keeps the invariant.                                *)
LEMMA PipeThrowInv == ASSUME IInv, PipeThrow PROVE IInv'
<1>1. Goto("failed") /\ Running("pipe") /\ "failed" \in Stages
  BY DEF PipeThrow, Stages
<1>2. Good(Born, stack')
  BY <1>1, Advanced
<1> QED BY <1>2, FaultTyped, StackOnly DEF PipeThrow

(* A pipeline fits on any stack that no pipeline is on top of.            *)
LEMMA PushPipe ==
  ASSUME NEW B \in SUBSET Ids, NEW s, Good(B, s), NEW t \in B, NEW m \in Stages,
         NEW w \in Callers, s # <<>> => Head(s).op # "pipe",
         w = Ticker => s # <<>> /\ Head(s).op = "tick"
  PROVE  Good(B, <<Pipe(t, m, w)>> \o s)
<1>1. /\ Pipe(t, m, w) \in KnownFrames(B)
      /\ Pipe(t, m, w).op = "pipe" /\ Pipe(t, m, w).pc = w
  BY MadePipe
<1>2. Fits(Pipe(t, m, w), s)
  BY <1>1 DEF Fits
<1> QED BY <1>1, <1>2, Push

(* The step Request keeps the invariant.                                  *)
LEMMA RequestInv == ASSUME IInv, NEW t \in Reqs, Request(t) PROVE IInv'
<1>1. Data /\ t \in Ids /\ t \notin Born /\ OwnerOf[t] \in Owners /\ None \notin Owners
  BY Constants DEF IInv, Request, Born, Ids
<1>2. /\ state' = [state EXCEPT ![t] = "created"]
      /\ owner' = [owner EXCEPT ![t] = OwnerOf[t]]
      /\ stack' = <<Pipe(t, "start", Submitter)>> \o stack
      /\ UNCHANGED <<retired, outcome, settled, notified, detached, events,
                     started, hops, pending, delayed, delayedCount, dispatch,
                     gated, dispatchCount, conns, free, open, waiters, fetchOf,
                     verdict, blocking, held, intercepted, mailbox,
                     disconnected, fault>>
  BY DEF Request, cbvars, idle, evars, qvars, dvars, nvars, cvars, mvars
<1>3. "created" \in States \ {"none"} /\ "start" \in Stages /\ Submitter \in Callers
      /\ Submitter # Ticker
  BY DEF States, Stages, Callers, Submitter, Ticker
<1>4. Born' = Born \cup {t} /\ Born' \subseteq Ids
  BY <1>1, <1>2, <1>3 DEF Data, Life, Born
<1>5. Life'
  BY <1>1, <1>2, <1>3, <1>4 DEF Data, Life
<1>6. OwnerLinks'
  <2> SUFFICES ASSUME NEW u \in Ids
               PROVE  owner'[u] # None <=> /\ state'[u] # "none" /\ u \notin retired
                                           /\ u \in Reqs /\ u \notin detached
    BY <1>2 DEF OwnerLinks, Live
  <2>1. owner[u] # None <=> /\ state[u] # "none" /\ u \notin retired
                            /\ u \in Reqs /\ u \notin detached
    BY DEF IInv, OwnerLinks, Live
  <2>2. CASE u = t
    BY <1>1, <1>2, <1>3, <2>2 DEF Data, Life, Calls
  <2>3. CASE u # t
    BY <1>1, <1>2, <2>1, <2>3 DEF Data, Life
  <2> QED BY <2>2, <2>3
<1>7. Good(Born, stack) /\ (stack # <<>> => Head(stack).op # "pipe")
  BY OnTop DEF Request, InJs, Running
<1>8. Good(Born', stack)
  BY <1>4, <1>7, Grow
<1>9. Calling'
  BY <1>2, <1>3, <1>4, <1>7, <1>8, PushPipe DEF Calling
<1> QED BY <1>2, <1>4, <1>5, <1>6, <1>9, Keep DEF IInv, Data

(* The step SyncRequest keeps the invariant.                              *)
LEMMA SyncRequestInv == ASSUME IInv, NEW t \in Reqs, SyncRequest(t) PROVE IInv'
<1>1. Data /\ t \in Ids /\ t \notin Born /\ OwnerOf[t] \in Owners /\ None \notin Owners
  BY Constants DEF IInv, SyncRequest, Born, Ids
<1>2. /\ state' = [state EXCEPT ![t] = "created"]
      /\ UNCHANGED <<settled, notified, detached, events,
                     started, hops, pending, delayed, delayedCount, dispatch,
                     gated, dispatchCount, conns, free, open, waiters, fetchOf,
                     verdict, held, intercepted, mailbox, disconnected>>
  BY DEF SyncRequest, evars, qvars, dvars, nvars, gvars, cvars, mvars
<1>3. "created" \in States \ {"none"} /\ "start" \in Stages /\ Submitter \in Callers
      /\ Submitter # Ticker
  BY DEF States, Stages, Callers, Submitter, Ticker
<1>4. Born' = Born \cup {t} /\ Born' \subseteq Ids
  BY <1>1, <1>2, <1>3 DEF Data, Life, Born
<1>5. Good(Born, stack) /\ (stack # <<>> => Head(stack).op # "pipe")
  BY OnTop DEF SyncRequest, InJs, Running
<1>6. Good(Born', stack)
  BY <1>4, <1>5, Grow
<1>7. owner[t] = None
  BY <1>1 DEF IInv, OwnerLinks, Live, Born
<1>8. CASE TearingDown
  <2>1. /\ retired' = retired \cup {t} /\ outcome' = [outcome EXCEPT ![t] = <<"err">>]
        /\ UNCHANGED <<owner, blocking, stack, fault>>
    BY <1>8 DEF SyncRequest
  <2>2. Life'
    BY <1>1, <1>2, <1>3, <1>4, <2>1 DEF Data, Life
  <2>3. OwnerLinks'
    <3> SUFFICES ASSUME NEW u \in Ids
                 PROVE  owner'[u] # None <=> /\ state'[u] # "none" /\ u \notin retired'
                                             /\ u \in Reqs /\ u \notin detached
      BY <1>2 DEF OwnerLinks, Live
    <3>1. owner[u] # None <=> /\ state[u] # "none" /\ u \notin retired
                              /\ u \in Reqs /\ u \notin detached
      BY DEF IInv, OwnerLinks, Live
    <3>2. CASE u = t
      BY <1>7, <2>1, <3>2
    <3>3. CASE u # t
      BY <1>1, <1>2, <2>1, <3>1, <3>3 DEF Data, Life
    <3> QED BY <3>2, <3>3
  <2>4. Calls'
    <3>1. <<"err">> \in Seq({"done", "err", "shutdown"})
      OBVIOUS
    <3> QED BY <1>1, <1>2, <1>4, <2>1, <3>1 DEF Data, Calls
  <2>5. Calling'
    BY <1>6, <2>1 DEF Calling
  <2> QED BY <1>2, <1>4, <2>1, <2>2, <2>3, <2>4, <2>5, Keep DEF IInv, Data
<1>9. CASE ~TearingDown
  <2>1. /\ owner' = [owner EXCEPT ![t] = OwnerOf[t]]
        /\ blocking' = [blocking EXCEPT ![OwnerOf[t]] = t]
        /\ Trip("clobber", blocking[OwnerOf[t]] # None)
        /\ stack' = <<Pipe(t, "start", Submitter), Sync(t, "pump")>> \o stack
        /\ UNCHANGED <<retired, outcome>>
    BY <1>9 DEF SyncRequest
  <2>2. Life'
    BY <1>1, <1>2, <1>3, <1>4, <2>1 DEF Data, Life
  <2>3. OwnerLinks'
    <3> SUFFICES ASSUME NEW u \in Ids
                 PROVE  owner'[u] # None <=> /\ state'[u] # "none" /\ u \notin retired
                                             /\ u \in Reqs /\ u \notin detached
      BY <1>2, <2>1 DEF OwnerLinks, Live
    <3>1. owner[u] # None <=> /\ state[u] # "none" /\ u \notin retired
                              /\ u \in Reqs /\ u \notin detached
      BY DEF IInv, OwnerLinks, Live
    <3>2. CASE u = t
      BY <1>1, <1>2, <1>3, <2>1, <3>2 DEF Data, Life, Calls
    <3>3. CASE u # t
      BY <1>1, <1>2, <2>1, <3>1, <3>3 DEF Data, Life
    <3> QED BY <3>2, <3>3
  <2>4. Blocks' /\ Faults'
    BY <1>1, <2>1 DEF Data, Blocks, Faults, Trip, Broken
  <2>5. Calling'
    <3> DEFINE b == <<Sync(t, "pump")>> \o stack
    <3>1. Sync(t, "pump") \in KnownFrames(Born') /\ Sync(t, "pump").op = "sync"
      <4>1. "pump" \in Variants
        BY DEF Variants
      <4>2. t \in Born'
        BY <1>4
      <4> QED BY <1>4, <4>1, <4>2, MadeSync
    <3>2. Fits(Sync(t, "pump"), stack)
      BY <1>5, <3>1 DEF Fits
    <3>3. Good(Born', b) /\ b # <<>> /\ Head(b) = Sync(t, "pump")
      BY <1>6, <3>1, <3>2, Push
    <3>4. stack' = <<Pipe(t, "start", Submitter)>> \o b
      <4>2. stack \in Seq(KnownFrames(Born'))
        BY <1>6 DEF Good
      <4>3. Pipe(t, "start", Submitter) \in KnownFrames(Born')
        BY <1>3, <1>4, MadePipe
      <4> QED BY <2>1, <3>1, <4>2, <4>3, Two
    <3> HIDE DEF b
    <3>5. Good(Born', stack')
      BY <1>3, <1>4, <3>1, <3>3, <3>4, PushPipe
    <3> QED BY <3>5 DEF Calling
  <2> QED BY <1>2, <1>4, <2>1, <2>2, <2>3, <2>4, <2>5, Keep DEF IInv, Data
<1> QED BY <1>8, <1>9

(* The step PipeStart keeps the invariant.                                *)
LEMMA PipeStartInv == ASSUME IInv, PipeStart PROVE IInv'
<1>1. Running("pipe") /\ Top.id \in Born /\ Good(Born, Below)
  BY PipeTop DEF PipeStart, AtStage
<1>2. UNCHANGED <<retired, owner, outcome, settled, notified, detached, events,
                  started, hops, pending, delayed, delayedCount, dispatch,
                  gated, dispatchCount, conns, free, open, waiters, fetchOf,
                  verdict, blocking, mailbox, disconnected, fault>>
  BY DEF PipeStart, cbvars, evars, qvars, dvars, nvars, gvars, mvars
<1>3. CASE Goto("after_intercept") /\ UNCHANGED <<state, cvars>>
  <2>1. "after_intercept" \in Stages
    BY DEF Stages
  <2>2. Good(Born, stack')
    BY <1>1, <1>3, <2>1, Advanced
  <2>3. Faults'
    BY <1>2, FaultTyped
  <2>4. UNCHANGED <<lvars, cbvars, idle, open, waiters>>
    BY <1>2, <1>3 DEF lvars, cbvars, idle, evars, qvars, dvars, nvars, cvars, mvars
  <2> QED BY <2>2, <2>3, <2>4, StackOnly
<1>4. CASE /\ stack' = Below
           /\ state' = [state EXCEPT ![Top.id] = "parked_intercept"]
           /\ intercepted' = intercepted + 1
           /\ held' = held \cup {Top.id}
  <2>1. "parked_intercept" \in States \ {"none"}
    BY DEF States, Parked
  <2>2. Born' = Born /\ Life' /\ OwnerLinks'
    BY <1>1, <1>2, <1>4, <2>1, MoveState
  <2>3. Cdp' /\ Calling'
    BY <1>1, <1>4, <2>2 DEF IInv, Data, Cdp, Calling
  <2> QED BY <1>2, <2>2, <2>3, Keep DEF IInv, Data
<1> QED BY <1>3, <1>4 DEF PipeStart

(* Entering a gate as its leader or as a waiter keeps the data well typed. *)
LEMMA Entered ==
  ASSUME IInv, NEW gate \in Gates, Running("pipe"), Gated(gate, Top.id),
         EnterGate(gate),
         UNCHANGED <<dvars, fault, qvars, nvars, verdict, blocking, intercepted,
                     mvars>>
  PROVE  IInv'
<1> DEFINE t == Top.id
           s == <<gate, KeyOf[gate][t]>>
           parked == IF gate = "cors" THEN "parked_cors" ELSE "parked_robots"
<1>1. /\ t \in Born /\ t \in Ids /\ Good(Born, Below)
      /\ Below # <<>> => Head(Below).op # "pipe"
  BY PipeTop, BornIds
<1>2. t \in Reqs /\ s \in Slots /\ t \notin Fetches /\ None \notin Ids
  BY Constants DEF Gated, Slots, Gates
<1>3. parked \in States \ {"none"} /\ "created" \in States \ {"none"}
  BY DEF States, Parked
<1>4. UNCHANGED <<dispatch, gated, dispatchCount, fault, pending, delayed,
                  delayedCount, conns, free, verdict, blocking, intercepted,
                  mailbox, disconnected>>
  BY DEF dvars, qvars, nvars, mvars
<1>5. Data
  BY DEF IInv
<1> HIDE DEF s, parked
<1>6. CASE s \in open
  <2>1. /\ waiters' = [waiters EXCEPT ![s] = Append(@, t)]
        /\ state' = [state EXCEPT ![t] = parked]
        /\ stack' = Below
        /\ UNCHANGED <<retired, owner, outcome, settled, notified, detached,
                       events, started, hops, open, fetchOf, held>>
    BY <1>6 DEF EnterGate, s, parked, cbvars, evars
  <2>2. Born' = Born /\ Life' /\ OwnerLinks'
    BY <1>1, <1>3, <2>1, MoveState
  <2>3. Append(waiters[s], t) \in Seq(Born)
    BY <1>1, <1>2, <1>5 DEF Data, Flights
  <2>4. Flights'
    BY <1>4, <1>5, <2>1, <2>2, <2>3 DEF Data, Flights
  <2>5. Cdp' /\ Calling'
    BY <1>1, <1>4, <1>5, <2>1, <2>2 DEF Data, Cdp, Calling
  <2> QED BY <1>4, <2>1, <2>2, <2>4, <2>5, Keep DEF IInv, Data
<1>7. CASE s \notin open
  <2>1. PICK f \in Fetches :
           /\ open' = open \cup {s}
           /\ waiters' = [waiters EXCEPT ![s] = <<t>>]
           /\ fetchOf' = [fetchOf EXCEPT ![f] = s]
           /\ state' = [state EXCEPT ![t] = parked, ![f] = "created"]
           /\ stack' = <<Pipe(f, "start", Submitter)>> \o Below
           /\ retired' = retired \ {f}
           /\ outcome' = [outcome EXCEPT ![f] = <<>>]
           /\ settled' = settled \ {f}
           /\ notified' = notified \ {f}
           /\ detached' = detached \ {f}
           /\ events' = [events EXCEPT ![f] = <<>>]
           /\ started' = started \ {f}
           /\ hops' = [hops EXCEPT ![f] = 0]
           /\ held' = held \ {f}
           /\ UNCHANGED owner
    BY <1>7, Zenon DEF EnterGate, s, parked
  <2>2. f \in Ids /\ f # t /\ f \notin Reqs
    BY <1>2, Constants DEF Ids
  <2>3. \A u \in Ids : state'[u] = IF u = f THEN "created"
                                   ELSE IF u = t THEN parked ELSE state[u]
    BY <1>1, <1>5, <2>1, <2>2 DEF Data, Life
  <2>4. Born' = Born \cup {f} /\ Born \subseteq Born' /\ Born' \subseteq Ids
    BY <1>1, <1>3, <2>2, <2>3 DEF Born
  <2>5. Life'
    BY <1>1, <1>3, <1>5, <2>1, <2>2, <2>4 DEF Data, Life
  <2>6. OwnerLinks'
    <3> SUFFICES ASSUME NEW u \in Ids
                 PROVE  owner'[u] # None <=> /\ state'[u] # "none" /\ u \notin retired'
                                             /\ u \in Reqs /\ u \notin detached'
      BY DEF OwnerLinks, Live
    <3>1. owner[u] # None <=> /\ state[u] # "none" /\ u \notin retired
                              /\ u \in Reqs /\ u \notin detached
      BY DEF IInv, OwnerLinks, Live
    <3>2. state'[u] # "none" <=> state[u] # "none" \/ u = f
      BY <1>1, <1>3, <2>3 DEF Born
    <3> QED BY <2>1, <2>2, <3>1, <3>2
  <2>7. Calls'
    <3>1. <<>> \in Seq({"done", "err", "shutdown"})
      OBVIOUS
    <3> QED BY <1>5, <2>1, <2>2, <2>4, <3>1 DEF Data, Calls
  <2>8. Buffered'
    <3>1. <<>> \in Seq({"data", "done", "err"}) /\ 0 \in 0..MaxHops
      BY Constants
    <3> QED BY <1>5, <2>1, <2>2, <3>1 DEF Data, Buffered
  <2>9. Flights'
    <3>1. waiters \in [Slots -> Seq(Born')] /\ <<t>> \in Seq(Born')
      BY <1>1, <1>5, <2>4, FunSeqGrows DEF Data, Flights
    <3> QED BY <1>2, <1>4, <1>5, <2>1, <3>1 DEF Data, Flights
  <2>10. Cdp'
    BY <1>4, <1>5, <2>1, <2>4 DEF Data, Cdp
  <2>11. Calling'
    <3>1. "start" \in Stages /\ Submitter \in Callers /\ Submitter # Ticker
      BY DEF Stages, Callers, Submitter, Ticker
    <3>2. Good(Born', Below)
      BY <1>1, <2>4, Grow
    <3>3. f \in Born'
      BY <2>4
    <3>4. Good(Born', stack')
      BY <1>1, <2>1, <2>4, <3>1, <3>2, <3>3, PushPipe
    <3> QED BY <3>4 DEF Calling
  <2> QED BY <1>4, <2>4, <2>5, <2>6, <2>7, <2>8, <2>9, <2>10, <2>11, Keep DEF IInv, Data
<1> QED BY <1>6, <1>7

(* A stage that schedules a dispatch and returns keeps the invariant.     *)
LEMMA PipeScheduled ==
  ASSUME IInv, Running("pipe"), NEW st, NEW evs \in EventSeqs, stack' = Below,
         scheduleDispatch(Top.id, st, evs, {}),
         UNCHANGED <<retired, owner, cbvars, started, hops, open, waiters,
                     fetchOf, held, qvars, nvars, verdict, blocking,
                     intercepted, mvars>>
  PROVE  IInv'
<1>1. Top.id \in Born /\ Good(Born, Below)
  BY PipeTop
<1>2. UNCHANGED <<retired, owner, outcome, settled, notified, detached, started,
                  hops, open, waiters, fetchOf, held, pending, delayed,
                  delayedCount, conns, free, verdict, blocking, intercepted,
                  mailbox, disconnected>>
  BY DEF cbvars, qvars, nvars, mvars
<1>3. {} \in SUBSET {"unpark"}
  OBVIOUS
<1>4. Born' = Born /\ Life' /\ OwnerLinks' /\ Dispatcher' /\ Faults' /\ Buffered'
  BY <1>1, <1>2, <1>3, Scheduled
<1>5. Calling'
  BY <1>1, <1>4 DEF Calling
<1> QED BY <1>2, <1>4, <1>5, Keep DEF IInv, Data

(* A stage that goes on to the next one keeps the invariant.              *)
LEMMA PipeGoes ==
  ASSUME IInv, Running("pipe"), NEW stage \in Stages, Goto(stage),
         UNCHANGED <<state, retired, owner, cbvars, evars, dvars, open, waiters,
                     fetchOf, held, fault, qvars, nvars, verdict, blocking,
                     intercepted, mvars>>
  PROVE  IInv'
<1>1. Good(Born, stack') /\ Faults'
  BY Advanced, FaultTyped
<1>2. UNCHANGED <<lvars, cbvars, idle, open, waiters>>
  BY DEF lvars, idle, cvars
<1> QED BY <1>1, <1>2, StackOnly

(* The event lists the stages schedule are event lists.                   *)
LEMMA EventLists ==
  <<"err">> \in EventSeqs /\ <<"data", "done">> \in EventSeqs /\ <<"done">> \in EventSeqs
BY DEF EventSeqs

(* The step PipeAfterIntercept keeps the invariant.                       *)
LEMMA PipeAfterInterceptInv == ASSUME IInv, PipeAfterIntercept PROVE IInv'
<1>1. Running("pipe") /\ UNCHANGED <<qvars, nvars, verdict, blocking, intercepted, mvars>>
  BY DEF PipeAfterIntercept, AtStage
<1>2. CASE /\ stack' = Below
           /\ scheduleDispatch(Top.id, state[Top.id], <<"err">>, {})
           /\ UNCHANGED <<retired, owner, cbvars, started, hops, open, waiters,
                          fetchOf, held>>
  BY <1>1, <1>2, PipeScheduled, EventLists
<1>3. CASE /\ Gated("cors", Top.id) /\ EnterGate("cors")
           /\ UNCHANGED <<dvars, fault>>
  <2>1. "cors" \in Gates
    BY DEF Gates
  <2> QED BY <1>1, <1>3, <2>1, Entered
<1>4. CASE /\ Goto("after_cors")
           /\ UNCHANGED <<state, retired, owner, cbvars, evars, dvars, open,
                          waiters, fetchOf, held, fault>>
  <2>1. "after_cors" \in Stages
    BY DEF Stages
  <2> QED BY <1>1, <1>4, <2>1, PipeGoes
<1> QED BY <1>2, <1>3, <1>4 DEF PipeAfterIntercept

(* The step PipeAfterCors keeps the invariant.                            *)
LEMMA PipeAfterCorsInv == ASSUME IInv, PipeAfterCors PROVE IInv'
<1>1. Running("pipe") /\ UNCHANGED <<qvars, nvars, verdict, blocking, intercepted, mvars>>
  BY DEF PipeAfterCors, AtStage
<1>2. CASE /\ stack' = Below
           /\ \/ scheduleDispatch(Top.id, state[Top.id], <<"err">>, {})
              \/ scheduleDispatch(Top.id, state[Top.id], <<"data", "done">>, {})
           /\ UNCHANGED <<retired, owner, cbvars, started, hops, open, waiters,
                          fetchOf, held>>
  BY <1>1, <1>2, PipeScheduled, EventLists
<1>3. CASE /\ Gated("robots", Top.id) /\ EnterGate("robots")
           /\ UNCHANGED <<dvars, fault>>
  <2>1. "robots" \in Gates
    BY DEF Gates
  <2> QED BY <1>1, <1>3, <2>1, Entered
<1>4. CASE /\ Goto("throttle")
           /\ UNCHANGED <<state, retired, owner, cbvars, evars, dvars, open,
                          waiters, fetchOf, held, fault>>
  <2>1. "throttle" \in Stages
    BY DEF Stages
  <2> QED BY <1>1, <1>4, <2>1, PipeGoes
<1> QED BY <1>2, <1>3, <1>4 DEF PipeAfterCors

(* Inserting into a queue gives a queue of transfers.                     *)
LEMMA InsertSeq ==
  ASSUME NEW S, NEW s \in Seq(S), NEW x \in S, NEW i \in 1..Len(s) + 1
  PROVE  InsertAt(s, i, x) \in Seq(S)
<1>1. SubSeq(s, 1, i - 1) \in Seq(S) /\ SubSeq(s, i, Len(s)) \in Seq(S) /\ <<x>> \in Seq(S)
  OBVIOUS
<1>2. SubSeq(s, 1, i - 1) \o <<x>> \in Seq(S)
  BY <1>1
<1> QED BY <1>1, <1>2 DEF InsertAt

(* The step PipeThrottle keeps the invariant.                             *)
LEMMA PipeThrottleInv == ASSUME IInv, PipeThrottle PROVE IInv'
<1>1. Running("pipe") /\ Top.id \in Born /\ Good(Born, Below)
  BY PipeTop DEF PipeThrottle, AtStage
<1>2. UNCHANGED <<retired, owner, cbvars, evars, pending, dvars, nvars, gvars,
                  blocking, cvars, mvars, fault>>
  BY DEF PipeThrottle
<1>3. CASE Goto("network") /\ UNCHANGED <<state, delayed, delayedCount>>
  <2>1. "network" \in Stages
    BY DEF Stages
  <2>2. UNCHANGED <<state, retired, owner, cbvars, evars, dvars, open, waiters,
                    fetchOf, held, fault, qvars, nvars, verdict, blocking,
                    intercepted, mvars>>
    BY <1>2, <1>3 DEF qvars, gvars, cvars
  <2> QED BY <1>1, <1>3, <2>1, <2>2, PipeGoes
<1>4. CASE /\ stack' = Below
           /\ state' = [state EXCEPT ![Top.id] = "delayed"]
           /\ delayedCount' = delayedCount + 1
           /\ \E i \in 1..Len(delayed) + 1 : delayed' = InsertAt(delayed, i, Top.id)
  <2>1. UNCHANGED <<retired, owner, outcome, settled, notified, detached, events,
                    started, hops, pending, dispatch, gated, dispatchCount,
                    conns, free, open, waiters, fetchOf, verdict, blocking,
                    held, intercepted, mailbox, disconnected, fault>>
    BY <1>2 DEF cbvars, evars, dvars, nvars, gvars, cvars, mvars
  <2>2. "delayed" \in States \ {"none"}
    BY DEF States
  <2>3. Born' = Born /\ Life' /\ OwnerLinks'
    BY <1>1, <1>4, <2>1, <2>2, MoveState
  <2>4. Waits'
    <3>1. pending \in Seq(Born) /\ delayed \in Seq(Born) /\ delayedCount \in Int
      BY DEF IInv, Data, Waits
    <3>2. delayed' \in Seq(Born)
      BY <1>1, <1>4, <3>1, InsertSeq
    <3> QED BY <1>4, <2>1, <2>3, <3>1, <3>2 DEF Waits
  <2>5. Calling'
    BY <1>1, <1>4, <2>3 DEF Calling
  <2> QED BY <2>1, <2>3, <2>4, <2>5, Keep DEF IInv, Data
<1> QED BY <1>3, <1>4 DEF PipeThrottle

(* The step PipeNetwork keeps the invariant.                              *)
LEMMA PipeNetworkInv == ASSUME IInv, PipeNetwork PROVE IInv'
<1>1. Running("pipe") /\ Top.id \in Born /\ Good(Born, Below)
  BY PipeTop DEF PipeNetwork, AtStage
<1>2. UNCHANGED <<retired, owner, outcome, settled, detached, events, hops,
                  delayed, delayedCount, dispatch, gated, dispatchCount, open,
                  waiters, fetchOf, verdict, blocking, held, intercepted,
                  mailbox, disconnected, fault>>
  BY DEF PipeNetwork, dvars, gvars, cvars, mvars
<1>3. Data
  BY DEF IInv
<1>4. CASE free = 0
  <2>1. /\ pending' = Append(pending, Top.id)
        /\ state' = [state EXCEPT ![Top.id] = "queued"]
        /\ stack' = Below
        /\ UNCHANGED <<notified, started, conns, free>>
    BY <1>4 DEF PipeNetwork, nvars
  <2>2. "queued" \in States \ {"none"}
    BY DEF States
  <2>3. Born' = Born /\ Life' /\ OwnerLinks'
    BY <1>1, <1>2, <2>1, <2>2, MoveState
  <2>4. Waits'
    BY <1>1, <1>2, <1>3, <2>1, <2>3 DEF Data, Waits
  <2>5. Calling'
    BY <1>1, <2>1, <2>3 DEF Calling
  <2> QED BY <1>2, <2>1, <2>3, <2>4, <2>5, Keep DEF IInv, Data
<1>5. CASE free # 0
  <2>1. /\ notified' = notified \ {Top.id}
        /\ started' = started \ {Top.id}
        /\ state' = [state EXCEPT ![Top.id] = "inflight"]
        /\ conns' = conns \cup {Top.id}
        /\ free' = free - 1
        /\ stack' = Below \/ Goto("failed")
        /\ UNCHANGED pending
    BY <1>5 DEF PipeNetwork
  <2>2. "inflight" \in States \ {"none"} /\ "failed" \in Stages
    BY DEF States, Stages
  <2>3. Born' = Born /\ Life' /\ OwnerLinks'
    BY <1>1, <1>2, <2>1, <2>2, MoveState
  <2>4. Network' /\ Calls' /\ Buffered'
    BY <1>1, <1>2, <1>3, <2>1, <2>3 DEF Data, Network, Calls, Buffered
  <2>5. Good(Born, stack')
    BY <1>1, <2>1, <2>2, Advanced
  <2>6. Calling'
    BY <2>3, <2>5 DEF Calling
  <2> QED BY <1>2, <2>1, <2>3, <2>4, <2>6, Keep DEF IInv, Data
<1> QED BY <1>4, <1>5

(* A blocking request whose tick threw returns with the error.            *)
LEMMA WaiterFails ==
  ASSUME NEW B \in SUBSET Ids, NEW s, Good(B, s), s # <<>>,
         Head(s).op \in {"sync", "import"}
  PROVE  Good(B, <<[Head(s) EXCEPT !.how = "err"]>> \o Tail(s))
<1>1. Head(s) \in KnownFrames(B) /\ Good(B, Tail(s)) /\ Fits(Head(s), Tail(s))
  BY Pop
<1> DEFINE f == [Head(s) EXCEPT !.how = "err"]
<1>2. f \in KnownFrames(B) /\ f.op = Head(s).op
  BY <1>1 DEF KnownFrames, Frames, Variants
<1> HIDE DEF f
<1>3. Fits(f, Tail(s))
  BY <1>1, <1>2 DEF Fits
<1>4. Good(B, <<f>> \o Tail(s))
  BY <1>1, <1>2, <1>3, Push
<1> QED BY <1>4 DEF f

(* A tick whose start threw unwinds with, or without, the wait it ran for. *)
LEMMA TickFails ==
  ASSUME NEW B \in SUBSET Ids, NEW s, Good(B, s), s # <<>>, Head(s).op = "tick"
  PROVE  /\ Head(s).how = "sync_wait" =>
              Good(B, <<[Head(Tail(s)) EXCEPT !.how = "err"]>> \o Tail(Tail(s)))
         /\ Good(B, Tail(s))
<1>1. Good(B, Tail(s)) /\ Fits(Head(s), Tail(s))
  BY Pop
<1>2. Head(s).how = "sync_wait" => /\ Tail(s) # <<>>
                                   /\ Head(Tail(s)).op \in {"sync", "import"}
  BY <1>1 DEF Fits
<1> QED BY <1>1, <1>2, WaiterFails

(* The step PipeFailed keeps the invariant.                               *)
LEMMA PipeFailedInv == ASSUME IInv, PipeFailed PROVE IInv'
<1>1. /\ Running("pipe") /\ Top.id \in Born /\ Good(Born, Below)
      /\ Top.pc \in Callers /\ Fits(Top, Below) /\ Top.op = "pipe"
      /\ Below # <<>> => Head(Below).op # "pipe"
  BY PipeTop DEF PipeFailed, AtStage
<1>2. UNCHANGED <<retired, owner, detached, started, hops, qvars, fetchOf,
                  verdict, blocking, cvars, mailbox>>
  BY DEF PipeFailed
<1>3. CASE Top.pc \in {Submitter, Resumer}
  <2>1. /\ UNCHANGED <<events, dvars, nvars, disconnected, fault>>
        /\ \/ abort(Top.id, Below)
           \/ /\ stack' = Below
              /\ UNCHANGED <<state, outcome, settled, notified, open, waiters>>
    <3>1. Top.pc # Ticker /\ Top.pc # Redirect
      BY <1>3 DEF Submitter, Ticker, Redirect, Resumer
    <3> QED BY <1>3, <3>1, Zenon DEF PipeFailed
  <2>2. UNCHANGED <<retired, owner, detached, idle, fault>>
    BY <1>2, <2>1 DEF idle, evars, mvars
  <2>3. CASE abort(Top.id, Below)
    BY <1>1, <2>2, <2>3, Aborted
  <2>4. CASE /\ stack' = Below
             /\ UNCHANGED <<state, outcome, settled, notified, open, waiters>>
    <3>1. UNCHANGED <<lvars, cbvars, idle, open, waiters>> /\ Faults'
      BY <2>2, <2>4, FaultTyped DEF lvars, cbvars
    <3> QED BY <1>1, <2>4, <3>1, StackOnly
  <2> QED BY <2>1, <2>3, <2>4
<1>4. CASE Top.pc = Ticker
  <2>1. /\ FailTick(Below)
        /\ UNCHANGED <<outcome, settled, notified, open, waiters, nvars>>
        /\ \/ scheduleDispatch(Top.id, "created", <<"err">>, {})
           \/ UNCHANGED <<state, events, dvars, fault>>
    BY <1>4 DEF PipeFailed, Submitter, Ticker, Redirect, Resumer
  <2>2. UNCHANGED <<retired, owner, outcome, settled, notified, detached,
                    started, hops, pending, delayed, delayedCount, conns, free,
                    open, waiters, fetchOf, verdict, blocking, held,
                    intercepted, mailbox>>
    BY <1>2, <2>1 DEF qvars, nvars, cvars
  <2>3. Below # <<>> /\ Head(Below).op = "tick"
    BY <1>1, <1>4 DEF Fits
  <2>4. Good(Born, stack') /\ disconnected' \in BOOLEAN
    BY <1>1, <2>1, <2>3, TickFails, BornIds DEF FailTick, IInv, Data, Peer
  <2>5. Born' = Born /\ Life' /\ OwnerLinks' /\ Dispatcher' /\ Faults' /\ Buffered'
    <3>1. CASE scheduleDispatch(Top.id, "created", <<"err">>, {})
      <4>1. {} \in SUBSET {"unpark"}
        OBVIOUS
      <4> QED BY <1>1, <2>2, <3>1, <4>1, Scheduled, EventLists
    <3>2. CASE UNCHANGED <<state, events, dvars, fault>>
      BY <2>2, <3>2, SameState, Keep DEF dvars
    <3> QED BY <2>1, <3>1, <3>2
  <2>6. Calling' /\ Peer'
    BY <2>2, <2>4, <2>5 DEF Calling, IInv, Data, Peer
  <2> QED BY <2>2, <2>5, <2>6, Keep DEF IInv, Data
<1>5. CASE Top.pc = Redirect
  <2>1. /\ stack' = Below /\ removeConn(Top.id)
        /\ scheduleDispatch(Top.id, state[Top.id], <<"err">>, {})
        /\ UNCHANGED <<outcome, settled, notified, open, waiters, disconnected>>
    BY <1>5 DEF PipeFailed, Submitter, Ticker, Redirect, Resumer
  <2>2. UNCHANGED <<retired, owner, outcome, settled, notified, detached,
                    started, hops, pending, delayed, delayedCount, open,
                    waiters, fetchOf, verdict, blocking, held, intercepted,
                    mailbox, disconnected>>
    BY <1>2, <2>1 DEF qvars, cvars
  <2>3. Born' = Born /\ Life' /\ OwnerLinks' /\ Dispatcher' /\ Faults' /\ Buffered'
    <3>1. {} \in SUBSET {"unpark"}
      OBVIOUS
    <3> QED BY <1>1, <2>1, <2>2, <3>1, Scheduled, EventLists
  <2>4. Network' /\ Calling'
    BY <1>1, <2>1, <2>3 DEF removeConn, Calling, IInv, Data, Network
  <2> QED BY <2>2, <2>3, <2>4, Keep DEF IInv, Data
<1> QED BY <1>1, <1>3, <1>4, <1>5 DEF Callers

(* The step FlushOne keeps the invariant.                                 *)
LEMMA FlushOneInv == ASSUME IInv, FlushOne PROVE IInv'
<1> DEFINE w == Head(Top.todo)
           g == [Top EXCEPT !.todo = Tail(@)]
           rest == <<g>> \o Below
<1>1. Top \in KnownFrames(Born) /\ Top.op = "flush" /\ Good(Born, Below) /\ Fits(Top, Below)
  BY OnTop DEF FlushOne
<1>2. Top.todo \in Seq(Born) /\ Top.todo # <<>> /\ Top.todo \in Seq(Ids)
  BY <1>1 DEF KnownFrames, FlushOne, Frames
<1>3. w \in Born /\ Tail(Top.todo) \in Seq(Born) /\ Tail(Top.todo) \in Seq(Ids)
  BY <1>2
<1>4. g \in KnownFrames(Born) /\ g.op = "flush"
  BY <1>1, <1>3 DEF KnownFrames, Frames
<1>5. /\ UNCHANGED <<retired, owner, cbvars, started, hops, qvars, nvars, gvars,
                     blocking, cvars, mvars>>
      /\ \/ /\ state' = [state EXCEPT ![w] = "created"]
            /\ \E stage \in {"throttle", "after_cors"} :
                  stack' = <<Pipe(w, stage, Resumer)>> \o rest
            /\ fault' = fault \cup NotParked(w)
            /\ UNCHANGED <<events, dvars>>
         \/ /\ scheduleDispatch(w, "created", <<"err">>, NotParked(w))
            /\ stack' = rest
  BY DEF FlushOne
<1>6. NotParked(w) \in SUBSET {"unpark"}
  BY DEF NotParked, Broken
<1> HIDE DEF w, g
<1>7. Fits(g, Below)
  BY <1>1, <1>4 DEF Fits
<1>8. Good(Born, rest) /\ rest # <<>> /\ Head(rest).op = "flush"
  BY <1>1, <1>4, <1>7, Push
<1> HIDE DEF rest
<1>9. UNCHANGED <<retired, owner, outcome, settled, notified, detached, started,
                  hops, pending, delayed, delayedCount, conns, free, open,
                  waiters, fetchOf, verdict, blocking, held, intercepted,
                  mailbox, disconnected>>
  BY <1>5 DEF cbvars, qvars, nvars, gvars, cvars, mvars
<1>10. CASE /\ state' = [state EXCEPT ![w] = "created"]
            /\ \E stage \in {"throttle", "after_cors"} :
                  stack' = <<Pipe(w, stage, Resumer)>> \o rest
            /\ fault' = fault \cup NotParked(w)
            /\ UNCHANGED <<events, dvars>>
  <2>1. "created" \in States \ {"none"} /\ {"throttle", "after_cors"} \subseteq Stages
        /\ Resumer \in Callers /\ Resumer # Ticker
    BY DEF States, Stages, Callers, Resumer, Ticker
  <2>2. Born' = Born /\ Life' /\ OwnerLinks'
    BY <1>3, <1>9, <1>10, <2>1, MoveState
  <2>3. Good(Born, stack')
    BY <1>3, <1>8, <1>10, <2>1, PushPipe, BornIds
  <2>4. Calling' /\ Faults'
    BY <1>6, <1>10, <2>2, <2>3 DEF Calling, IInv, Data, Faults
  <2> QED BY <1>9, <1>10, <2>2, <2>4, Keep DEF IInv, Data, dvars
<1>11. CASE /\ scheduleDispatch(w, "created", <<"err">>, NotParked(w))
            /\ stack' = rest
  <2>1. Born' = Born /\ Life' /\ OwnerLinks' /\ Dispatcher' /\ Faults' /\ Buffered'
    BY <1>3, <1>6, <1>9, <1>11, Scheduled, EventLists
  <2>2. Calling'
    BY <1>8, <1>11, <2>1 DEF Calling
  <2> QED BY <1>9, <2>1, <2>2, Keep DEF IInv, Data
<1> QED BY <1>5, <1>10, <1>11

(* A tick that moves to its next step keeps the invariant.                *)
LEMMA Ticked ==
  ASSUME IInv, Running("tick"), NextStep
  PROVE  Good(Born, stack')
<1>1. /\ Top \in KnownFrames(Born) /\ Top.op = "tick" /\ Good(Born, Below)
      /\ Fits(Top, Below)
  BY OnTop
<1> DEFINE f == [Top EXCEPT !.pc = @ + 1]
<1>2. f \in KnownFrames(Born) /\ f.op = "tick" /\ f.how = Top.how
  <2>1. Top \in Frames /\ Top.pc \in Nat
    BY <1>1 DEF KnownFrames, Frames
  <2>2. f \in Frames /\ f.op = "tick" /\ f.how = Top.how /\ f.id = Top.id
        /\ f.todo = Top.todo /\ f.old = Top.old
    BY <1>1, <2>1 DEF Frames
  <2> HIDE DEF f
  <2> QED BY <1>1, <2>2 DEF KnownFrames, TransferOps
<1>3. stack' = Below \/ stack' = <<f>> \o Below
  BY Zenon DEF NextStep
<1> HIDE DEF f
<1>4. Fits(f, Below)
  BY <1>1, <1>2 DEF Fits
<1>5. Good(Born, <<f>> \o Below)
  BY <1>1, <1>2, <1>4, Push
<1> QED BY <1>1, <1>3, <1>5

(* Taking a delivery off the gated queue leaves queues of transfers.      *)
LEMMA Ungated ==
  ASSUME NEW S, NEW d \in Seq(S), NEW g \in Seq(S), NEW i \in DOMAIN g
  PROVE  <<g[i]>> \o d \in Seq(S) /\ RemoveAt(g, i) \in Seq(S)
<1>1. g[i] \in S /\ RemoveAt(g, i) \in Seq(S)
  BY DEF RemoveAt
<1> QED BY <1>1

(* A step that only moves deliveries between queues keeps the invariant.  *)
LEMMA DispatchOnly ==
  ASSUME IInv, \/ UNCHANGED <<dispatch, gated>>
               \/ \E i \in DOMAIN gated : /\ dispatch' = <<gated[i]>> \o dispatch
                                          /\ gated' = RemoveAt(gated, i),
         Good(Born, stack'),
         UNCHANGED <<lvars, cbvars, evars, qvars, dispatchCount, nvars, gvars,
                     blocking, cvars, mvars, fault>>
  PROVE  IInv'
<1>1. UNCHANGED <<state, retired, owner, outcome, settled, notified, detached,
                  events, started, hops, pending, delayed, delayedCount,
                  dispatchCount, conns, free, open, waiters, fetchOf, verdict,
                  blocking, held, intercepted, mailbox, disconnected, fault>>
  BY DEF lvars, cbvars, evars, qvars, nvars, gvars, cvars, mvars
<1>2. Born' = Born /\ Life' /\ OwnerLinks'
  BY <1>1, SameState
<1>3. dispatch \in Seq(Born) /\ gated \in Seq(Born) /\ dispatchCount \in Int
  BY DEF IInv, Data, Dispatcher
<1>4. dispatch' \in Seq(Born) /\ gated' \in Seq(Born)
  BY <1>3, Ungated
<1>5. Dispatcher' /\ Calling'
  BY <1>1, <1>2, <1>3, <1>4 DEF Dispatcher, Calling
<1> QED BY <1>1, <1>2, <1>5, Keep DEF IInv, Data

(* The step TickUngate keeps the invariant.                               *)
LEMMA TickUngateInv == ASSUME IInv, TickUngate PROVE IInv'
<1>1. \/ /\ UNCHANGED stack
         /\ \E i \in DOMAIN gated : /\ dispatch' = <<gated[i]>> \o dispatch
                                    /\ gated' = RemoveAt(gated, i)
      \/ NextStep /\ UNCHANGED <<dispatch, gated>>
  BY DEF TickUngate, UngateLast
<1>2. Running("tick") /\ Good(Born, stack)
  BY OnTop DEF TickUngate, At
<1>3. Good(Born, stack')
  BY <1>1, <1>2, Ticked
<1>4. UNCHANGED <<lvars, cbvars, evars, qvars, dispatchCount, nvars, gvars,
                  blocking, cvars, mvars, fault>>
  BY DEF TickUngate
<1> QED BY <1>1, <1>3, <1>4, DispatchOnly

(* The step ReleaseOne keeps the invariant.                               *)
LEMMA ReleaseOneInv == ASSUME IInv, ReleaseOne PROVE IInv'
<1>1. \/ /\ UNCHANGED stack
         /\ \E i \in DOMAIN gated : /\ dispatch' = <<gated[i]>> \o dispatch
                                    /\ gated' = RemoveAt(gated, i)
      \/ stack' = Below /\ UNCHANGED <<dispatch, gated>>
  BY DEF ReleaseOne, UngateLast
<1>2. Good(Born, stack) /\ Good(Born, Below)
  BY OnTop DEF ReleaseOne
<1>3. UNCHANGED <<lvars, cbvars, evars, qvars, dispatchCount, nvars, gvars,
                  blocking, cvars, mvars, fault>>
  BY DEF ReleaseOne
<1> QED BY <1>1, <1>2, <1>3, DispatchOnly

(* A tick that ends a phase keeps the invariant.                          *)
LEMMA TickMoves == ASSUME IInv, TickDispatchEnd \/ TickStep PROVE IInv'
<1>1. Running("tick") /\ NextStep
  BY DEF TickDispatchEnd, TickStep, At
<1>2. Good(Born, stack')
  BY <1>1, Ticked
<1> QED BY <1>2, FaultTyped, StackOnly DEF TickDispatchEnd, TickStep

(* The step TickDispatch keeps the invariant.                             *)
LEMMA TickDispatchInv == ASSUME IInv, TickDispatch PROVE IInv'
<1> DEFINE t == Head(dispatch)
<1>1. Data /\ Running("tick") /\ dispatch # <<>>
  BY DEF IInv, TickDispatch, At
<1>2. /\ t \in Born /\ Tail(dispatch) \in Seq(Born) /\ gated \in Seq(Born)
      /\ dispatchCount \in Int /\ Good(Born, stack)
  BY <1>1, OnTop DEF Data, Dispatcher
<1>3. /\ dispatch' = Tail(dispatch)
      /\ UNCHANGED <<retired, owner, outcome, settled, notified, detached,
                     events, started, hops, pending, delayed, delayedCount,
                     conns, free, open, waiters, fetchOf, verdict, blocking,
                     held, intercepted, mailbox, disconnected, fault>>
  BY DEF TickDispatch, cbvars, evars, qvars, nvars, gvars, cvars, mvars
<1>4. \/ /\ gated' = Append(gated, t)
         /\ UNCHANGED <<state, dispatchCount, stack>>
      \/ /\ dispatchCount' = dispatchCount - 1
         /\ state' = [state EXCEPT ![t] = "delivering"]
         /\ \E m \in {"batch", "last"} : stack' = <<Deliver(t, m)>> \o stack
         /\ UNCHANGED gated
  BY DEF TickDispatch
<1> HIDE DEF t
<1>5. CASE /\ gated' = Append(gated, t)
           /\ UNCHANGED <<state, dispatchCount, stack>>
  <2>1. Born' = Born /\ Life' /\ OwnerLinks'
    BY <1>3, <1>5, SameState
  <2>2. Dispatcher'
    BY <1>2, <1>3, <1>5, <2>1 DEF Dispatcher
  <2> QED BY <1>3, <1>5, <2>1, <2>2, Keep DEF IInv, Data
<1>6. CASE /\ dispatchCount' = dispatchCount - 1
           /\ state' = [state EXCEPT ![t] = "delivering"]
           /\ \E m \in {"batch", "last"} : stack' = <<Deliver(t, m)>> \o stack
           /\ UNCHANGED gated
  <2>1. "delivering" \in States \ {"none"}
    BY DEF States
  <2>2. Born' = Born /\ Life' /\ OwnerLinks'
    BY <1>2, <1>3, <1>6, <2>1, MoveState
  <2>3. Dispatcher'
    BY <1>2, <1>3, <1>6, <2>2 DEF Dispatcher
  <2>4. PICK m \in {"batch", "last"} : stack' = <<Deliver(t, m)>> \o stack
    BY <1>6
  <2>5. m \in Variants
    BY DEF Variants
  <2>6. Deliver(t, m) \in KnownFrames(Born) /\ Deliver(t, m).op = "deliver"
    BY <1>2, <2>5, MadeCall
  <2>7. Calling'
    BY <1>1, <2>2, <2>4, <2>6, Called DEF Calling
  <2> QED BY <1>3, <2>2, <2>3, <2>7, Keep DEF IInv, Data
<1> QED BY <1>4, <1>5, <1>6

(* A start by a tick pushes a pipeline that fits on that tick.            *)
LEMMA StartsOnTick ==
  ASSUME IInv, Running("tick"), NEW t \in Born, UNCHANGED <<retired, owner, cbvars>>,
         state' = [state EXCEPT ![t] = "created"],
         stack' = <<Pipe(t, "network", Ticker)>> \o stack
  PROVE  Born' = Born /\ Life' /\ OwnerLinks' /\ Calling'
<1>1. "created" \in States \ {"none"} /\ "network" \in Stages /\ Ticker \in Callers
  BY DEF States, Stages, Callers
<1>2. Born' = Born /\ Life' /\ OwnerLinks'
  BY <1>1, MoveState DEF cbvars
<1>3. Good(Born, stack) /\ stack # <<>> /\ Head(stack).op = "tick"
  BY OnTop DEF Running
<1>4. Good(Born, stack')
  BY <1>1, <1>3, PushPipe, BornIds
<1> QED BY <1>2, <1>4 DEF Calling

(* The step TickDelayed keeps the invariant.                              *)
LEMMA TickDelayedInv == ASSUME IInv, TickDelayed PROVE IInv'
<1>1. Data /\ Running("tick") /\ delayed # <<>>
  BY DEF IInv, TickDelayed, At
<1>2. /\ Head(delayed) \in Born /\ Tail(delayed) \in Seq(Born)
      /\ pending \in Seq(Born) /\ delayedCount \in Int
  BY <1>1 DEF Data, Waits
<1>3. /\ delayed' = Tail(delayed) /\ delayedCount' = delayedCount - 1
      /\ state' = [state EXCEPT ![Head(delayed)] = "created"]
      /\ stack' = <<Pipe(Head(delayed), "network", Ticker)>> \o stack
      /\ UNCHANGED <<retired, owner, cbvars, outcome, settled, notified,
                     detached, events, started, hops, pending, dispatch, gated,
                     dispatchCount, conns, free, open, waiters, fetchOf,
                     verdict, blocking, held, intercepted, mailbox,
                     disconnected, fault>>
  BY DEF TickDelayed, cbvars, evars, dvars, nvars, gvars, cvars, mvars
<1>4. Born' = Born /\ Life' /\ OwnerLinks' /\ Calling'
  BY <1>1, <1>2, <1>3, StartsOnTick
<1>5. Waits'
  BY <1>2, <1>3, <1>4 DEF Waits
<1> QED BY <1>3, <1>4, <1>5, Keep DEF IInv, Data

(* The step TickPending keeps the invariant.                              *)
LEMMA TickPendingInv == ASSUME IInv, TickPending PROVE IInv'
<1>1. Data /\ Running("tick") /\ pending # <<>>
  BY DEF IInv, TickPending, At
<1>2. /\ Head(pending) \in Born /\ Tail(pending) \in Seq(Born)
      /\ delayed \in Seq(Born) /\ delayedCount \in Int
  BY <1>1 DEF Data, Waits
<1>3. /\ pending' = Tail(pending)
      /\ state' = [state EXCEPT ![Head(pending)] = "created"]
      /\ stack' = <<Pipe(Head(pending), "network", Ticker)>> \o stack
      /\ UNCHANGED <<retired, owner, cbvars, outcome, settled, notified,
                     detached, events, started, hops, delayed, delayedCount,
                     dispatch, gated, dispatchCount, conns, free, open,
                     waiters, fetchOf, verdict, blocking, held, intercepted,
                     mailbox, disconnected, fault>>
  BY DEF TickPending, cbvars, evars, dvars, nvars, gvars, cvars, mvars
<1>4. Born' = Born /\ Life' /\ OwnerLinks' /\ Calling'
  BY <1>1, <1>2, <1>3, StartsOnTick
<1>5. Waits'
  BY <1>2, <1>3, <1>4 DEF Waits
<1> QED BY <1>3, <1>4, <1>5, Keep DEF IInv, Data

(* The step DrainTeardown keeps the invariant.                            *)
LEMMA DrainTeardownInv == ASSUME IInv, DrainTeardown PROVE IInv'
<1>1. Running("tick") /\ Top.op = "tick" /\ Good(Born, stack) /\ stack # <<>>
      /\ Top = Head(stack) /\ Below = Tail(stack)
  BY OnTop DEF DrainTeardown, At, Top, Below
<1>2. /\ mailbox' = None
      /\ UNCHANGED <<state, retired, owner, outcome, settled, notified,
                     detached, events, started, hops, pending, delayed,
                     delayedCount, dispatch, gated, dispatchCount, conns, free,
                     open, waiters, fetchOf, verdict, blocking, held,
                     intercepted, fault>>
  BY DEF DrainTeardown, lvars, cbvars, evars, qvars, dvars, nvars, gvars, cvars
<1>3. \/ /\ stack' = <<Kill("page")>> \o stack
         /\ UNCHANGED disconnected
      \/ /\ disconnected' = TRUE
         /\ SyncWait
         /\ stack' = <<[Head(Below) EXCEPT !.how = "err"]>> \o Tail(Below)
      \/ /\ disconnected' = TRUE
         /\ stack' = Below
  BY Zenon DEF DrainTeardown
<1>4. Good(Born, stack')
  <2>1. Kill("page") \in KnownFrames(Born) /\ Kill("page").op = "kill"
    BY MadeOther
  <2>2. Good(Born, <<Kill("page")>> \o stack)
    BY <1>1, <2>1, Called
  <2>3. SyncWait => Good(Born, <<[Head(Below) EXCEPT !.how = "err"]>> \o Tail(Below))
    BY <1>1, TickFails, BornIds DEF SyncWait
  <2>4. Good(Born, Below)
    BY <1>1, TickFails, BornIds
  <2> QED BY <1>3, <2>2, <2>3, <2>4
<1>5. Peer'
  BY <1>2, <1>3 DEF IInv, Data, Peer
<1>6. Born' = Born /\ Life' /\ OwnerLinks'
  BY <1>2, SameState
<1>7. Calling'
  BY <1>4, <1>6 DEF Calling
<1> QED BY <1>2, <1>5, <1>6, <1>7, Keep DEF IInv, Data

(* The step StreamChunk keeps the invariant.                              *)
LEMMA StreamChunkInv == ASSUME IInv, NEW t \in Ids, StreamChunk(t) PROVE IInv'
<1>1. Data /\ t \in Born
  BY DEF IInv, StreamChunk, Born
<1>2. /\ started' = started \cup {t}
      /\ events' = [events EXCEPT ![t] = Append(@, "data")]
      /\ UNCHANGED <<state, retired, owner, outcome, settled, notified,
                     detached, hops, pending, delayed, delayedCount, gated,
                     conns, free, open, waiters, fetchOf, verdict, blocking,
                     held, intercepted, mailbox, disconnected, fault, stack>>
  BY DEF StreamChunk, lvars, cbvars, qvars, nvars, gvars, cvars, mvars
<1>3. \/ /\ dispatch' = Append(dispatch, t)
         /\ dispatchCount' = dispatchCount + 1
      \/ UNCHANGED <<dispatch, dispatchCount>>
  BY Zenon DEF StreamChunk
<1>4. Born' = Born /\ Life' /\ OwnerLinks'
  BY <1>2, SameState
<1>5. Dispatcher'
  <2>1. /\ Append(dispatch, t) \in Seq(Born) /\ dispatch \in Seq(Born)
        /\ gated \in Seq(Born) /\ dispatchCount \in Int
    BY <1>1 DEF Data, Dispatcher
  <2>2. dispatch' \in Seq(Born)
    BY <1>3, <2>1
  <2>3. dispatchCount' \in Int
    BY <1>3, <2>1
  <2> QED BY <1>2, <1>4, <2>1, <2>2, <2>3 DEF Dispatcher
<1>6. Buffered'
  <2>1. Append(events[t], "data") \in Seq({"data", "done", "err"})
    BY <1>1 DEF Data, Buffered
  <2> QED BY <1>1, <1>2, <2>1 DEF Data, Buffered
<1> QED BY <1>2, <1>4, <1>5, <1>6, Keep DEF IInv, Data

(* The step ProcessResponse keeps the invariant.                          *)
LEMMA ProcessResponseInv == ASSUME IInv, NEW t \in Ids, ProcessResponse(t) PROVE IInv'
<1>1. Data /\ t \in Born
  BY DEF IInv, ProcessResponse, Answered, Data, Network
<1>2. removeConn(t)
  BY DEF ProcessResponse
<1>3. PICK evs \in EventSeqs : scheduleDispatch(t, state[t], evs, {})
  BY EventLists DEF ProcessResponse
<1>4. UNCHANGED <<retired, owner, outcome, settled, notified, detached, started,
                  hops, pending, delayed, delayedCount, open, waiters, fetchOf,
                  verdict, blocking, held, intercepted, mailbox, disconnected,
                  stack>>
  BY DEF ProcessResponse, cbvars, qvars, gvars, cvars, mvars
<1>5. Born' = Born /\ Life' /\ OwnerLinks' /\ Dispatcher' /\ Faults' /\ Buffered'
  <2>1. {} \in SUBSET {"unpark"}
    OBVIOUS
  <2> QED BY <1>1, <1>3, <1>4, <2>1, Scheduled
<1>6. Network'
  BY <1>1, <1>2, <1>5 DEF removeConn, Data, Network
<1> QED BY <1>4, <1>5, <1>6, Keep DEF IInv, Data

(* A further hop of a redirect or an authentication restarts the pipeline. *)
LEMMA HopTaken ==
  ASSUME IInv, NEW t \in Born, hops[t] < MaxHops, removeConn(t),
         hops' = [hops EXCEPT ![t] = @ + 1], NEW v \in States \ {"none"},
         state' = [state EXCEPT ![t] = v],
         UNCHANGED <<retired, owner, cbvars, events, started>>
  PROVE  Born' = Born /\ Life' /\ OwnerLinks' /\ Network' /\ Buffered'
<1>1. Data /\ t \in Ids
  BY BornIds DEF IInv
<1>2. Born' = Born /\ Life' /\ OwnerLinks'
  BY MoveState DEF cbvars
<1>3. Network'
  BY <1>1, <1>2 DEF removeConn, Data, Network
<1>4. hops[t] + 1 \in 0..MaxHops
  BY <1>1, Constants DEF Data, Buffered
<1>5. Buffered'
  BY <1>1, <1>4 DEF Data, Buffered
<1> QED BY <1>2, <1>3, <1>5

(* The step ProcessRedirect keeps the invariant.                          *)
LEMMA ProcessRedirectInv == ASSUME IInv, NEW t \in Ids, ProcessRedirect(t) PROVE IInv'
<1>1. Data /\ t \in Born /\ Running("tick")
  BY DEF IInv, ProcessRedirect, Answered, Data, Network, At
<1>2. /\ hops[t] < MaxHops /\ removeConn(t)
      /\ hops' = [hops EXCEPT ![t] = @ + 1]
      /\ state' = [state EXCEPT ![t] = "created"]
      /\ stack' = <<Pipe(t, "start", Redirect)>> \o stack
      /\ UNCHANGED <<retired, owner, cbvars, outcome, settled, notified,
                     detached, events, started, pending, delayed, delayedCount,
                     dispatch, gated, dispatchCount, open, waiters, fetchOf,
                     verdict, blocking, held, intercepted, mailbox,
                     disconnected, fault>>
  BY DEF ProcessRedirect, cbvars, qvars, dvars, gvars, cvars, mvars
<1>3. "created" \in States \ {"none"} /\ "start" \in Stages /\ Redirect \in Callers
      /\ Redirect # Ticker
  BY DEF States, Stages, Callers, Redirect, Ticker
<1>4. Born' = Born /\ Life' /\ OwnerLinks' /\ Network' /\ Buffered'
  BY <1>1, <1>2, <1>3, HopTaken
<1>5. Good(Born, stack')
  <2>1. Good(Born, stack) /\ (stack # <<>> => Head(stack).op # "pipe")
    BY <1>1, OnTop DEF Running
  <2> QED BY <1>1, <1>2, <1>3, <2>1, PushPipe, BornIds
<1>6. Calling'
  BY <1>4, <1>5 DEF Calling
<1> QED BY <1>2, <1>4, <1>6, Keep DEF IInv, Data

(* The step ProcessAuth keeps the invariant.                              *)
LEMMA ProcessAuthInv == ASSUME IInv, NEW t \in Ids, ProcessAuth(t) PROVE IInv'
<1>1. Data /\ t \in Born
  BY DEF IInv, ProcessAuth, Answered, Data, Network
<1>2. /\ hops[t] < MaxHops /\ removeConn(t)
      /\ hops' = [hops EXCEPT ![t] = @ + 1]
      /\ state' = [state EXCEPT ![t] = "parked_auth"]
      /\ intercepted' = intercepted + 1 /\ held' = held \cup {t}
      /\ UNCHANGED <<retired, owner, cbvars, outcome, settled, notified,
                     detached, events, started, pending, delayed, delayedCount,
                     dispatch, gated, dispatchCount, open, waiters, fetchOf,
                     verdict, blocking, mailbox, disconnected, fault, stack>>
  BY DEF ProcessAuth, cbvars, qvars, dvars, gvars, mvars
<1>3. "parked_auth" \in States \ {"none"}
  BY DEF States, Parked
<1>4. Born' = Born /\ Life' /\ OwnerLinks' /\ Network' /\ Buffered'
  BY <1>1, <1>2, <1>3, HopTaken
<1>5. Cdp'
  BY <1>1, <1>2, <1>4 DEF Data, Cdp
<1> QED BY <1>2, <1>4, <1>5, Keep DEF IInv, Data

(* An answer to an intercepted request unparks it and leaves the rest     *)
(* typed.                                                                 *)
LEMMA AnswerTyped ==
  ASSUME IInv, NEW t, held' = held \ {t},
         UNCHANGED intercepted \/ leaveIntercept(state[t]), Born' = Born
  PROVE  Cdp'
BY DEF IInv, Data, Cdp, leaveIntercept

(* The step AnswerResume keeps the invariant.                             *)
LEMMA AnswerResumeInv == ASSUME IInv, NEW t \in Ids, AnswerResume(t) PROVE IInv'
<1>1. Data /\ t \in Born /\ Running("tick")
  BY LiveBorn DEF IInv, AnswerResume, Answers, At
<1>2. /\ held' = held \ {t} /\ leaveIntercept(state[t])
      /\ state' = [state EXCEPT ![t] = "created"]
      /\ fault' = fault \cup NotParked(t)
      /\ UNCHANGED <<retired, owner, outcome, settled, notified, detached,
                     events, started, pending, delayed, delayedCount, dispatch,
                     gated, dispatchCount, conns, free, open, waiters, fetchOf,
                     verdict, blocking, mailbox, disconnected>>
  BY DEF AnswerResume, Answers, Unpark, cbvars, qvars, dvars, nvars, gvars, mvars
<1>3. /\ \E stage \in {"after_intercept", "network", "failed"} :
           stack' = <<Pipe(t, stage, Resumer)>> \o stack
      /\ \/ UNCHANGED hops
         \/ hops' = [hops EXCEPT ![t] = IF @ < MaxHops THEN @ + 1 ELSE @]
  BY DEF AnswerResume
<1>4. /\ "created" \in States \ {"none"} /\ Resumer \in Callers /\ Resumer # Ticker
      /\ {"after_intercept", "network", "failed"} \subseteq Stages
  BY DEF States, Stages, Callers, Resumer, Ticker
<1>5. Born' = Born /\ Life' /\ OwnerLinks'
  BY <1>1, <1>2, <1>4, MoveState
<1>6. Good(Born, stack')
  <2>1. Good(Born, stack) /\ (stack # <<>> => Head(stack).op # "pipe")
    BY <1>1, OnTop DEF Running
  <2> QED BY <1>1, <1>3, <1>4, <2>1, PushPipe, BornIds
<1>7. Calling' /\ Faults'
  BY <1>1, <1>2, <1>5, <1>6 DEF Calling, Data, Faults, NotParked, Broken
<1>8. Buffered'
  <2>1. hops[t] \in 0..MaxHops /\ MaxHops \in Nat
    BY <1>1, Constants DEF Data, Buffered
  <2>2. (IF hops[t] < MaxHops THEN hops[t] + 1 ELSE hops[t]) \in 0..MaxHops
    BY <2>1
  <2> QED BY <1>1, <1>2, <1>3, <2>2 DEF Data, Buffered
<1>9. Cdp'
  BY <1>2, <1>5, AnswerTyped
<1> QED BY <1>2, <1>5, <1>7, <1>8, <1>9, Keep DEF IInv, Data

(* A buffered answer is scheduled as a delivery.                          *)
LEMMA AnswerBuffered ==
  ASSUME IInv, NEW t \in Born, held' = held \ {t}, leaveIntercept(state[t]),
         NEW evs \in EventSeqs, scheduleDispatch(t, "created", evs, NotParked(t)),
         UNCHANGED <<retired, owner, cbvars, started, hops, qvars, nvars, gvars,
                     blocking, mvars, stack>>
  PROVE  IInv'
<1>1. UNCHANGED <<retired, owner, outcome, settled, notified, detached, started,
                  hops, pending, delayed, delayedCount, conns, free, open,
                  waiters, fetchOf, verdict, blocking, mailbox, disconnected,
                  stack>>
  BY DEF cbvars, qvars, nvars, gvars, mvars
<1>2. NotParked(t) \in SUBSET {"unpark"}
  BY DEF NotParked, Broken
<1>3. Born' = Born /\ Life' /\ OwnerLinks' /\ Dispatcher' /\ Faults' /\ Buffered'
  BY <1>1, <1>2, Scheduled
<1>4. Cdp'
  BY <1>3, AnswerTyped
<1> QED BY <1>1, <1>3, <1>4, Keep DEF IInv, Data

(* The step AnswerBuffer keeps the invariant.                             *)
LEMMA AnswerBufferInv == ASSUME IInv, NEW t \in Ids, AnswerBuffer(t) PROVE IInv'
<1>1. t \in Born /\ held' = held \ {t} /\ leaveIntercept(state[t])
  BY LiveBorn DEF AnswerBuffer, Answers
<1>2. PICK evs \in EventSeqs : scheduleDispatch(t, "created", evs, NotParked(t))
  BY EventLists DEF AnswerBuffer
<1> QED BY <1>1, <1>2, AnswerBuffered DEF AnswerBuffer

(* A step that only changes the intercept table keeps the invariant.      *)
LEMMA HeldOnly ==
  ASSUME IInv, NEW t \in Ids, held' = held \ {t},
         UNCHANGED <<lvars, cbvars, evars, qvars, dvars, nvars, gvars, blocking,
                     intercepted, mvars, fault, stack>>
  PROVE  IInv'
<1>1. UNCHANGED <<state, retired, owner, outcome, settled, notified, detached,
                  events, started, hops, pending, delayed, delayedCount,
                  dispatch, gated, dispatchCount, conns, free, open, waiters,
                  fetchOf, verdict, blocking, intercepted, mailbox,
                  disconnected, fault, stack>>
  BY DEF lvars, cbvars, evars, qvars, dvars, nvars, gvars, mvars
<1>2. Born' = Born /\ Life' /\ OwnerLinks'
  BY <1>1, SameState
<1>3. Cdp'
  BY <1>1, <1>2, AnswerTyped
<1> QED BY <1>1, <1>2, <1>3, Keep DEF IInv, Data

(* The step AnswerNothing keeps the invariant.                            *)
LEMMA AnswerNothingInv == ASSUME IInv, NEW t \in Ids, AnswerNothing(t) PROVE IInv'
BY HeldOnly DEF AnswerNothing, Answers

(* The step AbortHeld keeps the invariant.                                *)
LEMMA AbortHeldInv == ASSUME IInv, NEW t \in Ids, AbortHeld(t) PROVE IInv'
<1>1. CASE t \in Live
  <2>1. t \in Born /\ held' = held \ {t} /\ leaveIntercept(state[t])
    BY <1>1, LiveBorn DEF AbortHeld
  <2>2. scheduleDispatch(t, "created", <<"err">>, NotParked(t))
    BY <1>1 DEF AbortHeld
  <2> QED BY <2>1, <2>2, EventLists, AnswerBuffered DEF AbortHeld
<1>2. CASE t \notin Live
  <2>1. UNCHANGED <<lvars, cbvars, evars, qvars, dvars, nvars, gvars, blocking,
                    intercepted, mvars, fault, stack>>
    BY <1>2 DEF AbortHeld, lvars, evars
  <2> QED BY <2>1, HeldOnly DEF AbortHeld
<1> QED BY <1>1, <1>2

(* A running delivery lies on a good stack and its transfer is known.     *)
LEMMA DeliverTop ==
  ASSUME IInv, Running("deliver")
  PROVE  /\ Top.id \in Born /\ Top \in KnownFrames(Born) /\ Top.op = "deliver"
         /\ Good(Born, stack) /\ stack # <<>> /\ Head(stack).op = "deliver"
         /\ Good(Born, Below)
         /\ Below # <<>> => Head(Below).op # "pipe"
<1>1. /\ Top \in KnownFrames(Born) /\ Top.op = "deliver" /\ Good(Born, stack)
      /\ stack # <<>> /\ Good(Born, Below) /\ Fits(Top, Below)
  BY OnTop
<1> QED BY <1>1 DEF KnownFrames, TransferOps, Fits, Running

(* The end of a delivery may be pushed where the delivery was.            *)
LEMMA FinishNext ==
  ASSUME IInv, NEW t \in Born, NEW s, Good(Born, s), s # <<>> => Head(s).op # "pipe"
  PROVE  LET b == <<Finish(t)>> \o s
         IN  Good(Born, b) /\ b # <<>> /\ Head(b).op = "finish"
<1>1. Finish(t) \in KnownFrames(Born) /\ Finish(t).op = "finish"
  BY MadeFinish
<1>2. Fits(Finish(t), s)
  BY <1>1 DEF Fits
<1> QED BY <1>1, <1>2, Push

(* The rest of an event list is an event list.                            *)
LEMMA EventTaken ==
  ASSUME IInv, NEW ev, Delivering(ev), UNCHANGED <<started, hops>>
  PROVE  Buffered'
<1>1. Buffered /\ Top.id \in Ids
  BY DeliverTop, BornIds DEF IInv, Data, Delivering
<1>2. events[Top.id] \in Seq({"data", "done", "err"}) /\ events[Top.id] # <<>>
  BY <1>1 DEF Buffered, Delivering
<1>3. Tail(events[Top.id]) \in Seq({"data", "done", "err"})
  BY <1>2
<1> QED BY <1>1, <1>3 DEF Buffered, Delivering

(* What a consumer's callback changes is well typed.                      *)
LEMMA CallbackEffects ==
  ASSUME IInv, Good(Born, stack'), open' \subseteq Slots,
         waiters' \in [Slots -> Seq(Born)],
         outcome' \in [Ids -> Seq({"done", "err", "shutdown"})],
         settled' \subseteq Ids, notified' \subseteq Ids,
         verdict' \in [Keys -> {"unknown", "allow", "deny", "mixed"}],
         Buffered',
         UNCHANGED <<lvars, detached, qvars, dvars, nvars, fetchOf, blocking,
                     cvars, mvars, fault>>
  PROVE  IInv'
<1>1. UNCHANGED <<state, retired, owner, detached, pending, delayed,
                  delayedCount, dispatch, gated, dispatchCount, conns, free,
                  fetchOf, blocking, held, intercepted, mailbox, disconnected,
                  fault>>
  BY DEF lvars, qvars, dvars, nvars, cvars, mvars
<1>2. Born' = Born /\ Life' /\ OwnerLinks'
  BY <1>1, SameState
<1>3. Calls'
  BY <1>1, <1>2 DEF IInv, Data, Calls
<1>4. Flights'
  BY <1>1, <1>2 DEF IInv, Data, Flights
<1>5. Calling'
  BY <1>2 DEF Calling
<1> QED BY <1>1, <1>2, <1>3, <1>4, <1>5, Keep DEF IInv, Data

(* A delivery whose callback failed becomes an error delivery.            *)
LEMMA DeliveryFails ==
  ASSUME IInv, NEW t \in Born, NEW s, Good(Born, s), s # <<>> => Head(s).op # "pipe",
         NEW aborted, requestFailed(t, aborted, <<Finish(t)>> \o s), Buffered',
         UNCHANGED <<lvars, detached, qvars, dvars, nvars, fetchOf, verdict,
                     blocking, cvars, mvars, fault>>
  PROVE  IInv'
<1> DEFINE b == <<Finish(t)>> \o s
<1>1. Good(Born, b) /\ (b # <<>> => Head(b).op # "pipe")
  BY FinishNext
<1> HIDE DEF b
<1>2. requestFailed(t, aborted, b)
  BY DEF b
<1>3. /\ Good(Born, stack') /\ open' \subseteq Slots
      /\ waiters' \in [Slots -> Seq(Born)]
      /\ outcome' \in [Ids -> Seq({"done", "err", "shutdown"})]
      /\ settled' \subseteq Ids /\ notified' \subseteq Ids
  BY <1>1, <1>2, Failed
<1>4. verdict' \in [Keys -> {"unknown", "allow", "deny", "mixed"}]
  BY DEF IInv, Data, Flights
<1> QED BY <1>3, <1>4, CallbackEffects

(* The step DeliverData keeps the invariant.                              *)
LEMMA DeliverDataInv == ASSUME IInv, DeliverData PROVE IInv'
<1>1. /\ Delivering("data")
      /\ UNCHANGED <<lvars, detached, started, hops, qvars, dvars, nvars,
                     fetchOf, verdict, blocking, cvars, mvars, fault>>
  BY DEF DeliverData
<1>2. Buffered'
  BY <1>1, EventTaken
<1>3. /\ Top.id \in Born /\ Good(Born, stack) /\ stack # <<>>
      /\ Head(stack).op = "deliver" /\ Good(Born, Below)
      /\ Below # <<>> => Head(Below).op # "pipe"
  BY <1>1, DeliverTop DEF Delivering
<1>4. CASE /\ stack' = IF Top.id \in Fetches THEN stack
                       ELSE Callback(Top.id, "data", stack)
           /\ UNCHANGED <<notified, settled, outcome, open, waiters>>
  <2>1. "data" \in Variants
    BY DEF Variants
  <2>2. Good(Born, stack')
    BY <1>3, <1>4, <2>1, CalledBack
  <2>3. /\ open' \subseteq Slots /\ waiters' \in [Slots -> Seq(Born)]
        /\ outcome' \in [Ids -> Seq({"done", "err", "shutdown"})]
        /\ settled' \subseteq Ids /\ notified' \subseteq Ids
        /\ verdict' \in [Keys -> {"unknown", "allow", "deny", "mixed"}]
    BY <1>1, <1>4 DEF IInv, Data, Calls, Flights
  <2> QED BY <1>1, <1>2, <2>2, <2>3, CallbackEffects
<1>5. CASE failDelivery(Top.id, Below)
  <2>1. requestFailed(Top.id, state[Top.id] = "aborted", <<Finish(Top.id)>> \o Below)
    BY <1>5 DEF failDelivery
  <2> QED BY <1>1, <1>2, <1>3, <2>1, DeliveryFails
<1> QED BY <1>4, <1>5 DEF DeliverData

(* The step DeliverErr keeps the invariant.                               *)
LEMMA DeliverErrInv == ASSUME IInv, DeliverErr PROVE IInv'
<1>1. /\ Delivering("err")
      /\ requestFailed(Top.id, FALSE, <<Finish(Top.id)>> \o Below)
      /\ UNCHANGED <<lvars, detached, started, hops, qvars, dvars, nvars,
                     fetchOf, verdict, blocking, cvars, mvars, fault>>
  BY DEF DeliverErr
<1>2. Buffered'
  BY <1>1, EventTaken
<1>3. Top.id \in Born /\ Good(Born, Below) /\ (Below # <<>> => Head(Below).op # "pipe")
  BY <1>1, DeliverTop DEF Delivering
<1> QED BY <1>1, <1>2, <1>3, DeliveryFails

(* The step DeliverDone keeps the invariant.                              *)
LEMMA DeliverDoneInv == ASSUME IInv, DeliverDone PROVE IInv'
<1> DEFINE t == Top.id
           g == [Top EXCEPT !.how = "done"]
           ended == <<g>> \o Below
<1>1. /\ Delivering("done")
      /\ settled' = settled \cup {t}
      /\ outcome' = [outcome EXCEPT ![t] = Append(@, "done")]
      /\ UNCHANGED <<lvars, notified, detached, started, hops, qvars, dvars,
                     nvars, fetchOf, blocking, cvars, mvars, fault>>
  BY DEF DeliverDone
<1>2. Buffered'
  BY <1>1, EventTaken
<1>3. /\ t \in Born /\ Top \in KnownFrames(Born) /\ Top.op = "deliver"
      /\ Good(Born, Below) /\ (Below # <<>> => Head(Below).op # "pipe")
  BY <1>1, DeliverTop DEF Delivering
<1>4. g \in KnownFrames(Born) /\ g.op = "deliver"
  BY ZenonT(60), <1>3 DEF KnownFrames, Frames, Variants
<1>5. \/ /\ stack' = Callback(t, "done", ended)
         /\ UNCHANGED <<open, waiters, verdict>>
      \/ /\ \E how \in {"allow", "deny"} : take(t, how, ended)
         /\ UNCHANGED verdict
      \/ /\ \E v \in {"unknown", "allow", "deny", "mixed"} :
               verdict' = [verdict EXCEPT ![fetchOf[t][2]] = v]
         /\ take(t, "store", ended)
  BY Zenon DEF DeliverDone
<1> HIDE DEF t, g
<1>6. Fits(g, Below)
  BY <1>3, <1>4 DEF Fits
<1>7. Good(Born, ended) /\ ended # <<>> /\ Head(ended).op = "deliver"
  BY <1>3, <1>4, <1>6, Push
<1> HIDE DEF ended
<1>8. Good(Born, stack') /\ open' \subseteq Slots /\ waiters' \in [Slots -> Seq(Born)]
  <2>1. CASE /\ stack' = Callback(t, "done", ended)
             /\ UNCHANGED <<open, waiters, verdict>>
    <3>1. "done" \in Variants
      BY DEF Variants
    <3>2. Good(Born, stack')
      BY <1>3, <1>7, <2>1, <3>1, CalledBack
    <3> QED BY <2>1, <3>2 DEF IInv, Data, Flights
  <2>2. CASE \E how \in {"allow", "deny", "store"} : take(t, how, ended)
    <3>1. PICK how \in {"allow", "deny", "store"} : take(t, how, ended)
      BY <2>2
    <3>2. how \in Variants
      BY DEF Variants
    <3> QED BY <1>3, <1>7, <3>1, <3>2, TakenFlush
  <2> QED BY <1>5, <2>1, <2>2
<1>9. verdict' \in [Keys -> {"unknown", "allow", "deny", "mixed"}]
  BY <1>5 DEF IInv, Data, Flights
<1>10. /\ outcome' \in [Ids -> Seq({"done", "err", "shutdown"})]
       /\ settled' \subseteq Ids /\ notified' \subseteq Ids
  BY <1>1, <1>3, OneMoreCallback, BornIds DEF IInv, Data, Calls
<1> QED BY <1>1, <1>2, <1>8, <1>9, <1>10, CallbackEffects

(* The step JsFail keeps the invariant.                                   *)
LEMMA JsFailInv == ASSUME IInv, JsFail PROVE IInv'
<1>1. /\ Running("js") /\ Top.how \in {"data", "done"}
      /\ requestFailed(Top.id, state[Top.id] = "aborted", <<Finish(Top.id)>> \o Tail(Below))
      /\ UNCHANGED <<lvars, detached, idle, fault>>
  BY DEF JsFail, InJs, failDelivery
<1>2. Top \in KnownFrames(Born) /\ Top.op = "js" /\ Good(Born, Below) /\ Fits(Top, Below)
  BY <1>1, OnTop
<1>3. Top.id \in Born /\ Below # <<>>
  BY <1>1, <1>2 DEF KnownFrames, Fits
<1>4. Good(Born, Tail(Below)) /\ (Tail(Below) # <<>> => Head(Tail(Below)).op # "pipe")
  BY <1>2, <1>3, Pop DEF Fits
<1>5. UNCHANGED <<lvars, detached, qvars, dvars, nvars, fetchOf, verdict,
                  blocking, cvars, mvars, fault>>
  BY <1>1 DEF idle
<1>6. Buffered'
  BY <1>1 DEF idle, evars, IInv, Data, Buffered
<1> QED BY <1>1, <1>3, <1>4, <1>5, <1>6, DeliveryFails

(* The step DeliverEnd keeps the invariant.                               *)
LEMMA DeliverEndInv == ASSUME IInv, DeliverEnd PROVE IInv'
<1>1. /\ Top.id \in Born /\ Good(Born, Below)
      /\ Below # <<>> => Head(Below).op # "pipe"
  BY DeliverTop DEF DeliverEnd
<1>2. /\ UNCHANGED <<retired, owner, cbvars, idle, open, waiters, fault>>
      /\ \/ stack' = <<Finish(Top.id)>> \o Below /\ UNCHANGED state
         \/ stack' = Below /\ state' = [state EXCEPT ![Top.id] = "inflight"]
  BY DEF DeliverEnd
<1>3. Good(Born, stack')
  BY <1>1, <1>2, FinishNext
<1>4. CASE UNCHANGED state
  <2>1. UNCHANGED <<lvars, cbvars, idle, open, waiters>> /\ Faults'
    BY <1>2, <1>4, FaultTyped DEF lvars
  <2> QED BY <1>3, <2>1, StackOnly
<1>5. CASE state' = [state EXCEPT ![Top.id] = "inflight"]
  <2>1. "inflight" \in States \ {"none"}
    BY DEF States
  <2>2. Born' = Born /\ Life' /\ OwnerLinks'
    BY <1>1, <1>2, <1>5, <2>1, MoveState DEF cbvars
  <2>3. Calling'
    BY <1>3, <2>2 DEF Calling
  <2>4. UNCHANGED <<outcome, settled, notified, detached, events, started, hops,
                    pending, delayed, delayedCount, dispatch, gated,
                    dispatchCount, conns, free, open, waiters, fetchOf, verdict,
                    blocking, held, intercepted, mailbox, disconnected, fault>>
    BY <1>2 DEF cbvars, idle, evars, qvars, dvars, nvars, cvars, mvars
  <2> QED BY <2>2, <2>3, <2>4, Keep DEF IInv, Data
<1> QED BY <1>2, <1>4, <1>5

(* The step StopLoading keeps the invariant.                              *)
LEMMA StopLoadingInv == ASSUME IInv, NEW o \in Owners, StopLoading(o) PROVE IInv'
<1> DEFINE ids == {t \in Reqs : state[t] # "none"}
<1>1. /\ Running("js") /\ stack' = <<Stop(o, ids)>> \o stack
      /\ UNCHANGED <<retired, owner, outcome, settled, notified, detached,
                     started, hops, pending, delayed, delayedCount, open,
                     waiters, fetchOf, verdict, blocking, held, intercepted,
                     mailbox, disconnected>>
      /\ \/ UNCHANGED <<state, events, dispatch, gated, dispatchCount, conns,
                        free, fault>>
         \/ \E t \in Reqs :
              /\ state[t] = "inflight" /\ removeConn(t)
              /\ scheduleDispatch(t, "inflight", <<"data", "done">>, {})
  BY DEF StopLoading, InJs, CanFinishEarly, cbvars, qvars, gvars, cvars, mvars,
         dvars, nvars
<1>2. ids \subseteq Born
  BY DEF Born, Ids
<1> HIDE DEF ids
<1>3. Good(Born, stack')
  <2>1. Stop(o, ids) \in KnownFrames(Born) /\ Stop(o, ids).op = "stop"
    BY <1>2, MadeOther
  <2> QED BY <1>1, <2>1, Called
<1>4. CASE UNCHANGED <<state, events, dispatch, gated, dispatchCount, conns,
                       free, fault>>
  <2>1. Born' = Born /\ Life' /\ OwnerLinks'
    BY <1>1, <1>4, SameState
  <2>2. Calling'
    BY <1>3, <2>1 DEF Calling
  <2> QED BY <1>1, <1>4, <2>1, <2>2, Keep DEF IInv, Data
<1>5. CASE \E t \in Reqs :
              /\ state[t] = "inflight" /\ removeConn(t)
              /\ scheduleDispatch(t, "inflight", <<"data", "done">>, {})
  <2>1. PICK t \in Reqs :
              /\ state[t] = "inflight" /\ removeConn(t)
              /\ scheduleDispatch(t, "inflight", <<"data", "done">>, {})
    BY <1>5
  <2>2. t \in Born /\ {} \in SUBSET {"unpark"}
    BY <2>1 DEF Born, Ids
  <2>3. Born' = Born /\ Life' /\ OwnerLinks' /\ Dispatcher' /\ Faults' /\ Buffered'
    BY <1>1, <2>1, <2>2, EventLists, Scheduled
  <2>4. Network' /\ Calling'
    BY <1>3, <2>1, <2>2, <2>3 DEF removeConn, Calling, IInv, Data, Network
  <2> QED BY <1>1, <2>3, <2>4, Keep DEF IInv, Data
<1> QED BY <1>1, <1>4, <1>5

(* The step Pump keeps the invariant.                                     *)
LEMMA PumpInv == ASSUME IInv, Pump PROVE IInv'
<1>1. PICK op \in {"sync", "import"} : Running(op)
  BY DEF Pump, Pumping
<1>2. /\ Good(Born, stack) /\ stack # <<>> /\ Head(stack).op \in {"sync", "import"}
      /\ Top = Head(stack) /\ Below = Tail(stack)
  BY <1>1, OnTop DEF Top, Below, Running
<1>3. \/ stack' = <<[Top EXCEPT !.how = "err"]>> \o Below
      \/ stack' = <<Tick("sync_wait")>> \o stack
  BY Zenon DEF Pump
<1>4. Good(Born, <<[Top EXCEPT !.how = "err"]>> \o Below)
  BY <1>2, WaiterFails, BornIds
<1>5. Good(Born, <<Tick("sync_wait")>> \o stack)
  <2>1. /\ Tick("sync_wait") \in KnownFrames(Born)
        /\ Tick("sync_wait").op = "tick" /\ Tick("sync_wait").how = "sync_wait"
    BY MadeTick
  <2>2. Fits(Tick("sync_wait"), stack)
    BY <1>2, <2>1 DEF Fits
  <2> QED BY <1>2, <2>1, <2>2, Push
<1>6. Good(Born, stack')
  BY <1>3, <1>4, <1>5
<1> QED BY <1>6, FaultTyped, StackOnly DEF Pump

(* The step SyncReturn keeps the invariant.                               *)
LEMMA SyncReturnInv == ASSUME IInv, SyncReturn PROVE IInv'
<1> DEFINE o == OwnerOf[Top.id]
<1>1. /\ Running("sync") /\ blocking' = [blocking EXCEPT ![o] = None]
      /\ stack' = <<Release(o)>> \o Below
      /\ UNCHANGED <<state, retired, owner, outcome, settled, notified,
                     detached, events, started, hops, pending, delayed,
                     delayedCount, dispatch, gated, dispatchCount, conns, free,
                     open, waiters, fetchOf, verdict, held, intercepted,
                     mailbox, disconnected, fault>>
  BY DEF SyncReturn, lvars, cbvars, evars, qvars, dvars, nvars, gvars, cvars, mvars
<1>2. Good(Born, Below) /\ (Below # <<>> => Head(Below).op # "pipe")
  BY <1>1, Popped
<1>3. o \in Owners
  <2>1. Top.id \in Reqs
    BY <1>1, OnTop DEF KnownFrames
  <2> QED BY <2>1, Constants
<1> HIDE DEF o
<1>4. Release(o) \in KnownFrames(Born) /\ Release(o).op = "release"
  BY <1>3, MadeOther
<1>5. Fits(Release(o), Below)
  BY <1>2, <1>4 DEF Fits
<1>6. Good(Born, stack')
  BY <1>1, <1>2, <1>4, <1>5, Push
<1>7. Born' = Born /\ Life' /\ OwnerLinks'
  BY <1>1, SameState
<1>8. Calling' /\ Blocks'
  BY <1>1, <1>6, <1>7 DEF Calling, IInv, Data, Blocks
<1> QED BY <1>1, <1>7, <1>8, Keep DEF IInv, Data

(* A call from the empty stack gives a good stack.                        *)
LEMMA FromEmpty ==
  ASSUME NEW f \in KnownFrames(Born), f.op \notin {"pipe"}, stack = <<>>,
         f.op = "tick" => f.how # "sync_wait",
         f.op = "js" => f.how \notin {"data", "done"}, IInv
  PROVE  Good(Born, <<f>>)
<1>1. Good(Born, <<>>)
  BY DEF IInv, Calling
<1>2. Fits(f, <<>>)
  BY DEF Fits
<1>3. Good(Born, <<f>> \o <<>>)
  BY <1>1, <1>2, Push
<1>4. <<f>> \o <<>> = <<f>>
  OBVIOUS
<1> QED BY <1>3, <1>4

(* The step RunTask keeps the invariant.                                  *)
LEMMA RunTaskInv == ASSUME IInv, RunTask PROVE IInv'
<1>1. /\ Js(None, "task") \in KnownFrames(Born)
      /\ Js(None, "task").op = "js" /\ Js(None, "task").how = "task"
  BY MadeOther
<1>2. Good(Born, stack')
  BY <1>1, FromEmpty DEF RunTask, InLoop
<1> QED BY <1>2, FaultTyped, StackOnly DEF RunTask

(* The step TickBegin keeps the invariant.                                *)
LEMMA TickBeginInv == ASSUME IInv, TickBegin PROVE IInv'
<1>1. /\ Tick("all") \in KnownFrames(Born)
      /\ Tick("all").op = "tick" /\ Tick("all").how = "all"
  BY MadeTick
<1>2. Good(Born, stack')
  BY <1>1, FromEmpty DEF TickBegin, InLoop
<1>3. Faults'
  BY DEF TickBegin, Trip, Broken, IInv, Data, Faults
<1> QED BY <1>2, <1>3, StackOnly DEF TickBegin

(* The step Exit keeps the invariant.                                     *)
LEMMA ExitInv == ASSUME IInv, Exit PROVE IInv'
<1>1. Kill("client") \in KnownFrames(Born) /\ Kill("client").op = "kill"
  BY MadeOther
<1>2. Good(Born, stack')
  BY <1>1, FromEmpty DEF Exit, Exiting
<1> QED BY <1>2, FaultTyped, StackOnly DEF Exit

(* A step of the peer changes the inbox alone.                            *)
LEMMA PeerOnly ==
  ASSUME IInv, Peer',
         UNCHANGED <<lvars, cbvars, evars, qvars, dvars, nvars, gvars, blocking,
                     cvars, fault, stack>>
  PROVE  IInv'
<1>1. UNCHANGED <<state, retired, owner, outcome, settled, notified, detached,
                  events, started, hops, pending, delayed, delayedCount,
                  dispatch, gated, dispatchCount, conns, free, open, waiters,
                  fetchOf, verdict, blocking, held, intercepted, fault, stack>>
  BY DEF lvars, cbvars, evars, qvars, dvars, nvars, gvars, cvars
<1>2. Born' = Born /\ Life' /\ OwnerLinks'
  BY <1>1, SameState
<1> QED BY <1>1, <1>2, Keep DEF IInv, Data

(* A link that goes away keeps the invariant.                             *)
LEMMA PeerLeavesInv ==
  ASSUME IInv, NEW m \in {"close", "disconnect"}, PeerLeaves(m)
  PROVE  IInv'
<1>1. Peer'
  BY DEF PeerLeaves, IInv, Data, Peer
<1> QED BY <1>1, PeerOnly DEF PeerLeaves

(* The step Quit keeps the invariant.                                     *)
LEMMA QuitInv == ASSUME IInv, Quit PROVE IInv'
<1>1. Peer'
  BY DEF Quit, IInv, Data, Peer
<1> QED BY <1>1, PeerOnly DEF Quit

(* So does a stuttering step.                                             *)
LEMMA StutterInv == ASSUME IInv, UNCHANGED vars PROVE IInv'
<1>1. Peer'
  BY DEF vars, mvars, IInv, Data, Peer
<1> QED BY <1>1, PeerOnly DEF vars

(* It holds initially.                                                    *)
LEMMA InitInv == Init => IInv
<1> SUFFICES ASSUME Init PROVE IInv
  OBVIOUS
<1>1. <<>> \in Seq(Born) /\ <<>> \in EventSeqs
      /\ <<>> \in Seq({"done", "err", "shutdown"}) /\ <<>> \in Seq(KnownFrames(Born))
  BY DEF EventSeqs
<1>2. Life /\ "none" \in States
  BY DEF Init, Life, States, Born
<1>3. Calls /\ Buffered
  BY <1>1, Constants DEF Init, Calls, Buffered, EventSeqs
<1>4. Waits /\ Dispatcher /\ Network
  BY <1>1, Constants DEF Init, Waits, Dispatcher, Network
<1>5. Flights
  BY <1>1 DEF Init, Flights
<1>6. Blocks
  BY DEF Init, Blocks
<1>9. Cdp /\ Faults
  BY DEF Init, Cdp, Faults
<1>10. Peer
  BY DEF Init, Peer
<1>7. Calling
  <2>1. Shape(<<>>)
    BY DEF Shape
  <2> QED BY <1>1, <2>1 DEF Init, Calling, Good
<1>8. OwnerLinks
  BY DEF Init, OwnerLinks, Live
<1> QED BY <1>2, <1>3, <1>4, <1>5, <1>6, <1>7, <1>8, <1>9, <1>10 DEF IInv, Data

-----------------------------------------------------------------------------
(* The theorems                                                            *)

(* The runner's loop and the world outside keep it.                       *)
LEMMA LoopInv == ASSUME IInv, Loop \/ World PROVE IInv'
BY RunTaskInv, TickBeginInv, QuitInv, ExitInv, AbortHeldInv, PeerLeavesInv
DEF Loop, World

(* Every action of a script keeps it.                                     *)
LEMMA ScriptInv == ASSUME IInv, Script PROVE IInv'
<1>1. CASE Return
  BY <1>1, PopsOnly
<1>2. CASE JsFail
  BY <1>2, JsFailInv
<1>3. CASE \E t \in Reqs : Request(t) \/ SyncRequest(t) \/ ImportModule(t) \/ Cancel(t)
  BY <1>3, RequestInv, SyncRequestInv, ImportModuleInv, CancelInv
<1>4. CASE \E o \in Owners : AbortOwner(o) \/ StopLoading(o)
  BY <1>4, AbortOwnerInv, StopLoadingInv
<1> QED BY <1>1, <1>2, <1>3, <1>4 DEF Script

(* The step Teardown keeps the invariant.                                 *)
LEMMA TeardownInv == ASSUME IInv, Teardown PROVE IInv'
BY KillEndInv, PopsOnly, AbortEndInv, KillOneInv, StopOneInv DEF Teardown

(* The step Pipeline keeps the invariant.                                 *)
LEMMA PipelineInv == ASSUME IInv, Pipeline PROVE IInv'
BY PipeStartInv, PipeAfterInterceptInv, PipeAfterCorsInv, PipeThrottleInv,
   PipeNetworkInv, PipeThrowInv, PipeFailedInv, FlushOneInv, PopsOnly
DEF Pipeline

(* The step Ticking keeps the invariant.                                  *)
LEMMA TickingInv == ASSUME IInv, Ticking PROVE IInv'
<1>1. CASE TickUngate \/ TickDispatch \/ TickDispatchEnd \/ TickDelayed
           \/ TickPending \/ TickStep \/ DrainTeardown
  BY <1>1, TickUngateInv, TickDispatchInv, TickMoves, TickDelayedInv,
     TickPendingInv, DrainTeardownInv
<1>2. CASE \E t \in Ids : Process(t)
  BY <1>2, StreamChunkInv, ProcessAbortedInv, ProcessResponseInv,
     ProcessRedirectInv, ProcessAuthInv DEF Process, ProcessOneMessage
<1>3. CASE \E t \in Ids : Answer(t)
  BY <1>3, AnswerResumeInv, AnswerBufferInv, AnswerNothingInv DEF Answer
<1> QED BY <1>1, <1>2, <1>3 DEF Ticking

(* The step Delivery keeps the invariant.                                 *)
LEMMA DeliveryInv == ASSUME IInv, Delivery PROVE IInv'
BY DeliverDataInv, DeliverDoneInv, DeliverErrInv, DeliverEndInv, FinishInv
DEF Delivery

(* The step Waiting keeps the invariant.                                  *)
LEMMA WaitingInv == ASSUME IInv, Waiting PROVE IInv'
BY PumpInv, SyncAbortInv, SyncReturnInv, ReleaseOneInv, PopsOnly DEF Waiting

(* Every step keeps it.                                                   *)
LEMMA NextInv == IInv /\ [Next]_vars => IInv'
<1> SUFFICES ASSUME IInv, [Next]_vars PROVE IInv'
  OBVIOUS
<1>1. CASE UNCHANGED vars
  BY <1>1, StutterInv
<1>2. CASE Next
  <2>1. CASE Exited
    BY <2>1, StutterInv DEF Exited
  <2> QED BY <1>2, <2>1, LoopInv, ScriptInv, TeardownInv, PipelineInv,
             TickingInv, DeliveryInv, WaitingInv DEF Next
<1> QED BY <1>1, <1>2

(* It implies the type invariant.                                         *)
LEMMA IInvTypeOK == IInv => TypeOK
<1> SUFFICES ASSUME IInv PROVE TypeOK
  OBVIOUS
<1>1. Data /\ Born \subseteq Ids
  BY BornIds DEF IInv
<1>2. \A q \in Seq(Born) : q \in Seq(Ids)
  BY <1>1, SeqGrows
<1>3. /\ state \in [Ids -> States] /\ retired \subseteq Ids
      /\ owner \in [Ids -> Owners \cup {None}]
      /\ outcome \in [Ids -> Seq({"done", "err", "shutdown"})]
      /\ settled \subseteq Ids /\ notified \subseteq Ids /\ detached \subseteq Ids
  BY <1>1 DEF Data, Life, Calls
<1>4. /\ events \in [Ids -> Seq({"data", "done", "err"})]
      /\ started \subseteq Ids /\ hops \in [Ids -> 0..MaxHops]
  BY <1>1 DEF Data, Buffered
<1>5. /\ pending \in Seq(Ids) /\ delayed \in Seq(Ids) /\ delayedCount \in Int
      /\ dispatch \in Seq(Ids) /\ gated \in Seq(Ids) /\ dispatchCount \in Int
      /\ conns \subseteq Ids /\ free \in Int
  BY <1>1, <1>2 DEF Data, Waits, Dispatcher, Network
<1>6. /\ open \subseteq Slots /\ waiters \in [Slots -> Seq(Ids)]
      /\ fetchOf \in [Fetches -> Slots \cup {None}]
      /\ verdict \in [Keys -> {"unknown", "allow", "deny", "mixed"}]
  BY <1>1, FunSeqGrows DEF Data, Flights
<1>7. /\ blocking \in [Owners -> Ids \cup {None}]
      /\ held \subseteq Ids /\ intercepted \in Int
      /\ mailbox \in {None, "close", "disconnect"} /\ disconnected \in BOOLEAN
      /\ fault \subseteq {"unpark", "schedule", "unlink", "deinit", "leak",
                          "clobber", "blocking"}
  BY <1>1 DEF Data, Blocks, Cdp, Peer, Faults
<1>8. stack \in Seq(Frames)
  <2>1. KnownFrames(Born) \subseteq Frames
    BY DEF KnownFrames
  <2> QED BY <2>1, SeqGrows DEF IInv, Calling, Good
<1> QED BY <1>3, <1>4, <1>5, <1>6, <1>7, <1>8 DEF TypeOK

(* The strengthening is an invariant: transfers named anywhere exist, and  *)
(* the call stack always has the shape the code's calls give it.           *)
THEOREM InductiveInvariant == Spec => []IInv
BY InitInv, NextInv, PTL DEF Spec

(* Every field of the client has its declared type in every reachable      *)
(* state; in particular no transfer follows more than MaxHops redirects    *)
(* (TooManyRedirects in processMessages and fulfillRedirect).              *)
THEOREM TypeCorrect == Spec => []TypeOK
BY InductiveInvariant, IInvTypeOK, PTL

(* An owner's list holds exactly its requests that deinit has not retired  *)
(* and detachInDelivery has not cut loose: aborting an owner reaches every *)
(* transfer that could still call it, and no other (Owner.transfers).      *)
THEOREM OwnersNameTheLiving == Spec => []OwnerLinks
<1>1. IInv => OwnerLinks
  BY DEF IInv
<1> QED BY <1>1, InductiveInvariant, PTL

=============================================================================
