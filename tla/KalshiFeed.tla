----------------------------- MODULE KalshiFeed -----------------------------
(***************************************************************************)
(* The Kalshi order-book stream (pmarb/feeds/kalshi.py, KalshiFeed): the   *)
(* reader task inside stream_books, the refresher task inside resync and   *)
(* _mutate, the consumer that restarts a crashed stream (pmarb/main.py,    *)
(* consume), the socket between them and the venue, and the venue.         *)
(*                                                                         *)
(* Reader and refresher share _meta, _ws, _sid, _acks and _pruned and run  *)
(* on one event loop, so a step is what one task does between two awaits.  *)
(*                                                                         *)
(* Data.  A ticker's two bid ladders are one level, a size in 0..MaxSize:  *)
(* what the code does to a ladder it does per (side, price).  A delta is   *)
(* +1 or -1.  Frames carry the size the venue had when it sent them        *)
(* (truth), which the code never sees.                                     *)
(***************************************************************************)
EXTENDS Integers, Sequences, FiniteSets, SequencesExt

CONSTANTS
  Ticker,             \* the tickers a match set may name
  MaxSize,            \* bound: the largest size of a level at the venue
  Traded,             \* bound: the tickers whose level moves
  MaxSeq,             \* bound: sequence numbers the venue spends per connection
  MaxResync,          \* bound: calls of resync
  MaxFault,           \* bound: faults of the network and of the venue
  Answers,            \* how the venue may answer an update_subscription
  LosesFirst          \* may the first numbered frame of a connection be lost?

ASSUME KalshiAssumption ==
  /\ Ticker # {} /\ IsFiniteSet(Ticker) /\ Traded \subseteq Ticker
  /\ {MaxSize, MaxSeq, MaxResync, MaxFault} \subseteq Nat
  /\ Answers \subseteq {"ok", "noop", "error", "silent", "bare", "bare_noop"}
  /\ LosesFirst \in BOOLEAN

VARIABLES
  \* KalshiFeed's own attributes
  meta,     \* _meta: the desired tickers
  ws,       \* _ws: the socket, by connection number; NoSocket for None
  sid,      \* is _sid known?
  cmdId,    \* _cmd_id
  acks,     \* the keys of _acks
  pruned,   \* _pruned
  \* the locals of stream_books
  pc,       \* where the reader is
  tickers,  \* the list the connect in progress will subscribe
  books,    \* ticker -> the maintained level
  lastSeq,  \* last_seq; NoSeq for None
  \* the locals of resync and _mutate
  rpc,      \* where the refresher is
  call,     \* the captured socket, the two differences, what is left to send
  fut,      \* the future _mutate awaits
  applied,  \* what the last resync returned
  \* the connection and the venue
  conn,     \* number of the newest connection
  link,     \* its condition
  cmds,     \* commands on their way to the venue
  chan,     \* frames on their way to the reader
  sub,      \* what the venue has subscribed on this connection
  vseq,     \* the venue's sequence counter
  size,     \* ticker -> the venue's level
  \* history
  yielded,  \* of the last book: was it the venue's own, was its ticker readded?
  readded,  \* tickers wanted again while still streamed, and not snapshot since
  overtaken, \* tickers a resync added or dropped inside this connect's window
  lost,     \* was a frame of this connection lost?
  faults, resyncs

feedVars   == <<meta, ws, sid, cmdId, acks, pruned>>
readerVars == <<pc, tickers, books, lastSeq>>
callVars   == <<rpc, call, fut, applied>>
venueVars  == <<cmds, sub, vseq, size>>
historyVars == <<yielded, readded, overtaken>>
vars == <<feedVars, readerVars, callVars, conn, link, chan, venueVars,
          historyVars, lost, faults, resyncs>>

NoSocket == 0
NoSeq    == 0

\* What a future holds: nothing yet, an exception, or the venue's reply.
Future  == [state : {"pending", "failed", "done"}, ok : BOOLEAN, bare : BOOLEAN,
            echo : SUBSET Ticker]
Failed  == [state |-> "failed", ok |-> FALSE, bare |-> FALSE, echo |-> {}]
Pending == [Failed EXCEPT !.state = "pending"]

NoFrame == [kind |-> "none", seq |-> NoSeq, ticker |-> {}, val |-> 0, truth |-> 0,
            id |-> 0, reply |-> Failed]

\* What a refresh leaves behind is forgotten: the reader keeps ladders only for tickers
\* it wants or has been told to forget, so its memory does not grow by a day's slate
\* (_pruned), and _acks holds at most the waiter of the mutation in progress, so that
\* one that timed out, was rejected or was abandoned leaves nothing for a later reply.
NothingLeftBehind ==
  /\ pc = "recv" => DOMAIN books \subseteq meta \cup pruned
  /\ acks \subseteq (IF rpc = "wait" THEN {call.id} ELSE {})

TypeOK ==
  /\ meta \subseteq Ticker /\ pruned \subseteq Ticker /\ tickers \subseteq Ticker
  /\ ws \in 0..conn /\ sid \in BOOLEAN /\ cmdId \in Nat /\ acks \subseteq Nat
  /\ pc \in {"top", "connecting", "recv", "backoff", "crashed"}
  /\ DOMAIN books \subseteq Ticker
  /\ \A t \in DOMAIN books : books[t] \in 0..MaxSize
  /\ lastSeq \in 0..MaxSeq
  /\ rpc \in {"idle", "send", "wait", "close"}
  /\ call \in [ws : 0..conn, added : SUBSET Ticker, dropped : SUBSET Ticker,
               todo : Seq({"delete_markets", "add_markets"}), id : Nat]
  /\ fut \in Future
  /\ applied \in {"none", "live", "reconnect", "on_reconnect", "unchanged"}
  /\ link \in {"none", "up", "stalled", "closed"}
  /\ sub \subseteq Ticker /\ vseq \in 0..MaxSeq /\ size \in [Ticker -> 0..MaxSize]
  /\ yielded \in [faithful : BOOLEAN, readded : BOOLEAN] /\ readded \subseteq Ticker
  /\ overtaken \subseteq Ticker
  /\ lost \in BOOLEAN /\ faults \in 0..MaxFault /\ resyncs \in 0..MaxResync
  /\ NothingLeftBehind

Init ==
  /\ meta \in (SUBSET Ticker) \ {{}}
  /\ ws = NoSocket /\ sid = FALSE /\ cmdId = 1 /\ acks = {} /\ pruned = {}
  /\ pc = "top" /\ tickers = {} /\ books = <<>> /\ lastSeq = NoSeq
  /\ rpc = "idle" /\ fut = Failed /\ applied = "none"
  /\ call = [ws |-> NoSocket, added |-> {}, dropped |-> {}, todo |-> <<>>, id |-> 0]
  /\ conn = 0 /\ link = "none" /\ cmds = <<>> /\ chan = <<>>
  /\ sub = {} /\ vseq = 0
  /\ size \in [Ticker -> 0..MaxSize] /\ \A t \in Ticker \ Traded : size[t] = 0
  /\ yielded = [faithful |-> TRUE, readded |-> FALSE] /\ readded = {}
  /\ overtaken = {}
  /\ lost = FALSE /\ faults = 0 /\ resyncs = 0

-----------------------------------------------------------------------------
(* The reader: connecting                                                  *)

\* Every waiter still registered is failed, then forgotten.
FailPendingAcks ==
  /\ acks' = {}
  /\ fut' = IF fut = Pending /\ call.id \in acks THEN Failed ELSE fut

\* The head of the loop: the list to subscribe is read here, before the connect.
OpenSocket ==
  /\ pc = "top"
  /\ pc' = "connecting" /\ tickers' = meta
  /\ books' = <<>> /\ lastSeq' = NoSeq
  /\ ws' = NoSocket /\ sid' = FALSE
  /\ FailPendingAcks
  /\ overtaken' = {}
  /\ UNCHANGED <<meta, cmdId, pruned, rpc, call, applied, conn, link, chan,
                 venueVars, yielded, readded, lost, faults, resyncs>>

Connected ==
  /\ pc = "connecting"
  /\ pc' = "recv"
  /\ conn' = conn + 1 /\ ws' = conn + 1 /\ sid' = FALSE
  /\ link' = "up" /\ chan' = <<>> /\ sub' = {} /\ vseq' = 0
  /\ lost' = FALSE /\ readded' = {}
  /\ cmds' = <<[op |-> "subscribe", tickers |-> tickers, id |-> 1]>>
  /\ UNCHANGED <<meta, cmdId, acks, pruned, tickers, books, lastSeq, callVars,
                 size, yielded, overtaken, faults, resyncs>>

ConnectFails ==
  /\ pc = "connecting" /\ faults < MaxFault
  /\ pc' = "backoff" /\ faults' = faults + 1
  /\ UNCHANGED <<feedVars, tickers, books, lastSeq, callVars, conn, link, chan,
                 venueVars, historyVars, lost, resyncs>>

BackoffOver ==
  /\ pc = "backoff"
  /\ pc' = "top"
  /\ UNCHANGED <<feedVars, tickers, books, lastSeq, callVars, conn, link, chan,
                 venueVars, historyVars, lost, faults, resyncs>>

-----------------------------------------------------------------------------
(* The reader: leaving a connection                                        *)

\* `break` out of the receive loop: the connection and what it still holds go.
TearDown ==
  /\ pc' = "top" /\ link' = "closed" /\ chan' = <<>> /\ cmds' = <<>>

\* recv raises once the frames already buffered are consumed.
SocketClosed ==
  /\ pc = "recv" /\ chan = <<>> /\ link = "closed"
  /\ pc' = "backoff"
  /\ UNCHANGED <<feedVars, tickers, books, lastSeq, callVars, conn, link, chan,
                 venueVars, historyVars, lost, faults, resyncs>>

\* Silence for idle_timeout seconds on a socket that never closed.
IdleTimeout ==
  /\ pc = "recv" /\ chan = <<>> /\ link = "stalled"
  /\ TearDown
  /\ UNCHANGED <<feedVars, tickers, books, lastSeq, callVars, conn,
                 sub, vseq, size, historyVars, lost, faults, resyncs>>

\* Anything the reader does not catch ends stream_books ...
StreamCrash ==
  /\ pc = "recv" /\ faults < MaxFault
  /\ pc' = "crashed" /\ link' = "closed" /\ chan' = <<>> /\ cmds' = <<>>
  /\ books' = <<>> /\ faults' = faults + 1
  /\ UNCHANGED <<feedVars, tickers, lastSeq, callVars, conn, sub, vseq, size,
                 historyVars, lost, resyncs>>

\* ... and the consumer starts it again from the market list, which the
\* refresher corrected before it called resync; no waiter is told.
StreamRestart ==
  /\ pc = "crashed"
  /\ pc' = "top"
  /\ ws' = NoSocket /\ sid' = FALSE /\ cmdId' = 1 /\ acks' = {} /\ pruned' = {}
  /\ UNCHANGED <<meta, tickers, books, lastSeq, callVars, conn, link, chan,
                 venueVars, historyVars, lost, faults, resyncs>>

-----------------------------------------------------------------------------
(* The reader: one frame                                                   *)

\* Mutants of IsGap and NextSeq: only a repeated number counts as a gap; only book
\* frames move the counter.
RepeatOnlyIsGap(f) == f.seq # NoSeq /\ lastSeq # NoSeq /\ f.seq <= lastSeq
BookFramesOnlySeq(f) == IF f.kind \in {"snapshot", "delta"} THEN f.seq ELSE lastSeq

IsGap(f) == f.seq # NoSeq /\ lastSeq # NoSeq /\ f.seq # lastSeq + 1

NextSeq(f) == IF f.seq # NoSeq THEN f.seq ELSE lastSeq

\* Mutant of Kept: the dropped tickers' ladders stay.
NothingForgotten == books

\* The ladders of the tickers a resync dropped are forgotten first.
Kept == [t \in DOMAIN books \ pruned |-> books[t]]

Receive(f) ==
  /\ pc = "recv" /\ chan # <<>>
  /\ f = Head(chan)
  /\ pruned' = {}
  /\ UNCHANGED <<meta, cmdId, tickers, rpc, call, applied, ws, conn, sub, vseq,
                 size, lost, faults, resyncs>>

\* A frame in sequence: the counter moves for control frames as well.
InSequence(f) ==
  /\ Receive(f) /\ ~IsGap(f)
  /\ lastSeq' = NextSeq(f)
  /\ chan' = Tail(chan)
  /\ UNCHANGED <<pc, link, cmds>>

ReadGap(f) ==
  /\ Receive(f) /\ IsGap(f)
  /\ TearDown
  /\ UNCHANGED <<sid, acks, books, lastSeq, fut, historyVars>>

ReadSubscribed(f) ==
  /\ InSequence(f) /\ f.kind = "subscribed"
  /\ sid' = TRUE /\ books' = Kept
  /\ UNCHANGED <<acks, fut, historyVars>>

\* The reply to a mutation wakes its waiter, if the waiter is still there.
ReadReply(f) ==
  /\ InSequence(f) /\ f.kind = "reply"
  /\ acks' = acks \ {f.id}
  /\ fut' = IF f.id \in acks /\ f.id = call.id /\ fut = Pending THEN f.reply ELSE fut
  /\ books' = Kept
  /\ UNCHANGED <<sid, historyVars>>

IsBook(f) == f.kind \in {"snapshot", "delta"}

ReadUnwanted(f) ==
  /\ InSequence(f) /\ IsBook(f) /\ f.ticker \notin meta
  /\ books' = Kept
  /\ UNCHANGED <<sid, acks, fut, historyVars>>

\* A snapshot replaces the ladder; a delta adjusts it, from nothing if the
\* ticker has none, and a level at or below zero is removed.
Level(f) ==
  IF f.kind = "snapshot" THEN f.val
  ELSE LET old == IF f.ticker \in DOMAIN Kept THEN Kept[f.ticker] ELSE 0
       IN  IF old + f.val > 0 THEN old + f.val ELSE 0

ReadBook(f) ==
  /\ InSequence(f) /\ IsBook(f) /\ f.ticker \in meta
  /\ books' = [t \in DOMAIN Kept \cup {f.ticker} |->
                 IF t = f.ticker THEN Level(f) ELSE Kept[t]]
  /\ readded' = IF f.kind = "snapshot" THEN readded \ {f.ticker} ELSE readded
  /\ yielded' = [faithful |-> Level(f) = f.truth, readded |-> f.ticker \in readded']
  /\ UNCHANGED <<sid, acks, fut, overtaken>>

ReadFrame ==
  /\ chan # <<>>
  /\ LET f == Head(chan) IN
       \/ ReadGap(f)
       \/ ReadSubscribed(f)
       \/ ReadReply(f)
       \/ ReadUnwanted(f)
       \/ ReadBook(f)

-----------------------------------------------------------------------------
(* The refresher: resync and _mutate                                       *)

\* From reading the ticker list to learning the subscription id.
ConnectWindow == pc = "connecting" \/ (pc = "recv" /\ ~sid)

\* What the venue has subscribed, or sent before it no longer had.
Streaming == sub \cup {f.ticker : f \in {f \in Range(chan) : IsBook(f)}}

\* resync(markets) up to its first await.
Resync(desired) ==
  LET added   == desired \ meta
      dropped == meta \ desired
  IN
  /\ rpc = "idle" /\ resyncs < MaxResync
  /\ meta' = desired
  /\ pruned' = pruned \cup dropped
  /\ resyncs' = resyncs + 1
  /\ readded' = readded \cup (added \cap Streaming)
  /\ overtaken' = IF ConnectWindow THEN overtaken \cup added \cup dropped ELSE overtaken
  /\ \/ /\ added \cup dropped = {}
        /\ applied' = "unchanged"
        /\ UNCHANGED <<rpc, call, fut>>
     \/ /\ added \cup dropped # {}
        /\ ws = NoSocket \/ ~sid
        /\ applied' = "on_reconnect"
        /\ UNCHANGED <<rpc, call, fut>>
     \/ /\ added \cup dropped # {}
        /\ ws # NoSocket /\ sid
        /\ applied' = "none" /\ rpc' = "send" /\ fut' = Failed
        /\ call' = [ws |-> ws, added |-> added, dropped |-> dropped, id |-> 0,
                    todo |-> (IF dropped # {} THEN <<"delete_markets">> ELSE <<>>)
                             \o (IF added # {} THEN <<"add_markets">> ELSE <<>>)]
  /\ UNCHANGED <<ws, sid, cmdId, acks, readerVars, conn, link, chan, venueVars,
                 yielded, lost, faults>>

Operand(op) == IF op = "delete_markets" THEN call.dropped ELSE call.added

\* _mutate up to the await of its future.  Sending on a closed socket raises,
\* and the waiter is popped on the way out.
MutateSend ==
  /\ rpc = "send"
  /\ cmdId' = cmdId + 1
  /\ IF call.ws = conn /\ link \in {"up", "stalled"}
     THEN /\ rpc' = "wait" /\ fut' = Pending
          /\ call' = [call EXCEPT !.id = cmdId + 1]
          /\ acks' = acks \cup {cmdId + 1}
          /\ cmds' = Append(cmds, [op |-> Head(call.todo), id |-> cmdId + 1,
                                   tickers |-> Operand(Head(call.todo))])
     ELSE /\ rpc' = "close"
          /\ UNCHANGED <<fut, call, acks, cmds>>
  /\ UNCHANGED <<meta, ws, sid, pruned, readerVars, applied, conn, link, chan,
                 sub, vseq, size, historyVars, lost, faults, resyncs>>

\* Mutant of Verified: an ok is proof enough.
OkIsProof(reply, op) == reply.state = "done" /\ reply.ok

\* Does the reply demonstrate the change?
Verified(reply, op) ==
  /\ reply.state = "done" /\ reply.ok
  /\ \/ reply.bare
     \/ op = "delete_markets" /\ reply.echo \cap call.dropped = {}
     \/ op = "add_markets" /\ call.added \subseteq reply.echo

\* `finally`: the waiter is popped however the wait ended.
AcksWithoutWaiter == acks \ {call.id}

\* The future resolved: on to the next mutation, or to the end, or to the close.
MutateAnswered ==
  /\ rpc = "wait" /\ fut.state # "pending"
  /\ acks' = AcksWithoutWaiter
  /\ IF Verified(fut, Head(call.todo))
     THEN /\ call' = [call EXCEPT !.todo = Tail(@)]
          /\ IF Len(call.todo) > 1
             THEN rpc' = "send" /\ UNCHANGED applied
             ELSE rpc' = "idle" /\ applied' = "live"
     ELSE rpc' = "close" /\ UNCHANGED <<call, applied>>
  /\ UNCHANGED <<meta, ws, sid, cmdId, pruned, readerVars, fut, conn, link, chan,
                 venueVars, historyVars, lost, faults, resyncs>>

\* Mutant of MutateTimeout: the wait has no timeout.
MutateWaitsForever == FALSE /\ UNCHANGED vars

\* wait_for gives up; it may do so with the reply just set.
MutateTimeout ==
  /\ rpc = "wait"
  /\ rpc' = "close" /\ fut' = Failed
  /\ acks' = AcksWithoutWaiter
  /\ UNCHANGED <<meta, ws, sid, cmdId, pruned, readerVars, call, applied, conn,
                 link, chan, venueVars, historyVars, lost, faults, resyncs>>

\* Mutant of LinkAfterClose: the failed mutation leaves its socket open.
LinkLeftOpen == link

LinkAfterClose ==
  IF call.ws = conn /\ link \in {"up", "stalled"} THEN "closed" ELSE link

\* The captured socket is closed: its reader will reconnect with meta.
CloseSocket ==
  /\ rpc = "close"
  /\ rpc' = "idle" /\ applied' = "reconnect"
  /\ link' = LinkAfterClose
  /\ UNCHANGED <<feedVars, readerVars, call, fut, conn, chan, venueVars,
                 historyVars, lost, faults, resyncs>>

-----------------------------------------------------------------------------
(* The venue and the network (external: modelled from how the code uses    *)
(* them and from the exchanges its comments record)                        *)

Snapshot(t, n) == [NoFrame EXCEPT !.kind = "snapshot", !.seq = n, !.ticker = t,
                                  !.val = size[t], !.truth = size[t]]

\* One snapshot per ticker, numbered after n.
Snapshots(ts, n) == LET s == SetToSeq(ts)
                    IN  [i \in 1..Len(s) |-> Snapshot(s[i], n + i)]

VenueSubscribe ==
  /\ link = "up" /\ cmds # <<>> /\ Head(cmds).op = "subscribe"
  /\ LET ts == Head(cmds).tickers IN
       /\ Cardinality(ts) <= MaxSeq
       /\ sub' = ts /\ vseq' = Cardinality(ts)
       /\ chan' = Append(chan, [NoFrame EXCEPT !.kind = "subscribed"])
                  \o Snapshots(ts, 0)
  /\ cmds' = Tail(cmds)
  /\ UNCHANGED <<feedVars, readerVars, callVars, conn, link, size, historyVars, lost,
                 faults, resyncs>>

After(c) == IF c.op = "delete_markets" THEN sub \ c.tickers ELSE sub \cup c.tickers

\* An ok or bare answer applies the change; the others leave it undone, and cost
\* a fault.  Acks consume a sequence number, rejections do not.
VenueMutate(answer) ==
  /\ link = "up" /\ cmds # <<>> /\ Head(cmds).op # "subscribe"
  /\ answer \in {"ok", "bare"} \/ faults < MaxFault
  /\ LET c       == Head(cmds)
         applies == answer \in {"ok", "bare"}
         acked   == answer \in {"ok", "noop", "bare", "bare_noop"}
         new     == IF applies THEN After(c) \ sub ELSE {}
         seq     == IF acked THEN vseq + 1 ELSE vseq
         reply   == [state |-> "done", ok |-> acked, bare |-> answer \in {"bare", "bare_noop"},
                     echo |-> IF applies THEN After(c) ELSE sub]
         frame   == [NoFrame EXCEPT !.kind = "reply", !.id = c.id, !.reply = reply,
                                    !.seq = IF acked THEN seq ELSE NoSeq]
     IN  /\ seq + Cardinality(new) <= MaxSeq
         /\ vseq' = seq + Cardinality(new)
         /\ sub' = IF applies THEN After(c) ELSE sub
         /\ chan' = chan \o (IF answer = "silent" THEN <<>> ELSE <<frame>>)
                         \o Snapshots(new, seq)
         /\ faults' = IF applies THEN faults ELSE faults + 1
  /\ cmds' = Tail(cmds)
  /\ UNCHANGED <<feedVars, readerVars, callVars, conn, link, size, historyVars, lost,
                 resyncs>>

\* The market moves; a subscribed ticker's move is sent.
VenueTrade(t, d) ==
  /\ size[t] + d \in 0..MaxSize
  /\ size' = [size EXCEPT ![t] = @ + d]
  /\ IF link = "up" /\ t \in sub
     THEN /\ vseq < MaxSeq
          /\ vseq' = vseq + 1
          /\ chan' = Append(chan, [NoFrame EXCEPT !.kind = "delta", !.ticker = t,
                                     !.seq = vseq + 1, !.val = d, !.truth = size[t] + d])
     ELSE UNCHANGED <<vseq, chan>>
  /\ UNCHANGED <<feedVars, readerVars, callVars, conn, link, cmds, sub, historyVars,
                 lost, faults, resyncs>>

\* A frame the venue numbered never arrives.
FrameLost(i) ==
  /\ faults < MaxFault /\ chan[i].seq # NoSeq
  /\ LosesFirst \/ chan[i].seq # 1
  /\ chan' = RemoveAt(chan, i)
  /\ lost' = TRUE /\ faults' = faults + 1
  /\ UNCHANGED <<feedVars, readerVars, callVars, conn, link, venueVars, historyVars,
                 resyncs>>

\* The socket closes, or goes silent without closing.
LinkFails(how) ==
  /\ link = "up" /\ faults < MaxFault
  /\ link' = how /\ faults' = faults + 1
  /\ UNCHANGED <<feedVars, readerVars, callVars, conn, chan, venueVars, historyVars,
                 lost, resyncs>>

-----------------------------------------------------------------------------
\* The refresher is between two awaits: nothing else of the event loop runs.
Running == rpc \in {"send", "close"}

Reader ==
  /\ ~Running
  /\ \/ OpenSocket \/ Connected \/ BackoffOver
     \/ SocketClosed \/ IdleTimeout \/ StreamRestart
     \/ ReadFrame

Refresher == MutateSend \/ MutateAnswered \/ MutateTimeout \/ CloseSocket

VenueAnswers == VenueSubscribe \/ (\E a \in Answers : VenueMutate(a))

Environment ==
  \/ ~Running /\ (ConnectFails \/ StreamCrash)
  \/ \E desired \in (SUBSET Ticker) \ {{}} : Resync(desired)
  \/ \E t \in Traded, d \in {-1, 1} : VenueTrade(t, d)
  \/ \E i \in 1..Len(chan) : FrameLost(i)
  \/ \E how \in {"closed", "stalled"} : LinkFails(how)

Next == Reader \/ Refresher \/ VenueAnswers \/ Environment

\* The event loop runs each task that can run, connects eventually succeed, and
\* a venue that is up reads its commands.  Nothing is assumed of the market, of
\* the refresh schedule or of the faults, which are finitely many.
Fairness == WF_vars(Reader) /\ WF_vars(Refresher) /\ WF_vars(VenueAnswers)

Spec == Init /\ [][Next]_vars /\ Fairness

-----------------------------------------------------------------------------
(* Properties                                                              *)

\* Every book the reader yields is the venue's book as of the frame it came
\* with: no lost frame, reconnect, drop or re-add leaves a ladder to which a
\* later delta is wrongly added.  The exception is a ticker that is wanted again
\* while the venue still streams it: its ladder was forgotten, and until the
\* next snapshot its deltas are added to an empty one.
BookFaithful == yielded.faithful \/ yielded.readded

\* A resync that reports "live" has been applied by the venue: as long as that
\* connection is up, what it added is subscribed and what it dropped is not.
LiveMeansApplied ==
  (rpc = "idle" /\ applied = "live" /\ call.ws = conn /\ link = "up" /\ resyncs > 0)
    => call.added \subseteq sub /\ call.dropped \cap sub = {}

\* The connection has said which subscription it is and nothing is in flight.
Quiet == /\ rpc = "idle" /\ pc = "recv" /\ link = "up" /\ sid
         /\ chan = <<>> /\ cmds = <<>>

\* Once nothing is in flight the venue's subscription is the desired set.  The
\* exception is a ticker that a resync added or dropped inside the window of this
\* connect, after its list was read and before its subscription was known: that
\* change was neither in the subscribe nor sent (though "the next connect picks it
\* up", kalshi.py:718), and any other one arrives.
CoveredWhenQuiet == Quiet => SymDiff(sub, meta) \subseteq overtaken

\* A connection is torn down over a sequence gap only if a frame was lost; the
\* acks of our own mutations are never read as one.
OnlyLossIsAGap ==
  [][pc = "recv" /\ pc' = "top" => lost \/ chan = <<>>]_vars

\* Every resync returns, whatever becomes of the socket, of the venue's answers
\* or of the stream it was mutating.
ResyncReturns == rpc # "idle" ~> rpc = "idle"

\* Once refreshes and faults stop, the subscription becomes the desired set and
\* stays so, with the same exception.
EventuallyCovered ==
  <>[](sid /\ link = "up" /\ SymDiff(sub, meta) \subseteq overtaken)
=============================================================================
