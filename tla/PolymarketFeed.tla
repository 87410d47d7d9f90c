--------------------------- MODULE PolymarketFeed ---------------------------
(***************************************************************************)
(* The Polymarket US book stream (pmarb/feeds/polymarket.py): shards, each *)
(* one connection read by its own task, and the refresher task inside      *)
(* resync, which changes what the shards are subscribed to while they      *)
(* stream.  Every book message is a whole book, so no book state is kept:  *)
(* what matters is which slugs a shard wants (meta_by_slug), what it       *)
(* believes it asked for (batches) and what the venue has.                 *)
(*                                                                         *)
(* All tasks share one event loop, so a step is what one task does between *)
(* two awaits.  A dict's order is some fixed order of its keys.  A send    *)
(* suspends the task that connects, which may fill the socket's buffer;    *)
(* the few sends of a resync do not fill it and do not suspend, so while   *)
(* it is Running no reader runs.                                           *)
(*                                                                         *)
(* An exception no reader expects ends its shard, that ends the stream     *)
(* (stream_books), and consume (pmarb/main.py) starts it again on the list *)
(* the refresh left it.  The books themselves wait in a queue on their way *)
(* to the consumer; the queue only delays a shard's end being noticed.     *)
(***************************************************************************)
EXTENDS Integers, Sequences, FiniteSets, SequencesExt

CONSTANTS
  Slug,        \* the slugs a match set may name
  MatchSet,    \* the sets of slugs a stream starts with or a refresh asks for
  MaxSubs,     \* _MAX_SUBS_PER_CONN
  SubBatch,    \* _SUB_BATCH
  MaxShards,   \* bound: shards
  MaxResync,   \* bound: calls of resync
  MaxFault     \* bound: faults of the network, of the venue and of a parser

ASSUME PolymarketAssumption ==
  /\ IsFiniteSet(Slug) /\ MatchSet \subseteq (SUBSET Slug) \ {{}}
  /\ MaxSubs \in Nat \ {0} /\ SubBatch \in Nat \ {0} /\ MaxShards \in Nat \ {0}
  /\ MaxResync \in Nat /\ MaxFault \in Nat

VARIABLES
  \* _Shard, by index
  shards,    \* the indices of _shards
  meta,      \* meta_by_slug
  batches,   \* batches: the records [rid, slugs]
  ws,        \* is there a socket in ws?
  errors,    \* errors
  ridSeq,    \* _rid_seq
  \* the locals of _stream_shard
  pc,        \* where the shard's reader is
  toSend,    \* the batches still to subscribe
  sent,      \* the batch written but not yet recorded
  \* the locals of resync
  rpc,       \* where the refresher is
  desired, pending, recycled,
  before,    \* the errors each watched shard had before the grace
  ghosts,    \* is a shard of a stream that ended among the recycled?
  at,        \* the shard whose turn it is
  stale,     \* the batches still to prune on it; NotRead before it is looked at
  fut,       \* the future of the unsubscribe it waits for
  applied,   \* what the last resync returned
  \* the connections and the venue
  link, cmds, chan,
  sub,       \* the batches the venue streams
  \* history
  blind,     \* did the resync find slugs that no batch records?
  doubled,   \* was the stream started under a resync that had still to place slugs?
  spared,    \* the shards a resync was to recycle when it raised
  faults, resyncs

shardVars  == <<shards, meta, batches, ws, errors, ridSeq>>
readerVars == <<pc, toSend, sent>>
callVars   == <<rpc, desired, pending, recycled, before, ghosts, at, stale, fut, applied>>
netVars    == <<link, cmds, chan, sub>>
vars == <<shardVars, readerVars, callVars, netVars, blind, doubled, spared, faults, resyncs>>

Shard   == 0..(MaxShards - 1)
Batch   == [rid : Nat, slugs : SUBSET Slug]
NoBatch == [rid |-> 0, slugs |-> {}]
NotRead == {NoBatch}

TypeOK ==
  /\ shards \subseteq Shard
  /\ meta \in [Shard -> SUBSET Slug] /\ \A s \in Shard : Cardinality(meta[s]) <= MaxSubs
  /\ batches \in [Shard -> SUBSET Batch] /\ ws \in [Shard -> BOOLEAN]
  /\ errors \in [Shard -> Nat] /\ ridSeq \in [Shard -> Nat]
  /\ pc \in [Shard -> {"off", "top", "connecting", "subscribing", "recv", "backoff",
                    "ended"}]
  /\ toSend \in [Shard -> Seq(SUBSET Slug)] /\ sent \in [Shard -> Batch]
  /\ rpc \in {"idle", "prune", "ack", "orphan", "add", "overflow", "grace", "recycle"}
  /\ desired \subseteq Slug /\ pending \subseteq desired /\ recycled \subseteq shards
  /\ DOMAIN before \subseteq shards /\ ghosts \in BOOLEAN /\ at \in Shard /\ stale \subseteq Batch
  /\ fut \in {"none", "pending", "failed", "done"}
  /\ applied \in {"none", "live", "recycled", "unchanged", "on_reconnect", "failed"}
  /\ link \in [Shard -> {"none", "up", "stalled", "closed"}]
  /\ \A s \in Shard : sub[s] \subseteq Batch
  /\ faults \in 0..MaxFault /\ resyncs \in 0..MaxResync

Slugs(bs) == UNION {b.slugs : b \in bs}

\* The batch sent first.
First(bs) == CHOOSE b \in bs : \A c \in bs : b.rid <= c.rid

\* The order in which a dict holds these keys: some fixed one.
Ordered == [S \in SUBSET Slug |-> SetToSeq(S)]

\* A set cut into pieces of at most n, in order.
Pieces(S, n) ==
  LET s == Ordered[S]
  IN  [i \in 1..((Len(s) + n - 1) \div n) |->
         {s[j] : j \in (n * (i - 1) + 1)..(IF n * i < Len(s) THEN n * i ELSE Len(s))}]

\* No connection of any shard.
NoShards ==
  [batches |-> [s \in Shard |-> {}],  ws     |-> [s \in Shard |-> FALSE],
   errors  |-> [s \in Shard |-> 0],   ridSeq |-> [s \in Shard |-> 0],
   toSend  |-> [s \in Shard |-> <<>>], sent  |-> [s \in Shard |-> NoBatch],
   link    |-> [s \in Shard |-> "none"], cmds |-> [s \in Shard |-> <<>>],
   chan    |-> [s \in Shard |-> <<>>], sub   |-> [s \in Shard |-> {}]]

\* The shards a stream of these markets starts with.
Parts(markets) == Pieces(markets, MaxSubs)
FirstShards(markets) == 0..(Len(Parts(markets)) - 1)

\* The bound on shards leaves room for every stream.
ASSUME PolymarketBounds == \A markets \in MatchSet : FirstShards(markets) \subseteq Shard

FirstMeta(markets) ==
  [s \in Shard |-> IF s \in FirstShards(markets) THEN Parts(markets)[s + 1] ELSE {}]
FirstPc(markets) ==
  [s \in Shard |-> IF s \in FirstShards(markets) THEN "top" ELSE "off"]

Init ==
  /\ desired \in MatchSet
  /\ shards = FirstShards(desired) /\ meta = FirstMeta(desired) /\ pc = FirstPc(desired)
  /\ batches = NoShards.batches /\ ws = NoShards.ws /\ errors = NoShards.errors
  /\ ridSeq = NoShards.ridSeq /\ toSend = NoShards.toSend /\ sent = NoShards.sent
  /\ link = NoShards.link /\ cmds = NoShards.cmds /\ chan = NoShards.chan
  /\ sub = NoShards.sub
  /\ rpc = "idle" /\ pending = {} /\ recycled = {} /\ before = <<>> /\ ghosts = FALSE
  /\ at = 0 /\ stale = NotRead /\ fut = "none" /\ applied = "none"
  /\ blind = FALSE /\ doubled = FALSE /\ spared = {} /\ faults = 0 /\ resyncs = 0

-----------------------------------------------------------------------------
(* A shard's reader                                                        *)

\* The unsubscribe being waited for on this shard, if any, has failed.
FailPendingAcks(s) ==
  fut' = IF rpc = "ack" /\ at = s /\ fut = "pending" THEN "failed" ELSE fut

CallUnchanged ==
  UNCHANGED <<rpc, desired, pending, recycled, before, ghosts, at, stale, applied>>

\* A refresher whose future is resolved runs before anything that takes this
\* shard's reader another turn of the event loop.
ReaderMayWait(s) == ~(rpc = "ack" /\ at = s /\ fut # "pending")

LoopHead(s) ==
  /\ pc[s] = "top"
  /\ pc' = [pc EXCEPT ![s] = "connecting"]
  /\ ws' = [ws EXCEPT ![s] = FALSE]
  /\ FailPendingAcks(s) /\ CallUnchanged
  /\ UNCHANGED <<shards, meta, batches, errors, ridSeq, toSend, sent, netVars,
                 blind, faults, doubled, spared, resyncs>>

\* The list to subscribe is read here, cut into batches.
Connected(s) ==
  /\ pc[s] = "connecting" /\ ReaderMayWait(s)
  /\ pc' = [pc EXCEPT ![s] = "subscribing"]
  /\ ws' = [ws EXCEPT ![s] = TRUE]
  /\ batches' = [batches EXCEPT ![s] = {}]
  /\ toSend' = [toSend EXCEPT ![s] = Pieces(meta[s], SubBatch)]
  /\ link' = [link EXCEPT ![s] = "up"] /\ cmds' = [cmds EXCEPT ![s] = <<>>]
  /\ chan' = [chan EXCEPT ![s] = <<>>] /\ sub' = [sub EXCEPT ![s] = {}]
  /\ spared' = spared \ {s}
  /\ UNCHANGED <<shards, meta, errors, ridSeq, sent, callVars, blind, faults, doubled, resyncs>>

\* A batch is recorded once its send returns, then the next one is sent.
SubscribeNext(s) ==
  /\ pc[s] = "subscribing" /\ link[s] # "closed" /\ ws[s]
  /\ batches' = [batches EXCEPT ![s] = @ \cup ({sent[s]} \ NotRead)]
  /\ IF toSend[s] = <<>>
     THEN /\ pc' = [pc EXCEPT ![s] = "recv"]
          /\ sent' = [sent EXCEPT ![s] = NoBatch]
          /\ UNCHANGED <<ridSeq, toSend, cmds>>
     ELSE LET b == [rid |-> ridSeq[s] + 1, slugs |-> Head(toSend[s])] IN
          /\ ridSeq' = [ridSeq EXCEPT ![s] = @ + 1]
          /\ sent' = [sent EXCEPT ![s] = b]
          /\ cmds' = [cmds EXCEPT ![s] = Append(@, [op |-> "subscribe", batch |-> b])]
          /\ toSend' = [toSend EXCEPT ![s] = Tail(@)]
          /\ UNCHANGED pc
  /\ UNCHANGED <<shards, meta, ws, errors, callVars, link, chan, sub, blind,
                 faults, doubled, spared, resyncs>>

\* Connecting, sending or receiving raised: the socket is forgotten.
ReaderRaises(s) ==
  /\ \/ pc[s] = "connecting" /\ faults < MaxFault /\ faults' = faults + 1
     \/ /\ pc[s] = "subscribing" \/ (pc[s] = "recv" /\ chan[s] = <<>>)
        /\ link[s] = "closed" /\ UNCHANGED faults
  /\ pc' = [pc EXCEPT ![s] = "backoff"]
  /\ ws' = [ws EXCEPT ![s] = FALSE]
  /\ toSend' = [toSend EXCEPT ![s] = <<>>] /\ sent' = [sent EXCEPT ![s] = NoBatch]
  /\ UNCHANGED <<shards, meta, batches, errors, ridSeq, callVars, netVars, blind,
                 doubled, spared, resyncs>>

\* A message that does not parse, or a send on the socket that a recycle has set to
\* None since the last one: nothing expects these, and the shard's task is over.
ReaderEnds(s) ==
  /\ \/ pc[s] = "recv" /\ link[s] = "up" /\ faults < MaxFault /\ faults' = faults + 1
     \/ /\ pc[s] = "subscribing" /\ ~ws[s] /\ sent[s] # NoBatch /\ toSend[s] # <<>>
        /\ UNCHANGED faults
  /\ pc' = [pc EXCEPT ![s] = "ended"]
  /\ link' = [link EXCEPT ![s] = "closed"]
  /\ UNCHANGED <<shardVars, toSend, sent, callVars, cmds, chan, sub, blind, doubled, spared, resyncs>>

BackoffOver(s) ==
  /\ pc[s] = "backoff" /\ ReaderMayWait(s)
  /\ pc' = [pc EXCEPT ![s] = "top"]
  /\ UNCHANGED <<shardVars, toSend, sent, callVars, netVars, blind, faults, doubled, spared, resyncs>>

IdleTimeout(s) ==
  /\ pc[s] = "recv" /\ chan[s] = <<>> /\ link[s] = "stalled"
  /\ ReaderMayWait(s)
  /\ pc' = [pc EXCEPT ![s] = "top"]
  /\ link' = [link EXCEPT ![s] = "closed"]
  /\ UNCHANGED <<shardVars, toSend, sent, callVars, cmds, chan, sub, blind, faults,
                 doubled, spared, resyncs>>

\* A control frame: an error is counted, an acknowledgement wakes its waiter.
OnControl(s) ==
  /\ pc[s] = "recv" /\ chan[s] # <<>>
  /\ chan' = [chan EXCEPT ![s] = Tail(@)]
  /\ LET f == Head(chan[s]) IN
       /\ errors' = IF f.kind = "error" THEN [errors EXCEPT ![s] = @ + 1] ELSE errors
       /\ fut' = IF /\ f.kind = "unsubscribed" /\ rpc = "ack" /\ fut = "pending"
                    /\ at = s /\ f.rid = First(stale).rid
                 THEN "done" ELSE fut
  /\ CallUnchanged
  /\ UNCHANGED <<shards, meta, batches, ws, ridSeq, readerVars, link, cmds, sub,
                 blind, faults, doubled, spared, resyncs>>

-----------------------------------------------------------------------------
(* resync                                                                  *)

Current == UNION {meta[s] : s \in shards}
Recorded(s) == meta[s] \subseteq Slugs(batches[s])

Resync(markets) ==
  /\ rpc = "idle" /\ resyncs < MaxResync
  /\ resyncs' = resyncs + 1
  /\ desired' = markets
  /\ pending' = markets \ Current
  /\ \/ shards = {} /\ applied' = "on_reconnect" /\ UNCHANGED rpc
     \/ shards # {} /\ markets = Current /\ applied' = "unchanged" /\ UNCHANGED rpc
     \/ shards # {} /\ markets # Current /\ applied' = "none" /\ rpc' = "prune"
  /\ recycled' = {} /\ before' = <<>> /\ ghosts' = FALSE /\ at' = 0 /\ stale' = NotRead /\ fut' = "none"
  /\ blind' = FALSE
  /\ UNCHANGED <<shardVars, readerVars, netVars, doubled, spared, faults>>

\* The turn passes to the next shard, or this pass over the shards is over.
Advance(phase, then) ==
  /\ stale' = NotRead
  /\ IF at + 1 \in shards THEN at' = at + 1 /\ rpc' = phase ELSE at' = 0 /\ rpc' = then

\* The shard is to be recycled, and the rest of its stale batches is left alone.
GiveUpOn == recycled' = recycled \cup {at} /\ Advance("prune", "add")

Sendable == ws[at] /\ link[at] # "closed"

\* Mutant of Stale: only a wholly dead batch is stale.
StaleWhenDead == {b \in batches[at] : b.slugs \cap desired = {}}

StaleOn(s) == {b \in batches[s] : ~(b.slugs \subseteq desired)}
Stale == StaleOn(at)

\* _prune_shard up to the await of the first acknowledgement it needs.  With no
\* socket it corrects the list for every batch left.
PruneNext ==
  /\ rpc = "prune"
  /\ LET todo == IF stale = NotRead THEN Stale ELSE stale
         now  == IF todo = {} THEN {} ELSE IF ws[at] THEN {First(todo)} ELSE todo
     IN
     /\ meta' = [meta EXCEPT ![at] = @ \ (Slugs(now) \ desired)]
     /\ batches' = [batches EXCEPT ![at] = @ \ now]
     /\ \/ /\ todo = {} \/ ~ws[at]
           /\ Advance("prune", "add")
           /\ UNCHANGED <<recycled, fut, cmds>>
        \/ /\ todo # {} /\ ws[at] /\ ~Sendable
           /\ GiveUpOn
           /\ UNCHANGED <<fut, cmds>>
        \/ /\ todo # {} /\ Sendable
           /\ rpc' = "ack" /\ stale' = todo /\ fut' = "pending"
           /\ cmds' = [cmds EXCEPT ![at] =
                         Append(@, [op |-> "unsubscribe", batch |-> First(todo)])]
           /\ UNCHANGED <<recycled, at>>
  /\ blind' = (blind \/ (stale = NotRead /\ ~Recorded(at)))
  /\ UNCHANGED <<shards, ws, errors, ridSeq, readerVars, desired, pending, before,
                 ghosts, applied, link, chan, sub, faults, doubled, spared, resyncs>>

\* Commands for some sets of slugs, under fresh request ids, and their records.
Numbered(pieces) == [i \in 1..Len(pieces) |-> [rid |-> ridSeq[at] + i, slugs |-> pieces[i]]]
SendSubscribe(pieces) ==
  LET bs == Numbered(pieces) IN
  /\ ridSeq' = [ridSeq EXCEPT ![at] = @ + Len(bs)]
  /\ batches' = [batches EXCEPT ![at] = @ \cup ToSet(bs)]
  /\ cmds' = [cmds EXCEPT ![at] =
                @ \o [i \in 1..Len(bs) |-> [op |-> "subscribe", batch |-> bs[i]]]]

\* Mutant of Survivors: a batch is dropped whole.
NoSurvivors == {}

Survivors == First(stale).slugs \cap desired

\* The batch is gone: what is still wanted of it is subscribed again.  The socket
\* may have died since the acknowledgement; if its reader has noticed, the send is
\* on None and resync itself raises.
Acknowledged ==
  /\ rpc = "ack" /\ fut = "done"
  /\ \/ /\ Survivors = {}
        /\ rpc' = "prune" /\ stale' = stale \ {First(stale)}
        /\ UNCHANGED <<ridSeq, batches, cmds, recycled, at, applied, spared>>
     \/ /\ Survivors # {} /\ ~ws[at]
        /\ rpc' = "idle" /\ applied' = "failed" /\ spared' = spared \cup recycled
        /\ UNCHANGED <<ridSeq, batches, cmds, recycled, at, stale>>
     \/ /\ Survivors # {} /\ ws[at] /\ ~Sendable
        /\ GiveUpOn
        /\ UNCHANGED <<ridSeq, batches, cmds, applied, spared>>
     \/ /\ Survivors # {} /\ Sendable
        /\ SendSubscribe(<<Survivors>>)
        /\ rpc' = "prune" /\ stale' = stale \ {First(stale)}
        /\ UNCHANGED <<recycled, at, applied, spared>>
  /\ fut' = "none"
  /\ UNCHANGED <<shards, meta, ws, errors, readerVars, desired, pending, before, ghosts,
                 link, chan, sub, blind, faults, doubled, resyncs>>

\* Mutant of AckTimeout: the wait has no timeout.
AckNeverTimesOut == FALSE /\ UNCHANGED vars

\* No acknowledgement within ack_timeout, or the reader failed the wait.
AckTimeout ==
  /\ rpc = "ack"
  /\ GiveUpOn
  /\ fut' = "none"
  /\ UNCHANGED <<shardVars, readerVars, desired, pending, before, ghosts, applied, netVars,
                 blind, faults, doubled, spared, resyncs>>

\* The stream ended while an acknowledgement was awaited: the wait runs out, and so does
\* the list of its shards, all of them closed (Torn says which count as recycled).
OrphansPruned ==
  /\ rpc = "orphan"
  /\ rpc' = "add" /\ at' = 0
  /\ UNCHANGED <<shardVars, readerVars, desired, pending, recycled, before, ghosts, stale,
                 fut, applied, netVars, blind, faults, doubled, spared, resyncs>>

\* Mutant of Room: the limit is ignored.
RoomForAll == Cardinality(pending)

Room == MaxSubs - Cardinality(meta[at])

\* What is added to this shard: as much as it has room for.
Take ==
  IF pending = {} \/ at \notin shards \/ at \in recycled \/ Room <= 0 THEN {} ELSE Pieces(pending, Room)[1]

PlaceAdds ==
  /\ rpc = "add"
  /\ meta' = [meta EXCEPT ![at] = @ \cup Take]
  /\ pending' = pending \ Take
  /\ IF Take # {} /\ Sendable
     THEN SendSubscribe(Pieces(Take, SubBatch))
     ELSE UNCHANGED <<ridSeq, batches, cmds>>
  /\ recycled' = IF Take # {} /\ ws[at] /\ ~Sendable THEN recycled \cup {at} ELSE recycled
  /\ Advance("add", "overflow")
  /\ UNCHANGED <<shards, ws, errors, readerVars, desired, before, ghosts, fut, applied,
                 link, chan, sub, blind, faults, doubled, spared, resyncs>>

\* Mutant of Chunks: what no shard has room for is left out.
NoNewShard == <<>>

Chunks == IF shards = {} THEN <<>> ELSE Pieces(pending, MaxSubs)

\* What is left goes to new shards, if a stream is running; then the error counts of
\* the shards not to be recycled are noted.
Overflow ==
  /\ rpc = "overflow"
  /\ LET n == Cardinality(shards) IN
       /\ n + Len(Chunks) <= MaxShards
       /\ shards' = shards \cup n..(n + Len(Chunks) - 1)
       /\ meta' = [s \in Shard |-> IF s \in shards' \ shards THEN Chunks[s - n + 1] ELSE meta[s]]
       /\ pc' = [s \in Shard |-> IF s \in shards' \ shards THEN "top" ELSE pc[s]]
  /\ pending' = {} /\ rpc' = "grace"
  /\ before' = [s \in shards' \ recycled |-> errors[s]]
  /\ UNCHANGED <<batches, ws, errors, ridSeq, toSend, sent, desired, recycled, ghosts, at,
                 stale, fut, applied, netVars, blind, faults, doubled, spared, resyncs>>

\* error_grace has passed: a shard that reported an error since is recycled too.
GraceOver ==
  /\ rpc = "grace"
  /\ recycled' = recycled \cup {s \in DOMAIN before : errors[s] > before[s]}
  /\ before' = <<>>
  /\ applied' = IF recycled' = {} /\ ~ghosts THEN "live" ELSE "recycled"
  /\ rpc' = IF recycled' = {} THEN "idle" ELSE "recycle"
  /\ UNCHANGED <<shardVars, readerVars, desired, pending, ghosts, at, stale, fut, netVars,
                 blind, faults, doubled, spared, resyncs>>

\* Mutant of LinkAfterRecycle: the socket is forgotten and left open.
LinkLeftOpen(s) == link[s]

LinkAfterRecycle(s) == IF ws[s] THEN "closed" ELSE link[s]

\* _recycle: the socket is forgotten and closed.
Recycle(s) ==
  /\ rpc = "recycle" /\ s \in recycled
  /\ recycled' = recycled \ {s}
  /\ ws' = [ws EXCEPT ![s] = FALSE]
  /\ link' = [link EXCEPT ![s] = LinkAfterRecycle(s)]
  /\ rpc' = IF recycled' = {} THEN "idle" ELSE "recycle"
  /\ UNCHANGED <<shards, meta, batches, errors, ridSeq, readerVars, desired, pending,
                 before, ghosts, at, stale, fut, applied, cmds, chan, sub, blind, faults,
                 doubled, spared, resyncs>>

-----------------------------------------------------------------------------
(* The stream and its consumer                                             *)

\* Will the resync have one of the present shards to recycle, if none of them runs on?
\* It goes on down the list it was reading: a batch it waits for, is to send to or finds
\* on a later shard meets a closed socket.
LeavesGhosts ==
  \/ ghosts \/ recycled # {}
  \/ \E s \in DOMAIN before : errors[s] > before[s]
  \/ rpc = "ack" /\ (fut # "done" \/ Survivors # {} \/ stale # {First(stale)})
  \/ rpc = "ack" /\ \E s \in shards : s > at /\ ws[s] /\ StaleOn(s) # {}

\* The stream is over: its tasks are cancelled, its sockets closed, its list emptied.
Torn ==
  /\ shards' = {} /\ meta' = [s \in Shard |-> {}] /\ pc' = [s \in Shard |-> "off"]
  /\ batches' = NoShards.batches /\ ws' = NoShards.ws /\ errors' = NoShards.errors
  /\ ridSeq' = NoShards.ridSeq /\ toSend' = NoShards.toSend /\ sent' = NoShards.sent
  /\ link' = NoShards.link /\ cmds' = NoShards.cmds /\ chan' = NoShards.chan
  /\ sub' = NoShards.sub
  /\ ghosts' = LeavesGhosts
  /\ rpc' = CASE rpc = "ack" -> "orphan" [] rpc = "recycle" -> "idle" [] OTHER -> rpc
  /\ recycled' = {} /\ before' = <<>> /\ at' = 0 /\ stale' = NotRead /\ fut' = "none" /\ spared' = {}
  /\ UNCHANGED <<desired, pending, applied, blind, doubled, resyncs>>

\* A shard that ended is noticed once the queue of books is empty.
StreamEnds == (\E s \in shards : pc[s] = "ended") /\ Torn /\ UNCHANGED faults

\* The consumer of the books raises, and its stream is closed with it.
ConsumerRaises == shards # {} /\ faults < MaxFault /\ faults' = faults + 1 /\ Torn

\* consume starts a stream of the list the refresh keeps for it.
StreamStarts ==
  /\ shards = {}
  /\ shards' = FirstShards(desired) /\ meta' = FirstMeta(desired) /\ pc' = FirstPc(desired)
  /\ doubled' = (rpc # "idle" /\ pending # {})
  /\ UNCHANGED <<batches, ws, errors, ridSeq, toSend, sent, callVars, netVars, blind, spared,
                 faults, resyncs>>

-----------------------------------------------------------------------------
(* The venue and the network (external)                                    *)

\* A subscribe beyond the venue's limit is refused; any other may be.
VenueSubscribe(s, accepts) ==
  /\ link[s] = "up" /\ cmds[s] # <<>> /\ Head(cmds[s]).op = "subscribe"
  /\ LET b    == Head(cmds[s]).batch
         fits == Cardinality(Slugs(sub[s])) + Cardinality(b.slugs) <= MaxSubs
     IN  IF accepts
         THEN fits /\ sub' = [sub EXCEPT ![s] = @ \cup {b}] /\ UNCHANGED <<chan, faults>>
         ELSE /\ ~fits \/ faults < MaxFault
              /\ faults' = IF fits THEN faults + 1 ELSE faults
              /\ chan' = [chan EXCEPT ![s] = Append(@, [kind |-> "error", rid |-> b.rid])]
              /\ UNCHANGED sub
  /\ cmds' = [cmds EXCEPT ![s] = Tail(@)]
  /\ UNCHANGED <<shardVars, readerVars, callVars, link, blind, doubled, spared, resyncs>>

\* An unsubscribe is acknowledged when the venue knows its request id; it may be
\* ignored.
VenueUnsubscribe(s, hears) ==
  /\ link[s] = "up" /\ cmds[s] # <<>> /\ Head(cmds[s]).op = "unsubscribe"
  /\ LET b == Head(cmds[s]).batch IN
       IF hears /\ b \in sub[s]
       THEN /\ sub' = [sub EXCEPT ![s] = @ \ {b}]
            /\ chan' = [chan EXCEPT ![s] = Append(@, [kind |-> "unsubscribed", rid |-> b.rid])]
            /\ UNCHANGED faults
       ELSE /\ b \in sub[s] => faults < MaxFault
            /\ faults' = IF b \in sub[s] THEN faults + 1 ELSE faults
            /\ UNCHANGED <<sub, chan>>
  /\ cmds' = [cmds EXCEPT ![s] = Tail(@)]
  /\ UNCHANGED <<shardVars, readerVars, callVars, link, blind, doubled, spared, resyncs>>

LinkFails(s, how) ==
  /\ link[s] = "up" /\ faults < MaxFault
  /\ link' = [link EXCEPT ![s] = how] /\ faults' = faults + 1
  /\ UNCHANGED <<shardVars, readerVars, callVars, cmds, chan, sub, blind, doubled, spared, resyncs>>

-----------------------------------------------------------------------------
\* The refresher is between two awaits.
Running == rpc \in {"prune", "add", "overflow"}

Reader(s) ==
  /\ ~Running
  /\ \/ LoopHead(s) \/ Connected(s) \/ SubscribeNext(s) \/ ReaderRaises(s)
     \/ BackoffOver(s) \/ IdleTimeout(s) \/ OnControl(s)

Stream == ~Running /\ (StreamEnds \/ StreamStarts)

Refresher ==
  \/ PruneNext \/ Acknowledged \/ AckTimeout \/ OrphansPruned
  \/ PlaceAdds \/ Overflow \/ GraceOver
  \/ \E s \in Shard : Recycle(s)

Venue(s) == \E b \in BOOLEAN : VenueSubscribe(s, b) \/ VenueUnsubscribe(s, b)

Next ==
  \/ \E s \in Shard : Reader(s) \/ Venue(s)
  \/ Refresher \/ Stream
  \/ ~Running /\ (ConsumerRaises \/ \E s \in shards : ReaderEnds(s))
  \/ \E markets \in MatchSet : Resync(markets)
  \/ \E s \in Shard, how \in {"closed", "stalled"} : LinkFails(s, how)

\* Every task of the event loop runs, connects eventually succeed, a venue that is up
\* reads its commands, and the consumer keeps up with the queue of books.
Fairness ==
  /\ \A s \in Shard : WF_vars(Reader(s)) /\ WF_vars(Venue(s))
  /\ WF_vars(Refresher) /\ WF_vars(Stream)

Spec == Init /\ [][Next]_vars /\ Fairness

-----------------------------------------------------------------------------
(* Properties                                                              *)

\* A resync that reports "live" has left the shards wanting exactly `markets`, unless it
\* met a shard in the middle of subscribing; and no slug is ever on two shards, however
\* removals, additions, reconnects and restarts follow each other, unless the stream was
\* started under a resync that still had slugs to place.
LiveMeansExact ==
  /\ rpc = "idle" /\ applied = "live" /\ ~blind /\ shards # {} => Current = desired
  /\ ~doubled => \A s, t \in shards : s # t => meta[s] \cap meta[t] = {}

\* However a resync ends, short of raising, every market asked for is on a shard.
Placed == rpc = "idle" /\ applied # "failed" /\ shards # {} => desired \subseteq Current

\* The batches the venue streams on this connection, and those on their way to it.
Subscribing(q) == {c.batch : c \in {d \in ToSet(q) : d.op = "subscribe"}}
Requested(s) == sub[s] \cup Subscribing(cmds[s])

\* Removals make room before additions take it, and the additions all find some: what is
\* asked for is placed, and no connection is ever asked for more than the venue's limit or
\* for a slug twice, counting what it still holds and what is on its way; unless a slug was
\* placed twice, or a resync raised before it recycled the shard.
PlacedWithinCap ==
  /\ Placed
  /\ doubled \/ \A s \in Shard \ spared :
       /\ Cardinality(Slugs(Requested(s))) <= MaxSubs
       /\ \A b, c \in Requested(s) : b # c => b.slugs \cap c.slugs = {}

\* What a shard wants is streamed to it (_stream_shard yields the books of those slugs
\* alone), and unless a slug was placed twice nothing else is.
Covered(s) ==
  /\ meta[s] \subseteq Slugs(sub[s])
  /\ doubled \/ Slugs(sub[s]) \subseteq meta[s]

\* A shard with nothing in flight that was never refused is covered, whatever a resync
\* found half done, lost or gave up on, unless a resync raised before it recycled it.
CoveredWhenQuiet ==
  \A s \in shards \ spared :
    (rpc = "idle" /\ pc[s] = "recv" /\ link[s] = "up" /\ chan[s] = <<>> /\ cmds[s] = <<>>
     /\ errors[s] = 0) => Covered(s)

\* Every resync returns, whatever the venue answers and whichever sockets die.
ResyncReturns == rpc # "idle" ~> rpc = "idle"

\* Without refusals every shard ends up covered, unless a raise spared it its recycle.
EventuallyCovered ==
  <>[](shards # {} /\ \A s \in shards : pc[s] = "recv" /\ link[s] = "up" /\ (s \in spared \/ Covered(s)))
    \/ <>(\E s \in Shard : errors[s] > 0 \/ \E i \in 1..Len(chan[s]) : chan[s][i].kind = "error")
=============================================================================
