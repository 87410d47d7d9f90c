-------------------------- MODULE KalshiFeed_proofs --------------------------
(***************************************************************************)
(* What is proved of the Kalshi stream for any tickers, any number of      *)
(* resyncs and faults and any interleaving of reader, refresher and venue: *)
(* what a refresh leaves behind is forgotten, only a lost frame is taken   *)
(* for a gap, "live" means applied, and the books are the venue's.         *)
(***************************************************************************)
EXTENDS KalshiFeed, SequenceTheorems, FiniteSetTheorems, TLAPS

Command == [op : {"subscribe", "delete_markets", "add_markets"}, tickers : SUBSET Ticker,
            id : Nat]
Frame   == [kind : {"none", "subscribed", "snapshot", "delta", "reply"}, seq : Nat,
            ticker : Ticker \cup {{}}, val : Int, truth : Int, id : Nat, reply : Future]

\* The state apart from the sizes of the ladders.
Types ==
  /\ meta \subseteq Ticker /\ pruned \subseteq Ticker /\ tickers \subseteq Ticker
  /\ ws \in Nat /\ sid \in BOOLEAN /\ cmdId \in Nat
  /\ pc \in {"top", "connecting", "recv", "backoff", "crashed"}
  /\ lastSeq \in Nat /\ lost \in BOOLEAN
  /\ rpc \in {"idle", "send", "wait", "close"}
  /\ call \in [ws : Nat, added : SUBSET Ticker, dropped : SUBSET Ticker,
               todo : Seq({"delete_markets", "add_markets"}), id : Nat]
  /\ fut \in Future
  /\ conn \in Nat /\ link \in {"none", "up", "stalled", "closed"}
  /\ sub \subseteq Ticker /\ vseq \in Nat /\ size \in [Ticker -> 0..MaxSize]
  /\ cmds \in Seq(Command) /\ chan \in Seq(Frame)

-----------------------------------------------------------------------------
(* Lemmas about sequences of frames                                        *)

\* The numbers of the frames of s continue the count from a to b.
Chain(s, a, b) ==
  \E n \in [0..Len(s) -> Nat] :
    /\ n[0] = a /\ n[Len(s)] = b
    /\ \A i \in 1..Len(s) : \/ s[i].seq = NoSeq /\ n[i] = n[i - 1]
                            \/ s[i].seq = n[i - 1] + 1 /\ n[i] = n[i - 1] + 1

LEMMA ChainEmpty == ASSUME NEW a \in Nat PROVE Chain(<<>>, a, a)
<1> DEFINE n == [i \in 0..0 |-> a]
<1>1. Len(<<>>) = 0  BY EmptySeq
<1>2. n \in [0..0 -> Nat] /\ n[0] = a  OBVIOUS
<1> HIDE DEF n
<1>3. QED  BY <1>1, <1>2 DEF Chain

LEMMA ChainOne ==
  ASSUME NEW f \in Frame, NEW a \in Nat
  PROVE  /\ f.seq = NoSeq => Chain(<<f>>, a, a)
         /\ f.seq = a + 1 => Chain(<<f>>, a, a + 1)
<1>1. Len(<<f>>) = 1 /\ <<f>>[1] = f  OBVIOUS
<1>2. ASSUME f.seq = NoSeq PROVE Chain(<<f>>, a, a)
  <2> DEFINE n == [i \in 0..1 |-> a]
  <2>1. n \in [0..1 -> Nat] /\ n[0] = a /\ n[1] = a  OBVIOUS
  <2>2. \A i \in 1..1 : <<f>>[i].seq = NoSeq /\ n[i] = n[i - 1]  BY <1>2
  <2> HIDE DEF n
  <2>3. QED  BY <1>1, <2>1, <2>2 DEF Chain
<1>3. ASSUME f.seq = a + 1 PROVE Chain(<<f>>, a, a + 1)
  <2> DEFINE n == [i \in 0..1 |-> a + i]
  <2>1. n \in [0..1 -> Nat] /\ n[0] = a /\ n[1] = a + 1  OBVIOUS
  <2>2. \A i \in 1..1 : <<f>>[i].seq = n[i - 1] + 1 /\ n[i] = n[i - 1] + 1  BY <1>3
  <2> HIDE DEF n
  <2>3. QED  BY <1>1, <2>1, <2>2 DEF Chain
<1>4. QED  BY <1>2, <1>3

LEMMA ChainConcat ==
  ASSUME NEW s \in Seq(Frame), NEW t \in Seq(Frame), NEW a, NEW b, NEW c,
         Chain(s, a, b), Chain(t, b, c)
  PROVE  Chain(s \o t, a, c)
<1>1. Len(s) \in Nat /\ Len(t) \in Nat  BY LenProperties
<1>2. /\ Len(s \o t) = Len(s) + Len(t)
      /\ \A i \in 1..Len(s) + Len(t) : (s \o t)[i] = IF i <= Len(s) THEN s[i] ELSE t[i - Len(s)]
  BY ConcatProperties
<1> DEFINE k == Len(s) l == Len(t)
<1>3. PICK n \in [0..k -> Nat] :
        /\ n[0] = a /\ n[k] = b
        /\ \A i \in 1..k : \/ s[i].seq = NoSeq /\ n[i] = n[i - 1]
                           \/ s[i].seq = n[i - 1] + 1 /\ n[i] = n[i - 1] + 1
  BY DEF Chain
<1>4. PICK m \in [0..l -> Nat] :
        /\ m[0] = b /\ m[l] = c
        /\ \A i \in 1..l : \/ t[i].seq = NoSeq /\ m[i] = m[i - 1]
                           \/ t[i].seq = m[i - 1] + 1 /\ m[i] = m[i - 1] + 1
  BY DEF Chain
<1> DEFINE u == s \o t
           o == [i \in 0..(k + l) |-> IF i <= k THEN n[i] ELSE m[i - k]]
<1>5. k \in Nat /\ l \in Nat  BY <1>1
<1>6. Len(u) = k + l /\ \A i \in 1..(k + l) : u[i] = IF i <= k THEN s[i] ELSE t[i - k]
  BY <1>2
<1> HIDE DEF k, l, u
<1>7. o \in [0..(k + l) -> Nat]  BY <1>3, <1>4, <1>5
<1>8. o[0] = a  BY <1>3, <1>5
<1>9. o[k + l] = c
  <2>1. CASE l = 0  BY <1>3, <1>4, <1>5, <2>1
  <2>2. CASE l # 0  BY <1>4, <1>5, <2>2
  <2>3. QED  BY <2>1, <2>2
<1>10. ASSUME NEW i \in 1..(k + l)
       PROVE  \/ u[i].seq = NoSeq /\ o[i] = o[i - 1]
              \/ u[i].seq = o[i - 1] + 1 /\ o[i] = o[i - 1] + 1
  <2>1. CASE i <= k
    <3>1. i \in 1..k /\ i \in 0..(k + l) /\ i - 1 \in 0..(k + l) /\ i - 1 <= k
      BY <1>5, <2>1
    <3>2. o[i] = n[i] /\ o[i - 1] = n[i - 1]  BY <2>1, <3>1
    <3>3. u[i] = s[i]  BY ONLY <1>6, <1>10, <2>1
    <3> HIDE DEF o
    <3>4. QED  BY <1>3, <3>1, <3>2, <3>3
  <2>2. CASE i > k
    <3>1. i - k \in 1..l /\ o[i] = m[i - k] /\ u[i] = t[i - k]  BY <1>5, <1>6, <2>2
    <3>2. o[i - 1] = m[i - k - 1]
      <4>1. CASE i = k + 1
        <5>1. o[i - 1] = n[k] /\ i - k - 1 = 0  BY <1>5, <4>1
        <5>2. QED  BY <1>3, <1>4, <5>1
      <4>2. CASE i # k + 1
        <5>1. i - 1 \in 0..(k + l) /\ ~(i - 1 <= k) /\ (i - 1) - k = i - k - 1
          BY <1>5, <2>2, <4>2
        <5>2. QED  BY <5>1
      <4>3. QED  BY <4>1, <4>2
    <3> HIDE DEF o
    <3>3. QED  BY <1>4, <3>1, <3>2
  <2>3. QED  BY <1>5, <2>1, <2>2
<1> HIDE DEF o
<1>11. Chain(u, a, c)  BY <1>6, <1>7, <1>8, <1>9, <1>10 DEF Chain
<1>12. QED  BY <1>11 DEF u

\* The next frame read is unnumbered, or one above the last.
LEMMA ChainHead ==
  ASSUME NEW s \in Seq(Frame), s # <<>>, NEW a \in Nat, NEW b, Chain(s, a, b)
  PROVE  \/ Head(s).seq = NoSeq /\ Chain(Tail(s), a, b)
         \/ Head(s).seq = a + 1 /\ Chain(Tail(s), a + 1, b)
<1> DEFINE k == Len(s) h == Head(s) t == Tail(s)
<1>1. /\ k \in Nat \ {0} /\ Len(t) = k - 1 /\ h = s[1]
      /\ \A i \in 1..(k - 1) : t[i] = s[i + 1]
  BY EmptySeq, LenProperties, HeadTailProperties
<1>2. PICK n \in [0..k -> Nat] :
        /\ n[0] = a /\ n[k] = b
        /\ \A i \in 1..k : \/ s[i].seq = NoSeq /\ n[i] = n[i - 1]
                           \/ s[i].seq = n[i - 1] + 1 /\ n[i] = n[i - 1] + 1
  BY DEF Chain
<1> HIDE DEF k, h, t
<1> DEFINE m == [i \in 0..(k - 1) |-> n[i + 1]]
<1>3. /\ m \in [0..(k - 1) -> Nat] /\ m[0] = n[1] /\ m[k - 1] = b
      /\ \A i \in 1..(k - 1) : m[i] = n[i + 1] /\ m[i - 1] = n[i]
  BY <1>1, <1>2
<1> HIDE DEF m
<1>4. \A i \in 1..(k - 1) : \/ t[i].seq = NoSeq /\ m[i] = m[i - 1]
                            \/ t[i].seq = m[i - 1] + 1 /\ m[i] = m[i - 1] + 1
  <2> TAKE i \in 1..(k - 1)
  <2>1. i + 1 \in 1..k /\ (i + 1) - 1 = i  BY <1>1
  <2>2. QED  BY <1>1, <1>2, <1>3, <2>1
<1>5. Chain(t, n[1], b)  BY <1>1, <1>3, <1>4 DEF Chain
<1>6. 1 \in 1..k /\ 1 - 1 = 0  BY <1>1
<1>7. \/ s[1].seq = NoSeq /\ n[1] = n[0]
      \/ s[1].seq = n[0] + 1 /\ n[1] = n[0] + 1
  BY <1>2, <1>6
<1>8. \/ h.seq = NoSeq /\ Chain(t, a, b)
      \/ h.seq = a + 1 /\ Chain(t, a + 1, b)
  BY <1>1, <1>2, <1>5, <1>7
<1>9. QED  BY <1>8 DEF h, t

\* The snapshots of a subscription are one per ticker, numbered on from n.
LEMMA SnapshotFrames ==
  ASSUME Types, NEW ts \in SUBSET Ticker, NEW n \in Nat
  PROVE  /\ Snapshots(ts, n) \in Seq(Frame)
         /\ \A f \in Range(Snapshots(ts, n)) : f.kind = "snapshot"
         /\ Chain(Snapshots(ts, n), n, n + Cardinality(ts))
         /\ Cardinality(ts) \in Nat
<1> DEFINE s == SetToSeq(ts) c == Cardinality(ts) u == Snapshots(ts, n)
<1>1. IsFiniteSet(ts)  BY KalshiAssumption, FS_Subset
<1>2. c \in Nat /\ \E f : f \in Bijection(1..c, ts)
  BY <1>1, FS_CardinalityType DEF ExistsBijection
<1>3. \E f \in [1..c -> ts] : IsInjective(f)
  BY <1>2 DEF Bijection, Injection
<1>4. s \in [1..c -> ts]  BY <1>3 DEF SetToSeq
<1>5. s \in Seq(ts) /\ Len(s) = c  BY <1>2, <1>4, SeqDef
<1>6. u = [i \in 1..c |-> Snapshot(s[i], n + i)]  BY <1>5 DEF Snapshots
<1> HIDE DEF s, c, u
<1>7. \A i \in 1..c : /\ Snapshot(s[i], n + i) \in Frame
                      /\ Snapshot(s[i], n + i).seq = n + i
                      /\ Snapshot(s[i], n + i).kind = "snapshot"
  <2> TAKE i \in 1..c
  <2>1. s[i] \in Ticker /\ n + i \in Nat /\ size[s[i]] \in Int
    BY <1>2, <1>4, KalshiAssumption DEF Types
  <2>2. Failed \in Future  BY DEF Failed, Future
  <2>3. QED  BY <2>1, <2>2 DEF Snapshot, NoFrame, Frame, NoSeq
<1>8. u \in Seq(Frame) /\ Len(u) = c
  <2>1. u \in [1..c -> Frame]  BY <1>6, <1>7
  <2>2. QED  BY <1>2, <2>1, SeqDef
<1>9. \A f \in Range(u) : f.kind = "snapshot"  BY <1>6, <1>7 DEF Range
<1>10. Chain(u, n, n + c)
  <2> DEFINE m == [i \in 0..c |-> n + i]
  <2>1. m \in [0..c -> Nat] /\ m[0] = n /\ m[c] = n + c  BY <1>2
  <2>2. \A i \in 1..c : m[i] = n + i /\ m[i - 1] = n + i - 1  BY <1>2
  <2>3. \A i \in 1..c : u[i].seq = m[i - 1] + 1 /\ m[i] = m[i - 1] + 1
    BY <1>2, <1>6, <1>7, <2>2
  <2> HIDE DEF m
  <2>4. QED  BY <1>8, <2>1, <2>3 DEF Chain
<1>11. QED  BY <1>2, <1>8, <1>9, <1>10 DEF u, c

\* What is taken off a sequence, or put behind it.
LEMMA RangeOfTail ==
  ASSUME NEW S, NEW s \in Seq(S), s # <<>>
  PROVE  Tail(s) \in Seq(S) /\ Head(s) \in S /\ Range(Tail(s)) \subseteq Range(s) /\ Head(s) \in Range(s)
<1>1. /\ Len(s) \in Nat \ {0} /\ DOMAIN s = 1..Len(s)
      /\ Tail(s) \in Seq(S) /\ Len(Tail(s)) = Len(s) - 1 /\ Head(s) = s[1] /\ Head(s) \in S
      /\ \A i \in 1..(Len(s) - 1) : Tail(s)[i] = s[i + 1]
  BY EmptySeq, LenProperties, HeadTailProperties
<1>2. DOMAIN Tail(s) = 1..(Len(s) - 1)  BY <1>1, LenProperties
<1>3. \A i \in 1..(Len(s) - 1) : i + 1 \in 1..Len(s)  BY <1>1
<1>4. 1 \in 1..Len(s)  BY <1>1
<1>5. QED  BY <1>1, <1>2, <1>3, <1>4 DEF Range

LEMMA RangeOfConcat ==
  ASSUME NEW S, NEW s \in Seq(S), NEW t \in Seq(S)
  PROVE  s \o t \in Seq(S) /\ Range(s \o t) = Range(s) \cup Range(t)
BY ConcatProperties, RangeConcatenation

LEMMA RangeOfOne ==
  ASSUME NEW S, NEW f \in S
  PROVE  <<f>> \in Seq(S) /\ Range(<<f>>) = {f}
<1>1. <<f>> \in Seq(S) /\ DOMAIN <<f>> = 1..1 /\ <<f>>[1] = f  OBVIOUS
<1>2. QED  BY <1>1 DEF Range

LEMMA RangeOfNone == Range(<<>>) = {}
<1>1. DOMAIN <<>> = {}  BY EmptySeq
<1>2. QED  BY <1>1 DEF Range

LEMMA AppendOne ==
  ASSUME NEW S, NEW s \in Seq(S), NEW f \in S
  PROVE  /\ Append(s, f) = s \o <<f>> /\ Append(s, f) \in Seq(S)
         /\ Range(Append(s, f)) = Range(s) \cup {f}
<1> DEFINE one == <<f>>
<1>1. Append(s, f) = s \o one  BY AppendIsConcat
<1>2. one \in Seq(S) /\ Range(one) = {f}  BY RangeOfOne
<1> HIDE DEF one
<1>3. s \o one \in Seq(S) /\ Range(s \o one) = Range(s) \cup {f}  BY <1>2, RangeOfConcat
<1>4. QED  BY <1>1, <1>3 DEF one

LEMMA RemoveOne ==
  ASSUME NEW S, NEW s \in Seq(S), NEW i \in 1..Len(s)
  PROVE  RemoveAt(s, i) \in Seq(S) /\ Range(RemoveAt(s, i)) \subseteq Range(s)
<1> DEFINE a == SubSeq(s, 1, i - 1) b == SubSeq(s, i + 1, Len(s)) l == Len(s)
<1>1. l \in Nat /\ DOMAIN s = 1..l /\ i \in Nat /\ 1 <= i /\ i <= l /\ \A j \in 1..l : s[j] \in S
  BY LenProperties, ElementOfSeq
<1>2. a \in Seq(Range(s))
  <2>1. \A j \in 1..(i - 1) : s[j] \in Range(s)  BY <1>1 DEF Range
  <2>2. i - 1 \in Int  BY <1>1
  <2> HIDE DEF l
  <2>3. QED  BY <2>1, <2>2, SubSeqProperties
<1>3. b \in Seq(Range(s))
  <2>1. \A j \in (i + 1)..l : s[j] \in Range(s)  BY <1>1 DEF Range
  <2>2. i + 1 \in Int /\ l \in Int  BY <1>1
  <2>3. QED  BY <2>1, <2>2, SubSeqProperties
<1>4. Range(s) \subseteq S  BY <1>1 DEF Range
<1> HIDE DEF a, b, l
<1>5. a \o b \in Seq(Range(s))  BY <1>2, <1>3, ConcatProperties
<1>6. a \o b \in Seq(S)  BY <1>4, <1>5, SeqMonotonic
<1>7. Range(a \o b) \subseteq Range(s)
  <2>1. DOMAIN (a \o b) = 1..Len(a \o b) /\ \A j \in 1..Len(a \o b) : (a \o b)[j] \in Range(s)
    BY <1>5, LenProperties, ElementOfSeq
  <2>2. Range(a \o b) = {(a \o b)[j] : j \in DOMAIN (a \o b)}  BY DEF Range
  <2>3. QED  BY <2>1, <2>2
<1>8. RemoveAt(s, i) = a \o b  BY DEF RemoveAt, a, b
<1>9. QED  BY <1>6, <1>7, <1>8

-----------------------------------------------------------------------------
(* The invariant                                                           *)

\* The frames on their way to a connected reader are numbered on from the last it read to
\* the last the venue sent.
Numbered ==
  /\ pc = "connecting" => lastSeq = NoSeq
  /\ pc = "recv" /\ ~lost => Chain(chan, lastSeq, vseq)

\* A socket that is open has its reader.
Links ==
  /\ link \in {"up", "stalled"} => pc = "recv"
  /\ pc = "recv" => ws = conn
  /\ call.ws <= conn /\ ws <= conn

Forgotten ==
  /\ NothingLeftBehind
  /\ pc = "connecting" => DOMAIN books = {}

Todo ==
  /\ call.added \cap call.dropped = {}
  /\ call.todo \in {<<>>, <<"delete_markets">>, <<"add_markets">>, <<"delete_markets", "add_markets">>}
  /\ rpc \in {"send", "wait"} => call.todo # <<>>
  /\ rpc = "idle" /\ applied = "live" => call.todo = <<>>

\* A command not yet read is the subscribe of a connection that has not begun, or the
\* mutation of the call in progress, which no reply has answered.
SubscribeOut == sub = {} /\ vseq = 0 /\ ~sid /\ \A f \in Range(chan) : f.kind # "subscribed"
MutationOut(c) ==
  /\ rpc \in {"wait", "close"} /\ call.ws = conn
  /\ c.id = call.id /\ c.id <= cmdId
  /\ c.op = Head(call.todo) /\ c.tickers = Operand(Head(call.todo))
  /\ fut.state # "done"
  /\ \A f \in Range(chan) : f.kind = "reply" => f.id # call.id
Outbox ==
  \/ cmds = <<>>
  \/ \E c \in Command : cmds = <<c>> /\ IF c.op = "subscribe" THEN SubscribeOut ELSE MutationOut(c)

\* The replies on their way are to mutations already sent.
Answered == \A f \in Range(chan) : f.kind = "reply" => f.id <= cmdId

\* A call that is sending, or was applied, knows the subscription of its connection.
Busy == rpc \in {"send", "wait"} \/ (rpc = "idle" /\ applied = "live")
Subscribed == Busy /\ call.ws = conn => sid

Wired == link = "up" => Outbox /\ Answered /\ Subscribed

IInv == Types /\ Numbered /\ Links /\ Forgotten /\ Todo /\ Wired

-----------------------------------------------------------------------------
(* Steps that leave the socket shut                                        *)

LEMMA FailedIsFuture == Failed \in Future /\ Pending \in Future
  BY DEF Failed, Pending, Future

LEMMA OpenSocketStep == ASSUME IInv, OpenSocket PROVE IInv'
<1>1. Types'
  BY FailedIsFuture DEF OpenSocket, FailPendingAcks, IInv, Types, NoSeq, NoSocket, venueVars
<1>2. Numbered' /\ Links'
  BY DEF OpenSocket, IInv, Types, Numbered, Links, NoSocket
<1>3. DOMAIN books' = {}  BY DEF OpenSocket
<1>4. Forgotten' /\ Todo'
  BY <1>3 DEF OpenSocket, FailPendingAcks, IInv, Forgotten, NothingLeftBehind, Todo
<1>5. Wired'  BY DEF OpenSocket, IInv, Links, Wired
<1>6. QED  BY <1>1, <1>2, <1>4, <1>5 DEF IInv

\* A connect that fails, a backoff that ends and a socket found closed.
LEMMA DownStep == ASSUME IInv, ConnectFails \/ BackoffOver \/ SocketClosed PROVE IInv'
<1>1. /\ UNCHANGED <<feedVars, tickers, books, lastSeq, callVars, conn, link, chan, venueVars, lost>>
      /\ pc' \in {"backoff", "top"} /\ link \notin {"up", "stalled"}
  BY DEF ConnectFails, BackoffOver, SocketClosed, IInv, Links
<1>2. Types'  BY <1>1 DEF IInv, Types, feedVars, callVars, venueVars
<1>3. Numbered' /\ Links' /\ Forgotten' /\ Todo' /\ Wired'
  BY <1>1 DEF IInv, Numbered, Links, Forgotten, NothingLeftBehind, Todo, Wired, feedVars, callVars
<1>4. QED  BY <1>2, <1>3 DEF IInv

\* The reader leaves a connection that is silent or has a gap, or its stream ends.
LEMMA TearDownStep ==
  ASSUME IInv, IdleTimeout \/ StreamCrash \/ (\E f \in Frame : ReadGap(f)) PROVE IInv'
<1>1. /\ pc' \in {"top", "crashed"} /\ link' = "closed" /\ chan' = <<>> /\ cmds' = <<>>
      /\ pruned' \subseteq Ticker
      /\ UNCHANGED <<meta, ws, sid, cmdId, acks, tickers, lastSeq, callVars, conn, sub, vseq, size, lost>>
  BY DEF IdleTimeout, StreamCrash, ReadGap, Receive, TearDown, feedVars, callVars, IInv, Types
<1>2. chan' \in Seq(Frame) /\ cmds' \in Seq(Command)  BY <1>1, EmptySeq
<1>3. Types'  BY <1>1, <1>2 DEF IInv, Types, callVars
<1>4. Numbered' /\ Links' /\ Forgotten' /\ Todo' /\ Wired'
  BY <1>1 DEF IInv, Numbered, Links, Forgotten, NothingLeftBehind, Todo, Wired, callVars
<1>5. QED  BY <1>3, <1>4 DEF IInv

LEMMA RestartStep == ASSUME IInv, StreamRestart PROVE IInv'
<1>1. Types'
  BY DEF StreamRestart, IInv, Types, NoSocket, callVars, venueVars
<1>2. link' = link /\ link \notin {"up", "stalled"} /\ pc' = "top" /\ acks' = {}
  BY DEF StreamRestart, IInv, Links
<1>3. Numbered' /\ Links' /\ Forgotten' /\ Todo' /\ Wired'
  BY <1>1, <1>2 DEF StreamRestart, IInv, Types, Numbered, Links, Forgotten, NothingLeftBehind, Todo,
     Wired, NoSocket, callVars
<1>4. QED  BY <1>1, <1>3 DEF IInv

-----------------------------------------------------------------------------
(* Steps of a connected reader                                             *)

\* A connection begins with nothing on its way but the subscribe.
LEMMA ConnectedStep == ASSUME IInv, Connected PROVE IInv'
<1> DEFINE c == [op |-> "subscribe", tickers |-> tickers, id |-> 1]
<1>1. /\ pc = "connecting" /\ pc' = "recv" /\ conn' = conn + 1 /\ ws' = conn + 1 /\ sid' = FALSE
      /\ link' = "up" /\ chan' = <<>> /\ sub' = {} /\ vseq' = 0 /\ lost' = FALSE /\ cmds' = <<c>>
      /\ UNCHANGED <<meta, cmdId, acks, pruned, tickers, books, lastSeq, callVars, size>>
  BY DEF Connected
<1>2. c \in Command /\ c.op = "subscribe"  BY DEF Command, IInv, Types
<1> HIDE DEF c
<1>3. cmds' \in Seq(Command) /\ chan' \in Seq(Frame)  BY <1>1, <1>2, EmptySeq, RangeOfOne
<1>4. Types'
  <2>1. conn' \in Nat /\ ws' \in Nat /\ vseq' \in Nat /\ sub' \subseteq Ticker
    BY <1>1 DEF IInv, Types
  <2>2. UNCHANGED <<meta, cmdId, pruned, tickers, lastSeq, rpc, call, fut, size>>
    BY <1>1 DEF callVars
  <2>3. sid' \in BOOLEAN /\ lost' \in BOOLEAN /\ pc' = "recv" /\ link' = "up"
    BY <1>1
  <2>4. QED  BY <1>3, <2>1, <2>2, <2>3 DEF IInv, Types
<1>5. Numbered'  BY <1>1, ChainEmpty DEF IInv, Numbered, NoSeq
<1>6. Links' /\ Forgotten' /\ Todo'
  BY <1>1 DEF IInv, Types, Links, Forgotten, NothingLeftBehind, Todo, callVars
<1>7. Wired'
  <2>1. Range(chan') = {}  BY <1>1, RangeOfNone
  <2>2. SubscribeOut'  BY <1>1, <2>1 DEF SubscribeOut
  <2>3. Outbox'  BY <1>1, <1>2, <2>2 DEF Outbox
  <2>4. Answered'  BY <2>1 DEF Answered
  <2>5. call'.ws # conn'  BY <1>1 DEF IInv, Types, Links, callVars
  <2>6. Subscribed'  BY <2>5 DEF Subscribed
  <2>7. QED  BY <2>3, <2>4, <2>6 DEF Wired
<1>8. QED  BY <1>4, <1>5, <1>6, <1>7 DEF IInv

\* What reading a frame in sequence does to the numbers and to what is on its way.
LEMMA InSequenceMeans ==
  ASSUME IInv, NEW f, InSequence(f)
  PROVE  /\ f \in Frame /\ f \in Range(chan) /\ Range(chan') \subseteq Range(chan)
         /\ chan' \in Seq(Frame) /\ lastSeq' \in Nat /\ Numbered' /\ pc = "recv" /\ pc' = "recv"
         /\ pruned' = {}
         /\ UNCHANGED <<meta, cmdId, tickers, rpc, call, applied, ws, conn, sub, vseq, size, lost,
                        link, cmds>>
<1>1. /\ pc = "recv" /\ chan # <<>> /\ f = Head(chan) /\ ~IsGap(f) /\ lastSeq' = NextSeq(f)
      /\ chan' = Tail(chan) /\ pruned' = {}
      /\ UNCHANGED <<meta, cmdId, tickers, rpc, call, applied, ws, conn, sub, vseq, size, lost,
                     pc, link, cmds>>
  BY DEF InSequence, Receive
<1>2. /\ f \in Frame /\ f \in Range(chan) /\ Range(chan') \subseteq Range(chan) /\ chan' \in Seq(Frame)
  BY <1>1, RangeOfTail DEF IInv, Types
<1>3. f.seq \in Nat  BY <1>2 DEF Frame
<1>4. lastSeq' \in Nat  BY <1>1, <1>3 DEF NextSeq, IInv, Types
<1>5. Numbered'
  <2> SUFFICES ASSUME ~lost PROVE Chain(chan', lastSeq', vseq)
    BY <1>1 DEF Numbered
  <2>1. Chain(chan, lastSeq, vseq) /\ lastSeq \in Nat  BY <1>1 DEF IInv, Types, Numbered
  <2>2. \/ f.seq = NoSeq /\ Chain(Tail(chan), lastSeq, vseq)
        \/ f.seq = lastSeq + 1 /\ Chain(Tail(chan), lastSeq + 1, vseq)
    BY <1>1, <2>1, ChainHead DEF IInv, Types
  <2>3. QED  BY <1>1, <1>3, <2>1, <2>2 DEF NextSeq, NoSeq
<1>6. QED  BY <1>1, <1>2, <1>4, <1>5

\* The ladders kept are of tickers wanted now.
LEMMA KeptBooks ==
  ASSUME Forgotten, pc = "recv" PROVE DOMAIN Kept \subseteq meta
BY DEF Forgotten, NothingLeftBehind, Kept

LEMMA ReadStep ==
  ASSUME IInv, NEW f, ReadSubscribed(f) \/ ReadReply(f) \/ ReadUnwanted(f) \/ ReadBook(f)
  PROVE  IInv'
<1>1. InSequence(f)  BY DEF ReadSubscribed, ReadReply, ReadUnwanted, ReadBook
<1>2. /\ f \in Frame /\ f \in Range(chan) /\ Range(chan') \subseteq Range(chan)
      /\ chan' \in Seq(Frame) /\ lastSeq' \in Nat /\ Numbered' /\ pc = "recv" /\ pc' = "recv"
      /\ pruned' = {}
      /\ UNCHANGED <<meta, cmdId, tickers, rpc, call, applied, ws, conn, sub, vseq, size, lost,
                     link, cmds>>
  BY <1>1, InSequenceMeans
<1>3. /\ sid' = (sid \/ f.kind = "subscribed")
      /\ acks' \subseteq acks /\ DOMAIN books' \subseteq meta
      /\ \/ fut' = fut
         \/ f.kind = "reply" /\ f.id = call.id /\ f.id \in acks /\ fut' = f.reply
  <2>1. DOMAIN Kept \subseteq meta  BY <1>2, KeptBooks DEF IInv
  <2>2. sid \in BOOLEAN  BY DEF IInv, Types
  <2>3. CASE ReadSubscribed(f)  BY <2>1, <2>2, <2>3 DEF ReadSubscribed
  <2>4. CASE ReadReply(f)
    <3>1. f.kind = "reply" /\ sid' = sid /\ books' = Kept /\ acks' = acks \ {f.id}
          /\ fut' = IF f.id \in acks /\ f.id = call.id /\ fut = Pending THEN f.reply ELSE fut
      BY <2>4 DEF ReadReply
    <3>2. QED  BY <2>1, <2>2, <3>1
  <2>5. CASE ReadUnwanted(f)
    <3>1. f.kind # "subscribed" /\ sid' = sid /\ books' = Kept /\ acks' = acks /\ fut' = fut
      BY <2>5 DEF ReadUnwanted, IsBook
    <3>2. QED  BY <2>1, <2>2, <3>1
  <2>6. CASE ReadBook(f)
    <3>1. f.kind # "subscribed" /\ sid' = sid /\ acks' = acks /\ fut' = fut /\ f.ticker \in meta
          /\ DOMAIN books' = DOMAIN Kept \cup {f.ticker}
      BY <2>6 DEF ReadBook, IsBook
    <3>2. QED  BY <2>1, <2>2, <3>1
  <2>7. QED  BY <2>3, <2>4, <2>5, <2>6
<1>4. Types'
  <2>1. fut' \in Future  BY <1>2, <1>3 DEF IInv, Types, Frame
  <2>2. sid' \in BOOLEAN  BY <1>3 DEF IInv, Types
  <2>3. QED  BY <1>2, <2>1, <2>2 DEF IInv, Types
<1>5. Links' /\ Forgotten' /\ Todo'
  BY <1>2, <1>3 DEF IInv, Links, Forgotten, NothingLeftBehind, Todo
<1>6. Wired'
  <2> SUFFICES ASSUME link = "up" PROVE Outbox' /\ Answered' /\ Subscribed'
    BY <1>2 DEF Wired
  <2>1. Outbox /\ Answered /\ Subscribed  BY DEF IInv, Wired
  <2>2. Answered'  BY <1>2, <2>1 DEF Answered
  <2>3. Subscribed'  BY <1>2, <1>3, <2>1 DEF Subscribed, Busy
  <2>4. ASSUME NEW c \in Command, cmds = <<c>>, c.op = "subscribe", SubscribeOut PROVE SubscribeOut'
    BY <1>2, <1>3, <2>4 DEF SubscribeOut
  <2>5. ASSUME NEW c \in Command, cmds = <<c>>, c.op # "subscribe", MutationOut(c) PROVE MutationOut(c)'
    <3>1. ~(f.kind = "reply" /\ f.id = call.id)  BY <1>2, <2>5 DEF MutationOut
    <3>2. fut' = fut  BY <1>3, <3>1
    <3>3. QED  BY <1>2, <2>5, <3>2 DEF MutationOut, Operand
  <2>6. QED  BY <1>2, <2>1, <2>2, <2>3, <2>4, <2>5 DEF Outbox
<1>7. QED  BY <1>2, <1>4, <1>5, <1>6 DEF IInv

LEMMA ReadFrameStep == ASSUME IInv, ReadFrame PROVE IInv'
<1> DEFINE f == Head(chan)
<1>1. f \in Frame  BY RangeOfTail DEF ReadFrame, IInv, Types
<1>2. ReadGap(f) \/ ReadSubscribed(f) \/ ReadReply(f) \/ ReadUnwanted(f) \/ ReadBook(f)
  BY DEF ReadFrame
<1> HIDE DEF f
<1>3. QED  BY <1>1, <1>2, TearDownStep, ReadStep

-----------------------------------------------------------------------------
(* Steps of the refresher                                                  *)

\* Two one-element sequences make a pair.
LEMMA Pairs ==
  ASSUME NEW S, NEW a \in S, NEW b \in S
  PROVE  <<a, b>> \in Seq(S) /\ <<a>> \o <<b>> = <<a, b>>
<1> DEFINE s == <<a>> t == <<b>> u == <<a, b>>
<1>1. u \in Seq(S) /\ Len(u) = 2 /\ u[1] = a /\ u[2] = b  OBVIOUS
<1>2. /\ s \in Seq(S) /\ Len(s) = 1 /\ s[1] = a
      /\ t \in Seq(S) /\ Len(t) = 1 /\ t[1] = b
  OBVIOUS
<1> HIDE DEF s, t, u
<1> DEFINE v == s \o t
<1>3. /\ v \in Seq(S) /\ Len(v) = Len(s) + Len(t)
      /\ \A i \in 1..(Len(s) + Len(t)) : v[i] = IF i <= Len(s) THEN s[i] ELSE t[i - Len(s)]
  BY <1>2, ConcatProperties
<1> HIDE DEF v
<1>4. Len(v) = 2 /\ \A i \in 1..2 : v[i] = IF i <= 1 THEN s[i] ELSE t[i - 1]
  BY <1>2, <1>3
<1>5. v[1] = a /\ v[2] = b  BY <1>2, <1>4
<1>6. \A i \in 1..2 : v[i] = u[i]  BY <1>1, <1>5
<1>7. v = u  BY <1>1, <1>3, <1>4, <1>6, SeqEqual
<1>8. QED  BY <1>1, <1>7 DEF s, t, u, v

\* The mutations a call may have left to send.
LEMMA Todos ==
  ASSUME NEW todo \in {<<>>, <<"delete_markets">>, <<"add_markets">>, <<"delete_markets", "add_markets">>},
         todo # <<>>
  PROVE  /\ Head(todo) \in {"delete_markets", "add_markets"}
         /\ Tail(todo) \in {<<>>, <<"delete_markets">>, <<"add_markets">>, <<"delete_markets", "add_markets">>}
         /\ Len(todo) > 1 <=> Tail(todo) # <<>>
         /\ Range(todo) = {Head(todo)} \cup Range(Tail(todo))
<1>1. Range(<<"delete_markets">>) = {"delete_markets"} /\ Range(<<"add_markets">>) = {"add_markets"}
  BY RangeOfOne
<1>2. Range(<<"delete_markets", "add_markets">>) = {"delete_markets", "add_markets"}
  BY DEF Range
<1>3. CASE todo = <<"delete_markets">>
  <2>1. Tail(todo) = <<>> /\ Head(todo) = "delete_markets" /\ Len(todo) = 1  BY <1>3
  <2>2. QED  BY <1>1, <1>3, <2>1, RangeOfNone
<1>4. CASE todo = <<"add_markets">>
  <2>1. Tail(todo) = <<>> /\ Head(todo) = "add_markets" /\ Len(todo) = 1  BY <1>4
  <2>2. QED  BY <1>1, <1>4, <2>1, RangeOfNone
<1>5. CASE todo = <<"delete_markets", "add_markets">>
  <2>1. Tail(todo) = <<"add_markets">> /\ Head(todo) = "delete_markets" /\ Len(todo) = 2
    BY <1>5
  <2>2. QED  BY <1>1, <1>2, <1>5, <2>1
<1>6. QED  BY <1>3, <1>4, <1>5

LEMMA TodosTyped ==
  ASSUME NEW todo \in {<<>>, <<"delete_markets">>, <<"add_markets">>, <<"delete_markets", "add_markets">>}
  PROVE  todo \in Seq({"delete_markets", "add_markets"})
<1> DEFINE S == {"delete_markets", "add_markets"}
<1>1. <<>> \in Seq(S) /\ <<"delete_markets">> \in Seq(S) /\ <<"add_markets">> \in Seq(S)
  BY EmptySeq, RangeOfOne
<1>2. <<"delete_markets", "add_markets">> \in Seq(S)  BY Pairs
<1>3. QED  BY <1>1, <1>2

\* The mutations of a new call are those its differences ask for.
LEMMA TodoOf ==
  ASSUME NEW a, NEW d
  PROVE  LET todo == (IF d # {} THEN <<"delete_markets">> ELSE <<>>)
                     \o (IF a # {} THEN <<"add_markets">> ELSE <<>>)
         IN  /\ todo \in {<<>>, <<"delete_markets">>, <<"add_markets">>, <<"delete_markets", "add_markets">>}
             /\ a \cup d # {} => todo # <<>>
             /\ "delete_markets" \notin Range(todo) => d = {}
             /\ "add_markets" \notin Range(todo) => a = {}
<1>1. <<"delete_markets">> \o <<"add_markets">> = <<"delete_markets", "add_markets">>
  <2> DEFINE S == {"delete_markets", "add_markets"}
  <2>1. "delete_markets" \in S /\ "add_markets" \in S  OBVIOUS
  <2> HIDE DEF S
  <2>2. QED  BY <2>1, Pairs
<1>2. <<"delete_markets">> \o <<>> = <<"delete_markets">>  OBVIOUS
<1>3. <<>> \o <<"add_markets">> = <<"add_markets">> /\ <<>> \o <<>> = <<>>  OBVIOUS
<1>4. Range(<<"delete_markets">>) = {"delete_markets"} /\ Range(<<"add_markets">>) = {"add_markets"}
  BY RangeOfOne
<1>5. Range(<<"delete_markets", "add_markets">>) = {"delete_markets", "add_markets"}
  BY DEF Range
<1>6. <<"delete_markets">> # <<>> /\ <<"add_markets">> # <<>> /\ <<"delete_markets", "add_markets">> # <<>>
  OBVIOUS
<1>7. QED  BY <1>1, <1>2, <1>3, <1>4, <1>5, <1>6

LEMMA ResyncStep ==
  ASSUME IInv, NEW desired \in SUBSET Ticker, Resync(desired) PROVE IInv'
<1> DEFINE added   == desired \ meta
           dropped == meta \ desired
           todo    == (IF dropped # {} THEN <<"delete_markets">> ELSE <<>>)
                      \o (IF added # {} THEN <<"add_markets">> ELSE <<>>)
<1>1. /\ rpc = "idle" /\ meta' = desired /\ pruned' = pruned \cup dropped
      /\ UNCHANGED <<ws, sid, cmdId, acks, pc, tickers, books, lastSeq, conn, link, chan, cmds, sub,
                     vseq, size, lost>>
      /\ \/ applied' \in {"unchanged", "on_reconnect"} /\ UNCHANGED <<rpc, call, fut>>
         \/ /\ added \cup dropped # {} /\ ws # NoSocket /\ sid
            /\ applied' = "none" /\ rpc' = "send" /\ fut' = Failed
            /\ call' = [ws |-> ws, added |-> added, dropped |-> dropped, id |-> 0, todo |-> todo]
  BY DEF Resync, readerVars, venueVars
<1>2. /\ todo \in {<<>>, <<"delete_markets">>, <<"add_markets">>, <<"delete_markets", "add_markets">>}
      /\ added \cup dropped # {} => todo # <<>>
  BY TodoOf
<1>3. added \subseteq Ticker /\ dropped \subseteq Ticker /\ added \cap dropped = {}
  BY DEF IInv, Types
<1>4. todo \in Seq({"delete_markets", "add_markets"})  BY <1>2, TodosTyped
<1> HIDE DEF todo, added, dropped
<1>5. Types'
  <2>1. call' \in [ws : Nat, added : SUBSET Ticker, dropped : SUBSET Ticker,
                   todo : Seq({"delete_markets", "add_markets"}), id : Nat]
    BY <1>1, <1>3, <1>4 DEF IInv, Types
  <2>2. fut' \in Future /\ rpc' \in {"idle", "send"}  BY <1>1, FailedIsFuture DEF IInv, Types
  <2>3. meta' \subseteq Ticker /\ pruned' \subseteq Ticker  BY <1>1, <1>3 DEF IInv, Types
  <2>4. QED  BY <1>1, <2>1, <2>2, <2>3 DEF IInv, Types
<1>6. Numbered' /\ Links'
  <2>1. call'.ws <= conn  BY <1>1 DEF IInv, Links
  <2>2. QED  BY <1>1, <2>1 DEF IInv, Numbered, Links
<1>7. Forgotten'
  <2>1. acks = {}  BY <1>1 DEF IInv, Forgotten, NothingLeftBehind
  <2>2. meta \cup pruned \subseteq meta' \cup pruned'  BY <1>1 DEF dropped
  <2>3. QED  BY <1>1, <2>1, <2>2 DEF IInv, Forgotten, NothingLeftBehind
<1>8. Todo'
  <2>1. call'.added \cap call'.dropped = {}
        /\ call'.todo \in {<<>>, <<"delete_markets">>, <<"add_markets">>, <<"delete_markets", "add_markets">>}
    BY <1>1, <1>2, <1>3 DEF IInv, Todo
  <2>2. rpc' \in {"send", "wait"} => call'.todo # <<>>  BY <1>1, <1>2
  <2>3. rpc' = "idle" => applied' # "live"  BY <1>1
  <2>4. QED  BY <2>1, <2>2, <2>3 DEF Todo
<1>9. Wired'
  <2> SUFFICES ASSUME link = "up" PROVE Outbox' /\ Answered' /\ Subscribed'
    BY <1>1 DEF Wired
  <2>1. Outbox /\ Answered /\ Subscribed  BY DEF IInv, Wired
  <2>2. Outbox'
    <3>1. CASE cmds = <<>>  BY <1>1, <3>1 DEF Outbox
    <3>2. ASSUME NEW c \in Command, cmds = <<c>>, c.op = "subscribe", SubscribeOut PROVE Outbox'
      BY <1>1, <3>2 DEF Outbox, SubscribeOut
    <3>3. ASSUME NEW c \in Command, cmds = <<c>>, MutationOut(c) PROVE Outbox'
      BY <1>1, <3>3 DEF MutationOut
    <3>4. QED  BY <2>1, <3>1, <3>2, <3>3 DEF Outbox
  <2>3. Answered'  BY <1>1, <2>1 DEF Answered
  <2>4. Subscribed'  BY <1>1, <2>1 DEF Subscribed, Busy
  <2>5. QED  BY <2>2, <2>3, <2>4
<1>10. QED  BY <1>5, <1>6, <1>7, <1>8, <1>9 DEF IInv

\* The mutation is sent alone on its way, with an id no reply has.
LEMMA MutateSendStep == ASSUME IInv, MutateSend PROVE IInv'
<1>1. /\ rpc = "send" /\ cmdId' = cmdId + 1
      /\ UNCHANGED <<meta, ws, sid, pruned, pc, tickers, books, lastSeq, applied, conn, link, chan,
                     sub, vseq, size, lost>>
  BY DEF MutateSend, readerVars
<1>2. Head(call.todo) \in {"delete_markets", "add_markets"}
  BY <1>1, Todos DEF IInv, Todo
<1>3. acks = {}  BY <1>1 DEF IInv, Forgotten, NothingLeftBehind
<1>4. CASE call.ws = conn /\ link \in {"up", "stalled"}
  <2>1. /\ rpc' = "wait" /\ fut' = Pending /\ call' = [call EXCEPT !.id = cmdId + 1]
        /\ acks' = acks \cup {cmdId + 1}
        /\ cmds' = Append(cmds, [op |-> Head(call.todo), id |-> cmdId + 1,
                                 tickers |-> Operand(Head(call.todo))])
    BY <1>4 DEF MutateSend
  <2>2. PICK c \in Command : /\ c.op = Head(call.todo) /\ c.id = cmdId + 1
                             /\ c.tickers = Operand(Head(call.todo)) /\ cmds' = Append(cmds, c)
    <3> DEFINE c == [op |-> Head(call.todo), id |-> cmdId + 1, tickers |-> Operand(Head(call.todo))]
    <3>1. cmdId + 1 \in Nat /\ Operand(Head(call.todo)) \subseteq Ticker
      BY DEF Operand, IInv, Types
    <3>2. c \in Command  BY <1>2, <3>1 DEF Command
    <3>3. QED  BY <2>1, <3>2
  <2>3. /\ call'.ws = call.ws /\ call'.added = call.added /\ call'.dropped = call.dropped
        /\ call'.todo = call.todo /\ call'.id = cmdId + 1
    BY <2>1 DEF IInv, Types
  <2>4. Types'
    <3>1. cmds' \in Seq(Command)  BY <2>2, AppendOne DEF IInv, Types
    <3>2. call' \in [ws : Nat, added : SUBSET Ticker, dropped : SUBSET Ticker,
                     todo : Seq({"delete_markets", "add_markets"}), id : Nat]
      <4>1. cmdId + 1 \in Nat  BY DEF IInv, Types
      <4>2. QED  BY <2>1, <4>1 DEF IInv, Types
    <3>3. QED  BY <1>1, <2>1, <3>1, <3>2, FailedIsFuture DEF IInv, Types
  <2>5. Numbered' /\ Links' /\ Forgotten' /\ Todo'
    BY <1>1, <1>3, <2>1, <2>3 DEF IInv, Numbered, Links, Forgotten, NothingLeftBehind, Todo
  <2>6. Wired'
    <3> SUFFICES ASSUME link = "up" PROVE Outbox' /\ Answered' /\ Subscribed'
      BY <1>1 DEF Wired
    <3>1. Outbox /\ Answered /\ Subscribed  BY DEF IInv, Wired
    <3>2. sid  BY <1>1, <1>4, <3>1 DEF Subscribed, Busy
    <3>3. cmds = <<>>
      BY <1>1, <3>1, <3>2 DEF Outbox, SubscribeOut, MutationOut
    <3>4. cmds' = <<c>>  BY <2>2, <3>3
    <3>5. \A f \in Range(chan) : f.kind = "reply" => f.id <= cmdId /\ f.id \in Nat
      <4>1. Range(chan) \subseteq Frame  BY RangeOfSeq DEF IInv, Types
      <4>2. QED  BY <3>1, <4>1 DEF Answered, Frame
    <3>6. cmdId \in Nat  BY DEF IInv, Types
    <3>7. \A f \in Range(chan) : f.kind = "reply" => f.id # cmdId + 1 /\ f.id <= cmdId + 1
      BY <3>5, <3>6
    <3>8. MutationOut(c)'
      <4>1. fut'.state # "done"  BY <2>1 DEF Pending, Failed
      <4>2. Operand(Head(call.todo))' = Operand(Head(call.todo))  BY <2>3 DEF Operand
      <4>3. c.id <= cmdId'  BY <1>1, <2>2, <3>6
      <4>4. QED  BY <1>1, <1>4, <2>1, <2>2, <2>3, <3>7, <4>1, <4>2, <4>3 DEF MutationOut
    <3>9. c.op # "subscribe"  BY <1>2, <2>2
    <3>10. Outbox'  BY <2>2, <3>4, <3>8, <3>9 DEF Outbox
    <3>11. Answered'  BY <1>1, <3>7 DEF Answered
    <3>12. Subscribed'  BY <1>1, <3>2 DEF Subscribed
    <3>13. QED  BY <3>10, <3>11, <3>12
  <2>7. QED  BY <2>4, <2>5, <2>6 DEF IInv
<1>5. CASE ~(call.ws = conn /\ link \in {"up", "stalled"})
  <2>1. rpc' = "close" /\ UNCHANGED <<fut, call, acks, cmds>>  BY <1>5 DEF MutateSend
  <2>2. Types'  BY <1>1, <2>1 DEF IInv, Types
  <2>3. Numbered' /\ Links' /\ Forgotten' /\ Todo'
    BY <1>1, <1>3, <2>1 DEF IInv, Numbered, Links, Forgotten, NothingLeftBehind, Todo
  <2>4. Wired'
    <3> SUFFICES ASSUME link = "up" PROVE Outbox' /\ Answered' /\ Subscribed'
      BY <1>1 DEF Wired
    <3>1. Outbox /\ Answered /\ Subscribed  BY DEF IInv, Wired
    <3>2. Outbox'
      <4>1. CASE cmds = <<>>  BY <2>1, <4>1 DEF Outbox
      <4>2. ASSUME NEW c \in Command, cmds = <<c>>, c.op = "subscribe", SubscribeOut PROVE Outbox'
        BY <1>1, <2>1, <4>2 DEF Outbox, SubscribeOut
      <4>3. ASSUME NEW c \in Command, cmds = <<c>>, MutationOut(c) PROVE Outbox'
        BY <1>1, <4>3 DEF MutationOut
      <4>4. QED  BY <3>1, <4>1, <4>2, <4>3 DEF Outbox
    <3>3. Answered'
      <4>1. Range(chan) \subseteq Frame  BY RangeOfSeq DEF IInv, Types
      <4>2. \A f \in Range(chan) : f.kind = "reply" => f.id <= cmdId + 1
        BY <3>1, <4>1 DEF Answered, Frame, IInv, Types
      <4>3. QED  BY <1>1, <4>2 DEF Answered
    <3>4. Subscribed'  BY <2>1 DEF Subscribed, Busy
    <3>5. QED  BY <3>2, <3>3, <3>4
  <2>5. QED  BY <2>2, <2>3, <2>4 DEF IInv
<1>6. QED  BY <1>4, <1>5

\* A reply that was read, or the timeout, ends the wait and takes its waiter along.
LEMMA WaitEndsStep == ASSUME IInv, MutateAnswered \/ MutateTimeout PROVE IInv'
<1>1. /\ rpc = "wait" /\ acks' = acks \ {call.id}
      /\ UNCHANGED <<meta, ws, sid, cmdId, pruned, pc, tickers, books, lastSeq, conn, link, chan,
                     cmds, sub, vseq, size, lost>>
      /\ \/ /\ fut' = fut /\ fut.state = "done" /\ call' = [call EXCEPT !.todo = Tail(@)]
            /\ \/ Len(call.todo) > 1 /\ rpc' = "send" /\ applied' = applied
               \/ ~(Len(call.todo) > 1) /\ rpc' = "idle" /\ applied' = "live"
         \/ rpc' = "close" /\ call' = call /\ applied' = applied /\ fut' \in {fut, Failed}
  BY DEF MutateAnswered, MutateTimeout, Verified, AcksWithoutWaiter, readerVars, venueVars
<1>2. acks' = {}  BY <1>1 DEF IInv, Forgotten, NothingLeftBehind
<1>3. /\ call'.ws = call.ws /\ call'.added = call.added /\ call'.dropped = call.dropped
      /\ call'.id = call.id /\ call'.todo \in {call.todo, Tail(call.todo)}
      /\ call' \in [ws : Nat, added : SUBSET Ticker, dropped : SUBSET Ticker,
                    todo : Seq({"delete_markets", "add_markets"}), id : Nat]
      /\ rpc' # "close" => call'.todo = Tail(call.todo)
  <2>1. Tail(call.todo) \in Seq({"delete_markets", "add_markets"})
    BY <1>1, Todos, TodosTyped DEF IInv, Todo
  <2>2. QED  BY <1>1, <2>1 DEF IInv, Types
<1>4. Types'
  <2>1. fut' \in Future  BY <1>1, FailedIsFuture DEF IInv, Types
  <2>2. rpc' \in {"idle", "send", "close"}  BY <1>1
  <2>3. QED  BY <1>1, <1>3, <2>1, <2>2 DEF IInv, Types
<1>5. Numbered' /\ Links' /\ Forgotten'
  BY <1>1, <1>2, <1>3 DEF IInv, Numbered, Links, Forgotten, NothingLeftBehind
<1>6. Todo'
  <2>1. call'.todo \in {<<>>, <<"delete_markets">>, <<"add_markets">>, <<"delete_markets", "add_markets">>}
    BY <1>1, <1>3, Todos DEF IInv, Todo
  <2>2. rpc' \in {"send", "wait"} => call'.todo # <<>>
    BY <1>1, <1>3, Todos DEF IInv, Todo
  <2>3. rpc' = "idle" => call'.todo = <<>>
    BY <1>1, <1>3, Todos DEF IInv, Todo
  <2>4. QED  BY <1>3, <2>1, <2>2, <2>3 DEF IInv, Todo
<1>7. Wired'
  <2> SUFFICES ASSUME link = "up" PROVE Outbox' /\ Answered' /\ Subscribed'
    BY <1>1 DEF Wired
  <2>1. Outbox /\ Answered /\ Subscribed  BY DEF IInv, Wired
  <2>2. Outbox'
    <3>1. CASE cmds = <<>>  BY <1>1, <3>1 DEF Outbox
    <3>2. ASSUME NEW c \in Command, cmds = <<c>>, c.op = "subscribe", SubscribeOut PROVE Outbox'
      BY <1>1, <3>2 DEF Outbox, SubscribeOut
    <3>3. ASSUME NEW c \in Command, cmds = <<c>>, c.op # "subscribe", MutationOut(c) PROVE Outbox'
      <4>1. rpc' = "close" /\ call' = call /\ fut' \in {fut, Failed}  BY <1>1, <3>3 DEF MutationOut
      <4>2. fut'.state # "done"  BY <3>3, <4>1 DEF MutationOut, Failed
      <4>3. MutationOut(c)'  BY <1>1, <3>3, <4>1, <4>2 DEF MutationOut, Operand
      <4>4. QED  BY <1>1, <3>3, <4>3 DEF Outbox
    <3>4. QED  BY <2>1, <3>1, <3>2, <3>3 DEF Outbox
  <2>3. Answered'  BY <1>1, <2>1 DEF Answered
  <2>4. Subscribed'  BY <1>1, <1>3, <2>1 DEF Subscribed, Busy
  <2>5. QED  BY <2>2, <2>3, <2>4
<1>8. QED  BY <1>4, <1>5, <1>6, <1>7 DEF IInv

LEMMA CloseStep == ASSUME IInv, CloseSocket PROVE IInv'
<1>1. /\ rpc = "close" /\ rpc' = "idle" /\ applied' = "reconnect" /\ link' = LinkAfterClose
      /\ UNCHANGED <<feedVars, readerVars, call, fut, conn, chan, venueVars, lost>>
  BY DEF CloseSocket
<1>2. /\ link' \in {link, "closed"}
      /\ link' = "up" => link = "up" /\ call.ws # conn
  BY <1>1 DEF LinkAfterClose
<1>3. Types'
  <2>1. link' \in {"none", "up", "stalled", "closed"}  BY <1>2 DEF IInv, Types
  <2>2. QED  BY <1>1, <2>1 DEF IInv, Types, feedVars, readerVars, venueVars
<1>4. Numbered' /\ Links' /\ Forgotten' /\ Todo'
  BY <1>1, <1>2 DEF IInv, Numbered, Links, Forgotten, NothingLeftBehind, Todo, feedVars,
     readerVars, venueVars
<1>5. Wired'
  <2> SUFFICES ASSUME link' = "up" PROVE Outbox' /\ Answered' /\ Subscribed'
    BY DEF Wired
  <2>1. Outbox /\ Answered /\ Subscribed  BY <1>2 DEF IInv, Wired
  <2>2. Outbox'
    BY <1>1, <1>2, <2>1 DEF Outbox, SubscribeOut, MutationOut, feedVars, venueVars
  <2>3. Answered'  BY <1>1, <2>1 DEF Answered, feedVars
  <2>4. Subscribed'  BY <1>1 DEF Subscribed, Busy
  <2>5. QED  BY <2>2, <2>3, <2>4
<1>6. QED  BY <1>3, <1>4, <1>5 DEF IInv

-----------------------------------------------------------------------------
(* Steps of the venue and of the network                                   *)

\* The command the venue reads is the only one on its way.
LEMMA OneCommand ==
  ASSUME IInv, link = "up", cmds # <<>>
  PROVE  /\ pc = "recv" /\ Tail(cmds) = <<>> /\ Head(cmds) \in Command
         /\ Head(cmds).op = "subscribe" => SubscribeOut
         /\ Head(cmds).op # "subscribe" => MutationOut(Head(cmds))
<1>1. PICK c \in Command : cmds = <<c>> /\ IF c.op = "subscribe" THEN SubscribeOut ELSE MutationOut(c)
  BY DEF IInv, Wired, Outbox
<1>2. Head(cmds) = c /\ Tail(cmds) = <<>>  BY <1>1
<1>3. pc = "recv"  BY DEF IInv, Links
<1>4. QED  BY <1>1, <1>2, <1>3

LEMMA VenueSubscribeStep == ASSUME IInv, VenueSubscribe PROVE IInv'
<1> DEFINE ts == Head(cmds).tickers
           f  == [NoFrame EXCEPT !.kind = "subscribed"]
           u  == Snapshots(ts, 0)
<1>1. /\ link = "up" /\ cmds # <<>> /\ Head(cmds).op = "subscribe"
      /\ sub' = ts /\ vseq' = Cardinality(ts) /\ chan' = Append(chan, f) \o u /\ cmds' = Tail(cmds)
      /\ UNCHANGED <<feedVars, readerVars, callVars, conn, link, size, lost>>
  BY DEF VenueSubscribe
<1>2. pc = "recv" /\ cmds' = <<>> /\ ts \subseteq Ticker /\ SubscribeOut
  BY <1>1, OneCommand DEF Command
<1>3. f \in Frame /\ f.kind = "subscribed" /\ f.seq = NoSeq
  <2>1. Failed \in Future  BY FailedIsFuture
  <2>2. QED  BY <2>1 DEF NoFrame, Frame, NoSeq
<1>4. /\ u \in Seq(Frame) /\ \A g \in Range(u) : g.kind = "snapshot"
      /\ Chain(u, 0, 0 + Cardinality(ts)) /\ Cardinality(ts) \in Nat
  BY <1>2, SnapshotFrames DEF IInv
<1> HIDE DEF f, u
<1>5. chan \in Seq(Frame)  BY DEF IInv, Types
<1>6. /\ Append(chan, f) = chan \o <<f>> /\ Append(chan, f) \in Seq(Frame)
      /\ Range(Append(chan, f)) = Range(chan) \cup {f}
  BY <1>3, <1>5, AppendOne
<1>7. chan' \in Seq(Frame) /\ Range(chan') = (Range(chan) \cup {f}) \cup Range(u)
  <2> DEFINE a == Append(chan, f)
  <2>1. chan' = a \o u /\ a \in Seq(Frame) /\ Range(a) = Range(chan) \cup {f}  BY <1>1, <1>6
  <2> HIDE DEF a
  <2>2. QED  BY <1>4, <2>1, RangeOfConcat
<1>8. Types'
  <2>1. cmds' \in Seq(Command)  BY <1>2, EmptySeq
  <2>2. sub' \subseteq Ticker /\ vseq' \in Nat  BY <1>1, <1>2, <1>4
  <2>3. QED  BY <1>1, <1>7, <2>1, <2>2 DEF IInv, Types, feedVars, readerVars, callVars
<1>9. Numbered'
  <2> SUFFICES ASSUME ~lost PROVE Chain(chan', lastSeq, vseq')
    BY <1>1, <1>2 DEF Numbered, readerVars
  <2>1. Chain(chan, lastSeq, 0)  BY <1>2 DEF IInv, Numbered, SubscribeOut
  <2>2. Chain(<<f>>, 0, 0)  BY <1>3, ChainOne
  <2>3. <<f>> \in Seq(Frame)  BY <1>3, RangeOfOne
  <2>4. Chain(Append(chan, f), lastSeq, 0)  BY <1>5, <1>6, <2>1, <2>2, <2>3, ChainConcat
  <2>5. Chain(chan', lastSeq, 0 + Cardinality(ts))  BY <1>1, <1>4, <1>6, <2>4, ChainConcat
  <2>6. QED  BY <1>1, <1>4, <2>5
<1>10. Links' /\ Forgotten' /\ Todo'
  BY <1>1 DEF IInv, Links, Forgotten, NothingLeftBehind, Todo, feedVars, readerVars, callVars
<1>11. Wired'
  <2>1. Answered /\ Subscribed  BY <1>1 DEF IInv, Wired
  <2>2. Outbox'  BY <1>2 DEF Outbox
  <2>3. Answered'
    <3>1. \A g \in Range(chan') : g.kind = "reply" => g \in Range(chan)  BY <1>3, <1>4, <1>7
    <3>2. QED  BY <1>1, <2>1, <3>1 DEF Answered, feedVars
  <2>4. Subscribed'  BY <1>1, <2>1 DEF Subscribed, Busy, feedVars, callVars
  <2>5. QED  BY <2>2, <2>3, <2>4 DEF Wired
<1>12. QED  BY <1>8, <1>9, <1>10, <1>11 DEF IInv

LEMMA ReplyType ==
  ASSUME NEW ok \in BOOLEAN, NEW bare \in BOOLEAN, NEW echo \in SUBSET Ticker
  PROVE  LET reply == [state |-> "done", ok |-> ok, bare |-> bare, echo |-> echo]
         IN  reply \in Future /\ reply.echo = echo /\ reply.bare = bare
BY DEF Future

Mutated(answer, frame, new, seq) ==
  LET c == Head(cmds) IN
  /\ c \in Command /\ MutationOut(c) /\ pc = "recv" /\ cmds' = <<>>
  /\ frame.kind = "reply" /\ frame.id = c.id /\ frame.reply.echo = sub'
  /\ sub' \in {sub, After(c)} /\ sub' \subseteq Ticker
  /\ new \cap sub = {} /\ sub' \subseteq sub \cup new /\ new \subseteq sub'
  /\ frame.reply.ok /\ frame.reply.bare /\ answer # "bare_noop" => sub' = After(c)
  /\ Chain(IF answer = "silent" THEN <<>> ELSE <<frame>>, vseq, seq)
  /\ seq \in {vseq, vseq + 1} /\ (answer = "silent" => seq = vseq)
  /\ frame.seq = IF seq = vseq THEN NoSeq ELSE seq
  /\ vseq' = seq + Cardinality(new)
  /\ chan' = chan \o (IF answer = "silent" THEN <<>> ELSE <<frame>>) \o Snapshots(new, seq)
  /\ UNCHANGED <<feedVars, readerVars, callVars, conn, link, size, lost>>

\* The answer to a mutation: a reply with its id, if any, and the snapshots of what it
\* adds.  What it echoes is the subscription from then on.
LEMMA VenueMutateMeans ==
  ASSUME IInv, NEW answer \in Answers, VenueMutate(answer)
  PROVE  \E frame \in Frame, new \in SUBSET Ticker, seq \in Nat :
           Mutated(answer, frame, new, seq)
<1> DEFINE c       == Head(cmds)
           applies == answer \in {"ok", "bare"}
           acked   == answer \in {"ok", "noop", "bare", "bare_noop"}
           new     == IF applies THEN After(c) \ sub ELSE {}
           seq     == IF acked THEN vseq + 1 ELSE vseq
           bare    == answer \in {"bare", "bare_noop"}
           echo    == IF applies THEN After(c) ELSE sub
           reply   == [state |-> "done", ok |-> acked, bare |-> bare, echo |-> echo]
           frame   == [NoFrame EXCEPT !.kind = "reply", !.id = c.id, !.reply = reply,
                                      !.seq = IF acked THEN seq ELSE NoSeq]
<1>1. /\ link = "up" /\ cmds # <<>> /\ c.op # "subscribe"
      /\ vseq' = seq + Cardinality(new)
      /\ sub' = IF applies THEN After(c) ELSE sub
      /\ chan' = chan \o (IF answer = "silent" THEN <<>> ELSE <<frame>>) \o Snapshots(new, seq)
      /\ cmds' = Tail(cmds)
      /\ UNCHANGED <<feedVars, readerVars, callVars, conn, link, size, lost>>
  BY DEF VenueMutate
<1>2. pc = "recv" /\ cmds' = <<>> /\ c \in Command /\ MutationOut(c)
  BY <1>1, OneCommand
<1>3. vseq \in Nat /\ seq \in Nat /\ sub \subseteq Ticker /\ After(c) \subseteq Ticker /\ c.id \in Nat
  BY <1>2 DEF IInv, Types, After, Command
<1>4. /\ new \in SUBSET Ticker /\ sub' \subseteq Ticker /\ sub' \in {sub, After(c)}
      /\ new \cap sub = {} /\ sub' \subseteq sub \cup new /\ new \subseteq sub'
  BY <1>1, <1>3
<1>5. /\ reply \in Future /\ reply.echo = sub'
      /\ reply.bare => answer \in {"bare", "bare_noop"}
  <2>1. acked \in BOOLEAN /\ bare \in BOOLEAN /\ echo = sub' /\ echo \in SUBSET Ticker
    BY <1>1, <1>3
  <2>2. bare => answer \in {"bare", "bare_noop"}  OBVIOUS
  <2> HIDE DEF acked, bare, echo
  <2>3. reply \in Future /\ reply.echo = echo /\ reply.bare = bare  BY <2>1, ReplyType
  <2>4. QED  BY <2>1, <2>2, <2>3
<1> HIDE DEF reply, seq
<1>6. /\ frame \in Frame /\ frame.kind = "reply" /\ frame.id = c.id /\ frame.reply = reply
      /\ frame.seq = IF acked THEN seq ELSE NoSeq
  <2>1. NoFrame.ticker \in Ticker \cup {{}} /\ NoFrame \in Frame
    BY FailedIsFuture DEF NoFrame, Frame, NoSeq
  <2>2. (IF acked THEN seq ELSE NoSeq) \in Nat  BY <1>3 DEF NoSeq
  <2>3. QED  BY <1>3, <1>5, <2>1, <2>2 DEF Frame, NoFrame
<1>7. frame.reply.echo = sub'  BY <1>5, <1>6
<1>8. frame.reply.ok /\ frame.reply.bare /\ answer # "bare_noop" => sub' = After(c)
  BY <1>1, <1>5, <1>6
<1> HIDE DEF c, new, frame
<1>9. Chain(IF answer = "silent" THEN <<>> ELSE <<frame>>, vseq, seq)
  <2>1. CASE answer = "silent"  BY <1>3, <2>1, ChainEmpty DEF seq
  <2>2. CASE answer # "silent" /\ acked  BY <1>3, <1>6, <2>2, ChainOne DEF seq
  <2>3. CASE answer # "silent" /\ ~acked  BY <1>3, <1>6, <2>3, ChainOne DEF seq
  <2>4. QED  BY <2>1, <2>2, <2>3
<1>10. /\ seq \in {vseq, vseq + 1} /\ (answer = "silent" => seq = vseq)
       /\ frame.seq = IF seq = vseq THEN NoSeq ELSE seq
  BY <1>3, <1>6 DEF seq
<1>11. Mutated(answer, frame, new, seq)
  BY <1>1, <1>2, <1>4, <1>6, <1>7, <1>8, <1>9, <1>10 DEF Mutated, c
<1>12. QED  BY <1>3, <1>4, <1>6, <1>11

LEMMA VenueMutateStep ==
  ASSUME IInv, NEW answer \in Answers, VenueMutate(answer) PROVE IInv'
<1> DEFINE c == Head(cmds)
<1>0. PICK frame \in Frame, new \in SUBSET Ticker, seq \in Nat : Mutated(answer, frame, new, seq)
  BY VenueMutateMeans
<1>1.   /\ c \in Command /\ MutationOut(c) /\ pc = "recv" /\ cmds' = <<>>
        /\ frame.kind = "reply" /\ frame.id = c.id /\ sub' \subseteq Ticker
        /\ Chain(IF answer = "silent" THEN <<>> ELSE <<frame>>, vseq, seq)
        /\ vseq' = seq + Cardinality(new)
        /\ chan' = chan \o (IF answer = "silent" THEN <<>> ELSE <<frame>>) \o Snapshots(new, seq)
        /\ UNCHANGED <<feedVars, readerVars, callVars, conn, link, size, lost>>
  BY <1>0 DEF Mutated
<1> DEFINE a == IF answer = "silent" THEN <<>> ELSE <<frame>>
           u == Snapshots(new, seq)
           b == chan \o a
<1>2. a \in Seq(Frame) /\ Range(a) \subseteq {frame}
  BY EmptySeq, RangeOfNone, RangeOfOne
<1>3. /\ u \in Seq(Frame) /\ \A g \in Range(u) : g.kind = "snapshot"
      /\ Chain(u, seq, seq + Cardinality(new)) /\ Cardinality(new) \in Nat
  BY SnapshotFrames DEF IInv
<1>4. Chain(a, vseq, seq) /\ chan' = b \o u  BY <1>1
<1>5. chan \in Seq(Frame) /\ vseq \in Nat  BY DEF IInv, Types
<1> HIDE DEF a, u
<1>6. b \in Seq(Frame) /\ Range(b) = Range(chan) \cup Range(a)  BY <1>2, <1>5, RangeOfConcat
<1>7. \A from : Chain(chan, from, vseq) => Chain(b, from, seq)
  BY <1>2, <1>4, <1>5, ChainConcat
<1> HIDE DEF b
<1>8. chan' \in Seq(Frame) /\ Range(chan') \subseteq (Range(chan) \cup {frame}) \cup Range(u)
  BY <1>2, <1>3, <1>4, <1>6, RangeOfConcat
<1>9. Types'
  <2>1. cmds' \in Seq(Command)  BY <1>1, EmptySeq
  <2>2. vseq' \in Nat  BY <1>1, <1>3
  <2>3. QED  BY <1>1, <1>8, <2>1, <2>2 DEF IInv, Types, feedVars, readerVars, callVars
<1>10. Numbered'
  <2> SUFFICES ASSUME ~lost PROVE Chain(chan', lastSeq, vseq')
    BY <1>1 DEF Numbered, readerVars
  <2>1. Chain(b, lastSeq, seq)  BY <1>1, <1>7 DEF IInv, Numbered
  <2>2. QED  BY <1>1, <1>3, <1>4, <1>6, <2>1, ChainConcat
<1>11. Links' /\ Forgotten' /\ Todo'
  BY <1>1 DEF IInv, Links, Forgotten, NothingLeftBehind, Todo, feedVars, readerVars, callVars
<1>12. Wired'
  <2> SUFFICES ASSUME link = "up" PROVE Outbox' /\ Answered' /\ Subscribed'
    BY <1>1 DEF Wired
  <2>1. Answered /\ Subscribed  BY DEF IInv, Wired
  <2>2. Outbox'  BY <1>1 DEF Outbox
  <2>3. \A g \in Range(chan') : g.kind = "reply" => g \in Range(chan) \/ g = frame
    BY <1>3, <1>8
  <2>4. frame.id <= cmdId  BY <1>1 DEF MutationOut
  <2>5. Answered'  BY <1>1, <2>1, <2>3, <2>4 DEF Answered, feedVars
  <2>6. Subscribed'  BY <1>1, <2>1 DEF Subscribed, Busy, feedVars, callVars
  <2>7. QED  BY <2>2, <2>5, <2>6
<1>13. QED  BY <1>9, <1>10, <1>11, <1>12 DEF IInv

\* A move of a market that is sent, or of one that is not.
LEMMA VenueTradeStep ==
  ASSUME IInv, NEW t \in Ticker, NEW d \in {-1, 1}, VenueTrade(t, d) PROVE IInv'
<1> DEFINE f == [NoFrame EXCEPT !.kind = "delta", !.ticker = t, !.seq = vseq + 1, !.val = d,
                                !.truth = size[t] + d]
<1>1. /\ size[t] + d \in 0..MaxSize /\ size' = [size EXCEPT ![t] = @ + d]
      /\ UNCHANGED <<feedVars, readerVars, callVars, conn, link, cmds, sub, lost>>
      /\ \/ link = "up" /\ t \in sub /\ vseq' = vseq + 1 /\ chan' = Append(chan, f)
         \/ vseq' = vseq /\ chan' = chan
  BY DEF VenueTrade
<1>2. vseq \in Nat /\ chan \in Seq(Frame) /\ size' \in [Ticker -> 0..MaxSize]
  BY <1>1 DEF IInv, Types
<1>3. f \in Frame /\ f.kind = "delta" /\ f.seq = vseq + 1
  <2>1. size[t] + d \in Int /\ vseq + 1 \in Nat /\ d \in Int  BY <1>1, <1>2, KalshiAssumption
  <2>2. NoFrame \in Frame  BY FailedIsFuture DEF NoFrame, Frame, NoSeq
  <2>3. QED  BY <2>1, <2>2 DEF NoFrame, Frame
<1> HIDE DEF f
<1>4. /\ Append(chan, f) = chan \o <<f>> /\ Append(chan, f) \in Seq(Frame)
      /\ Range(Append(chan, f)) = Range(chan) \cup {f}
  BY <1>2, <1>3, AppendOne
<1>5. Types'
  <2> DEFINE a == Append(chan, f)
  <2>1. a \in Seq(Frame)  BY <1>4
  <2>2. chan' \in {a, chan} /\ vseq' \in {vseq + 1, vseq}  BY <1>1
  <2> HIDE DEF a
  <2>3. chan' \in Seq(Frame) /\ vseq' \in Nat  BY <1>2, <2>1, <2>2
  <2>4. QED  BY <1>1, <1>2, <2>3 DEF IInv, Types, feedVars, readerVars, callVars
<1>6. Numbered'
  <2> SUFFICES ASSUME pc = "recv", ~lost PROVE Chain(chan', lastSeq, vseq')
    BY <1>1 DEF Numbered, readerVars, IInv
  <2>1. Chain(chan, lastSeq, vseq)  BY DEF IInv, Numbered
  <2>2. Chain(<<f>>, vseq, vseq + 1)  BY <1>2, <1>3, ChainOne
  <2>3. <<f>> \in Seq(Frame)  BY <1>3, RangeOfOne
  <2>4. Chain(Append(chan, f), lastSeq, vseq + 1)  BY <1>2, <1>4, <2>1, <2>2, <2>3, ChainConcat
  <2>5. QED  BY <1>1, <2>1, <2>4
<1>7. Links' /\ Forgotten' /\ Todo'
  BY <1>1 DEF IInv, Links, Forgotten, NothingLeftBehind, Todo, feedVars, readerVars, callVars
<1>8. Wired'
  <2> SUFFICES ASSUME link = "up" PROVE Outbox' /\ Answered' /\ Subscribed'
    BY <1>1 DEF Wired
  <2>1. Outbox /\ Answered /\ Subscribed  BY DEF IInv, Wired
  <2>2. \A g \in Range(chan') : g.kind = "reply" => g \in Range(chan)
    BY <1>1, <1>3, <1>4
  <2>3. ASSUME NEW c \in Command, cmds = <<c>>, c.op = "subscribe", SubscribeOut PROVE SubscribeOut'
    <3>1. vseq' = vseq /\ chan' = chan  BY <1>1, <2>3 DEF SubscribeOut
    <3>2. QED  BY <1>1, <2>3, <3>1 DEF SubscribeOut, feedVars
  <2>4. ASSUME NEW c \in Command, cmds = <<c>>, c.op # "subscribe", MutationOut(c) PROVE MutationOut(c)'
    BY <1>1, <2>2, <2>4 DEF MutationOut, Operand, feedVars, callVars
  <2>5. Outbox'  BY <1>1, <2>1, <2>3, <2>4 DEF Outbox
  <2>6. Answered'  BY <1>1, <2>1, <2>2 DEF Answered, feedVars
  <2>7. Subscribed'  BY <1>1, <2>1 DEF Subscribed, Busy, feedVars, callVars
  <2>8. QED  BY <2>5, <2>6, <2>7
<1>9. QED  BY <1>5, <1>6, <1>7, <1>8 DEF IInv

LEMMA FrameLostStep == ASSUME IInv, NEW i \in 1..Len(chan), FrameLost(i) PROVE IInv'
<1>1. /\ chan' = RemoveAt(chan, i) /\ lost' = TRUE
      /\ UNCHANGED <<feedVars, readerVars, callVars, conn, link, venueVars>>
  BY DEF FrameLost
<1>2. chan' \in Seq(Frame) /\ Range(chan') \subseteq Range(chan)
  BY <1>1, RemoveOne DEF IInv, Types
<1>3. Types'
  BY <1>1, <1>2 DEF IInv, Types, feedVars, readerVars, callVars, venueVars
<1>4. Numbered' /\ Links' /\ Forgotten' /\ Todo'
  BY <1>1 DEF IInv, Numbered, Links, Forgotten, NothingLeftBehind, Todo, feedVars, readerVars,
     callVars, venueVars
<1>5. Wired'
  <2> SUFFICES ASSUME link = "up" PROVE Outbox' /\ Answered' /\ Subscribed'
    BY <1>1 DEF Wired
  <2>1. Outbox /\ Answered /\ Subscribed  BY DEF IInv, Wired
  <2>2. ASSUME NEW c \in Command, cmds = <<c>>, c.op = "subscribe", SubscribeOut PROVE SubscribeOut'
    BY <1>1, <1>2, <2>2 DEF SubscribeOut, feedVars, venueVars
  <2>3. ASSUME NEW c \in Command, cmds = <<c>>, c.op # "subscribe", MutationOut(c) PROVE MutationOut(c)'
    BY <1>1, <1>2, <2>3 DEF MutationOut, Operand, feedVars, callVars
  <2>4. Outbox'  BY <1>1, <2>1, <2>2, <2>3 DEF Outbox, venueVars
  <2>5. Answered'  BY <1>1, <1>2, <2>1 DEF Answered, feedVars
  <2>6. Subscribed'  BY <1>1, <2>1 DEF Subscribed, Busy, feedVars, callVars
  <2>7. QED  BY <2>4, <2>5, <2>6
<1>6. QED  BY <1>3, <1>4, <1>5 DEF IInv

LEMMA LinkFailsStep ==
  ASSUME IInv, NEW how \in {"closed", "stalled"}, LinkFails(how) PROVE IInv'
<1>1. /\ link = "up" /\ link' = how
      /\ UNCHANGED <<feedVars, readerVars, callVars, conn, chan, venueVars, lost>>
  BY DEF LinkFails
<1>2. Types'  BY <1>1 DEF IInv, Types, feedVars, readerVars, callVars, venueVars
<1>3. Numbered' /\ Links' /\ Forgotten' /\ Todo' /\ Wired'
  BY <1>1 DEF IInv, Numbered, Links, Forgotten, NothingLeftBehind, Todo, Wired, feedVars, readerVars,
     callVars, venueVars
<1>4. QED  BY <1>2, <1>3 DEF IInv

-----------------------------------------------------------------------------
(* The invariant, and that only a lost frame is a gap                      *)

LEMMA InvInit == ASSUME Init PROVE IInv
<1>1. cmds = <<>> /\ chan = <<>> /\ cmds \in Seq(Command) /\ chan \in Seq(Frame)
  BY EmptySeq DEF Init
<1>2. call.todo \in Seq({"delete_markets", "add_markets"})  BY EmptySeq DEF Init
<1>3. call \in [ws : Nat, added : SUBSET Ticker, dropped : SUBSET Ticker,
                todo : Seq({"delete_markets", "add_markets"}), id : Nat]
  BY <1>2 DEF Init, NoSocket
<1>4. Types  BY <1>1, <1>3, FailedIsFuture DEF Init, Types, NoSocket, NoSeq
<1>5. Numbered /\ Links /\ Forgotten /\ Todo /\ Wired
  BY DEF Init, Numbered, Links, Forgotten, NothingLeftBehind, Todo, Wired, NoSocket
<1>6. QED  BY <1>4, <1>5 DEF IInv

LEMMA InvStep == ASSUME IInv, [Next]_vars PROVE IInv'
<1>1. CASE Reader
  BY <1>1, OpenSocketStep, ConnectedStep, DownStep, TearDownStep, RestartStep, ReadFrameStep DEF Reader
<1>2. CASE Refresher
  BY <1>2, MutateSendStep, WaitEndsStep, CloseStep DEF Refresher
<1>3. CASE VenueAnswers
  BY <1>3, VenueSubscribeStep, VenueMutateStep DEF VenueAnswers
<1>4. CASE Environment
  <2>1. CASE ~Running /\ (ConnectFails \/ StreamCrash)  BY <2>1, DownStep, TearDownStep
  <2>2. CASE \E desired \in (SUBSET Ticker) \ {{}} : Resync(desired)  BY <2>2, ResyncStep
  <2>3. CASE \E t \in Ticker, d \in {-1, 1} : VenueTrade(t, d)  BY <2>3, VenueTradeStep
  <2>4. CASE \E i \in 1..Len(chan) : FrameLost(i)  BY <2>4, FrameLostStep
  <2>5. CASE \E how \in {"closed", "stalled"} : LinkFails(how)  BY <2>5, LinkFailsStep
  <2>6. QED  BY <1>4, <2>1, <2>2, <2>3, <2>4, <2>5, KalshiAssumption DEF Environment
<1>5. CASE UNCHANGED vars
  BY <1>5 DEF vars, feedVars, readerVars, callVars, venueVars, IInv, Types, Numbered, Links,
     Forgotten, NothingLeftBehind, Todo, Wired, Outbox, SubscribeOut, MutationOut, Operand, Answered,
     Subscribed, Busy
<1>6. QED  BY <1>1, <1>2, <1>3, <1>4, <1>5 DEF Next

LEMMA GapStep ==
  ASSUME IInv, [Next]_vars, pc = "recv", pc' = "top" PROVE lost \/ chan = <<>>
<1>1. CASE Reader
  <2>1. CASE IdleTimeout  BY <2>1 DEF IdleTimeout
  <2>2. CASE ReadFrame
    <3> SUFFICES ASSUME ~lost PROVE FALSE
      OBVIOUS
    <3> DEFINE f == Head(chan)
    <3>1. chan # <<>> /\ (ReadGap(f) \/ InSequence(f))
      BY <2>2 DEF ReadFrame, ReadSubscribed, ReadReply, ReadUnwanted, ReadBook
    <3>2. IsGap(f)  BY <3>1 DEF ReadGap, InSequence
    <3>3. Chain(chan, lastSeq, vseq) /\ chan \in Seq(Frame) /\ lastSeq \in Nat
      BY DEF IInv, Types, Numbered
    <3>4. f.seq = NoSeq \/ f.seq = lastSeq + 1  BY <3>1, <3>3, ChainHead
    <3>5. QED  BY <3>2, <3>4 DEF IsGap
  <2>3. QED
    BY <1>1, <2>1, <2>2 DEF Reader, OpenSocket, Connected, BackoffOver, SocketClosed, StreamRestart
<1>2. CASE Refresher
  BY <1>2 DEF Refresher, MutateSend, MutateAnswered, MutateTimeout, CloseSocket, readerVars
<1>3. CASE VenueAnswers
  BY <1>3 DEF VenueAnswers, VenueSubscribe, VenueMutate, readerVars
<1>4. CASE Environment
  BY <1>4 DEF Environment, ConnectFails, StreamCrash, Resync, VenueTrade, FrameLost, LinkFails, readerVars
<1>5. CASE UNCHANGED vars  BY <1>5 DEF vars, readerVars
<1>6. QED  BY <1>1, <1>2, <1>3, <1>4, <1>5 DEF Next

\* What a refresh leaves behind is forgotten, in every state: ladders of tickers that are
\* neither wanted nor marked, and waiters of mutations that ended (kalshi.py:568, 679).
THEOREM KalshiLeavesNothing == Spec => []NothingLeftBehind
<1>1. IInv => NothingLeftBehind  BY DEF IInv, Forgotten
<1>2. QED  BY <1>1, InvInit, InvStep, PTL DEF Spec

\* The reader leaves a connection over a gap only when a frame was lost: the acks of our
\* own mutations, which take numbers of the same counter, are never one (kalshi.py:583).
THEOREM KalshiOnlyLossIsAGap == Spec => OnlyLossIsAGap
<1> DEFINE NoFalseGap == pc = "recv" /\ pc' = "top" => lost \/ chan = <<>>
<1>1. IInv /\ [Next]_vars => [NoFalseGap]_vars  BY GapStep
<1>2. IInv /\ [Next]_vars => IInv'  BY InvStep
<1>3. Init => IInv  BY InvInit
<1>4. OnlyLossIsAGap <=> [][NoFalseGap]_vars  BY DEF OnlyLossIsAGap
<1>5. QED  BY <1>1, <1>2, <1>3, <1>4, PTL DEF Spec

-----------------------------------------------------------------------------
(* "live" means applied                                                    *)

\* The connection of the call still stands.
Here == link = "up" /\ call.ws = conn

Op == {"delete_markets", "add_markets"}

\* The venue's subscription is what a mutation of the call made it.
Did(op) == IF op = "delete_markets" THEN call.dropped \cap sub = {} ELSE call.added \subseteq sub

\* An ok echoes the subscription, or is bare and of a change that was made.
Proven(reply) == reply.ok => reply.echo = sub /\ (reply.bare => Did(Head(call.todo)))

Replies ==
  Here /\ rpc = "wait" =>
    /\ fut.state = "done" => Proven(fut)
    /\ \A f \in Range(chan) : f.kind = "reply" /\ f.id = call.id => Proven(f.reply)

\* What is no longer to be sent has been done.
DoneSoFar == Here /\ Busy => \A op \in Op : op \notin Range(call.todo) => Did(op)

LInv == IInv /\ Replies /\ DoneSoFar

\* Steps that change neither the call nor the subscription and bring no reply.
LEMMA QuietStep ==
  ASSUME Replies, DoneSoFar, UNCHANGED <<rpc, call, applied, conn, sub>>,
         link' = "up" => link = "up",
         \A f \in Range(chan') : f.kind = "reply" => f \in Range(chan),
         \/ fut' = fut
         \/ fut'.state # "done"
         \/ \E f \in Range(chan) : f.kind = "reply" /\ f.id = call.id /\ fut' = f.reply
  PROVE  Replies' /\ DoneSoFar'
<1>1. \A r : Proven(r)' <=> Proven(r)
  BY DEF Proven, Did
<1>2. Replies'
  <2> SUFFICES ASSUME Here, rpc = "wait"
               PROVE  /\ fut'.state = "done" => Proven(fut')
                      /\ \A f \in Range(chan') : f.kind = "reply" /\ f.id = call.id => Proven(f.reply)
    BY <1>1 DEF Replies, Here, Proven, Did
  <2>1. QED  BY DEF Replies
<1>3. DoneSoFar'  BY DEF DoneSoFar, Here, Busy, Did
<1>4. QED  BY <1>2, <1>3

\* A step after which the connection of the call does not stand.
LEMMA GoneStep == ASSUME ~Here' PROVE Replies' /\ DoneSoFar'
BY DEF Replies, DoneSoFar

\* A step after which no mutation is under way or applied.
LEMMA IdleStep == ASSUME ~Busy' PROVE Replies' /\ DoneSoFar'
BY DEF Replies, DoneSoFar, Busy

LEMMA LiveReader == ASSUME LInv, Reader PROVE Replies' /\ DoneSoFar'
<1>1. CASE OpenSocket \/ BackoffOver \/ SocketClosed \/ StreamRestart
  <2>1. link # "up" /\ link' = link
    BY <1>1 DEF LInv, IInv, Links, OpenSocket, BackoffOver, SocketClosed, StreamRestart
  <2>2. QED  BY <2>1, GoneStep DEF Here
<1>2. CASE Connected
  <2>1. call' = call /\ conn' = conn + 1  BY <1>2 DEF Connected, callVars
  <2>2. call'.ws # conn'  BY <2>1 DEF LInv, IInv, Types, Links
  <2>3. QED  BY <2>2, GoneStep DEF Here
<1>3. CASE IdleTimeout
  BY <1>3, GoneStep DEF IdleTimeout, TearDown, Here
<1>4. CASE ReadFrame
  <2> DEFINE f == Head(chan)
  <2>1. ReadGap(f) \/ ReadSubscribed(f) \/ ReadReply(f) \/ ReadUnwanted(f) \/ ReadBook(f)
    BY <1>4 DEF ReadFrame
  <2> HIDE DEF f
  <2>2. CASE ReadGap(f)  BY <2>2, GoneStep DEF ReadGap, TearDown, Here
  <2>3. ASSUME InSequence(f),
               \/ fut' = fut
               \/ f.kind = "reply" /\ f.id = call.id /\ fut' = f.reply
        PROVE  Replies' /\ DoneSoFar'
    <3>1. /\ f \in Range(chan) /\ Range(chan') \subseteq Range(chan)
          /\ UNCHANGED <<rpc, call, applied, conn, sub, link>>
      BY <2>3, InSequenceMeans DEF LInv
    <3>2. QED  BY <2>3, <3>1, QuietStep DEF LInv
  <2>4. CASE ReadReply(f)
    <3>1. InSequence(f) /\ f.kind = "reply"  BY <2>4 DEF ReadReply
    <3>2. fut' = fut \/ (f.id = call.id /\ fut' = f.reply)  BY <2>4 DEF ReadReply
    <3>3. QED  BY <2>3, <3>1, <3>2
  <2>5. CASE ReadSubscribed(f) \/ ReadUnwanted(f) \/ ReadBook(f)
    BY <2>3, <2>5 DEF ReadSubscribed, ReadUnwanted, ReadBook
  <2>6. QED  BY <2>1, <2>2, <2>4, <2>5
<1>5. QED  BY <1>1, <1>2, <1>3, <1>4 DEF Reader

LEMMA LiveResync ==
  ASSUME LInv, NEW desired \in SUBSET Ticker, Resync(desired) PROVE Replies' /\ DoneSoFar'
<1> DEFINE added   == desired \ meta
           dropped == meta \ desired
           todo    == (IF dropped # {} THEN <<"delete_markets">> ELSE <<>>)
                      \o (IF added # {} THEN <<"add_markets">> ELSE <<>>)
<1>1. \/ applied' \in {"unchanged", "on_reconnect"} /\ rpc' = "idle"
      \/ /\ rpc' = "send"
         /\ call' = [ws |-> ws, added |-> added, dropped |-> dropped, id |-> 0, todo |-> todo]
  BY DEF Resync
<1>2. /\ "delete_markets" \notin Range(todo) => dropped = {}
      /\ "add_markets" \notin Range(todo) => added = {}
  BY TodoOf
<1> HIDE DEF added, dropped, todo
<1>3. CASE applied' \in {"unchanged", "on_reconnect"} /\ rpc' = "idle"
  BY <1>3, IdleStep DEF Busy
<1>4. CASE rpc' = "send" /\ call' = [ws |-> ws, added |-> added, dropped |-> dropped, id |-> 0, todo |-> todo]
  <2>1. call'.added = added /\ call'.dropped = dropped /\ call'.todo = todo  BY <1>4
  <2>2. \A op \in Op : op \notin Range(call'.todo) => Did(op)'
    BY <1>2, <2>1 DEF Op, Did
  <2>3. QED  BY <1>4, <2>2 DEF Replies, DoneSoFar
<1>5. QED  BY <1>1, <1>3, <1>4

\* No reply on its way has the id of the mutation just sent.
LEMMA LiveSend == ASSUME LInv, MutateSend PROVE Replies' /\ DoneSoFar'
<1>1. /\ rpc = "send" /\ UNCHANGED <<applied, conn, link, chan, sub>>
      /\ \/ /\ rpc' = "wait" /\ fut' = Pending /\ link \in {"up", "stalled"}
            /\ call' = [call EXCEPT !.id = cmdId + 1]
         \/ rpc' = "close"
  BY DEF MutateSend
<1>2. CASE rpc' = "close"  BY <1>2, IdleStep DEF Busy
<1>3. CASE rpc' = "wait" /\ fut' = Pending /\ call' = [call EXCEPT !.id = cmdId + 1]
  <2>1. /\ call'.ws = call.ws /\ call'.added = call.added /\ call'.dropped = call.dropped
        /\ call'.todo = call.todo /\ call'.id = cmdId + 1
    BY <1>3 DEF LInv, IInv, Types
  <2>2. Here' => \A f \in Range(chan) : f.kind = "reply" => f.id # cmdId + 1
    <3>1. ASSUME Here' PROVE Answered  BY <1>1, <3>1 DEF Here, LInv, IInv, Wired
    <3>2. Range(chan) \subseteq Frame /\ cmdId \in Nat  BY RangeOfSeq DEF LInv, IInv, Types
    <3>3. QED  BY <3>1, <3>2 DEF Answered, Frame
  <2>3. fut'.state # "done"  BY <1>3 DEF Pending, Failed
  <2>4. Replies'  BY <1>1, <2>1, <2>2, <2>3 DEF Replies
  <2>5. DoneSoFar'
    <3>1. Here' => Here  BY <1>1, <2>1 DEF Here
    <3>2. Busy  BY <1>1 DEF Busy
    <3>3. QED  BY <1>1, <2>1, <3>1, <3>2 DEF LInv, DoneSoFar, Did
  <2>6. QED  BY <2>4, <2>5
<1>4. QED  BY <1>1, <1>2, <1>3

\* A reply that is taken for proof is one.
LEMMA LiveAnswered == ASSUME LInv, MutateAnswered PROVE Replies' /\ DoneSoFar'
<1>1. /\ rpc = "wait" /\ UNCHANGED <<conn, link, chan, sub>>
      /\ \/ Verified(fut, Head(call.todo)) /\ call' = [call EXCEPT !.todo = Tail(@)] /\ rpc' \in {"send", "idle"}
         \/ rpc' = "close"
  BY DEF MutateAnswered, venueVars
<1>2. CASE rpc' = "close"  BY <1>2, IdleStep DEF Busy
<1>3. CASE /\ Verified(fut, Head(call.todo)) /\ call' = [call EXCEPT !.todo = Tail(@)]
           /\ rpc' \in {"send", "idle"}
  <2>1. /\ call'.ws = call.ws /\ call'.added = call.added /\ call'.dropped = call.dropped
        /\ call'.todo = Tail(call.todo)
    BY <1>3 DEF LInv, IInv, Types
  <2>2. Head(call.todo) \in Op /\ Range(call.todo) = {Head(call.todo)} \cup Range(Tail(call.todo))
    BY <1>1, Todos DEF LInv, IInv, Todo, Op
  <2>3. Replies'  BY <1>3 DEF Replies
  <2>4. ASSUME Here' PROVE \A op \in Op : op \notin Range(Tail(call.todo)) => Did(op)
    <3>1. Here /\ Busy  BY <1>1, <2>1, <2>4 DEF Here, Busy
    <3>2. Proven(fut) /\ fut.ok  BY <1>1, <1>3, <3>1 DEF LInv, Replies, Verified
    <3>3. Did(Head(call.todo))
      BY <1>3, <2>2, <3>2 DEF Verified, Proven, Did, Op
    <3>4. QED  BY <2>2, <3>1, <3>3 DEF LInv, DoneSoFar
  <2>5. DoneSoFar'  BY <1>1, <2>1, <2>4 DEF DoneSoFar, Did
  <2>6. QED  BY <2>3, <2>5
<1>4. QED  BY <1>1, <1>2, <1>3

LEMMA LiveRefresher == ASSUME LInv, Refresher PROVE Replies' /\ DoneSoFar'
<1>1. CASE MutateTimeout  BY <1>1, IdleStep DEF MutateTimeout, Busy
<1>2. CASE CloseSocket  BY <1>2, IdleStep DEF CloseSocket, Busy
<1>3. QED  BY <1>1, <1>2, LiveSend, LiveAnswered DEF Refresher

\* The subscribe is read before the subscription id is known, so before any mutation.
LEMMA LiveSubscribe == ASSUME LInv, VenueSubscribe PROVE Replies' /\ DoneSoFar'
<1>1. SubscribeOut /\ link = "up"  BY OneCommand DEF VenueSubscribe, LInv
<1>2. ~(Busy /\ call.ws = conn)  BY <1>1 DEF SubscribeOut, LInv, IInv, Wired, Subscribed
<1>3. UNCHANGED <<rpc, call, applied, conn>>  BY DEF VenueSubscribe, callVars
<1>4. ~(Here' /\ Busy')  BY <1>2, <1>3 DEF Here, Busy
<1>5. QED  BY <1>4 DEF Replies, DoneSoFar, Busy

\* A deletion undoes no addition of its call, nor an addition a deletion.
LEMMA LiveMutate ==
  ASSUME LInv, "bare_noop" \notin Answers, NEW answer \in Answers, VenueMutate(answer)
  PROVE  Replies' /\ DoneSoFar'
<1> DEFINE c == Head(cmds)
<1>1. PICK frame \in Frame, new \in SUBSET Ticker, seq \in Nat : Mutated(answer, frame, new, seq)
  BY VenueMutateMeans DEF LInv
<1>2. /\ MutationOut(c) /\ frame.id = c.id /\ frame.kind = "reply" /\ frame.reply.echo = sub'
      /\ sub' \in {sub, After(c)}
      /\ frame.reply.ok /\ frame.reply.bare => sub' = After(c)
      /\ chan' = chan \o (IF answer = "silent" THEN <<>> ELSE <<frame>>) \o Snapshots(new, seq)
      /\ UNCHANGED <<rpc, call, fut, applied, conn, link>>
  BY <1>1 DEF Mutated, callVars
<1>3. \A g \in Range(chan') : g.kind = "reply" => g \in Range(chan) \/ g = frame
  <2> DEFINE a == IF answer = "silent" THEN <<>> ELSE <<frame>>
             u == Snapshots(new, seq)
             b == chan \o a
  <2>1. a \in Seq(Frame) /\ Range(a) \subseteq {frame}  BY EmptySeq, RangeOfNone, RangeOfOne
  <2>2. u \in Seq(Frame) /\ \A g \in Range(u) : g.kind = "snapshot"
    BY SnapshotFrames DEF LInv, IInv
  <2>3. chan' = b \o u  BY <1>2
  <2> HIDE DEF a, u
  <2>4. b \in Seq(Frame) /\ Range(b) = Range(chan) \cup Range(a)
    BY <2>1, RangeOfConcat DEF LInv, IInv, Types
  <2> HIDE DEF b
  <2>5. Range(chan') = Range(b) \cup Range(u)  BY <2>2, <2>3, <2>4, RangeOfConcat
  <2>6. QED  BY <2>1, <2>2, <2>4, <2>5
<1>4. CASE rpc # "wait"
  <2>1. ~Busy'  BY <1>2, <1>4 DEF MutationOut, Busy
  <2>2. QED  BY <2>1, IdleStep
<1>5. CASE rpc = "wait"
  <2>1. /\ c.op = Head(call.todo) /\ c.op \in Op /\ c.id = call.id /\ fut.state # "done"
        /\ c.tickers = IF c.op = "delete_markets" THEN call.dropped ELSE call.added
        /\ call.added \cap call.dropped = {}
        /\ \A f \in Range(chan) : f.kind = "reply" => f.id # call.id
    BY <1>2, <1>5, Todos DEF MutationOut, Operand, LInv, IInv, Todo, Op
  <2>2. After(c) = IF c.op = "delete_markets" THEN sub \ call.dropped ELSE sub \cup call.added
    BY <2>1 DEF After
  <2>3. sub' = After(c) => Did(Head(call.todo))'
    BY <1>2, <2>1, <2>2 DEF Did, Op
  <2>4. Proven(frame.reply)'  BY <1>2, <2>3 DEF Proven
  <2>5. \A f \in Range(chan') : f.kind = "reply" /\ f.id = call.id => f = frame
    BY <1>3, <2>1
  <2>6. Replies'
    BY <1>2, <2>1, <2>4, <2>5 DEF Replies
  <2>7. \A op \in Op : Did(op) => Did(op)'
    BY <1>2, <2>1, <2>2 DEF Did, Op
  <2>8. DoneSoFar'
    BY <1>2, <2>7 DEF LInv, DoneSoFar, Here, Busy
  <2>9. QED  BY <2>6, <2>8
<1>6. QED  BY <1>4, <1>5

LEMMA LiveEnvironment == ASSUME LInv, Environment PROVE Replies' /\ DoneSoFar'
<1>1. CASE ConnectFails
  <2>1. link # "up" /\ link' = link  BY <1>1 DEF ConnectFails, LInv, IInv, Links
  <2>2. QED  BY <2>1, GoneStep DEF Here
<1>2. CASE StreamCrash  BY <1>2, GoneStep DEF StreamCrash, Here
<1>3. ASSUME NEW t \in Ticker, NEW d \in {-1, 1}, VenueTrade(t, d) PROVE Replies' /\ DoneSoFar'
  <2> DEFINE f == [NoFrame EXCEPT !.kind = "delta", !.ticker = t, !.seq = vseq + 1, !.val = d,
                                  !.truth = size[t] + d]
  <2>1. /\ UNCHANGED <<rpc, call, fut, applied, conn, sub, link>>
        /\ size[t] + d \in 0..MaxSize /\ (chan' = Append(chan, f) \/ chan' = chan)
    BY <1>3 DEF VenueTrade, callVars
  <2>2. chan \in Seq(Frame) /\ vseq \in Nat  BY DEF LInv, IInv, Types
  <2>3. f \in Frame /\ f.kind = "delta"
    <3>1. size[t] + d \in Int /\ vseq + 1 \in Nat /\ d \in Int  BY <2>1, <2>2, KalshiAssumption
    <3>2. NoFrame \in Frame  BY FailedIsFuture DEF NoFrame, Frame, NoSeq
    <3>3. QED  BY <3>1, <3>2 DEF NoFrame, Frame
  <2> HIDE DEF f
  <2>4. /\ Append(chan, f) = chan \o <<f>> /\ Append(chan, f) \in Seq(Frame)
        /\ Range(Append(chan, f)) = Range(chan) \cup {f}
    BY <2>2, <2>3, AppendOne
  <2>5. \A g \in Range(chan') : g.kind = "reply" => g \in Range(chan)  BY <2>1, <2>3, <2>4
  <2>6. QED  BY <2>1, <2>5, QuietStep DEF LInv
<1>4. ASSUME NEW i \in 1..Len(chan), FrameLost(i) PROVE Replies' /\ DoneSoFar'
  <2>1. chan' = RemoveAt(chan, i) /\ UNCHANGED <<rpc, call, fut, applied, conn, sub, link>>
    BY <1>4 DEF FrameLost, callVars, venueVars
  <2>2. Range(chan') \subseteq Range(chan)  BY <2>1, RemoveOne DEF LInv, IInv, Types
  <2>3. QED  BY <2>1, <2>2, QuietStep DEF LInv
<1>5. ASSUME NEW how \in {"closed", "stalled"}, LinkFails(how) PROVE Replies' /\ DoneSoFar'
  BY <1>5, GoneStep DEF LinkFails, Here
<1>6. QED  BY <1>1, <1>2, <1>3, <1>4, <1>5, LiveResync, KalshiAssumption DEF Environment

LEMMA LiveInit == ASSUME Init PROVE LInv
BY InvInit DEF Init, LInv, Replies, DoneSoFar, Here

LEMMA LiveStep == ASSUME LInv, "bare_noop" \notin Answers, [Next]_vars PROVE LInv'
<1>1. IInv'  BY InvStep DEF LInv
<1>2. ASSUME UNCHANGED vars PROVE Replies' /\ DoneSoFar'
  <2>1. UNCHANGED <<rpc, call, fut, applied, conn, sub, link, chan>>
    BY <1>2 DEF vars, callVars, venueVars
  <2>2. QED  BY <2>1, QuietStep DEF LInv
<1>3. Replies' /\ DoneSoFar'
  BY <1>2, LiveReader, LiveRefresher, LiveSubscribe, LiveMutate, LiveEnvironment DEF Next, VenueAnswers, LInv
<1>4. QED  BY <1>1, <1>3 DEF LInv

LEMMA LiveIsApplied == ASSUME LInv PROVE LiveMeansApplied
<1>1. SUFFICES ASSUME rpc = "idle", applied = "live", call.ws = conn, link = "up"
               PROVE  call.added \subseteq sub /\ call.dropped \cap sub = {}
  BY DEF LiveMeansApplied
<1>2. Here /\ Busy /\ call.todo = <<>>  BY <1>1 DEF LInv, IInv, Todo, Here, Busy
<1>3. \A op \in Op : Did(op)  BY <1>2, RangeOfNone DEF LInv, DoneSoFar
<1>4. QED  BY <1>3 DEF Op, Did

\* "live" is true: while the connection a resync used is up, the venue has subscribed what
\* the resync added and not what it dropped.  It needs that a bare ok, which the code takes
\* for proof (kalshi.py:684), is never sent for a change that was not made.
THEOREM KalshiLiveMeansApplied == "bare_noop" \notin Answers => (Spec => []LiveMeansApplied)
<1> SUFFICES ASSUME "bare_noop" \notin Answers PROVE Spec => []LiveMeansApplied
  OBVIOUS
<1>1. Init => LInv  BY LiveInit
<1>2. LInv /\ [Next]_vars => LInv'  BY LiveStep
<1>3. LInv => LiveMeansApplied  BY LiveIsApplied
<1>4. QED  BY <1>1, <1>2, <1>3, PTL DEF Spec

-----------------------------------------------------------------------------
(* The subscription follows the wanted set                                 *)

\* What resyncs inside the connect window left out is all that S and T differ in.
Near(S, T, left) == SymDiff(S, T) \subseteq left

\* What is subscribed, or about to be, is what is wanted, but for those; while a call
\* mutates the connection, up to the two differences of that call.
Follows ==
  /\ pc = "connecting" => Near(tickers, meta, overtaken)
  /\ pc = "recv" => conn # NoSocket
  /\ link = "up" =>
       IF rpc # "idle" /\ call.ws = conn
       THEN rpc # "close" => Near((sub \ call.dropped) \cup call.added, meta, overtaken)
       ELSE IF cmds = <<>> THEN Near(sub, meta, overtaken)
            ELSE Head(cmds).op = "subscribe" /\ Near(Head(cmds).tickers, meta, overtaken)

CInv == LInv /\ Follows

\* Steps that are about none of it, or leave no link.
LEMMA FollowsStays ==
  ASSUME CInv, UNCHANGED <<meta, rpc, call, conn, cmds, sub, overtaken>>,
         pc' = "connecting" => pc = "connecting" /\ tickers' = tickers,
         pc' = "recv" => pc = "recv",
         link' = "up" => link = "up"
  PROVE  Follows'
BY DEF CInv, Follows

\* What is on its way, when no call uses the connection or the call has been answered.
LEMMA NothingOut ==
  ASSUME IInv, link = "up", ~(rpc \in {"wait", "close"} /\ call.ws = conn /\ fut.state # "done")
  PROVE  cmds = <<>> \/ (Head(cmds).op = "subscribe" /\ ~sid)
BY DEF IInv, Wired, Outbox, MutationOut, SubscribeOut

LEMMA FollowsReader == ASSUME CInv, Reader PROVE Follows'
<1>1. CASE OpenSocket
  <2>1. link # "up" /\ link' = link  BY <1>1 DEF OpenSocket, CInv, LInv, IInv, Links
  <2>2. tickers' = meta' /\ pc' = "connecting"  BY <1>1 DEF OpenSocket
  <2>3. QED  BY <2>1, <2>2 DEF Follows, Near, SymDiff
<1>2. CASE Connected
  <2> DEFINE c == [op |-> "subscribe", tickers |-> tickers, id |-> 1]
  <2>1. /\ pc' = "recv" /\ conn' = conn + 1 /\ cmds' = <<c>>
        /\ Near(tickers, meta, overtaken) /\ UNCHANGED <<meta, rpc, call, overtaken>>
    BY <1>2 DEF Connected, callVars, CInv, Follows
  <2>2. call'.ws # conn' /\ conn' # NoSocket
    BY <2>1 DEF CInv, LInv, IInv, Types, Links, NoSocket
  <2>3. cmds' # <<>> /\ Head(cmds') = c  BY <2>1
  <2>4. QED  BY <2>1, <2>2, <2>3 DEF Follows
<1>3. CASE BackoffOver \/ SocketClosed
  <2>1. /\ UNCHANGED <<meta, rpc, call, conn, cmds, sub, link, overtaken>>
        /\ pc' \in {"top", "backoff"}
    BY <1>3 DEF BackoffOver, SocketClosed, feedVars, callVars, venueVars, historyVars
  <2>2. QED  BY <2>1, FollowsStays
<1>4. CASE IdleTimeout  BY <1>4 DEF IdleTimeout, TearDown, Follows
<1>5. CASE StreamRestart
  <2>1. UNCHANGED <<meta, rpc, call, conn, cmds, sub, link, overtaken>> /\ pc' = "top"
    BY <1>5 DEF StreamRestart, callVars, venueVars, historyVars
  <2>2. QED  BY <2>1, FollowsStays
<1>6. CASE ReadFrame
  <2> DEFINE f == Head(chan)
  <2>1. ReadGap(f) \/ InSequence(f)
    BY <1>6 DEF ReadFrame, ReadSubscribed, ReadReply, ReadUnwanted, ReadBook
  <2> HIDE DEF f
  <2>2. CASE ReadGap(f)  BY <2>2 DEF ReadGap, TearDown, Follows
  <2>3. CASE InSequence(f)
    <3>1. /\ UNCHANGED <<meta, rpc, call, conn, cmds, sub, link>> /\ pc = "recv" /\ pc' = "recv"
      BY <2>3, InSequenceMeans DEF CInv, LInv
    <3>2. overtaken' = overtaken
      BY <1>6 DEF ReadFrame, ReadGap, ReadSubscribed, ReadReply, ReadUnwanted, ReadBook, historyVars
    <3>3. QED  BY <3>1, <3>2, FollowsStays
  <2>4. QED  BY <2>1, <2>2, <2>3
<1>7. QED  BY <1>1, <1>2, <1>3, <1>4, <1>5, <1>6 DEF Reader

\* A resync that changes the set either reaches the subscription of its connection, or is
\* left to the next connect, or is one of the connect window's.
LEMMA FollowsResync ==
  ASSUME CInv, NEW desired \in SUBSET Ticker, Resync(desired)
  PROVE  Follows'
<1> DEFINE added   == desired \ meta
           dropped == meta \ desired
<1>1. /\ rpc = "idle" /\ meta' = desired
      /\ UNCHANGED <<pc, tickers, conn, cmds, sub, link>>
      /\ \/ added \cup dropped = {} /\ UNCHANGED <<rpc, call>>
         \/ (ws = NoSocket \/ ~sid) /\ UNCHANGED <<rpc, call>>
         \/ /\ ws # NoSocket /\ sid /\ rpc' = "send" /\ call'.ws = ws
            /\ call'.added = added /\ call'.dropped = dropped
  BY DEF Resync, readerVars, venueVars
<1>2. overtaken' = IF ConnectWindow THEN overtaken \cup added \cup dropped ELSE overtaken
  BY DEF Resync
<1>3. ASSUME NEW S, ConnectWindow, Near(S, meta, overtaken)
      PROVE  Near(S, meta', overtaken')
  BY <1>1, <1>2, <1>3 DEF Near, SymDiff
<1>4. ASSUME NEW S, Near(S, meta, overtaken)
      PROVE  Near((S \ dropped) \cup added, desired, overtaken)
  BY <1>4 DEF Near, SymDiff
<1>5. (pc' = "connecting" => Near(tickers', meta', overtaken')) /\ (pc' = "recv" => conn' # NoSocket)
  BY <1>1, <1>3 DEF ConnectWindow, CInv, Follows
<1>6. SUFFICES ASSUME link = "up"
               PROVE  IF rpc' # "idle" /\ call'.ws = conn
                      THEN rpc' # "close" => Near((sub \ call'.dropped) \cup call'.added, meta', overtaken')
                      ELSE IF cmds = <<>> THEN Near(sub, meta', overtaken')
                           ELSE Head(cmds).op = "subscribe" /\ Near(Head(cmds).tickers, meta', overtaken')
  BY <1>1, <1>5 DEF Follows
<1>7. pc = "recv" /\ ws = conn /\ conn # NoSocket
  BY <1>6 DEF CInv, LInv, IInv, Links, Follows
<1>8. CASE ~sid
  <2>1. ConnectWindow  BY <1>7, <1>8 DEF ConnectWindow
  <2>2. UNCHANGED <<rpc, call>>  BY <1>1, <1>8
  <2>3. IF cmds = <<>> THEN Near(sub, meta, overtaken)
        ELSE Head(cmds).op = "subscribe" /\ Near(Head(cmds).tickers, meta, overtaken)
    BY <1>1, <1>6 DEF CInv, Follows
  <2>4. IF cmds = <<>> THEN Near(sub, meta', overtaken')
        ELSE Head(cmds).op = "subscribe" /\ Near(Head(cmds).tickers, meta', overtaken')
    BY <2>1, <2>3, <1>3
  <2>5. QED  BY <1>1, <2>2, <2>4
<1>9. CASE sid
  <2>1. cmds = <<>> /\ Near(sub, meta, overtaken)
    BY <1>1, <1>6, <1>9, NothingOut DEF CInv, LInv, Follows
  <2>2. ~ConnectWindow  BY <1>7, <1>9 DEF ConnectWindow
  <2>3. overtaken' = overtaken  BY <1>2, <2>2
  <2>4. CASE added \cup dropped = {} /\ UNCHANGED <<rpc, call>>
    <3>1. meta' = meta  BY <1>1, <2>4
    <3>2. QED  BY <1>1, <2>1, <2>3, <2>4, <3>1
  <2>5. CASE /\ rpc' = "send" /\ call'.ws = ws /\ call'.added = added /\ call'.dropped = dropped
    <3>1. Near((sub \ dropped) \cup added, desired, overtaken)  BY <2>1, <1>4
    <3> HIDE DEF added, dropped
    <3>2. QED  BY <1>1, <1>7, <2>3, <2>5, <3>1
  <2>6. QED  BY <1>1, <1>7, <1>9, <2>4, <2>5
<1>10. QED  BY <1>8, <1>9

LEMMA FollowsRefresher ==
  ASSUME CInv, "bare_noop" \notin Answers, Refresher PROVE Follows'
<1>0. overtaken' = overtaken
  BY DEF Refresher, MutateSend, MutateAnswered, MutateTimeout, CloseSocket, historyVars
<1>1. CASE MutateSend
  <2>1. /\ UNCHANGED <<meta, pc, tickers, conn, sub, link>> /\ rpc = "send" /\ rpc' \in {"wait", "close"}
        /\ call'.ws = call.ws /\ call'.added = call.added /\ call'.dropped = call.dropped
        /\ rpc' = "wait" \/ cmds' = cmds
        /\ rpc' = "wait" => call.ws = conn
    BY <1>1 DEF MutateSend, readerVars, CInv, LInv, IInv, Types
  <2>2. QED  BY <1>0, <2>1 DEF CInv, Follows
<1>2. CASE MutateAnswered
  <2>1. /\ UNCHANGED <<meta, pc, tickers, conn, sub, link, cmds>> /\ rpc = "wait"
        /\ call'.ws = call.ws /\ call'.added = call.added /\ call'.dropped = call.dropped
        /\ \/ rpc' \in {"send", "close"}
           \/ rpc' = "idle" /\ applied' = "live" /\ fut.state = "done"
    BY <1>2 DEF MutateAnswered, Verified, readerVars, venueVars, CInv, LInv, IInv, Types
  <2>2. CASE rpc' \in {"send", "close"}  BY <1>0, <2>1, <2>2 DEF CInv, Follows
  <2>3. CASE rpc' = "idle" /\ call.ws # conn  BY <1>0, <2>1, <2>3 DEF CInv, Follows
  <2>4. CASE rpc' = "idle" /\ call.ws = conn
    <3> SUFFICES ASSUME link = "up" PROVE cmds = <<>> /\ Near(sub, meta, overtaken)
      BY <1>0, <2>1, <2>4 DEF Follows, CInv
    <3>1. LInv'
      <4>1. [Next]_vars  BY <1>2 DEF Next, Refresher
      <4>2. QED  BY <4>1, LiveStep DEF CInv
    <3>2. call'.todo = <<>> /\ Here' /\ Busy'
      BY <2>1, <2>4, <3>1 DEF LInv, IInv, Todo, Here, Busy
    <3>3. \A op \in Op : Did(op)'  BY <3>1, <3>2, RangeOfNone DEF LInv, DoneSoFar
    <3>4. call.dropped \cap sub = {} /\ call.added \subseteq sub
      BY <2>1, <3>3 DEF Op, Did
    <3>5. Near((sub \ call.dropped) \cup call.added, meta, overtaken)
      BY <2>1, <2>4 DEF CInv, Follows
    <3>6. sid  BY <2>1, <2>4 DEF CInv, LInv, IInv, Wired, Subscribed, Busy
    <3>7. cmds = <<>>  BY <2>1, <2>4, <3>6, NothingOut DEF CInv, LInv
    <3>8. (sub \ call.dropped) \cup call.added = sub  BY <3>4
    <3>9. QED  BY <3>5, <3>7, <3>8
  <2>5. QED  BY <2>1, <2>2, <2>3, <2>4
<1>3. CASE MutateTimeout
  <2>1. UNCHANGED <<meta, pc, tickers, conn, sub, link, cmds, call>> /\ rpc = "wait" /\ rpc' = "close"
    BY <1>3 DEF MutateTimeout, readerVars, venueVars
  <2>2. QED  BY <1>0, <2>1 DEF CInv, Follows
<1>4. CASE CloseSocket
  <2>1. /\ UNCHANGED <<meta, pc, tickers, conn, sub, cmds, call>> /\ rpc = "close" /\ rpc' = "idle"
        /\ link' = "up" => link = "up" /\ call.ws # conn
    BY <1>4 DEF CloseSocket, LinkAfterClose, feedVars, readerVars, venueVars
  <2>2. QED  BY <1>0, <2>1 DEF CInv, Follows
<1>5. QED  BY <1>1, <1>2, <1>3, <1>4 DEF Refresher

LEMMA FollowsVenue == ASSUME CInv, VenueAnswers PROVE Follows'
<1>0. overtaken' = overtaken  BY DEF VenueAnswers, VenueSubscribe, VenueMutate, historyVars
<1>1. CASE VenueSubscribe
  <2>1. /\ link = "up" /\ cmds # <<>> /\ Head(cmds).op = "subscribe"
        /\ sub' = Head(cmds).tickers /\ cmds' = Tail(cmds)
        /\ UNCHANGED <<meta, pc, tickers, rpc, call, conn, link>>
    BY <1>1 DEF VenueSubscribe, feedVars, readerVars, callVars
  <2>2. SubscribeOut /\ cmds' = <<>>  BY <2>1, OneCommand DEF CInv, LInv
  <2>3. rpc # "idle" /\ call.ws = conn => rpc = "close"
    BY <2>1, <2>2 DEF SubscribeOut, CInv, LInv, IInv, Types, Wired, Subscribed, Busy
  <2>4. QED  BY <1>0, <2>1, <2>2, <2>3 DEF CInv, Follows
<1>2. ASSUME NEW answer \in Answers, VenueMutate(answer) PROVE Follows'
  <2> DEFINE c == Head(cmds)
  <2>1. PICK frame \in Frame, new \in SUBSET Ticker, seq \in Nat : Mutated(answer, frame, new, seq)
    BY <1>2, VenueMutateMeans DEF CInv, LInv
  <2>2. /\ MutationOut(c) /\ sub' \in {sub, After(c)} /\ link = "up"
        /\ UNCHANGED <<meta, pc, tickers, rpc, call, conn, link>>
    BY <1>2, <2>1 DEF Mutated, VenueMutate, feedVars, readerVars, callVars
  <2>3. /\ rpc \in {"wait", "close"} /\ call.ws = conn
        /\ c.op = Head(call.todo) /\ c.tickers = Operand(Head(call.todo))
    BY <2>2 DEF MutationOut
  <2>4. call.added \cap call.dropped = {}  BY DEF CInv, LInv, IInv, Todo
  <2>5. (sub' \ call.dropped) \cup call.added = (sub \ call.dropped) \cup call.added
    BY <2>2, <2>3, <2>4 DEF After, Operand
  <2>6. QED  BY <1>0, <2>2, <2>3, <2>5 DEF CInv, Follows
<1>3. QED  BY <1>1, <1>2 DEF VenueAnswers

LEMMA FollowsEnvironment ==
  ASSUME CInv, Environment PROVE Follows'
<1>1. CASE ConnectFails
  <2>1. UNCHANGED <<meta, rpc, call, conn, cmds, sub, link, overtaken>> /\ pc' = "backoff"
    BY <1>1 DEF ConnectFails, feedVars, callVars, venueVars, historyVars
  <2>2. QED  BY <2>1, FollowsStays
<1>2. CASE StreamCrash  BY <1>2 DEF StreamCrash, Follows
<1>3. CASE \/ \E t \in Traded, d \in {-1, 1} : VenueTrade(t, d)
           \/ \E i \in 1..Len(chan) : FrameLost(i)
           \/ \E how \in {"closed", "stalled"} : LinkFails(how)
  <2>1. /\ UNCHANGED <<meta, rpc, call, conn, cmds, sub, pc, tickers, overtaken>>
        /\ link' = "up" => link = "up"
    BY <1>3 DEF VenueTrade, FrameLost, LinkFails, feedVars, readerVars, callVars, venueVars,
                historyVars
  <2>2. QED  BY <2>1, FollowsStays DEF CInv, Follows
<1>4. QED  BY <1>1, <1>2, <1>3, FollowsResync DEF Environment

LEMMA FollowsStep ==
  ASSUME CInv, "bare_noop" \notin Answers, [Next]_vars PROVE CInv'
<1>1. LInv'  BY LiveStep DEF CInv
<1>2. ASSUME UNCHANGED vars PROVE Follows'
  <2>1. UNCHANGED <<meta, rpc, call, conn, cmds, sub, pc, tickers, link, overtaken>>
    BY <1>2 DEF vars, feedVars, readerVars, callVars, venueVars, historyVars
  <2>2. QED  BY <2>1, FollowsStays DEF CInv, Follows
<1>3. Follows'
  BY <1>2, FollowsReader, FollowsRefresher, FollowsVenue, FollowsEnvironment DEF Next
<1>4. QED  BY <1>1, <1>3 DEF CInv

\* Once nothing is in flight the venue streams the wanted set, however refreshes, replies,
\* timeouts, reconnects and restarts followed each other (kalshi.py, resync and
\* stream_books), but for the tickers a refresh added or dropped between this connect's
\* reading of the list and its subscription being known.  It needs that a bare ok, which
\* the code takes for proof, is not sent for a change that was not made.
THEOREM KalshiCoveredWhenQuiet == "bare_noop" \notin Answers => (Spec => []CoveredWhenQuiet)
<1> SUFFICES ASSUME "bare_noop" \notin Answers PROVE Spec => []CoveredWhenQuiet
  OBVIOUS
<1>1. Init => CInv  BY LiveInit DEF Init, CInv, Follows
<1>2. CInv /\ [Next]_vars => CInv'  BY FollowsStep
<1>3. CInv => CoveredWhenQuiet  BY DEF CInv, Follows, Near, Quiet, CoveredWhenQuiet
<1>4. QED  BY <1>1, <1>2, <1>3, PTL DEF Spec

-----------------------------------------------------------------------------
(* Books are faithful                                                      *)

\* What the frames of a connection tell: after the frame numbered s, told[s] is the
\* venue's book of every ticker, as far as it was sent, and shot[s] the ticker the frame is
\* a snapshot of, if it is one.
Telling == [Nat -> [Ticker -> 0..MaxSize]]
Shots   == [Nat -> SUBSET Ticker]

Reports(f, told, shot) ==
  /\ f.seq # NoSeq
  /\ shot[f.seq] = IF f.kind = "snapshot" THEN {f.ticker} ELSE {}
  /\ \A t \in Ticker : ~(IsBook(f) /\ t = f.ticker) => told[f.seq][t] = told[f.seq - 1][t]
  /\ IsBook(f) =>
       /\ f.ticker \in Ticker /\ f.truth \in Nat /\ told[f.seq][f.ticker] = f.truth
       /\ f.val = IF f.kind = "snapshot" THEN f.truth ELSE f.truth - told[f.seq - 1][f.ticker]

Tells(f, told, shot) == f.seq <= vseq /\ Reports(f, told, shot)

\* A ladder the reader relies on, beside what has been told.  Where there is none, a
\* snapshot comes before any delta.
Sound(t, told, shot) ==
  IF t \in DOMAIN Kept THEN books[t] = told[lastSeq][t]
  ELSE /\ t \in sub => \E s \in (lastSeq + 1)..vseq : t \in shot[s]
       /\ \A f \in Range(chan) : f.kind = "delta" /\ f.ticker = t =>
            \E s \in (lastSeq + 1)..(f.seq - 1) : t \in shot[s]

\* A ladder never holds more than has been told, the ladders begun from nothing included.
Faithful(told, shot) ==
  /\ \A f \in Range(chan) : IsBook(f) \/ f.seq # NoSeq => Tells(f, told, shot)
  /\ link = "up" => \A t \in sub : told[vseq][t] = size[t]
  /\ \A t \in DOMAIN books : books[t] <= told[lastSeq][t]
  /\ ~LosesFirst => \A t \in meta \ readded : Sound(t, told, shot)

\* The first numbered frame of a connection that sent n is its first.
Opens(s, n) ==
  \/ n = 0 /\ \A f \in Range(s) : f.seq = NoSeq
  \/ \E i \in 1..Len(s) : s[i].seq = 1 /\ \A j \in 1..(i - 1) : s[j].seq = NoSeq

Reading ==
  pc = "recv" =>
    /\ lastSeq <= vseq
    /\ lastSeq = NoSeq => DOMAIN books = {} /\ (~LosesFirst => Opens(chan, vseq))
    /\ \E told \in Telling, shot \in Shots : Faithful(told, shot)

Sized == DOMAIN books \subseteq Ticker /\ \A t \in DOMAIN books : books[t] \in 0..MaxSize

Books == readded \subseteq Ticker /\ Sized /\ Reading /\ (~LosesFirst => BookFaithful)

BInv == IInv /\ Books

LEMMA RangeFrames == ASSUME NEW S, NEW s \in Seq(S) PROVE \A f \in Range(s) : f \in S
<1>1. DOMAIN s = 1..Len(s) /\ \A i \in 1..Len(s) : s[i] \in S  BY LenProperties, ElementOfSeq
<1>2. QED  BY <1>1 DEF Range

LEMMA OpensConcat ==
  ASSUME NEW s \in Seq(Frame), NEW t \in Seq(Frame), NEW n \in Nat, NEW m \in Nat,
         Opens(s, n), n = 0 => Opens(t, m), n <= m
  PROVE  Opens(s \o t, m)
<1> DEFINE k == Len(s) l == Len(t) u == s \o t
<1>1. /\ k \in Nat /\ l \in Nat /\ Len(u) = k + l
      /\ \A i \in 1..(k + l) : u[i] = IF i <= k THEN s[i] ELSE t[i - k]
  BY LenProperties, ConcatProperties
<1>2. Range(u) = Range(s) \cup Range(t)  BY RangeOfConcat
<1>3. \A i \in 1..k : s[i] \in Range(s)  BY LenProperties DEF Range
<1> HIDE DEF u
<1>4. ASSUME NEW i \in 1..k, s[i].seq = 1, \A j \in 1..(i - 1) : s[j].seq = NoSeq
      PROVE  Opens(u, m)
  <2>1. i \in 1..(k + l) /\ u[i] = s[i]  BY <1>1
  <2>2. \A j \in 1..(i - 1) : u[j] = s[j]  BY <1>1
  <2>3. QED  BY <1>1, <1>4, <2>1, <2>2 DEF Opens
<1>5. ASSUME n = 0, \A f \in Range(s) : f.seq = NoSeq
      PROVE  Opens(u, m)
  <2>1. CASE m = 0 /\ \A f \in Range(t) : f.seq = NoSeq  BY <1>2, <1>5, <2>1 DEF Opens
  <2>2. ASSUME NEW i \in 1..l, t[i].seq = 1, \A j \in 1..(i - 1) : t[j].seq = NoSeq
        PROVE  Opens(u, m)
    <3>1. k + i \in 1..(k + l) /\ u[k + i].seq = 1  BY <1>1, <2>2
    <3>2. \A j \in 1..(k + i - 1) : u[j].seq = NoSeq
      <4> TAKE j \in 1..(k + i - 1)
      <4>1. CASE j <= k  BY <1>1, <1>3, <1>5, <4>1
      <4>2. CASE j > k
        <5>1. j - k \in 1..(i - 1) /\ u[j] = t[j - k]  BY <1>1, <4>2
        <5>2. QED  BY <2>2, <5>1
      <4>3. QED  BY <1>1, <4>1, <4>2
    <3>3. QED  BY <1>1, <3>1, <3>2 DEF Opens
  <2>3. QED  BY <1>5, <2>1, <2>2 DEF Opens
<1>6. QED  BY <1>4, <1>5 DEF Opens, u

LEMMA OpensTail ==
  ASSUME NEW s \in Seq(Frame), s # <<>>, NEW n \in Nat, Opens(s, n)
  PROVE  /\ Head(s).seq \in {NoSeq, 1}
         /\ Head(s).seq = NoSeq => Opens(Tail(s), n)
<1> DEFINE k == Len(s) t == Tail(s)
<1>1. /\ k \in Nat \ {0} /\ Len(t) = k - 1 /\ Head(s) = s[1]
      /\ \A i \in 1..(k - 1) : t[i] = s[i + 1]
  BY EmptySeq, LenProperties, HeadTailProperties
<1>2. Range(t) \subseteq Range(s) /\ Head(s) \in Range(s)  BY RangeOfTail
<1> HIDE DEF t, k
<1>3. CASE n = 0 /\ \A f \in Range(s) : f.seq = NoSeq  BY <1>2, <1>3 DEF Opens, t
<1>4. ASSUME NEW i \in 1..k, s[i].seq = 1, \A j \in 1..(i - 1) : s[j].seq = NoSeq
      PROVE  /\ s[1].seq \in {NoSeq, 1}
             /\ s[1].seq = NoSeq => Opens(t, n)
  <2>1. CASE i = 1  BY <1>4, <2>1 DEF NoSeq
  <2>2. CASE i # 1
    <3>1. i - 1 \in 1..(k - 1) /\ t[i - 1] = s[i]  BY <1>1, <2>2
    <3>2. \A j \in 1..(i - 1 - 1) : t[j] = s[j + 1] /\ j + 1 \in 1..(i - 1)  BY <1>1, <2>2
    <3>3. 1 \in 1..(i - 1)  BY <1>1, <2>2
    <3>4. \A j \in 1..(i - 1 - 1) : t[j].seq = NoSeq  BY <1>4, <3>2
    <3>5. t[i - 1].seq = 1 /\ i - 1 \in 1..Len(t)  BY <1>1, <1>4, <3>1
    <3>6. Opens(t, n)  BY <3>4, <3>5 DEF Opens
    <3>7. QED  BY <1>4, <3>3, <3>6
  <2>3. QED  BY <2>1, <2>2
<1>5. QED  BY <1>1, <1>3, <1>4, <1>2 DEF Opens, t, k

LEMMA OpensRemove ==
  ASSUME NEW s \in Seq(Frame), NEW n \in Nat, Opens(s, n),
         NEW i \in 1..Len(s), s[i].seq \notin {NoSeq, 1}
  PROVE  Opens(RemoveAt(s, i), n)
<1> DEFINE l == Len(s) a == SubSeq(s, 1, i - 1) b == SubSeq(s, i + 1, l)
<1>1. l \in Nat /\ i \in Nat /\ i <= l /\ \A j \in 1..l : s[j] \in Frame /\ s[j] \in Range(s)
  <2>1. l \in Nat /\ DOMAIN s = 1..l /\ \A j \in 1..l : s[j] \in Frame
    BY LenProperties, ElementOfSeq
  <2>2. QED  BY <2>1 DEF Range
<1>2. PICK k \in 1..l : s[k].seq = 1 /\ \A j \in 1..(k - 1) : s[j].seq = NoSeq
  BY <1>1 DEF Opens
<1>3. k < i  BY <1>1, <1>2
<1>4. a \in Seq(Frame) /\ Len(a) = i - 1 /\ \A j \in 1..(i - 1) : a[j] = s[j]
  <2>1. \A j \in 1..(i - 1) : s[j] \in Frame  BY <1>1
  <2>2. i - 1 \in Int /\ 1 <= i - 1  BY <1>1, <1>3
  <2> HIDE DEF l
  <2>3. /\ a \in Seq(Frame) /\ Len(a) = i - 1 - 1 + 1
        /\ \A j \in 1..(i - 1 - 1 + 1) : a[j] = s[1 + j - 1]
    BY <2>1, <2>2, SubSeqProperties
  <2> HIDE DEF a
  <2>4. QED  BY <1>1, <2>3
<1>5. b \in Seq(Frame)
  <2>1. \A j \in (i + 1)..l : s[j] \in Frame  BY <1>1
  <2>2. i + 1 \in Int /\ l \in Int  BY <1>1
  <2>3. QED  BY <2>1, <2>2, SubSeqProperties
<1> HIDE DEF a, b
<1>6. Opens(a, n)
  <2>1. k \in 1..Len(a) /\ a[k] = s[k] /\ \A j \in 1..(k - 1) : a[j] = s[j]
    BY <1>1, <1>2, <1>3, <1>4
  <2>2. QED  BY <1>2, <2>1 DEF Opens
<1>7. \E m \in 1..Len(a) : a[m].seq = 1 /\ \A j \in 1..(m - 1) : a[j].seq = NoSeq
  <2>1. k \in 1..Len(a) /\ a[k] = s[k] /\ \A j \in 1..(k - 1) : a[j] = s[j]
    BY <1>1, <1>2, <1>3, <1>4
  <2>2. QED  BY <1>2, <2>1
<1>8. Opens(a, 1)  BY <1>7 DEF Opens
<1>9. Opens(a \o b, 1)  BY <1>4, <1>5, <1>8, OpensConcat
<1>10. RemoveAt(s, i) = a \o b  BY DEF RemoveAt, a, b
<1>11. \E m \in 1..Len(a \o b) : (a \o b)[m].seq = 1 /\ \A j \in 1..(m - 1) : (a \o b)[j].seq = NoSeq
  BY <1>9 DEF Opens
<1>12. QED  BY <1>10, <1>11 DEF Opens

LEMMA OpensOne ==
  ASSUME NEW f \in Frame, NEW n \in Nat, f.seq = 1 \/ (f.seq = NoSeq /\ n = 0)
  PROVE  Opens(<<f>>, n)
<1> DEFINE s == <<f>>
<1>1. Len(s) = 1 /\ s[1] = f /\ Range(s) = {f}  BY RangeOfOne
<1> HIDE DEF s
<1>2. 1..(1 - 1) = {}  OBVIOUS
<1>3. QED  BY <1>1, <1>2 DEF Opens, s

-----------------------------------------------------------------------------
\* Steps that bring nothing and leave the reader and its ladders alone.
LEMMA LessStep ==
  ASSUME BInv, chan' \in Seq(Frame), Range(chan') \subseteq Range(chan), link' = "up" => link = "up",
         pc' = "recv" /\ ~LosesFirst => (Opens(chan, vseq) => Opens(chan', vseq)),
         UNCHANGED <<pc, books, pruned, lastSeq, meta, readded, sub, vseq, size, yielded>>
  PROVE  Books'
<1>1. Reading'
  <2> SUFFICES ASSUME pc = "recv"
               PROVE  /\ lastSeq <= vseq
                      /\ lastSeq = NoSeq => DOMAIN books = {} /\ (~LosesFirst => Opens(chan', vseq))
                      /\ \E told \in Telling, shot \in Shots : Faithful(told, shot)'
    BY DEF Reading
  <2>1. PICK told \in Telling, shot \in Shots : Faithful(told, shot)  BY DEF BInv, Books, Reading
  <2>2. Kept' = Kept  BY DEF Kept
  <2>3. \A f \in Range(chan) : Tells(f, told, shot) => Tells(f, told, shot)'
    BY DEF Tells
  <2>4. \A t : Sound(t, told, shot) => Sound(t, told, shot)'  BY <2>2 DEF Sound
  <2>5. Faithful(told, shot)'  BY <2>1, <2>3, <2>4 DEF Faithful
  <2>6. QED  BY <2>5 DEF BInv, Books, Reading
<1>2. QED  BY <1>1 DEF BInv, Books, Sized, BookFaithful

\* Steps after which no connection is read.
LEMMA AwayStep ==
  ASSUME BInv, pc' # "recv", books' \in {books, <<>>}, UNCHANGED <<readded, yielded>>
  PROVE  Books'
<1>1. Sized'
  <2>1. CASE books' = books  BY <2>1 DEF BInv, Books, Sized
  <2>2. CASE books' = <<>>  BY <2>2 DEF Sized
  <2>3. QED  BY <2>1, <2>2
<1>2. QED  BY <1>1 DEF BInv, Books, Reading, BookFaithful

\* A connection begins with nothing told.
LEMMA BooksConnected ==
  ASSUME BInv, Connected PROVE Books'
<1>1. /\ pc = "connecting" /\ link' = "up" /\ chan' = <<>> /\ sub' = {} /\ vseq' = 0 /\ readded' = {}
      /\ UNCHANGED <<meta, pruned, books, lastSeq, size, yielded>>
  BY DEF Connected
<1>2. lastSeq = NoSeq /\ DOMAIN books = {}  BY <1>1 DEF BInv, IInv, Numbered, Forgotten
<1>3. Range(chan') = {}  BY <1>1, RangeOfNone
<1> DEFINE told == [s \in Nat |-> [t \in Ticker |-> 0]]
           shot == [s \in Nat |-> {}]
<1>4. told \in Telling /\ shot \in Shots  BY KalshiAssumption DEF Telling, Shots
<1> HIDE DEF told, shot
<1>5. DOMAIN Kept' = {}  BY <1>1, <1>2 DEF Kept
<1>6. Faithful(told, shot)'  BY <1>1, <1>2, <1>3, <1>5 DEF Faithful, Sound
<1>7. Reading'  BY <1>1, <1>2, <1>3, <1>4, <1>6 DEF Reading, Opens, NoSeq
<1>8. QED  BY <1>1, <1>7 DEF BInv, Books, Sized, BookFaithful

\* A refresh: a ticker it adds is readded, or nothing of it is on its way.
LEMMA BooksResync ==
  ASSUME BInv, NEW desired \in SUBSET Ticker, Resync(desired)
  PROVE  Books'
<1>1. /\ meta' = desired /\ pruned' = pruned \cup (meta \ desired)
      /\ readded' = readded \cup ((desired \ meta) \cap Streaming)
      /\ UNCHANGED <<pc, books, lastSeq, link, chan, sub, vseq, size, yielded>>
  BY DEF Resync, readerVars, venueVars
<1>2. (readded \subseteq Ticker)' /\ Sized' /\ (~LosesFirst => BookFaithful')
  BY <1>1 DEF BInv, Books, Sized, BookFaithful
<1>3. Reading'
  <2> SUFFICES ASSUME pc = "recv"
               PROVE  /\ lastSeq <= vseq
                      /\ lastSeq = NoSeq => DOMAIN books = {} /\ (~LosesFirst => Opens(chan, vseq))
                      /\ \E told \in Telling, shot \in Shots : Faithful(told, shot)'
    BY <1>1 DEF Reading
  <2>1. PICK told \in Telling, shot \in Shots : Faithful(told, shot)  BY DEF BInv, Books, Reading
  <2>2. DOMAIN Kept \subseteq meta  BY KeptBooks DEF BInv, IInv
  <2>3. \A f \in Range(chan) : Tells(f, told, shot) => Tells(f, told, shot)'
    BY <1>1 DEF Tells
  <2>4. ASSUME ~LosesFirst, NEW t \in meta' \ readded' PROVE Sound(t, told, shot)'
    <3>1. t \notin readded  BY <1>1
    <3>2. CASE t \in meta
      <4>1. t \in DOMAIN Kept' <=> t \in DOMAIN Kept  BY <1>1, <3>2 DEF Kept
      <4>2. Sound(t, told, shot)  BY <2>1, <2>4, <3>1, <3>2 DEF Faithful
      <4>3. QED  BY <1>1, <4>1, <4>2 DEF Sound
    <3>3. CASE t \notin meta
      <4>1. t \notin DOMAIN Kept'  BY <1>1, <2>2, <3>3 DEF Kept
      <4>2. t \notin Streaming  BY <1>1, <3>3
      <4>3. t \notin sub /\ \A f \in Range(chan) : ~(f.kind = "delta" /\ f.ticker = t)
        BY <4>2 DEF Streaming, IsBook
      <4>4. QED  BY <1>1, <4>1, <4>3 DEF Sound
    <3>4. QED  BY <3>2, <3>3
  <2>5. Faithful(told, shot)'  BY <1>1, <2>1, <2>3, <2>4 DEF Faithful
  <2>6. QED  BY <2>5 DEF BInv, Books, Reading
<1>4. QED  BY <1>2, <1>3 DEF Books

-----------------------------------------------------------------------------
\* A frame in sequence: an unnumbered one, or the one after the last.
LEMMA NextFrame ==
  ASSUME BInv, NEW f, InSequence(f), NEW told \in Telling, NEW shot \in Shots, Faithful(told, shot)
  PROVE  /\ f.seq \in Nat /\ lastSeq' \in Nat /\ lastSeq' <= vseq
         /\ lastSeq' = NoSeq /\ ~LosesFirst => Opens(chan', vseq)
         /\ f.seq = NoSeq => lastSeq' = lastSeq /\ ~IsBook(f)
         /\ f.seq # NoSeq =>
              /\ lastSeq' = f.seq /\ Tells(f, told, shot)
              /\ DOMAIN books # {} \/ ~LosesFirst => f.seq = lastSeq + 1
<1>1. /\ pc = "recv" /\ chan # <<>> /\ f = Head(chan) /\ ~IsGap(f) /\ lastSeq' = NextSeq(f)
      /\ chan' = Tail(chan)
  BY DEF InSequence, Receive
<1>2. /\ f \in Range(chan) /\ f \in Frame /\ lastSeq \in Nat /\ vseq \in Nat
      /\ chan \in Seq(Frame)
  BY <1>1, RangeOfTail DEF BInv, IInv, Types
<1>3. lastSeq <= vseq /\ (lastSeq = NoSeq => DOMAIN books = {} /\ (~LosesFirst => Opens(chan, vseq)))
  BY <1>1 DEF BInv, Books, Reading
<1>4. f.seq \in Nat  BY <1>2 DEF Frame
<1>5. IsBook(f) \/ f.seq # NoSeq => Tells(f, told, shot)  BY <1>2 DEF Faithful
<1>6. CASE f.seq = NoSeq
  <2>1. lastSeq' = lastSeq  BY <1>1, <1>6 DEF NextSeq
  <2>2. ~IsBook(f)  BY <1>5, <1>6 DEF Tells, Reports
  <2>3. lastSeq = NoSeq /\ ~LosesFirst => Opens(Tail(chan), vseq)  BY <1>1, <1>2, <1>3, <1>6, OpensTail
  <2>4. QED  BY <1>1, <1>2, <1>3, <1>4, <1>6, <2>1, <2>2, <2>3
<1>7. CASE f.seq # NoSeq
  <2>1. lastSeq' = f.seq /\ Tells(f, told, shot)  BY <1>1, <1>5, <1>7 DEF NextSeq
  <2>2. ASSUME DOMAIN books # {} \/ ~LosesFirst PROVE f.seq = lastSeq + 1
    <3>1. CASE lastSeq = NoSeq
      <4>1. f.seq \in {NoSeq, 1}  BY <1>1, <1>2, <1>3, <2>2, <3>1, OpensTail
      <4>2. QED  BY <1>7, <3>1, <4>1 DEF NoSeq
    <3>2. CASE lastSeq # NoSeq  BY <1>1, <1>7, <3>2 DEF IsGap
    <3>3. QED  BY <3>1, <3>2
  <2>3. f.seq <= vseq  BY <2>1 DEF Tells, Reports
  <2>4. QED  BY <1>2, <1>4, <1>7, <2>1, <2>2, <2>3 DEF NoSeq
<1>8. QED  BY <1>6, <1>7

\* A ladder that the frame is not about still holds no more than has been told.
LEMMA OthersWithin ==
  ASSUME BInv, NEW f, InSequence(f), NEW told \in Telling, NEW shot \in Shots, Faithful(told, shot),
         NEW t \in DOMAIN books, ~(IsBook(f) /\ t = f.ticker)
  PROVE  books[t] <= told[lastSeq'][t]
<1>1. t \in Ticker /\ books[t] <= told[lastSeq][t]  BY DEF Faithful, BInv, Books, Sized
<1>2. CASE f.seq = NoSeq  BY <1>1, <1>2, NextFrame
<1>3. CASE f.seq # NoSeq
  <2>1. lastSeq' = f.seq /\ Tells(f, told, shot) /\ f.seq - 1 = lastSeq
    <3>1. lastSeq \in Nat  BY DEF BInv, IInv, Types
    <3>2. QED  BY <1>3, <3>1, NextFrame
  <2>2. QED  BY <1>1, <2>1 DEF Tells, Reports
<1>4. QED  BY <1>2, <1>3

\* What a ladder that the frame is not about is worth, after it.
LEMMA OthersStay ==
  ASSUME BInv, NEW f, InSequence(f), NEW told \in Telling, NEW shot \in Shots, Faithful(told, shot),
         ~LosesFirst, NEW t \in meta \ readded, ~(IsBook(f) /\ t = f.ticker),
         t \in DOMAIN Kept' <=> t \in DOMAIN Kept,
         t \in DOMAIN Kept => books'[t] = books[t]
  PROVE  Sound(t, told, shot)'
<1>1. Sound(t, told, shot) /\ t \in Ticker  BY DEF Faithful, BInv, IInv, Types
<1>2. /\ f.seq = NoSeq => lastSeq' = lastSeq
      /\ f.seq # NoSeq => f.seq = lastSeq + 1 /\ lastSeq' = lastSeq + 1 /\ Tells(f, told, shot)
      /\ lastSeq \in Nat /\ lastSeq' \in Nat
  BY NextFrame DEF BInv, IInv, Types
<1>3. sub' = sub /\ vseq' = vseq /\ Range(chan') \subseteq Range(chan)
  BY InSequenceMeans DEF BInv
<1>4. told[lastSeq'][t] = told[lastSeq][t]
  <2>1. CASE f.seq = NoSeq  BY <1>2, <2>1
  <2>2. CASE f.seq # NoSeq  BY <1>1, <1>2, <2>2 DEF Tells, Reports
  <2>3. QED  BY <2>1, <2>2
<1>5. ASSUME NEW n \in Int, NEW s \in (lastSeq + 1)..n, t \in shot[s] PROVE s \in (lastSeq' + 1)..n
  <2>1. CASE f.seq = NoSeq  BY <1>2, <1>5, <2>1
  <2>2. CASE f.seq # NoSeq
    <3>1. t \notin shot[f.seq]
      <4>1. shot[f.seq] = IF f.kind = "snapshot" THEN {f.ticker} ELSE {}  BY <1>2, <2>2 DEF Tells, Reports
      <4>2. QED  BY <4>1 DEF IsBook
    <3>2. s # lastSeq + 1  BY <1>2, <1>5, <2>2, <3>1
    <3>3. lastSeq' = lastSeq + 1 /\ lastSeq \in Nat  BY <1>2, <2>2
    <3>4. s \in Int /\ lastSeq + 1 <= s /\ s <= n  BY <1>5, <3>3
    <3>5. QED  BY <1>5, <3>2, <3>3, <3>4
  <2>3. QED  BY <2>1, <2>2
<1>6. CASE t \in DOMAIN Kept  BY <1>1, <1>4, <1>6 DEF Sound
<1>7. CASE t \notin DOMAIN Kept
  <2>1. t \in sub => \E s \in (lastSeq' + 1)..vseq : t \in shot[s]
    BY <1>1, <1>5, <1>7 DEF Sound, BInv, IInv, Types
  <2>2. ASSUME NEW g \in Range(chan), g.kind = "delta", g.ticker = t
        PROVE  \E s \in (lastSeq' + 1)..(g.seq - 1) : t \in shot[s]
    <3>1. PICK s \in (lastSeq + 1)..(g.seq - 1) : t \in shot[s]  BY <1>1, <1>7, <2>2 DEF Sound
    <3>2. g.seq - 1 \in Int
      <4>1. g \in Frame  BY <2>2, RangeFrames DEF BInv, IInv, Types
      <4>2. QED  BY <4>1 DEF Frame
    <3>3. QED  BY <1>5, <3>1, <3>2
  <2>3. QED  BY <1>3, <1>7, <2>1, <2>2 DEF Sound
<1>8. QED  BY <1>6, <1>7

\* A frame about no ladder.
LEMMA BooksPassed ==
  ASSUME BInv, NEW f, ReadSubscribed(f) \/ ReadReply(f) \/ ReadUnwanted(f)
  PROVE  Books'
<1>1. /\ InSequence(f) /\ books' = Kept /\ UNCHANGED historyVars
      /\ IsBook(f) => f.ticker \notin meta
  BY DEF ReadSubscribed, ReadReply, ReadUnwanted, IsBook, historyVars
<1>2. /\ pc = "recv" /\ pc' = "recv" /\ pruned' = {} /\ Range(chan') \subseteq Range(chan)
      /\ UNCHANGED <<meta, sub, vseq, size, link>>
  BY <1>1, InSequenceMeans DEF BInv
<1>3. PICK told \in Telling, shot \in Shots : Faithful(told, shot)  BY <1>2 DEF BInv, Books, Reading
<1>4. \A t : (t \in DOMAIN Kept' <=> t \in DOMAIN Kept) /\ (t \in DOMAIN Kept => books'[t] = books[t])
  BY <1>1, <1>2 DEF Kept
<1>5. ~LosesFirst => \A t \in meta' \ readded' : Sound(t, told, shot)'
  BY <1>1, <1>2, <1>3, <1>4, OthersStay DEF historyVars
<1>6. \A g \in Range(chan) : Tells(g, told, shot) => Tells(g, told, shot)'  BY <1>2 DEF Tells
<1>7. \A t \in DOMAIN books' : t \in DOMAIN books /\ t \in meta /\ books'[t] = books[t]
  BY <1>1, <1>2, KeptBooks DEF BInv, IInv, Kept
<1>8. \A t \in DOMAIN books' : books'[t] <= told[lastSeq'][t]
  BY <1>1, <1>3, <1>7, OthersWithin
<1>9. Faithful(told, shot)'  BY <1>2, <1>3, <1>5, <1>6, <1>8 DEF Faithful
<1>10. lastSeq' <= vseq' /\ (lastSeq' = NoSeq /\ ~LosesFirst => Opens(chan', vseq'))
  BY <1>1, <1>2, <1>3, NextFrame
<1>11. lastSeq' = NoSeq => DOMAIN books' = {}
  <2>1. lastSeq' = NoSeq => lastSeq = NoSeq
    BY <1>1, <1>3, NextFrame
  <2>2. lastSeq = NoSeq => DOMAIN books = {}  BY <1>2 DEF BInv, Books, Reading
  <2>3. QED  BY <1>7, <2>1, <2>2
<1>12. Reading'  BY <1>3, <1>9, <1>10, <1>11 DEF Reading
<1>13. Sized'  BY <1>7 DEF BInv, Books, Sized
<1>14. QED  BY <1>1, <1>12, <1>13 DEF BInv, Books, BookFaithful, historyVars

\* A book: the ladder is what has been told, or its ticker is readded.
LEMMA BooksRead ==
  ASSUME BInv, NEW f, ReadBook(f)
  PROVE  Books'
<1>1. /\ InSequence(f) /\ IsBook(f) /\ f.ticker \in meta
      /\ books' = [t \in DOMAIN Kept \cup {f.ticker} |-> IF t = f.ticker THEN Level(f) ELSE Kept[t]]
      /\ readded' = IF f.kind = "snapshot" THEN readded \ {f.ticker} ELSE readded
      /\ yielded' = [faithful |-> Level(f) = f.truth, readded |-> f.ticker \in readded']
  BY DEF ReadBook
<1>2. /\ pc = "recv" /\ pc' = "recv" /\ pruned' = {} /\ Range(chan') \subseteq Range(chan)
      /\ UNCHANGED <<meta, sub, vseq, size, link>> /\ f \in Range(chan)
  BY <1>1, InSequenceMeans DEF BInv
<1>3. PICK told \in Telling, shot \in Shots : Faithful(told, shot)  BY <1>2 DEF BInv, Books, Reading
<1>4. /\ f.seq \in Nat /\ f.seq # NoSeq /\ lastSeq' = f.seq /\ Tells(f, told, shot) /\ lastSeq \in Nat
      /\ DOMAIN books # {} \/ ~LosesFirst => f.seq - 1 = lastSeq
      /\ lastSeq' <= vseq' /\ (lastSeq' = NoSeq /\ ~LosesFirst => Opens(chan', vseq'))
  BY <1>1, <1>2, <1>3, NextFrame DEF BInv, IInv, Types
<1>5. /\ f.ticker \in Ticker /\ f.truth \in Nat /\ told[f.seq][f.ticker] = f.truth
      /\ f.val = IF f.kind = "snapshot" THEN f.truth ELSE f.truth - told[f.seq - 1][f.ticker]
  BY <1>1, <1>4 DEF Tells, Reports
<1>6. told[f.seq - 1][f.ticker] \in 0..MaxSize /\ f.truth \in 0..MaxSize
  <2>1. f.seq - 1 \in Nat  BY <1>4 DEF NoSeq
  <2>2. QED  BY <1>3, <1>4, <1>5, <2>1 DEF Telling
<1> DEFINE old == IF f.ticker \in DOMAIN Kept THEN Kept[f.ticker] ELSE 0
<1>6a. old \in 0..told[f.seq - 1][f.ticker]
  <2>1. CASE f.ticker \in DOMAIN Kept
    <3>1. f.ticker \in DOMAIN books /\ Kept[f.ticker] = books[f.ticker]  BY <2>1 DEF Kept
    <3>2. f.seq - 1 = lastSeq /\ books[f.ticker] <= told[lastSeq][f.ticker] /\ books[f.ticker] \in 0..MaxSize
      BY <1>3, <1>4, <3>1 DEF Faithful, BInv, Books, Sized
    <3>3. QED  BY <1>6, <2>1, <3>1, <3>2
  <2>2. CASE f.ticker \notin DOMAIN Kept  BY <1>6, <2>2
  <2>3. QED  BY <2>1, <2>2
<1>6b. Level(f) \in 0..f.truth
  <2>1. CASE f.kind = "snapshot"  BY <1>5, <2>1 DEF Level
  <2>2. CASE f.kind # "snapshot"
    <3>1. Level(f) = IF old + f.val > 0 THEN old + f.val ELSE 0  BY <2>2 DEF Level
    <3>2. f.val = f.truth - told[f.seq - 1][f.ticker]  BY <1>5, <2>2
    <3> HIDE DEF old
    <3>3. QED  BY <1>5, <1>6, <1>6a, <3>1, <3>2
  <2>3. QED  BY <2>1, <2>2
<1>7. ASSUME ~LosesFirst, f.ticker \notin readded' PROVE Level(f) = f.truth
  <2>1. CASE f.kind = "snapshot"  BY <1>5, <2>1 DEF Level
  <2>2. CASE f.kind # "snapshot"
    <3>1. f.ticker \in meta \ readded /\ f.kind = "delta"  BY <1>1, <1>7, <2>2 DEF IsBook
    <3>2. Sound(f.ticker, told, shot) /\ f.seq - 1 = lastSeq  BY <1>3, <1>4, <1>7, <3>1 DEF Faithful
    <3>3. f.ticker \in DOMAIN Kept
      <4> SUFFICES ASSUME f.ticker \notin DOMAIN Kept PROVE FALSE
        OBVIOUS
      <4>1. PICK s \in (lastSeq + 1)..(f.seq - 1) : f.ticker \in shot[s]
        BY <1>2, <3>1, <3>2 DEF Sound
      <4>2. QED  BY <1>4, <3>2, <4>1
    <3>4. Kept[f.ticker] = told[lastSeq][f.ticker]
      <4>1. books[f.ticker] = told[lastSeq][f.ticker]  BY <3>2, <3>3 DEF Sound
      <4>2. Kept[f.ticker] = books[f.ticker]  BY <3>3 DEF Kept
      <4>3. QED  BY <4>1, <4>2
    <3>5. Kept[f.ticker] + f.val = f.truth  BY <1>5, <1>6, <2>2, <3>2, <3>4
    <3>6. Level(f) = IF Kept[f.ticker] + f.val > 0 THEN Kept[f.ticker] + f.val ELSE 0
      BY <2>2, <3>3 DEF Level
    <3>7. QED  BY <1>5, <3>5, <3>6
  <2>3. QED  BY <2>1, <2>2
<1>8. DOMAIN Kept' = DOMAIN Kept \cup {f.ticker}  BY <1>1, <1>2 DEF Kept
<1>9. ASSUME ~LosesFirst, NEW t \in meta' \ readded' PROVE Sound(t, told, shot)'
  <2>1. CASE t = f.ticker
    <3>1. books'[t] = Level(f)  BY <1>1, <2>1
    <3>2. told[lastSeq'][t] = f.truth  BY <1>4, <1>5, <2>1
    <3>3. QED  BY <1>7, <1>8, <1>9, <2>1, <3>1, <3>2 DEF Sound
  <2>2. CASE t # f.ticker
    <3>1. t \in meta \ readded  BY <1>1, <1>2, <1>9, <2>2
    <3>2. t \in DOMAIN Kept' <=> t \in DOMAIN Kept  BY <1>8, <2>2
    <3>3. t \in DOMAIN Kept => books'[t] = books[t]
      <4>1. t \in DOMAIN Kept => books'[t] = Kept[t]  BY <1>1, <2>2
      <4>2. QED  BY <4>1 DEF Kept
    <3>4. QED  BY <1>1, <1>3, <1>9, <2>2, <3>1, <3>2, <3>3, OthersStay
  <2>3. QED  BY <2>1, <2>2
<1>10. \A g \in Range(chan) : Tells(g, told, shot) => Tells(g, told, shot)'  BY <1>2 DEF Tells, Reports
<1>10a. ASSUME NEW t \in DOMAIN books'
        PROVE  t \in Ticker /\ books'[t] \in 0..MaxSize /\ books'[t] <= told[lastSeq'][t]
  <2>1. CASE t = f.ticker
    <3>1. books'[t] = Level(f) /\ told[lastSeq'][t] = f.truth  BY <1>1, <1>4, <1>5, <2>1
    <3>2. QED  BY <1>5, <1>6, <1>6b, <2>1, <3>1, KalshiAssumption
  <2>2. CASE t # f.ticker
    <3>1. t \in DOMAIN Kept /\ books'[t] = Kept[t]  BY <1>1, <1>10a, <2>2
    <3>2. t \in DOMAIN books /\ books'[t] = books[t]  BY <3>1 DEF Kept
    <3>3. books[t] <= told[lastSeq'][t]  BY <1>1, <1>3, <2>2, <3>2, OthersWithin
    <3>4. QED  BY <3>2, <3>3 DEF BInv, Books, Sized
  <2>3. QED  BY <2>1, <2>2
<1>11. Faithful(told, shot)'  BY <1>2, <1>3, <1>9, <1>10, <1>10a DEF Faithful
<1>12. Reading'  BY <1>3, <1>4, <1>11 DEF Reading
<1>13. (readded \subseteq Ticker)' /\ Sized'  BY <1>1, <1>10a DEF BInv, Books, Sized
<1>14. ~LosesFirst => BookFaithful'  BY <1>1, <1>7 DEF BookFaithful
<1>15. QED  BY <1>12, <1>13, <1>14 DEF Books

-----------------------------------------------------------------------------
\* What the venue sends continues what has been told.
LEMMA GrowStep ==
  ASSUME BInv, pc = "recv", UNCHANGED <<pc, books, pruned, lastSeq, meta, readded, link>>,
         vseq' \in Nat, vseq <= vseq',
         NEW told \in Telling, NEW shot \in Shots, Faithful(told, shot),
         NEW more \in Telling, NEW shots \in Shots,
         \A s \in 0..vseq : more[s] = told[s] /\ shots[s] = shot[s],
         NEW new, Range(chan') = Range(chan) \cup new,
         \A f \in new : IsBook(f) \/ f.seq # NoSeq => f.seq <= vseq' /\ Reports(f, more, shots),
         \A f \in new : f.kind = "delta" => f.ticker \in sub /\ f.seq = vseq + 1,
         \A t \in sub' \ sub : \E s \in (vseq + 1)..vseq' : t \in shots[s],
         link = "up" => \A t \in sub' : more[vseq'][t] = size'[t]
  PROVE  Faithful(more, shots)'
<1>1. vseq \in Nat /\ lastSeq \in Nat /\ chan \in Seq(Frame)  BY DEF BInv, IInv, Types
<1>2. Kept' = Kept  BY DEF Kept
<1>3. \A f \in Range(chan) : f.seq \in Nat
  <2>1. \A f \in Range(chan) : f \in Frame  BY <1>1, RangeFrames
  <2>2. QED  BY <2>1 DEF Frame
<1>4. ASSUME NEW f \in Range(chan), Tells(f, told, shot) PROVE Tells(f, more, shots)'
  <2>1. f.seq \in Nat /\ f.seq # NoSeq /\ f.seq <= vseq  BY <1>3, <1>4 DEF Tells, Reports
  <2>2. f.seq \in 0..vseq /\ f.seq - 1 \in 0..vseq /\ f.seq <= vseq'  BY <1>1, <2>1 DEF NoSeq
  <2>3. more[f.seq] = told[f.seq] /\ more[f.seq - 1] = told[f.seq - 1] /\ shots[f.seq] = shot[f.seq]
    BY <2>2
  <2>4. QED  BY <1>4, <2>2, <2>3 DEF Tells, Reports
<1>5. ASSUME NEW f \in Range(chan'), IsBook(f) \/ f.seq # NoSeq PROVE Tells(f, more, shots)'
  <2>1. CASE f \in Range(chan)  BY <1>4, <1>5, <2>1 DEF Faithful
  <2>2. CASE f \in new  BY <1>5, <2>2 DEF Tells
  <2>3. QED  BY <2>1, <2>2
<1>6. ASSUME ~LosesFirst, NEW t \in meta \ readded PROVE Sound(t, more, shots)'
  <2>1. Sound(t, told, shot) /\ lastSeq <= vseq  BY <1>6 DEF Faithful, BInv, Books, Reading
  <2>2. CASE t \in DOMAIN Kept
    <3>1. more[lastSeq] = told[lastSeq]
      <4>1. lastSeq \in 0..vseq  BY <1>1, <2>1
      <4>2. QED  BY <4>1
    <3>2. QED  BY <1>2, <2>1, <2>2, <3>1 DEF Sound
  <2>3. CASE t \notin DOMAIN Kept
    <3>1. ASSUME NEW n \in Int, NEW s \in (lastSeq + 1)..n, t \in shot[s], n <= vseq
          PROVE  s \in (lastSeq + 1)..n /\ t \in shots[s]
      <4>1. s \in 0..vseq  BY <1>1, <3>1
      <4>2. QED  BY <3>1, <4>1
    <3>2. ASSUME t \in sub PROVE \E s \in (lastSeq + 1)..vseq : t \in shots[s]
      <4>1. PICK s \in (lastSeq + 1)..vseq : t \in shot[s]  BY <2>1, <2>3, <3>2 DEF Sound
      <4>2. QED  BY <1>1, <3>1, <4>1
    <3>3. t \in sub' => \E s \in (lastSeq + 1)..vseq' : t \in shots[s]
      <4>1. \A s \in (lastSeq + 1)..vseq : s \in (lastSeq + 1)..vseq'  BY <1>1
      <4>2. \A s \in (vseq + 1)..vseq' : s \in (lastSeq + 1)..vseq'  BY <1>1, <2>1
      <4>3. QED  BY <3>2, <4>1, <4>2
    <3>4. ASSUME NEW f \in Range(chan'), f.kind = "delta", f.ticker = t
          PROVE  \E s \in (lastSeq + 1)..(f.seq - 1) : t \in shots[s]
      <4>1. CASE f \in Range(chan)
        <5>1. PICK s \in (lastSeq + 1)..(f.seq - 1) : t \in shot[s]
          BY <2>1, <2>3, <3>4, <4>1 DEF Sound
        <5>2. f.seq <= vseq /\ f.seq \in Nat  BY <1>3, <3>4, <4>1 DEF Faithful, Tells, IsBook
        <5>3. f.seq - 1 \in Int /\ f.seq - 1 <= vseq  BY <1>1, <5>2
        <5>4. QED  BY <3>1, <5>1, <5>3
      <4>2. CASE f \in new
        <5>1. t \in sub /\ f.seq - 1 = vseq  BY <1>1, <3>4, <4>2
        <5>2. QED  BY <3>2, <5>1
      <4>3. QED  BY <4>1, <4>2
    <3>5. QED  BY <1>2, <2>3, <3>3, <3>4 DEF Sound
  <2>4. QED  BY <2>2, <2>3
<1>7. \A t \in DOMAIN books : books[t] <= more[lastSeq][t]
  <2>1. lastSeq \in 0..vseq  BY <1>1 DEF BInv, Books, Reading
  <2>2. more[lastSeq] = told[lastSeq]  BY <2>1
  <2>3. QED  BY <2>2 DEF Faithful
<1>8. QED  BY <1>5, <1>6, <1>7 DEF Faithful

\* The snapshots of a subscription are of all its tickers, each of one: q lists the
\* tickers in their order.
Enumerates(q, ts, n) ==
  /\ q \in [1..Cardinality(ts) -> ts]
  /\ \A t \in ts : \E i \in 1..Cardinality(ts) : q[i] = t
  /\ Snapshots(ts, n) = [i \in 1..Cardinality(ts) |-> Snapshot(q[i], n + i)]

LEMMA SnapshotsAre ==
  ASSUME Types, NEW ts \in SUBSET Ticker, NEW n \in Nat
  PROVE  Cardinality(ts) \in Nat /\ \E q : Enumerates(q, ts, n)
<1> DEFINE q == SetToSeq(ts) c == Cardinality(ts)
<1>1. IsFiniteSet(ts)  BY KalshiAssumption, FS_Subset
<1>2. c \in Nat /\ \E f : f \in Bijection(1..c, ts)
  BY <1>1, FS_CardinalityType DEF ExistsBijection
<1>3. \E f \in [1..c -> ts] : IsInjective(f)  BY <1>2 DEF Bijection, Injection
<1>4. q \in [1..c -> ts] /\ IsInjective(q)  BY <1>3 DEF SetToSeq
<1>5. Len(q) = c  BY <1>2, <1>4, SeqDef
<1>6. Snapshots(ts, n) = [i \in 1..c |-> Snapshot(q[i], n + i)]  BY <1>5 DEF Snapshots
<1> HIDE DEF q
<1>7. q \in Injection(1..c, ts)  BY <1>4 DEF Injection
<1>8. Cardinality(1..c) = c
  <2>1. 1..c \in {1..c} /\ 1 \in Int /\ c \in Int  BY <1>2
  <2>2. QED  BY <1>2, <2>1, FS_Interval
<1>9. q \in Surjection(1..c, ts)  BY <1>1, <1>7, <1>8, FS_Injection
<1>10. \A t \in ts : \E i \in 1..c : q[i] = t  BY <1>9 DEF Surjection
<1>11. Enumerates(q, ts, n)  BY <1>4, <1>6, <1>10 DEF Enumerates
<1>12. QED  BY <1>2, <1>11

\* What they add to what has been told.
Continues(ts, n, told, shot, more, shots) ==
  /\ more \in Telling /\ shots \in Shots
  /\ \A s \in 0..n : more[s] = told[s] /\ shots[s] = shot[s]
  /\ \A t \in Ticker : more[n + Cardinality(ts)][t] = IF t \in ts THEN size[t] ELSE told[n][t]
  /\ \A t \in ts : \E s \in (n + 1)..(n + Cardinality(ts)) : t \in shots[s]
  /\ \A f \in Range(Snapshots(ts, n)) :
       f.seq \in (n + 1)..(n + Cardinality(ts)) /\ Reports(f, more, shots)

LEMMA SnapshotsTell ==
  ASSUME Types, NEW ts \in SUBSET Ticker, NEW n \in Nat, NEW told \in Telling, NEW shot \in Shots
  PROVE  \E more, shots : Continues(ts, n, told, shot, more, shots)
<1> DEFINE c == Cardinality(ts)
<1>1. c \in Nat  BY SnapshotsAre
<1>2a. PICK q : Enumerates(q, ts, n)  BY SnapshotsAre
<1>2. /\ q \in [1..c -> ts] /\ \A t \in ts : \E i \in 1..c : q[i] = t
      /\ Snapshots(ts, n) = [i \in 1..c |-> Snapshot(q[i], n + i)]
  BY <1>2a DEF Enumerates
<1> HIDE DEF c
<1> DEFINE more == [s \in Nat |-> [t \in Ticker |->
                      IF s <= n THEN told[s][t]
                      ELSE IF \E j \in 1..c : j <= s - n /\ q[j] = t THEN size[t] ELSE told[n][t]]]
           shots == [s \in Nat |-> IF s \in (n + 1)..(n + c) THEN {q[s - n]} ELSE shot[s]]
<1>3. \A t \in Ticker : size[t] \in 0..MaxSize  BY KalshiAssumption DEF Types
<1>4. more \in Telling  BY <1>3 DEF Telling
<1>5. shots \in Shots
  <2>1. \A s \in (n + 1)..(n + c) : s - n \in 1..c  BY <1>1
  <2>2. \A s \in (n + 1)..(n + c) : q[s - n] \in Ticker  BY <1>2, <2>1
  <2>3. QED  BY <2>2 DEF Shots
<1>6. \A s \in 0..n : more[s] = told[s] /\ shots[s] = shot[s]
  <2> TAKE s \in 0..n
  <2>1. s \in Nat /\ s <= n /\ s \notin (n + 1)..(n + c)  OBVIOUS
  <2>2. told[s] = [t \in Ticker |-> told[s][t]]  BY <2>1 DEF Telling
  <2>3. QED  BY <2>1, <2>2
<1>7. ASSUME NEW i \in 1..c
      PROVE  /\ shots[n + i] = {q[i]} /\ more[n + i][q[i]] = size[q[i]] /\ q[i] \in Ticker
             /\ \A t \in Ticker : t # q[i] => more[n + i][t] = more[n + i - 1][t]
  <2>1. n + i \in Nat /\ n + i \in (n + 1)..(n + c) /\ (n + i) - n = i /\ ~(n + i <= n)
    BY <1>1
  <2>2. shots[n + i] = {q[i]} /\ q[i] \in Ticker  BY <1>2, <2>1
  <2>3. \A t \in Ticker : more[n + i][t] = IF \E j \in 1..c : j <= i /\ q[j] = t THEN size[t] ELSE told[n][t]
    BY <2>1
  <2>4. more[n + i][q[i]] = size[q[i]]
    <3>1. i \in 1..c /\ i <= i  BY <1>1
    <3>2. QED  BY <2>2, <2>3, <3>1
  <2>5. ASSUME NEW t \in Ticker, t # q[i] PROVE more[n + i][t] = more[n + i - 1][t]
    <3>1. CASE i = 1
      <4>1. n + i - 1 = n /\ n \in 0..n  BY <3>1
      <4>2. more[n + i - 1][t] = told[n][t]  BY <1>6, <4>1
      <4>3. ~\E j \in 1..c : j <= i /\ q[j] = t  BY <1>1, <2>5, <3>1
      <4>4. QED  BY <2>3, <4>2, <4>3
    <3>2. CASE i # 1
      <4>1. n + i - 1 \in Nat /\ ~(n + i - 1 <= n) /\ (n + i - 1) - n = i - 1  BY <1>1, <3>2
      <4>2. more[n + i - 1][t] = IF \E j \in 1..c : j <= i - 1 /\ q[j] = t THEN size[t] ELSE told[n][t]
        BY <4>1
      <4>3. (\E j \in 1..c : j <= i /\ q[j] = t) <=> (\E j \in 1..c : j <= i - 1 /\ q[j] = t)
        BY <1>1, <2>5
      <4>4. QED  BY <2>3, <4>2, <4>3
    <3>3. QED  BY <3>1, <3>2
  <2>6. QED  BY <2>2, <2>4, <2>5
<1>8. \A t \in Ticker : more[n + c][t] = IF t \in ts THEN size[t] ELSE told[n][t]
  <2> TAKE t \in Ticker
  <2>1. CASE c = 0
    <3>1. ts = {}  BY <1>2, <2>1
    <3>2. n + c = n /\ n \in 0..n  BY <2>1
    <3>3. QED  BY <1>6, <3>1, <3>2
  <2>2. CASE c # 0
    <3>1. n + c \in Nat /\ ~(n + c <= n) /\ (n + c) - n = c  BY <1>1, <2>2
    <3>2. more[n + c][t] = IF \E j \in 1..c : j <= c /\ q[j] = t THEN size[t] ELSE told[n][t]
      BY <3>1
    <3>3. (\E j \in 1..c : j <= c /\ q[j] = t) <=> t \in ts  BY <1>1, <1>2
    <3>4. QED  BY <3>2, <3>3
  <2>3. QED  BY <2>1, <2>2
<1> HIDE DEF more, shots
<1>9. \A t \in ts : \E s \in (n + 1)..(n + c) : t \in shots[s]
  <2> TAKE t \in ts
  <2>1. PICK i \in 1..c : q[i] = t  BY <1>2
  <2>2. n + i \in (n + 1)..(n + c)  BY <1>1
  <2>3. QED  BY <1>7, <2>1, <2>2
<1>10. ASSUME NEW f \in Range(Snapshots(ts, n))
       PROVE  f.seq \in (n + 1)..(n + c) /\ Reports(f, more, shots)
  <2>1. PICK i \in 1..c : f = Snapshot(q[i], n + i)  BY <1>2 DEF Range
  <2>2. /\ f.kind = "snapshot" /\ f.seq = n + i /\ f.ticker = q[i] /\ f.val = size[q[i]]
        /\ f.truth = size[q[i]]
    BY <2>1 DEF Snapshot, NoFrame
  <2>3. n + i \in (n + 1)..(n + c) /\ n + i # 0  BY <1>1
  <2>4. QED  BY <1>3, <1>7, <2>2, <2>3 DEF Reports, IsBook, NoSeq
<1>11. Continues(ts, n, told, shot, more, shots)
  BY <1>4, <1>5, <1>6, <1>8, <1>9, <1>10 DEF Continues, c
<1>12. QED  BY <1>11

LEMMA OpensSnapshots ==
  ASSUME Types, NEW ts \in SUBSET Ticker, NEW n \in Nat, n = 0
  PROVE  Opens(Snapshots(ts, n), n + Cardinality(ts))
<1> DEFINE c == Cardinality(ts) u == Snapshots(ts, n)
<1>1. c \in Nat  BY SnapshotsAre
<1>2a. PICK q : Enumerates(q, ts, n)  BY SnapshotsAre
<1>2. u = [i \in 1..c |-> Snapshot(q[i], n + i)]  BY <1>2a DEF Enumerates
<1>3. u \in Seq(Frame)  BY SnapshotFrames
<1> HIDE DEF c, u
<1>4. DOMAIN u = 1..c /\ Len(u) = c
  <2>1. DOMAIN u = 1..c  BY <1>2
  <2>2. DOMAIN u = 1..Len(u) /\ Len(u) \in Nat  BY <1>3, LenProperties
  <2>3. QED  BY <1>1, <2>1, <2>2
<1>5. CASE c = 0
  <2>1. Range(u) = {}
    <3>1. 1..0 = {}  OBVIOUS
    <3>2. QED  BY <1>4, <1>5, <3>1 DEF Range
  <2>2. n + c = 0  BY <1>5
  <2>3. QED  BY <2>1, <2>2 DEF Opens, c, u
<1>6. CASE c # 0
  <2>1. 1 \in 1..c /\ u[1] = Snapshot(q[1], n + 1)  BY <1>1, <1>2, <1>6
  <2>2. u[1].seq = 1  BY <2>1 DEF Snapshot, NoFrame
  <2>3. \A j \in 1..(1 - 1) : u[j].seq = NoSeq
    <3>1. 1..(1 - 1) = {}  OBVIOUS
    <3>2. QED  BY <3>1
  <2>4. Opens(u, n + c)  BY <1>4, <2>1, <2>2, <2>3 DEF Opens
  <2>5. QED  BY <2>4 DEF c, u
<1>7. QED  BY <1>5, <1>6

-----------------------------------------------------------------------------
\* The venue subscribes: every ticker is told first by its snapshot.
LEMMA BooksSubscribe ==
  ASSUME BInv, VenueSubscribe PROVE Books'
<1> DEFINE ts == Head(cmds).tickers
           c  == Cardinality(ts)
           f  == [NoFrame EXCEPT !.kind = "subscribed"]
           a  == Append(chan, f)
           u  == Snapshots(ts, vseq)
<1>1. /\ link = "up" /\ cmds # <<>> /\ Head(cmds).op = "subscribe"
      /\ sub' = ts /\ vseq' = c /\ chan' = a \o Snapshots(ts, 0)
      /\ UNCHANGED <<meta, pruned, pc, books, lastSeq, link, size, readded, yielded>>
  BY DEF VenueSubscribe, feedVars, readerVars, historyVars
<1>2. pc = "recv" /\ ts \in SUBSET Ticker /\ sub = {} /\ vseq = 0 /\ vseq \in Nat /\ Types
  BY <1>1, OneCommand DEF Command, SubscribeOut, BInv, IInv, Types
<1>3. f \in Frame /\ f.kind = "subscribed" /\ f.seq = NoSeq
  <2>1. Failed \in Future  BY FailedIsFuture
  <2>2. QED  BY <2>1 DEF NoFrame, Frame, NoSeq
<1>4. u \in Seq(Frame) /\ (\A g \in Range(u) : g.kind = "snapshot") /\ c \in Nat
  BY <1>2, SnapshotFrames
<1>5. chan' = a \o u /\ vseq' = vseq + c  BY <1>1, <1>2, <1>4
<1>6. PICK told \in Telling, shot \in Shots : Faithful(told, shot)  BY <1>2 DEF BInv, Books, Reading
<1>7a. PICK more, shots : Continues(ts, vseq, told, shot, more, shots)  BY <1>2, SnapshotsTell
<1>7. /\ more \in Telling /\ shots \in Shots
      /\ \A s \in 0..vseq : more[s] = told[s] /\ shots[s] = shot[s]
      /\ \A t \in Ticker : more[vseq + c][t] = IF t \in ts THEN size[t] ELSE told[vseq][t]
      /\ \A t \in ts : \E s \in (vseq + 1)..(vseq + c) : t \in shots[s]
      /\ \A g \in Range(u) : g.seq \in (vseq + 1)..(vseq + c) /\ Reports(g, more, shots)
  BY <1>7a DEF Continues
<1>8. chan \in Seq(Frame)  BY DEF BInv, IInv, Types
<1>9. Opens(u, vseq + c)  BY <1>2, OpensSnapshots
<1> HIDE DEF f, u, c, ts
<1>10. a = chan \o <<f>> /\ a \in Seq(Frame) /\ Range(a) = Range(chan) \cup {f}
  BY <1>3, <1>8, AppendOne
<1> HIDE DEF a
<1> DEFINE new == {f} \cup Range(u)
<1>11. Range(chan') = Range(chan) \cup new
  <2> HIDE DEF new
  <2>1. a \in Seq(Frame) /\ u \in Seq(Frame)  BY <1>4, <1>10
  <2>2. Range(a \o u) = Range(a) \cup Range(u)  BY <2>1, RangeOfConcat
  <2>3. QED  BY <1>5, <1>10, <2>2 DEF new
<1>12. \A g \in new : IsBook(g) \/ g.seq # NoSeq => g.seq <= vseq + c /\ Reports(g, more, shots)
  BY <1>2, <1>3, <1>4, <1>7 DEF IsBook
<1>13. \A g \in new : g.kind # "delta"  BY <1>3, <1>4
<1> HIDE DEF new
<1>14. Faithful(more, shots)'
  <2>1. vseq' \in Nat /\ vseq <= vseq'  BY <1>2, <1>4, <1>5
  <2>2. \A g \in new : IsBook(g) \/ g.seq # NoSeq => g.seq <= vseq' /\ Reports(g, more, shots)
    BY <1>5, <1>12
  <2>3. \A g \in new : g.kind = "delta" => g.ticker \in sub /\ g.seq = vseq + 1  BY <1>13
  <2>4. \A t \in sub' \ sub : \E s \in (vseq + 1)..vseq' : t \in shots[s]  BY <1>1, <1>5, <1>7
  <2>5. link = "up" => \A t \in sub' : more[vseq'][t] = size'[t]  BY <1>1, <1>2, <1>5, <1>7
  <2>6. UNCHANGED <<pc, books, pruned, lastSeq, meta, readded, link>>  BY <1>1
  <2>7. QED  BY <1>2, <1>6, <1>7, <1>11, <2>1, <2>2, <2>3, <2>4, <2>5, <2>6, GrowStep
<1>15. /\ lastSeq' <= vseq'
       /\ lastSeq' = NoSeq => DOMAIN books' = {} /\ (~LosesFirst => Opens(chan', vseq'))
  <2>1. /\ lastSeq <= vseq /\ lastSeq \in Nat
        /\ lastSeq = NoSeq => DOMAIN books = {} /\ (~LosesFirst => Opens(chan, vseq))
    BY <1>2 DEF BInv, Books, Reading, IInv, Types
  <2>2. Opens(<<f>>, vseq) /\ <<f>> \in Seq(Frame)  BY <1>2, <1>3, OpensOne, RangeOfOne
  <2>3. vseq <= vseq /\ vseq <= vseq + c /\ vseq + c \in Nat  BY <1>2, <1>4
  <2>4. Opens(chan, vseq) => Opens(a, vseq)  BY <1>2, <1>8, <1>10, <2>2, <2>3, OpensConcat
  <2>5. Opens(a, vseq) => Opens(a \o u, vseq + c)
    BY <1>2, <1>4, <1>9, <1>10, <2>3, OpensConcat
  <2>6. lastSeq' = lastSeq /\ lastSeq <= vseq + c  BY <1>1, <1>2, <1>4, <2>1
  <2>7. QED  BY <1>1, <1>5, <2>1, <2>4, <2>5, <2>6
<1>16. Reading'  BY <1>7, <1>14, <1>15 DEF Reading
<1>17. QED  BY <1>1, <1>16 DEF BInv, Books, Sized, BookFaithful

\* The venue changes the subscription: what it adds is told first by its snapshot.
LEMMA BooksMutate ==
  ASSUME BInv, NEW answer \in Answers, VenueMutate(answer)
  PROVE  Books'
<1>0. PICK frame \in Frame, new \in SUBSET Ticker, seq \in Nat : Mutated(answer, frame, new, seq)
  BY VenueMutateMeans DEF BInv
<1> DEFINE a == IF answer = "silent" THEN <<>> ELSE <<frame>>
           u == Snapshots(new, seq)
           b == chan \o a
           c == Cardinality(new)
<1>1. /\ pc = "recv" /\ frame.kind = "reply" /\ vseq' = seq + c /\ chan' = b \o u
      /\ new \cap sub = {} /\ sub' \subseteq sub \cup new /\ sub' \subseteq Ticker
      /\ seq \in {vseq, vseq + 1} /\ (answer = "silent" => seq = vseq)
      /\ frame.seq = IF seq = vseq THEN NoSeq ELSE seq
      /\ UNCHANGED <<meta, pruned, pc, books, lastSeq, link, size>>
  BY <1>0 DEF Mutated, feedVars, readerVars
<1>2. UNCHANGED <<readded, yielded>>  BY DEF VenueMutate, historyVars
<1>3. chan \in Seq(Frame) /\ vseq \in Nat /\ seq \in Nat /\ Types  BY DEF BInv, IInv, Types
<1>4. a \in Seq(Frame) /\ Range(a) \subseteq {frame}
  BY EmptySeq, RangeOfNone, RangeOfOne
<1>5. u \in Seq(Frame) /\ (\A g \in Range(u) : g.kind = "snapshot") /\ c \in Nat
  BY <1>3, SnapshotFrames
<1>6. PICK told \in Telling, shot \in Shots : Faithful(told, shot)  BY <1>1 DEF BInv, Books, Reading
<1> DEFINE mid  == [s \in Nat |-> IF s = vseq + 1 THEN told[vseq] ELSE told[s]]
           mids == [s \in Nat |-> IF s = vseq + 1 THEN {} ELSE shot[s]]
<1>7. mid \in Telling /\ mids \in Shots  BY <1>3 DEF Telling, Shots
<1>8a. PICK more, shots : Continues(new, seq, mid, mids, more, shots)
  <2> HIDE DEF mid, mids
  <2>1. QED  BY <1>3, <1>7, SnapshotsTell
<1>8. /\ more \in Telling /\ shots \in Shots
      /\ \A s \in 0..seq : more[s] = mid[s] /\ shots[s] = mids[s]
      /\ \A t \in Ticker : more[seq + c][t] = IF t \in new THEN size[t] ELSE mid[seq][t]
      /\ \A t \in new : \E s \in (seq + 1)..(seq + c) : t \in shots[s]
      /\ \A g \in Range(u) : g.seq \in (seq + 1)..(seq + c) /\ Reports(g, more, shots)
  <2> HIDE DEF mid, mids
  <2>1. QED  BY <1>8a DEF Continues
<1>9. mid[seq] = told[vseq] /\ \A s \in 0..vseq : mid[s] = told[s] /\ mids[s] = shot[s]
  <2>1. \A s \in 0..vseq : s \in Nat /\ s # vseq + 1  BY <1>3
  <2>2. vseq \in 0..vseq /\ vseq + 1 \in Nat  BY <1>3
  <2>3. QED  BY <1>1, <2>1, <2>2
<1>10. seq # vseq => mids[seq] = {}  BY <1>1, <1>3
<1> HIDE DEF a, u, c, mid, mids
<1>11. b \in Seq(Frame) /\ Range(b) = Range(chan) \cup Range(a)  BY <1>3, <1>4, RangeOfConcat
<1>12. Range(chan') = Range(chan) \cup (Range(a) \cup Range(u))
  <2> HIDE DEF b
  <2>1. Range(b \o u) = Range(b) \cup Range(u)  BY <1>5, <1>11, RangeOfConcat
  <2>2. QED  BY <1>1, <1>11, <2>1
<1> HIDE DEF b
<1>13. \A s \in 0..vseq : more[s] = told[s] /\ shots[s] = shot[s]
  <2>1. \A s \in 0..vseq : s \in 0..seq  BY <1>1, <1>3
  <2>2. QED  BY <1>8, <1>9, <2>1
<1>14. frame.seq # NoSeq => frame.seq <= seq + c /\ Reports(frame, more, shots)
  <2> SUFFICES ASSUME frame.seq # NoSeq PROVE seq <= seq + c /\ Reports(frame, more, shots)
    BY <1>1
  <2>1. seq = vseq + 1 /\ frame.seq = seq /\ seq \in 0..seq /\ seq - 1 = vseq /\ vseq \in 0..vseq
    BY <1>1, <1>3
  <2>2. shots[seq] = {} /\ more[seq] = more[seq - 1]  BY <1>3, <1>8, <1>9, <1>10, <1>13, <2>1
  <2>3. ~IsBook(frame) /\ frame.kind # "snapshot"  BY <1>1 DEF IsBook
  <2>4. seq <= seq + c  BY <1>3, <1>5
  <2>5. QED  BY <2>1, <2>2, <2>3, <2>4 DEF Reports
<1> DEFINE news == Range(a) \cup Range(u)
<1>15. \A g \in news : IsBook(g) \/ g.seq # NoSeq => g.seq <= seq + c /\ Reports(g, more, shots)
  <2> TAKE g \in news
  <2>1. CASE g = frame  BY <1>1, <1>14, <2>1 DEF IsBook
  <2>2. CASE g \in Range(u)  BY <1>3, <1>5, <1>8, <2>2
  <2>3. QED  BY <1>4, <2>1, <2>2
<1>16. \A g \in news : g.kind # "delta"  BY <1>1, <1>4, <1>5
<1>17. \A t \in sub' \ sub : \E s \in (vseq + 1)..(seq + c) : t \in shots[s]
  <2>1. \A s \in (seq + 1)..(seq + c) : s \in (vseq + 1)..(seq + c)  BY <1>1, <1>3, <1>5
  <2>2. QED  BY <1>1, <1>8, <2>1
<1>18. link = "up" => \A t \in sub' : more[seq + c][t] = size[t]
  <2> SUFFICES ASSUME link = "up", NEW t \in sub' PROVE more[seq + c][t] = size[t]
    OBVIOUS
  <2>1. CASE t \in new  BY <1>1, <1>8, <2>1
  <2>2. CASE t \notin new
    <3>1. told[vseq][t] = size[t]  BY <1>1, <1>6, <2>2 DEF Faithful
    <3>2. QED  BY <1>1, <1>8, <1>9, <2>2, <3>1
  <2>3. QED  BY <2>1, <2>2
<1> HIDE DEF news
<1>19. Faithful(more, shots)'
  <2>1. Range(chan') = Range(chan) \cup news  BY <1>12 DEF news
  <2>2. vseq' \in Nat /\ vseq <= vseq'  BY <1>1, <1>3, <1>5
  <2>3. \A g \in news : IsBook(g) \/ g.seq # NoSeq => g.seq <= vseq' /\ Reports(g, more, shots)
    BY <1>1, <1>15
  <2>4. \A g \in news : g.kind = "delta" => g.ticker \in sub /\ g.seq = vseq + 1  BY <1>16
  <2>5. \A t \in sub' \ sub : \E s \in (vseq + 1)..vseq' : t \in shots[s]  BY <1>1, <1>17
  <2>6. link = "up" => \A t \in sub' : more[vseq'][t] = size'[t]  BY <1>1, <1>18
  <2>7. UNCHANGED <<pc, books, pruned, lastSeq, meta, readded, link>>  BY <1>1, <1>2
  <2>8. pc = "recv" /\ more \in Telling /\ shots \in Shots  BY <1>1, <1>8
  <2>9. QED  BY <1>6, <1>13, <2>8, <2>1, <2>2, <2>3, <2>4, <2>5, <2>6, <2>7, GrowStep
<1>20. /\ lastSeq' <= vseq'
       /\ lastSeq' = NoSeq => DOMAIN books' = {} /\ (~LosesFirst => Opens(chan', vseq'))
  <2>1. /\ lastSeq <= vseq /\ lastSeq \in Nat
        /\ lastSeq = NoSeq => DOMAIN books = {} /\ (~LosesFirst => Opens(chan, vseq))
    BY <1>1 DEF BInv, Books, Reading, IInv, Types
  <2>2. vseq <= seq /\ seq <= seq + c /\ seq + c \in Nat  BY <1>1, <1>3, <1>5
  <2>3. vseq = 0 => Opens(a, seq)
    <3> SUFFICES ASSUME vseq = 0 PROVE Opens(a, seq)
      OBVIOUS
    <3>1. CASE answer = "silent"  BY <1>1, <3>1, RangeOfNone DEF Opens, a
    <3>2. CASE answer # "silent"
      <4>1. frame.seq = 1 \/ (frame.seq = NoSeq /\ seq = 0)  BY <1>1
      <4>2. QED  BY <3>2, <4>1, OpensOne DEF a
    <3>3. QED  BY <3>1, <3>2
  <2>4. Opens(chan, vseq) => Opens(b, seq)  BY <1>3, <1>4, <2>2, <2>3, OpensConcat DEF b
  <2>5. seq = 0 => Opens(u, seq + c)
    BY <1>3, OpensSnapshots DEF c, u
  <2>6. Opens(b, seq) => Opens(b \o u, seq + c)
    BY <1>3, <1>5, <1>11, <2>2, <2>5, OpensConcat
  <2>7. QED  BY <1>1, <1>3, <2>1, <2>2, <2>4, <2>6
<1>21. Reading'  BY <1>8, <1>19, <1>20 DEF Reading
<1>22. QED  BY <1>1, <1>2, <1>21 DEF BInv, Books, Sized, BookFaithful

\* The market moves: a move that is sent is told, one that is not is of no ladder.
LEMMA BooksTrade ==
  ASSUME BInv, NEW t \in Ticker, NEW d \in {-1, 1}, VenueTrade(t, d)
  PROVE  Books'
<1> DEFINE f == [NoFrame EXCEPT !.kind = "delta", !.ticker = t, !.seq = vseq + 1, !.val = d,
                                !.truth = size[t] + d]
<1>1. /\ size[t] + d \in 0..MaxSize /\ size' = [size EXCEPT ![t] = @ + d]
      /\ UNCHANGED <<meta, pruned, pc, books, lastSeq, link, sub, readded, yielded>>
      /\ \/ link = "up" /\ t \in sub /\ vseq' = vseq + 1 /\ chan' = Append(chan, f)
         \/ ~(link = "up" /\ t \in sub) /\ vseq' = vseq /\ chan' = chan
  BY DEF VenueTrade, feedVars, readerVars, historyVars
<1>2. /\ vseq \in Nat /\ lastSeq \in Nat /\ chan \in Seq(Frame) /\ size \in [Ticker -> 0..MaxSize]
      /\ size[t] \in Int /\ d \in Int
  BY KalshiAssumption DEF BInv, IInv, Types
<1>3. /\ size'[t] = size[t] + d /\ size[t] + d \in Nat
      /\ \A o \in Ticker : o # t => size'[o] = size[o]
  BY <1>1, <1>2, KalshiAssumption
<1>4. (readded \subseteq Ticker)' /\ Sized' /\ (~LosesFirst => BookFaithful')
  BY <1>1 DEF BInv, Books, Sized, BookFaithful
<1>5. Reading'
  <2> SUFFICES ASSUME pc = "recv"
               PROVE  /\ lastSeq <= vseq'
                      /\ lastSeq = NoSeq => DOMAIN books = {} /\ (~LosesFirst => Opens(chan', vseq'))
                      /\ \E told \in Telling, shot \in Shots : Faithful(told, shot)'
    BY <1>1 DEF Reading
  <2>1. PICK told \in Telling, shot \in Shots : Faithful(told, shot)  BY DEF BInv, Books, Reading
  <2>2. lastSeq <= vseq /\ (lastSeq = NoSeq => DOMAIN books = {} /\ (~LosesFirst => Opens(chan, vseq)))
    BY DEF BInv, Books, Reading
  <2>3. link = "up" => \A o \in sub : told[vseq][o] = size[o]  BY <2>1 DEF Faithful
  <2>4. sub \subseteq Ticker  BY DEF BInv, IInv, Types
  <2>5. CASE ~(link = "up" /\ t \in sub) /\ vseq' = vseq /\ chan' = chan
    <3>1. link = "up" => \A o \in sub' : told[vseq'][o] = size'[o]  BY <1>1, <1>3, <2>3, <2>4, <2>5
    <3>2. Range(chan') = Range(chan) \cup {}  BY <2>5
    <3>3. vseq' \in Nat /\ vseq <= vseq' /\ sub' \ sub = {}  BY <1>1, <1>2, <2>5
    <3>4. \A s \in 0..vseq : told[s] = told[s] /\ shot[s] = shot[s]  OBVIOUS
    <3>5. UNCHANGED <<pc, books, pruned, lastSeq, meta, readded, link>>  BY <1>1
    <3>6. Faithful(told, shot)'  BY <2>1, <3>1, <3>2, <3>3, <3>4, <3>5, GrowStep
    <3>7. QED  BY <2>2, <2>5, <3>6
  <2>6. CASE link = "up" /\ t \in sub /\ vseq' = vseq + 1 /\ chan' = Append(chan, f)
    <3>1. /\ f \in Frame /\ f.kind = "delta" /\ f.seq = vseq + 1 /\ f.ticker = t /\ f.val = d
          /\ f.truth = size[t] + d
      <4>1. vseq + 1 \in Nat  BY <1>2
      <4>2. NoFrame \in Frame  BY FailedIsFuture DEF NoFrame, Frame, NoSeq
      <4>3. size[t] + d \in Int  BY <1>3
      <4>4. QED  BY <1>2, <4>1, <4>2, <4>3 DEF NoFrame, Frame
    <3> HIDE DEF f
    <3>2. \E more \in Telling, shots \in Shots :
            /\ \A s \in 0..vseq : more[s] = told[s] /\ shots[s] = shot[s]
            /\ shots[vseq + 1] = {} /\ more[vseq + 1][t] = size[t] + d
            /\ \A o \in Ticker : o # t => more[vseq + 1][o] = told[vseq][o]
      <4> DEFINE more  == [s \in Nat |->
                             IF s = vseq + 1
                             THEN [o \in Ticker |-> IF o = t THEN size[t] + d ELSE told[vseq][o]]
                             ELSE told[s]]
                 shots == [s \in Nat |-> IF s = vseq + 1 THEN {} ELSE shot[s]]
      <4>0. size[t] + d \in 0..MaxSize /\ \A s \in Nat, o \in Ticker : told[s][o] \in 0..MaxSize
        BY <1>1 DEF Telling
      <4>1. more \in Telling /\ shots \in Shots  BY <1>2, <4>0 DEF Telling, Shots
      <4>2. \A s \in 0..vseq : s \in Nat /\ s # vseq + 1  BY <1>2
      <4>3. \A s \in 0..vseq : more[s] = told[s] /\ shots[s] = shot[s]  BY <4>2
      <4>4. /\ shots[vseq + 1] = {} /\ more[vseq + 1][t] = size[t] + d
            /\ \A o \in Ticker : o # t => more[vseq + 1][o] = told[vseq][o]
        BY <1>2
      <4> HIDE DEF more, shots
      <4>5. QED  BY <4>1, <4>3, <4>4
    <3>3. PICK more \in Telling, shots \in Shots :
            /\ \A s \in 0..vseq : more[s] = told[s] /\ shots[s] = shot[s]
            /\ shots[vseq + 1] = {} /\ more[vseq + 1][t] = size[t] + d
            /\ \A o \in Ticker : o # t => more[vseq + 1][o] = told[vseq][o]
      BY <3>2
    <3>4. \A s \in 0..vseq : more[s] = told[s] /\ shots[s] = shot[s]  BY <3>3
    <3>5. f.seq # NoSeq /\ f.seq - 1 = vseq /\ vseq \in 0..vseq  BY <1>2, <3>1 DEF NoSeq
    <3>6. told[vseq][t] = size[t] /\ (size[t] + d) - size[t] = d  BY <1>2, <2>3, <2>6
    <3>7. Reports(f, more, shots)  BY <1>3, <3>1, <3>3, <3>5, <3>6 DEF Reports, IsBook
    <3>8. Range(chan') = Range(chan) \cup {f} /\ chan' = chan \o <<f>>
      BY <1>2, <2>6, <3>1, AppendOne
    <3>9. link = "up" => \A o \in sub' : more[vseq'][o] = size'[o]
      BY <1>1, <1>3, <2>3, <2>4, <2>6, <3>3
    <3>10. Faithful(more, shots)'
      <4> DEFINE new == {f}
      <4>1. vseq' \in Nat /\ vseq <= vseq' /\ vseq + 1 <= vseq' /\ sub' \ sub = {}
        BY <1>1, <1>2, <2>6
      <4>2. \A g \in new : IsBook(g) \/ g.seq # NoSeq => g.seq <= vseq' /\ Reports(g, more, shots)
        BY <3>1, <3>7, <4>1
      <4>3. \A g \in new : g.kind = "delta" => g.ticker \in sub /\ g.seq = vseq + 1  BY <2>6, <3>1
      <4>4. UNCHANGED <<pc, books, pruned, lastSeq, meta, readded, link>>  BY <1>1
      <4>5. \A o \in sub' \ sub : \E s \in (vseq + 1)..vseq' : o \in shots[s]  BY <4>1
      <4>6. Range(chan') = Range(chan) \cup new  BY <3>8
      <4> HIDE DEF new
      <4>7. QED  BY <2>1, <3>4, <3>9, <4>1, <4>2, <4>3, <4>4, <4>5, <4>6, GrowStep
    <3>11. Opens(chan, vseq) => Opens(chan', vseq')
      <4>1. vseq = 0 => Opens(<<f>>, vseq + 1)
        <5>1. vseq = 0 => f.seq = 1  BY <3>1
        <5>2. vseq + 1 \in Nat  BY <1>2
        <5>3. QED  BY <3>1, <5>1, <5>2, OpensOne
      <4>2. <<f>> \in Seq(Frame) /\ vseq + 1 \in Nat /\ vseq <= vseq + 1  BY <1>2, <3>1, RangeOfOne
      <4>3. QED  BY <1>2, <2>6, <3>8, <4>1, <4>2, OpensConcat
    <3>12. lastSeq <= vseq'  BY <1>2, <2>2, <2>6
    <3>13. \E m \in Telling, n \in Shots : Faithful(m, n)'  BY <3>10
    <3>14. QED  BY <2>2, <3>11, <3>12, <3>13
  <2>7. QED  BY <1>1, <2>5, <2>6
<1>6. QED  BY <1>4, <1>5 DEF Books

\* A frame is lost: what is left is still told, and still opens the count where the first
\* numbered frame is not lost.
LEMMA BooksFrameLost ==
  ASSUME BInv, NEW i \in 1..Len(chan), FrameLost(i)
  PROVE  Books'
<1>1. /\ chan[i].seq # NoSeq /\ (~LosesFirst => chan[i].seq # 1) /\ chan' = RemoveAt(chan, i)
      /\ UNCHANGED <<pc, books, pruned, lastSeq, meta, readded, sub, vseq, size, yielded, link>>
  BY DEF FrameLost, feedVars, readerVars, venueVars, historyVars
<1>2. chan \in Seq(Frame) /\ vseq \in Nat  BY DEF BInv, IInv, Types
<1>3. chan' \in Seq(Frame) /\ Range(chan') \subseteq Range(chan)  BY <1>1, <1>2, RemoveOne
<1>4. ~LosesFirst => (Opens(chan, vseq) => Opens(chan', vseq))  BY <1>1, <1>2, OpensRemove
<1>5. QED  BY <1>1, <1>3, <1>4, LessStep

\* Steps of the refresher after its resync, and of the link, touch no ladder and no frame.
LEMMA BooksStay ==
  ASSUME BInv,
         MutateSend \/ MutateAnswered \/ MutateTimeout \/ CloseSocket \/ UNCHANGED vars
           \/ \E how \in {"closed", "stalled"} : LinkFails(how)
  PROVE  Books'
<1>1. /\ UNCHANGED <<pc, books, pruned, lastSeq, meta, readded, sub, vseq, size, yielded, chan>>
      /\ link' = "up" => link = "up"
  <2>1. CASE MutateSend  BY <2>1 DEF MutateSend, readerVars, historyVars
  <2>2. CASE MutateAnswered  BY <2>2 DEF MutateAnswered, readerVars, venueVars, historyVars
  <2>3. CASE MutateTimeout  BY <2>3 DEF MutateTimeout, readerVars, venueVars, historyVars
  <2>4. CASE CloseSocket
    BY <2>4 DEF CloseSocket, LinkAfterClose, feedVars, readerVars, venueVars, historyVars
  <2>5. CASE UNCHANGED vars  BY <2>5 DEF vars, feedVars, readerVars, venueVars, historyVars
  <2>6. CASE \E how \in {"closed", "stalled"} : LinkFails(how)
    BY <2>6 DEF LinkFails, feedVars, readerVars, venueVars, historyVars
  <2>7. QED  BY <2>1, <2>2, <2>3, <2>4, <2>5, <2>6
<1>2. chan' \in Seq(Frame)  BY <1>1 DEF BInv, IInv, Types
<1>3. QED  BY <1>1, <1>2, LessStep

\* Steps of the reader out of a connection, or where there is none.
LEMMA BooksAway ==
  ASSUME BInv,
         \/ OpenSocket \/ BackoffOver \/ SocketClosed \/ IdleTimeout \/ StreamRestart
         \/ ConnectFails \/ StreamCrash \/ \E f \in Frame : ReadGap(f)
  PROVE  Books'
<1>1. pc' # "recv" /\ books' \in {books, <<>>} /\ UNCHANGED <<readded, yielded>>
  BY DEF OpenSocket, BackoffOver, SocketClosed, IdleTimeout, StreamRestart, ConnectFails, StreamCrash,
     ReadGap, TearDown, historyVars
<1>2. QED  BY <1>1, AwayStep

LEMMA BooksInit == ASSUME Init PROVE BInv
<1>1. IInv  BY InvInit
<1>2. Sized  BY DEF Init, Sized
<1>3. QED  BY <1>1, <1>2 DEF Init, BInv, Books, Reading, BookFaithful

LEMMA BooksStep == ASSUME BInv, [Next]_vars PROVE BInv'
<1>1. IInv'  BY InvStep DEF BInv
<1>2. Books'
  <2>1. CASE ReadFrame
    <3>1. PICK f : \/ ReadGap(f) \/ ReadSubscribed(f) \/ ReadReply(f) \/ ReadUnwanted(f)
                   \/ ReadBook(f)
      BY <2>1 DEF ReadFrame
    <3>2. CASE ReadGap(f)
      <4>1. f \in Frame
        BY <3>2, RangeOfTail DEF ReadGap, Receive, BInv, IInv, Types
      <4>2. QED  BY <3>2, <4>1, BooksAway
    <3>3. QED  BY <3>1, <3>2, BooksPassed, BooksRead
  <2>2. CASE Reader /\ ~ReadFrame  BY <2>2, BooksAway, BooksConnected DEF Reader
  <2>3. CASE Refresher \/ UNCHANGED vars  BY <2>3, BooksStay DEF Refresher
  <2>4. CASE VenueAnswers  BY <2>4, BooksSubscribe, BooksMutate DEF VenueAnswers
  <2>5. CASE Environment
    <3>1. CASE ConnectFails \/ StreamCrash  BY <3>1, BooksAway
    <3>2. ASSUME NEW desired \in (SUBSET Ticker) \ {{}}, Resync(desired)
          PROVE  Books'
      BY <3>2, BooksResync
    <3>3. ASSUME NEW t \in Traded, NEW d \in {-1, 1}, VenueTrade(t, d)
          PROVE  Books'
      BY <3>3, BooksTrade, KalshiAssumption
    <3>4. ASSUME NEW i \in 1..Len(chan), FrameLost(i)
          PROVE  Books'
      BY <3>4, BooksFrameLost
    <3>5. CASE \E how \in {"closed", "stalled"} : LinkFails(how)  BY <3>5, BooksStay
    <3>6. QED  BY <2>5, <3>1, <3>2, <3>3, <3>4, <3>5 DEF Environment
  <2>6. QED  BY <2>1, <2>2, <2>3, <2>4, <2>5 DEF Next
<1>3. QED  BY <1>1, <1>2 DEF BInv

\* Every book the reader yields is the venue's own as of the frame it came with, whatever
\* frames are lost, however often the stream reconnects and the wanted set changes, unless
\* its ticker is wanted again while still streamed: provided that it is never the first
\* numbered frame of a connection that is lost, for the reader takes the number it sees
\* first for the start of the count (kalshi.py, stream_books, last_seq).
THEOREM KalshiBookFaithful == ~LosesFirst => (Spec => []BookFaithful)
<1> SUFFICES ASSUME ~LosesFirst PROVE Spec => []BookFaithful
  OBVIOUS
<1>1. Init => BInv  BY BooksInit
<1>2. BInv /\ [Next]_vars => BInv'  BY BooksStep
<1>3. BInv => BookFaithful  BY DEF BInv, Books
<1>4. QED  BY <1>1, <1>2, <1>3, PTL DEF Spec

-----------------------------------------------------------------------------
(* Types and bounds                                                        *)

\* What the guards bound, and what no other invariant types.
Counted ==
  /\ lastSeq \in 0..MaxSeq /\ vseq \in 0..MaxSeq
  /\ applied \in {"none", "live", "reconnect", "on_reconnect", "unchanged"}
  /\ yielded \in [faithful : BOOLEAN, readded : BOOLEAN] /\ overtaken \subseteq Ticker
  /\ faults \in 0..MaxFault /\ resyncs \in 0..MaxResync

TInv == BInv /\ Counted

LEMMA CountedReader == ASSUME TInv, Reader, BInv' PROVE Counted'
<1>1. /\ applied' = applied /\ faults' = faults /\ resyncs' = resyncs
      /\ vseq' \in {0, vseq}
  BY DEF Reader, OpenSocket, Connected, BackoffOver, SocketClosed, IdleTimeout, StreamRestart,
     ReadFrame, ReadGap, ReadSubscribed, ReadReply, ReadUnwanted, ReadBook, InSequence, Receive,
     callVars, venueVars
<1>2. vseq' \in 0..MaxSeq  BY <1>1, KalshiAssumption DEF TInv, Counted
<1>3. lastSeq' \in 0..MaxSeq
  <2>1. CASE pc' = "recv"
    <3>1. lastSeq' <= vseq' /\ lastSeq' \in Nat  BY <2>1 DEF BInv, Books, Reading, IInv, Types
    <3>2. QED  BY <1>2, <3>1, KalshiAssumption
  <2>2. CASE pc' # "recv"
    <3>1. lastSeq' \in {lastSeq, NoSeq}
      BY <2>2 DEF Reader, OpenSocket, Connected, BackoffOver, SocketClosed, IdleTimeout,
         StreamRestart, ReadFrame, ReadGap, ReadSubscribed, ReadReply, ReadUnwanted, ReadBook,
         InSequence, Receive
    <3>2. QED  BY <3>1, KalshiAssumption DEF TInv, Counted, NoSeq
  <2>3. QED  BY <2>1, <2>2
<1>4. yielded' \in [faithful : BOOLEAN, readded : BOOLEAN]
  <2>1. CASE yielded' = yielded  BY <2>1 DEF TInv, Counted
  <2>2. CASE yielded' # yielded
    <3>1. PICK f : ReadBook(f)
      BY <2>2 DEF Reader, OpenSocket, Connected, BackoffOver, SocketClosed, IdleTimeout,
         StreamRestart, ReadFrame, ReadGap, ReadSubscribed, ReadReply, ReadUnwanted, historyVars
    <3>2. QED  BY <3>1 DEF ReadBook
  <2>3. QED  BY <2>1, <2>2
<1>5. overtaken' \in {{}, overtaken}
  BY DEF Reader, OpenSocket, Connected, BackoffOver, SocketClosed, IdleTimeout, StreamRestart,
     ReadFrame, ReadGap, ReadSubscribed, ReadReply, ReadUnwanted, ReadBook, historyVars
<1>6. QED  BY <1>1, <1>2, <1>3, <1>4, <1>5 DEF TInv, Counted

LEMMA CountedRefresher == ASSUME TInv, Refresher PROVE Counted'
<1>1. /\ UNCHANGED <<lastSeq, vseq, yielded, overtaken, faults, resyncs>>
      /\ applied' \in {applied, "live", "reconnect"}
  BY DEF Refresher, MutateSend, MutateAnswered, MutateTimeout, CloseSocket, readerVars, venueVars,
     historyVars
<1>2. QED  BY <1>1 DEF TInv, Counted

LEMMA CountedVenue == ASSUME TInv, VenueAnswers, BInv' PROVE Counted'
<1>1. UNCHANGED <<lastSeq, yielded, overtaken, applied, resyncs>>
  BY DEF VenueAnswers, VenueSubscribe, VenueMutate, readerVars, historyVars, callVars
<1>2. vseq' <= MaxSeq
  BY DEF VenueAnswers, VenueSubscribe, VenueMutate
<1>3. faults' \in 0..MaxFault
  <2>1. CASE VenueSubscribe  BY <2>1 DEF VenueSubscribe, TInv, Counted
  <2>2. ASSUME NEW a \in Answers, VenueMutate(a) PROVE faults' \in 0..MaxFault
    <3>1. faults' = faults \/ (faults < MaxFault /\ faults' = faults + 1)  BY <2>2 DEF VenueMutate
    <3>2. QED  BY <3>1, KalshiAssumption DEF TInv, Counted
  <2>3. QED  BY <2>1, <2>2 DEF VenueAnswers
<1>4. vseq' \in Nat  BY DEF BInv, IInv, Types
<1>5. QED  BY <1>1, <1>2, <1>3, <1>4, KalshiAssumption DEF TInv, Counted

LEMMA CountedEnvironment == ASSUME TInv, Environment PROVE Counted'
<1>1. lastSeq' = lastSeq /\ yielded' = yielded
  BY DEF Environment, ConnectFails, StreamCrash, Resync, VenueTrade, FrameLost, LinkFails, readerVars,
     historyVars
<1>2. vseq' = vseq \/ (vseq < MaxSeq /\ vseq' = vseq + 1)
  BY DEF Environment, ConnectFails, StreamCrash, Resync, VenueTrade, FrameLost, LinkFails, venueVars
<1>3. applied' \in {applied, "unchanged", "on_reconnect", "none"}
  BY DEF Environment, ConnectFails, StreamCrash, Resync, VenueTrade, FrameLost, LinkFails, callVars
<1>4. faults' = faults \/ (faults < MaxFault /\ faults' = faults + 1)
  BY DEF Environment, ConnectFails, StreamCrash, Resync, VenueTrade, FrameLost, LinkFails
<1>5. resyncs' = resyncs \/ (resyncs < MaxResync /\ resyncs' = resyncs + 1)
  BY DEF Environment, ConnectFails, StreamCrash, Resync, VenueTrade, FrameLost, LinkFails
<1>6. vseq' \in 0..MaxSeq /\ faults' \in 0..MaxFault /\ resyncs' \in 0..MaxResync
  BY <1>2, <1>4, <1>5, KalshiAssumption DEF TInv, Counted
<1>7. overtaken' \subseteq Ticker
  <2>1. meta \subseteq Ticker /\ overtaken \subseteq Ticker
    BY DEF TInv, Counted, BInv, IInv, Types
  <2>2. CASE overtaken' = overtaken  BY <2>1, <2>2
  <2>3. ASSUME NEW desired \in (SUBSET Ticker) \ {{}}, Resync(desired)
        PROVE  overtaken' \subseteq Ticker
    <3>1. overtaken' \in {overtaken, overtaken \cup (desired \ meta) \cup (meta \ desired)}
      BY <2>3 DEF Resync
    <3>2. QED  BY <2>1, <3>1
  <2>4. QED
    BY <2>2, <2>3 DEF Environment, ConnectFails, StreamCrash, VenueTrade, FrameLost, LinkFails,
                      historyVars
<1>8. QED  BY <1>1, <1>3, <1>6, <1>7 DEF TInv, Counted

LEMMA TypeStep == ASSUME TInv, [Next]_vars PROVE TInv'
<1>1. BInv'  BY BooksStep DEF TInv
<1>2. ASSUME UNCHANGED vars PROVE Counted'
  BY <1>2 DEF vars, readerVars, callVars, venueVars, historyVars, TInv, Counted
<1>3. Counted'
  BY <1>1, <1>2, CountedReader, CountedRefresher, CountedVenue, CountedEnvironment DEF Next
<1>4. QED  BY <1>1, <1>3 DEF TInv

LEMMA Typed == ASSUME TInv PROVE TypeOK
<1>1. Types /\ Links /\ NothingLeftBehind /\ Sized /\ readded \subseteq Ticker /\ Counted
  BY DEF TInv, BInv, IInv, Forgotten, Books
<1>2. ws \in 0..conn /\ call.ws \in 0..conn  BY <1>1 DEF Types, Links
<1>3. call \in [ws : 0..conn, added : SUBSET Ticker, dropped : SUBSET Ticker,
                todo : Seq({"delete_markets", "add_markets"}), id : Nat]
  BY <1>1, <1>2 DEF Types
<1>4. acks \subseteq Nat  BY <1>1 DEF Types, NothingLeftBehind
<1>5. QED  BY <1>1, <1>2, <1>3, <1>4 DEF TypeOK, Types, Sized, Counted

\* The state is well typed: a ladder stays within what the venue can have, even one begun
\* from nothing or after the first frames were lost, because the deltas it is given are
\* those of a book it never exceeds (kalshi.py:609); the counters stay within
\* their bounds and a call refers to a connection that was made.
THEOREM KalshiTypeCorrect == Spec => []TypeOK
<1>1. Init => TInv
  <2>1. Init => BInv  BY BooksInit
  <2>2. Init => Counted  BY KalshiAssumption DEF Init, Counted, NoSeq
  <2>3. QED  BY <2>1, <2>2 DEF TInv
<1>2. TInv /\ [Next]_vars => TInv'  BY TypeStep
<1>3. TInv => TypeOK  BY Typed
<1>4. QED  BY <1>1, <1>2, <1>3, PTL DEF Spec
=============================================================================
