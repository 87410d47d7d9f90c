----------------------------- MODULE Report_proofs -----------------------------
(***************************************************************************)
(* What is proved of the backtest for any pairs, any gap and any number of *)
(* lost rows and restarts: that the survival curve neither invents a decay *)
(* nor, but after a restart on a young host, a survival, and that the      *)
(* funnel's windows and the curve's openings differ for the reasons stated *)
(* only.                                                                   *)
(***************************************************************************)
EXTENDS Report, SequenceTheorems, WellFoundedInduction, TLAPS

Row == [at : Nat, viable : BOOLEAN,
        reason : {"VIABLE", "WINDOW_CLOSE", "HEARTBEAT", "UNSUBSCRIBED"}]
Evaluation == [at : Nat, viable : BOOLEAN]

Typed ==
  /\ now \in Nat /\ lost \in BOOLEAN /\ young \in BOOLEAN /\ coldStarts \subseteq 0..now
  /\ index \subseteq Pair /\ DOMAIN memory \subseteq index
  /\ memory \in [DOMAIN memory -> BOOLEAN]
  /\ rows \in [Pair -> Seq(Row)] /\ seen \in [Pair -> Seq(Evaluation)]

\* Rows stand in the order of their instants, no two at one.
InOrder(s) == \A i, j \in DOMAIN s : i < j => s[i].at < s[j].at

\* Of one pair, with its rows s and its evaluations z.  Nothing is of the future.
InTime(s, z, t) ==
  /\ InOrder(s)
  /\ \A i \in DOMAIN s : s[i].at <= t
  /\ \A i \in DOMAIN z : z[i].at <= t

\* A row is that of an evaluation, or a marker that the pair was cut off.
Witnessed(r, z) ==
  IF r.reason = "UNSUBSCRIBED" THEN ~r.viable
  ELSE \E i \in DOMAIN z : z[i].at = r.at /\ z[i].viable = r.viable

Written(s, z) == \A i \in DOMAIN s : Witnessed(s[i], z)

\* The first evaluation after a viable row left a row, if the refresh did not before, or
\* a restart on a young host, at an instant of C, lies between.
Told(s, z, C) ==
  \A j \in DOMAIN s, i \in DOMAIN z :
    s[j].viable /\ s[j].at < z[i].at =>
      \/ j < Len(s) /\ s[j + 1].at <= z[i].at
      \/ \E c \in C : s[j].at < c /\ c <= z[i].at

\* Does the latest row leave a window open?
LeftOpen(s) == Len(s) > 0 /\ s[Len(s)].viable

\* Was there such a restart since?
Cold(s, C) == \E c \in C : s[Len(s)].at < c

Accurate ==
  \A p \in Pair : /\ InTime(rows[p], seen[p], now) /\ Written(rows[p], seen[p])
                  /\ ~lost => Told(rows[p], seen[p], coldStarts)

\* After a viable row the collector knows that the window is open, unless it restarted;
\* then the first evaluation leaves a row, unless it restarted on a young host.
Remembers ==
  ~lost => \A p \in Pair : LeftOpen(rows[p]) /\ ~Cold(rows[p], coldStarts) =>
             IF p \in DOMAIN memory THEN memory[p] ELSE ~young

IInv == Typed /\ Accurate /\ Remembers

-----------------------------------------------------------------------------
(* A row, an evaluation, or both, added to those of a pair                 *)

LEMMA Extended ==
  ASSUME NEW S, NEW s \in Seq(S), NEW r \in S
  PROVE  /\ Append(s, r) \in Seq(S) /\ Len(s) \in Nat /\ Len(Append(s, r)) = Len(s) + 1
         /\ DOMAIN s = 1..Len(s) /\ DOMAIN Append(s, r) = 1..(Len(s) + 1)
         /\ \A i \in 1..Len(s) : Append(s, r)[i] = s[i]
         /\ Append(s, r)[Len(s) + 1] = r
BY AppendProperties, LenProperties

LEMMA RowAt ==
  ASSUME NEW s \in Seq(Row), NEW i \in DOMAIN s
  PROVE  s[i] \in Row /\ s[i].at \in Nat /\ s[i].viable \in BOOLEAN
<1>1. s[i] \in Row  BY ElementOfSeq, LenProperties
<1>2. QED  BY <1>1 DEF Row

LEMMA EvaluationAt ==
  ASSUME NEW z \in Seq(Evaluation), NEW i \in DOMAIN z
  PROVE  z[i] \in Evaluation /\ z[i].at \in Nat /\ z[i].viable \in BOOLEAN
<1>1. z[i] \in Evaluation  BY ElementOfSeq, LenProperties
<1>2. QED  BY <1>1 DEF Evaluation

LEMMA InTimeLater ==
  ASSUME NEW s \in Seq(Row), NEW z \in Seq(Evaluation), NEW t \in Nat, InTime(s, z, t)
  PROVE  InTime(s, z, t + 1)
<1>1. \A i \in DOMAIN s : s[i].at \in Nat  BY RowAt
<1>2. \A i \in DOMAIN z : z[i].at \in Nat  BY EvaluationAt
<1>3. QED  BY <1>1, <1>2 DEF InTime

LEMMA RowInTime ==
  ASSUME NEW s \in Seq(Row), NEW z \in Seq(Evaluation), NEW t \in Nat, InTime(s, z, t),
         NEW r \in Row, r.at = t + 1
  PROVE  InTime(Append(s, r), z, t + 1)
<1>1. \A i \in DOMAIN s : s[i].at \in Nat  BY RowAt
<1>2. InTime(s, z, t + 1)  BY InTimeLater
<1> DEFINE q == Append(s, r)
<1>3. /\ Len(s) \in Nat /\ DOMAIN s = 1..Len(s) /\ DOMAIN q = 1..(Len(s) + 1)
      /\ \A i \in 1..Len(s) : q[i] = s[i]
      /\ q[Len(s) + 1] = r
  BY Extended
<1> HIDE DEF q
<1>4. InOrder(q)
  <2> SUFFICES ASSUME NEW i \in DOMAIN q, NEW j \in DOMAIN q, i < j PROVE q[i].at < q[j].at
    BY DEF InOrder
  <2>1. i \in 1..Len(s) /\ q[i] = s[i] /\ s[i].at \in Nat /\ s[i].at <= t
    BY <1>1, <1>3 DEF InTime
  <2>2. CASE j = Len(s) + 1  BY <1>3, <2>1, <2>2
  <2>3. CASE j # Len(s) + 1
    <3>1. j \in DOMAIN s /\ q[j] = s[j]  BY <1>3, <2>3
    <3>2. QED  BY <1>3, <2>1, <3>1 DEF InTime, InOrder
  <2>4. QED  BY <2>2, <2>3
<1>5. ASSUME NEW i \in DOMAIN q PROVE q[i].at <= t + 1
  <2>1. CASE i = Len(s) + 1  BY <1>3, <2>1
  <2>2. CASE i # Len(s) + 1  BY <1>2, <1>3, <2>2 DEF InTime
  <2>3. QED  BY <2>1, <2>2
<1>6. InTime(q, z, t + 1)  BY <1>2, <1>4, <1>5 DEF InTime
<1>7. QED  BY <1>6 DEF q

LEMMA EvaluationInTime ==
  ASSUME NEW s \in Seq(Row), NEW z \in Seq(Evaluation), NEW t \in Nat, InTime(s, z, t),
         NEW e \in Evaluation, e.at \in 0..t
  PROVE  InTime(s, Append(z, e), t)
<1> DEFINE y == Append(z, e)
<1>1. /\ Len(z) \in Nat /\ DOMAIN z = 1..Len(z) /\ DOMAIN y = 1..(Len(z) + 1)
      /\ \A i \in 1..Len(z) : y[i] = z[i]
      /\ y[Len(z) + 1] = e
  BY Extended
<1> HIDE DEF y
<1>2. ASSUME NEW i \in DOMAIN y PROVE y[i].at <= t
  <2>1. CASE i = Len(z) + 1  BY <1>1, <2>1
  <2>2. CASE i # Len(z) + 1  BY <1>1, <2>2 DEF InTime
  <2>3. QED  BY <2>1, <2>2
<1>3. InTime(s, y, t)  BY <1>2 DEF InTime
<1>4. QED  BY <1>3 DEF y

LEMMA RowWritten ==
  ASSUME NEW s \in Seq(Row), NEW z, Written(s, z), NEW r \in Row, Witnessed(r, z)
  PROVE  Written(Append(s, r), z)
<1> DEFINE q == Append(s, r)
<1>1. /\ Len(s) \in Nat /\ DOMAIN s = 1..Len(s) /\ DOMAIN q = 1..(Len(s) + 1)
      /\ \A i \in 1..Len(s) : q[i] = s[i]
      /\ q[Len(s) + 1] = r
  BY Extended
<1> HIDE DEF q
<1>2. ASSUME NEW i \in DOMAIN q PROVE Witnessed(q[i], z)
  <2>1. CASE i = Len(s) + 1  BY <1>1, <2>1
  <2>2. CASE i # Len(s) + 1  BY <1>1, <2>2 DEF Written
  <2>3. QED  BY <2>1, <2>2
<1>3. Written(q, z)  BY <1>2 DEF Written
<1>4. QED  BY <1>3 DEF q

LEMMA EvaluationWritten ==
  ASSUME NEW s, NEW z \in Seq(Evaluation), Written(s, z), NEW e \in Evaluation
  PROVE  Written(s, Append(z, e))
<1> DEFINE y == Append(z, e)
<1>1. /\ Len(z) \in Nat /\ DOMAIN z = 1..Len(z) /\ DOMAIN y = 1..(Len(z) + 1)
      /\ \A i \in 1..Len(z) : y[i] = z[i]
  BY Extended
<1> HIDE DEF y
<1>2. ASSUME NEW i \in DOMAIN s PROVE Witnessed(s[i], y)
  <2>1. Witnessed(s[i], z)  BY DEF Written
  <2>2. QED  BY <1>1, <2>1 DEF Witnessed
<1>3. Written(s, y)  BY <1>2 DEF Written
<1>4. QED  BY <1>3 DEF y

LEMMA RowTold ==
  ASSUME NEW s \in Seq(Row), NEW z \in Seq(Evaluation), NEW t \in Nat, InTime(s, z, t),
         NEW C, Told(s, z, C), NEW r \in Row, r.at = t + 1
  PROVE  Told(Append(s, r), z, C)
<1> DEFINE q == Append(s, r)
<1>1. /\ Len(s) \in Nat /\ DOMAIN s = 1..Len(s) /\ DOMAIN q = 1..(Len(s) + 1)
      /\ \A i \in 1..Len(s) : q[i] = s[i]
      /\ q[Len(s) + 1] = r /\ Len(q) = Len(s) + 1
  BY Extended
<1>2. \A i \in DOMAIN z : z[i].at \in Nat  BY EvaluationAt
<1> HIDE DEF q
<1>3. ASSUME NEW j \in DOMAIN q, NEW i \in DOMAIN z, q[j].viable, q[j].at < z[i].at
      PROVE  \/ j < Len(q) /\ q[j + 1].at <= z[i].at
             \/ \E c \in C : q[j].at < c /\ c <= z[i].at
  <2>1. j \in 1..Len(s)
    <3>1. z[i].at <= t  BY DEF InTime
    <3>2. QED  BY <1>1, <1>2, <1>3, <3>1
  <2>2. q[j] = s[j] /\ j \in DOMAIN s  BY <1>1, <2>1
  <2>3. \/ j < Len(s) /\ s[j + 1].at <= z[i].at
        \/ \E c \in C : s[j].at < c /\ c <= z[i].at
    BY <1>3, <2>2 DEF Told
  <2>4. QED  BY <1>1, <2>1, <2>2, <2>3
<1>4. Told(q, z, C)  BY <1>3 DEF Told
<1>5. QED  BY <1>4 DEF q

\* An evaluation that finds the latest row no longer open, or a restart on a young host
\* after it, is told by the row after it or that restart.
LEMMA EvaluationTold ==
  ASSUME NEW s \in Seq(Row), NEW z \in Seq(Evaluation), NEW t \in Nat,
         \A i \in DOMAIN s : s[i].at <= t,
         NEW C, \A c \in C : c \in Nat /\ c <= t, Told(s, z, C),
         NEW e \in Evaluation, e.at = t,
         ~LeftOpen(s) \/ Cold(s, C) \/ s[Len(s)].at = t
  PROVE  Told(s, Append(z, e), C)
<1> DEFINE y == Append(z, e)
<1>1. /\ Len(z) \in Nat /\ DOMAIN z = 1..Len(z) /\ DOMAIN y = 1..(Len(z) + 1)
      /\ \A i \in 1..Len(z) : y[i] = z[i]
      /\ y[Len(z) + 1] = e
  BY Extended
<1>2. Len(s) \in Nat /\ DOMAIN s = 1..Len(s) /\ \A i \in DOMAIN s : s[i].at \in Nat
  BY RowAt, LenProperties
<1> HIDE DEF y
<1>3. ASSUME NEW j \in DOMAIN s, NEW i \in DOMAIN y, s[j].viable, s[j].at < y[i].at
      PROVE  \/ j < Len(s) /\ s[j + 1].at <= y[i].at
             \/ \E c \in C : s[j].at < c /\ c <= y[i].at
  <2>1. CASE i \in DOMAIN z  BY <1>1, <1>3, <2>1 DEF Told
  <2>2. CASE i = Len(z) + 1
    <3>1. y[i].at = t  BY <1>1, <2>2
    <3>2. CASE j # Len(s)  BY <1>2, <3>1, <3>2
    <3>3. CASE j = Len(s)
      <4>1. LeftOpen(s) /\ s[Len(s)].at < t  BY <1>2, <1>3, <3>1, <3>3 DEF LeftOpen
      <4>2. s[Len(s)].at # t  BY <1>2, <3>3, <4>1
      <4>3. \E c \in C : s[Len(s)].at < c  BY <4>1, <4>2 DEF Cold
      <4>4. QED  BY <3>1, <3>3, <4>3
    <3>4. QED  BY <3>2, <3>3
  <2>3. QED  BY <1>1, <2>1, <2>2
<1>4. Told(s, y, C)  BY <1>3 DEF Told
<1>5. QED  BY <1>4 DEF y

\* More restarts tell no less.
LEMMA ToldMore ==
  ASSUME NEW s, NEW z, NEW C, NEW D, C \subseteq D, Told(s, z, C)
  PROVE  Told(s, z, D)
BY DEF Told

-----------------------------------------------------------------------------
(* The invariant                                                           *)

LEMMA InitInv == Init => IInv
<1> SUFFICES ASSUME Init PROVE IInv  OBVIOUS
<1>1. /\ now = 0 /\ lost = FALSE /\ index \subseteq Pair /\ memory = <<>>
      /\ young \in BOOLEAN /\ coldStarts = {}
      /\ rows = [p \in Pair |-> <<>>] /\ seen = [p \in Pair |-> <<>>]
  BY DEF Init
<1>2. \A S : <<>> \in Seq(S)  BY EmptySeq
<1>3. Len(<<>>) = 0 /\ DOMAIN <<>> = {}  BY EmptySeq
<1>4. memory \in [DOMAIN memory -> BOOLEAN]  BY <1>1, <1>3
<1>5. Typed  BY <1>1, <1>2, <1>3, <1>4 DEF Typed
<1>6. Accurate  BY <1>1, <1>3 DEF Accurate, InTime, InOrder, Written, Told
<1>7. Remembers  BY <1>1, <1>3 DEF Remembers, LeftOpen
<1>8. QED  BY <1>5, <1>6, <1>7 DEF IInv

\* What the pairs that a step does not speak of keep.
LEMMA KeptAccurate ==
  ASSUME IInv, now' = now + 1, NEW p \in Pair, lost' \/ ~lost,
         rows'[p] = rows[p], seen'[p] = seen[p], lost => lost', coldStarts \subseteq coldStarts'
  PROVE  /\ InTime(rows'[p], seen'[p], now') /\ Written(rows'[p], seen'[p])
         /\ ~lost' => Told(rows'[p], seen'[p], coldStarts')
<1>1. rows[p] \in Seq(Row) /\ seen[p] \in Seq(Evaluation) /\ now \in Nat
  BY DEF IInv, Typed
<1>2. /\ InTime(rows[p], seen[p], now) /\ Written(rows[p], seen[p])
      /\ ~lost => Told(rows[p], seen[p], coldStarts)
  BY DEF IInv, Accurate
<1>3. InTime(rows[p], seen[p], now + 1)  BY <1>1, <1>2, InTimeLater
<1>4. ~lost' => Told(rows[p], seen[p], coldStarts')  BY <1>2, ToldMore
<1>5. QED  BY <1>2, <1>3, <1>4

\* An evaluated pair, whether its row is written, not due, or lost.
LEMMA EvaluateInv ==
  ASSUME IInv, NEW p \in Pair, NEW viable \in BOOLEAN, NEW since \in BOOLEAN,
         Evaluate(p, viable, since)
  PROVE  IInv'
<1> DEFINE e == [at |-> now + 1, viable |-> viable]
           r == [at |-> now + 1, viable |-> viable, reason |-> ReasonOf(p, viable)]
           s == rows[p]
           z == seen[p]
<1>1. /\ s \in Seq(Row) /\ z \in Seq(Evaluation) /\ now \in Nat /\ now' = now + 1
      /\ e \in Evaluation /\ r \in Row /\ r.reason # "UNSUBSCRIBED"
  BY DEF IInv, Typed, Evaluate, Instant, Row, Evaluation, ReasonOf
<1>2. /\ seen' = [seen EXCEPT ![p] = Append(z, e)] /\ Append(z, e) \in Seq(Evaluation)
  <2>1. seen' = [seen EXCEPT ![p] = Append(z, e)]  BY <1>1 DEF Evaluate
  <2>2. QED  BY <1>1, <2>1, AppendProperties
<1>3. \/ Due(p, viable, since) /\ rows' = [rows EXCEPT ![p] = Append(s, r)] /\ UNCHANGED lost
      \/ ~Due(p, viable, since) /\ UNCHANGED <<rows, lost>>
      \/ lost' = TRUE /\ UNCHANGED rows
  <2>1. CASE Due(p, viable, since) /\ rows' = [rows EXCEPT ![p] =
                 Append(@, [at |-> now', viable |-> viable, reason |-> ReasonOf(p, viable)])] /\ UNCHANGED lost
    BY <1>1, <2>1
  <2>2. CASE ~Due(p, viable, since) /\ rows' = [rows EXCEPT ![p] = @] /\ UNCHANGED lost
    <3>1. rows' = rows  BY <2>2 DEF IInv, Typed
    <3>2. QED  BY <2>2, <3>1
  <2>3. CASE lost' = TRUE /\ UNCHANGED rows
    BY <2>3
  <2>4. QED  BY <2>1, <2>2, <2>3 DEF Evaluate
<1>4. /\ InTime(s, z, now) /\ Written(s, z) /\ InTime(s, z, now + 1)
      /\ ~lost => Told(s, z, coldStarts)
  BY <1>1, InTimeLater DEF IInv, Accurate
<1>0. coldStarts' = coldStarts /\ young' = young /\ index' = index  BY DEF Evaluate
<1>14. \A c \in coldStarts : c \in Nat /\ c <= now + 1
  <2>1. coldStarts \subseteq 0..now  BY DEF IInv, Typed
  <2>2. QED  BY <1>1, <2>1
<1>5. /\ e.at = now + 1 /\ e.viable = viable /\ r.at = now + 1 /\ r.viable = viable
  OBVIOUS
<1>6. rows \in [Pair -> Seq(Row)] /\ seen \in [Pair -> Seq(Evaluation)]  BY DEF IInv, Typed
<1> HIDE DEF e, r, s, z
<1>7. InTime(s, Append(z, e), now + 1) /\ Written(s, Append(z, e))
  <2>1. now + 1 \in Nat /\ e.at \in 0..(now + 1)  BY <1>1, <1>5
  <2>2. QED  BY <1>1, <1>4, <2>1, EvaluationInTime, EvaluationWritten
<1>13. ASSUME ~lost, ~Due(p, viable, since)
       PROVE  ~LeftOpen(rows[p]) \/ Cold(rows[p], coldStarts)
  <2>1. ~Was(p) /\ (p \in DOMAIN memory \/ young)  BY <1>13 DEF Due, Evaluate
  <2>2. LeftOpen(rows[p]) /\ ~Cold(rows[p], coldStarts) =>
          IF p \in DOMAIN memory THEN memory[p] ELSE ~young
    BY <1>13 DEF IInv, Remembers
  <2>3. CASE p \in DOMAIN memory  BY <2>1, <2>2, <2>3 DEF Was
  <2>4. CASE p \notin DOMAIN memory  BY <2>1, <2>2, <2>4
  <2>5. QED  BY <2>3, <2>4
<1>8. Typed'
  <2>1. rows' \in [Pair -> Seq(Row)]
    <3>1. Append(s, r) \in Seq(Row)  BY <1>1, AppendProperties
    <3>2. QED  BY <1>3, <1>6, <3>1
  <2>2. seen' \in [Pair -> Seq(Evaluation)]  BY <1>2, <1>6
  <2>3. memory' \in [DOMAIN memory' -> BOOLEAN]
    BY DEF Evaluate, IInv, Typed
  <2>4. now' \in Nat /\ lost' \in BOOLEAN /\ young' \in BOOLEAN /\ index' \subseteq Pair
    <3>1. now \in Nat /\ lost \in BOOLEAN /\ young \in BOOLEAN /\ index \subseteq Pair
      BY DEF IInv, Typed
    <3>2. now' \in Nat  BY <1>1, <3>1
    <3>3. lost' \in BOOLEAN  BY <1>3, <3>1
    <3>4. QED  BY <1>0, <3>1, <3>2, <3>3
  <2>5. coldStarts' \subseteq 0..now'  BY <1>0, <1>1, <1>14
  <2>6. DOMAIN memory' \subseteq index'  BY <1>0 DEF Evaluate, IInv, Typed
  <2>7. QED  BY <2>1, <2>2, <2>3, <2>4, <2>5, <2>6 DEF Typed
<1>9. ASSUME NEW q \in Pair
      PROVE  /\ InTime(rows'[q], seen'[q], now') /\ Written(rows'[q], seen'[q])
             /\ ~lost' => Told(rows'[q], seen'[q], coldStarts')
  <2>1. CASE q # p
    <3>1. rows'[q] = rows[q] /\ seen'[q] = seen[q] /\ (lost => lost')
      BY <1>2, <1>3, <1>6, <2>1 DEF IInv, Typed
    <3>2. QED  BY <1>0, <1>1, <3>1, KeptAccurate DEF IInv, Typed
  <2>2. CASE q = p /\ Due(p, viable, since) /\ rows' = [rows EXCEPT ![p] = Append(s, r)] /\ UNCHANGED lost
    <3> DEFINE y == Append(z, e)
               x == Append(s, r)
    <3>0. now + 1 \in Nat /\ e.at \in 0..(now + 1)  BY <1>1, <1>5
    <3>1. rows'[q] = x /\ seen'[q] = y /\ lost' = lost
      BY <1>2, <1>6, <2>2
    <3>2. /\ x \in Seq(Row) /\ y \in Seq(Evaluation) /\ DOMAIN y = 1..(Len(z) + 1) /\ y[Len(z) + 1] = e
          /\ Len(x) = Len(s) + 1 /\ x[Len(s) + 1] = r /\ DOMAIN x = 1..(Len(s) + 1) /\ Len(z) \in Nat
      BY <1>1, Extended
    <3>3. InTime(x, z, now + 1)  BY <1>1, <1>4, <1>5, RowInTime
    <3>4. InTime(x, y, now + 1)  BY <1>1, <3>0, <3>2, <3>3, EvaluationInTime
    <3>5. Witnessed(r, y)  BY <1>1, <1>5, <3>2 DEF Witnessed
    <3>6. Written(x, y)  BY <1>1, <1>7, <3>5, RowWritten
    <3>7. ASSUME ~lost' PROVE Told(x, y, coldStarts)
      <4>1. Told(x, z, coldStarts)  BY <1>1, <1>4, <1>5, <3>1, <3>7, RowTold
      <4>2. \A i \in DOMAIN x : x[i].at <= now + 1  BY <3>3 DEF InTime
      <4>3. x[Len(x)].at = now + 1  BY <1>5, <3>2
      <4> HIDE DEF x
      <4>4. QED  BY <1>1, <1>5, <1>14, <3>0, <3>2, <4>1, <4>2, <4>3, EvaluationTold
    <3>8. QED  BY <1>0, <1>1, <3>1, <3>4, <3>6, <3>7
  <2>3. CASE q = p /\ UNCHANGED rows /\ (lost' = TRUE \/ (~Due(p, viable, since) /\ UNCHANGED lost))
    <3>1. rows'[q] = s /\ seen'[q] = Append(z, e)
      BY <1>2, <1>6, <2>3 DEF s
    <3>2. ASSUME ~lost' PROVE Told(s, Append(z, e), coldStarts)
      <4>1. ~lost /\ ~Due(p, viable, since)  BY <2>3, <3>2 DEF IInv, Typed
      <4>2. ~LeftOpen(s) \/ Cold(s, coldStarts)  BY <1>13, <4>1 DEF s
      <4>3. \A i \in DOMAIN s : s[i].at <= now + 1  BY <1>4 DEF InTime
      <4>4. now + 1 \in Nat  BY <1>1
      <4>5. QED  BY <1>1, <1>4, <1>5, <1>14, <4>1, <4>2, <4>3, <4>4, EvaluationTold
    <3>3. QED  BY <1>0, <1>1, <1>7, <3>1, <3>2
  <2>4. QED  BY <1>3, <2>1, <2>2, <2>3
<1>10. Accurate'  BY <1>9 DEF Accurate
<1>11. Remembers'
  <2> SUFFICES ASSUME ~lost', NEW q \in Pair, LeftOpen(rows'[q]), ~Cold(rows'[q], coldStarts')
               PROVE  IF q \in DOMAIN memory' THEN memory'[q] ELSE ~young'
    BY DEF Remembers
  <2>1. /\ DOMAIN memory' = DOMAIN memory \cup {p} /\ memory'[p] = viable
        /\ \A x \in DOMAIN memory : x # p => memory'[x] = memory[x]
    BY DEF Evaluate
  <2>2. ~lost  BY <1>3 DEF IInv, Typed
  <2>3. CASE q # p
    <3>1. rows'[q] = rows[q]  BY <1>3, <1>6, <2>3
    <3>2. IF q \in DOMAIN memory THEN memory[q] ELSE ~young
      BY <1>0, <2>2, <3>1 DEF IInv, Remembers
    <3>3. CASE q \in DOMAIN memory  BY <2>1, <2>3, <3>2, <3>3
    <3>4. CASE q \notin DOMAIN memory  BY <1>0, <2>1, <2>3, <3>2, <3>4
    <3>5. QED  BY <3>3, <3>4
  <2>4. CASE q = p /\ Due(p, viable, since) /\ rows' = [rows EXCEPT ![p] = Append(s, r)]
    <3>1. rows'[p] = Append(s, r)  BY <1>6, <2>4
    <3>2. Append(s, r)[Len(Append(s, r))] = r  BY <1>1, Extended
    <3>3. viable  BY <1>5, <2>4, <3>1, <3>2 DEF LeftOpen
    <3>4. QED  BY <2>1, <2>4, <3>3
  <2>5. CASE q = p /\ ~Due(p, viable, since) /\ UNCHANGED rows
    BY <1>0, <1>13, <2>2, <2>5
  <2>6. QED  BY <1>3, <2>3, <2>4, <2>5
<1>12. QED  BY <1>8, <1>10, <1>11 DEF IInv

\* The refresh leaves a marker of the pairs it cuts off and what it remembers of the rest.
LEMMA RefreshInv ==
  ASSUME IInv, NEW new \in SUBSET Pair, Refresh(new)
  PROVE  IInv'
<1> DEFINE cut == {p \in index \ new : Was(p)}
           r == [at |-> now + 1, viable |-> FALSE, reason |-> "UNSUBSCRIBED"]
<1>1. /\ now \in Nat /\ now' = now + 1 /\ r \in Row /\ seen' = seen /\ lost' = lost
      /\ index' = new /\ lost \in BOOLEAN
      /\ memory' = [p \in DOMAIN memory \cap new |-> memory[p]]
      /\ young' = young /\ coldStarts' = coldStarts
  BY DEF IInv, Typed, Refresh, Instant, Row, KeptMemory
<1>2. rows' = [p \in Pair |-> IF p \in cut THEN Append(rows[p], r) ELSE rows[p]]
  BY <1>1 DEF Refresh, CloseReason
<1>3. r.at = now + 1 /\ ~r.viable /\ r.reason = "UNSUBSCRIBED"  OBVIOUS
<1>4. rows \in [Pair -> Seq(Row)] /\ seen \in [Pair -> Seq(Evaluation)]  BY DEF IInv, Typed
<1>5. Typed'
  <2>1. ASSUME NEW p \in Pair PROVE rows'[p] \in Seq(Row)
    <3>1. Append(rows[p], r) \in Seq(Row)  BY <1>1, <1>4, AppendProperties
    <3>2. QED  BY <1>2, <1>4, <3>1
  <2>2. rows' \in [Pair -> Seq(Row)]  BY <1>2, <2>1
  <2>3. memory' \in [DOMAIN memory' -> BOOLEAN]  BY <1>1 DEF IInv, Typed
  <2>4. coldStarts' \subseteq 0..now' /\ young' \in BOOLEAN
    <3>1. coldStarts \subseteq 0..now  BY DEF IInv, Typed
    <3>2. coldStarts' \subseteq 0..now'  BY <1>1, <3>1
    <3>3. QED  BY <1>1, <3>2 DEF IInv, Typed
  <2>5. now' \in Nat /\ DOMAIN memory' \subseteq index'  BY <1>1
  <2>6. QED  BY <1>1, <1>4, <2>2, <2>3, <2>4, <2>5 DEF Typed
<1> HIDE DEF r
<1>6. ASSUME NEW p \in Pair
      PROVE  /\ InTime(rows'[p], seen'[p], now') /\ Written(rows'[p], seen'[p])
             /\ ~lost' => Told(rows'[p], seen'[p], coldStarts')
  <2>1. CASE p \in cut
    <3>1. rows'[p] = Append(rows[p], r)  BY <1>2, <2>1
    <3>2. /\ InTime(rows[p], seen[p], now) /\ Written(rows[p], seen[p])
          /\ ~lost => Told(rows[p], seen[p], coldStarts)
      BY DEF IInv, Accurate
    <3>3. InTime(Append(rows[p], r), seen[p], now + 1)  BY <1>1, <1>3, <1>4, <3>2, RowInTime
    <3>4. Witnessed(r, seen[p])  BY <1>3 DEF Witnessed
    <3>5. Written(Append(rows[p], r), seen[p])  BY <1>1, <1>4, <3>2, <3>4, RowWritten
    <3>6. ~lost => Told(Append(rows[p], r), seen[p], coldStarts)  BY <1>1, <1>3, <1>4, <3>2, RowTold
    <3>7. QED  BY <1>1, <3>1, <3>3, <3>5, <3>6
  <2>2. CASE p \notin cut
    <3>1. rows'[p] = rows[p] /\ seen'[p] = seen[p]  BY <1>1, <1>2, <2>2
    <3>2. QED  BY <1>1, <3>1, KeptAccurate
  <2>3. QED  BY <2>1, <2>2
<1>7. Accurate'  BY <1>6 DEF Accurate
<1>8. Remembers'
  <2> SUFFICES ASSUME ~lost', NEW p \in Pair, LeftOpen(rows'[p]), ~Cold(rows'[p], coldStarts')
               PROVE  IF p \in DOMAIN memory' THEN memory'[p] ELSE ~young'
    BY DEF Remembers
  <2>1. p \notin cut
    <3> SUFFICES ASSUME p \in cut PROVE FALSE  OBVIOUS
    <3>1. rows'[p] = Append(rows[p], r)  BY <1>2
    <3>2. Append(rows[p], r)[Len(Append(rows[p], r))] = r  BY <1>1, <1>4, Extended
    <3>3. QED  BY <1>3, <3>1, <3>2 DEF LeftOpen
  <2>2. rows'[p] = rows[p]  BY <1>2, <2>1
  <2>3. IF p \in DOMAIN memory THEN memory[p] ELSE ~young
    BY <1>1, <2>2 DEF IInv, Remembers
  <2>4. CASE p \in DOMAIN memory'  BY <1>1, <2>3, <2>4
  <2>5. CASE p \notin DOMAIN memory /\ p \notin DOMAIN memory'  BY <1>1, <2>3, <2>5
  <2>6. p \in DOMAIN memory => p \in DOMAIN memory'
    <3> SUFFICES ASSUME p \in DOMAIN memory, p \notin new PROVE FALSE  BY <1>1
    <3>1. p \in index  BY DEF IInv, Typed
    <3>2. QED  BY <2>1, <2>3, <3>1 DEF Was
  <2>7. QED  BY <2>4, <2>5, <2>6
<1>9. QED  BY <1>5, <1>7, <1>8 DEF IInv

\* A restart forgets the windows; on a young host that may leave their close untold.
LEMMA RestartInv ==
  ASSUME IInv, NEW onYoungHost \in BOOLEAN, Restart(onYoungHost)
  PROVE  IInv'
<1>1. /\ now \in Nat /\ now' = now + 1 /\ rows' = rows /\ seen' = seen /\ lost' = lost
      /\ index' = index /\ memory' = <<>> /\ DOMAIN <<>> = {} /\ young' = onYoungHost
  BY EmptySeq DEF IInv, Typed, Restart, Instant
<1>2. coldStarts' = IF onYoungHost THEN coldStarts \cup {now + 1} ELSE coldStarts
  BY <1>1 DEF Restart
<1>3. coldStarts \subseteq 0..now  BY DEF IInv, Typed
<1>4. Typed'
  <2>1. coldStarts' \subseteq 0..now'  BY <1>1, <1>2, <1>3
  <2>2. memory' \in [DOMAIN memory' -> BOOLEAN]
    <3>1. <<>> \in [{} -> BOOLEAN]  BY <1>1
    <3>2. QED  BY <1>1, <3>1
  <2>3. now' \in Nat  BY <1>1
  <2>4. QED  BY <1>1, <2>1, <2>2, <2>3 DEF IInv, Typed
<1>5. Accurate'
  <2>1. coldStarts \subseteq coldStarts'  BY <1>2
  <2>2. QED  BY <1>1, <2>1, KeptAccurate DEF Accurate
<1>6. Remembers'
  <2> SUFFICES ASSUME NEW p \in Pair, LeftOpen(rows[p]), ~Cold(rows[p], coldStarts')
               PROVE  ~onYoungHost
    BY <1>1 DEF Remembers
  <2> DEFINE last == rows[p][Len(rows[p])].at
  <2>1. rows[p] \in Seq(Row) /\ InTime(rows[p], seen[p], now)  BY DEF IInv, Typed, Accurate
  <2>2. Len(rows[p]) \in DOMAIN rows[p]  BY <2>1, LenProperties DEF LeftOpen
  <2>3. last \in Nat /\ last <= now  BY <2>1, <2>2, RowAt DEF InTime
  <2> HIDE DEF last
  <2>4. last < now + 1  BY <1>1, <2>3
  <2>5. now + 1 \notin coldStarts'  BY <2>4 DEF Cold, last
  <2>6. QED  BY <1>2, <2>5
<1>7. QED  BY <1>4, <1>5, <1>6 DEF IInv

LEMMA Invariance == Spec => []IInv
<1>1. IInv /\ [Next]_vars => IInv'
  <2> SUFFICES ASSUME IInv, [Next]_vars PROVE IInv'  OBVIOUS
  <2>1. ASSUME NEW p \in Pair, NEW viable \in BOOLEAN, NEW since \in BOOLEAN,
               Evaluate(p, viable, since)
        PROVE  IInv'
    BY <2>1, EvaluateInv
  <2>2. ASSUME NEW new \in SUBSET Pair, Refresh(new) PROVE IInv'
    BY <2>2, RefreshInv
  <2>3. ASSUME NEW onYoungHost \in BOOLEAN, Restart(onYoungHost) PROVE IInv'
    BY <2>3, RestartInv
  <2>4. CASE UNCHANGED vars
    BY <2>4 DEF vars, IInv, Typed, Accurate, Remembers
  <2>5. QED  BY <2>1, <2>2, <2>3, <2>4 DEF Next
<1>2. QED  BY InitInv, <1>1, PTL DEF Spec

-----------------------------------------------------------------------------
(* The curve                                                               *)

LEMMA LeastOfOrder ==
  ASSUME NEW R, IsWellFoundedOn(R, Nat),
         \A x, y \in Nat : y < x => <<y, x>> \in R,
         NEW T, T \subseteq Nat, T # {}
  PROVE  \E x \in T : \A y \in T : x <= y
<1>1. PICK x \in T : \A y \in T : ~(<<y, x>> \in R)
  BY WFMin, Zenon
<1>2. ASSUME NEW y \in T  PROVE x <= y
  <2>1. ~(y < x)  BY <1>1
  <2>2. QED  BY <2>1
<1>3. QED  BY <1>2

\* A set of naturals that is not empty has a least element.
LEMMA LeastNatural ==
  ASSUME NEW T, T \subseteq Nat, T # {}
  PROVE  \E x \in T : \A y \in T : x <= y
<1>1. IsWellFoundedOn(OpToRel(<, Nat), Nat)  BY NatLessThanWellFounded
<1>2. \A x, y \in Nat : y < x => <<y, x>> \in OpToRel(<, Nat)  BY DEF OpToRel
<1>3. QED  BY <1>1, <1>2, LeastOfOrder

\* The rows of a period, in order, are rows of the pair.
LEMMA PeriodIs ==
  ASSUME NEW s \in Seq(Row), NEW k \in DOMAIN s
  PROVE  /\ From(s, k) \in Seq(Row) /\ k \in 1..Len(s) /\ Len(s) \in Nat
         /\ Len(From(s, k)) = Len(s) - k + 1
         /\ \A i \in 1..(Len(s) - k + 1) : From(s, k)[i] = s[k + i - 1]
<1>1. k \in 1..Len(s) /\ Len(s) \in Nat  BY LenProperties
<1>2. \A i \in k..Len(s) : s[i] \in Row  BY <1>1, RowAt
<1>3. QED  BY <1>1, <1>2, SubSeqProperties DEF From

LEMMA PeriodInOrder ==
  ASSUME NEW s \in Seq(Row), NEW k \in DOMAIN s, InOrder(s)
  PROVE  InOrder(From(s, k))
<1> DEFINE q == From(s, k)
<1>1. /\ q \in Seq(Row) /\ k \in 1..Len(s) /\ Len(s) \in Nat /\ Len(q) = Len(s) - k + 1
      /\ \A i \in 1..(Len(s) - k + 1) : q[i] = s[k + i - 1]
  BY PeriodIs
<1>2. DOMAIN q = 1..(Len(s) - k + 1) /\ DOMAIN s = 1..Len(s)  BY <1>1, LenProperties
<1> HIDE DEF q
<1>3. ASSUME NEW i \in DOMAIN q, NEW j \in DOMAIN q, i < j PROVE q[i].at < q[j].at
  <2>1. k + i - 1 \in DOMAIN s /\ k + j - 1 \in DOMAIN s /\ k + i - 1 < k + j - 1
    BY <1>1, <1>2, <1>3
  <2>2. QED  BY <1>1, <1>2, <2>1 DEF InOrder
<1>4. InOrder(q)  BY <1>3 DEF InOrder
<1>5. QED  BY <1>4 DEF q

\* The state at an instant is that of the last row up to it.
LEMMA StateAtIs ==
  ASSUME NEW s \in Seq(Row), NEW i \in DOMAIN s, NEW target \in Nat, s[i].at <= target
  PROVE  /\ StateAt(s, i, target) \in i..Len(s)
         /\ s[StateAt(s, i, target)].at <= target
         /\ \/ StateAt(s, i, target) = Len(s)
            \/ s[StateAt(s, i, target) + 1].at > target
<1>1. i \in 1..Len(s) /\ Len(s) \in Nat /\ DOMAIN s = 1..Len(s)  BY LenProperties
<1> DEFINE n == Len(s)
           T == {x \in Nat : n - x \in i..n /\ s[n - x].at <= target}
<1>2. n - i \in T  BY <1>1
<1>3. PICK x \in T : \A y \in T : x <= y  BY <1>2, LeastNatural
<1>4. n - x \in i..n /\ s[n - x].at <= target /\ x \in Nat  BY <1>3
<1>5. n - x = n \/ s[n - x + 1].at > target
  <2> SUFFICES ASSUME n - x # n, ~(s[n - x + 1].at > target) PROVE FALSE  OBVIOUS
  <2>1. x \in Nat /\ n \in Nat /\ i \in 1..n /\ n - x \in i..n  BY <1>1, <1>4
  <2>0. x # 0  BY <2>1
  <2> DEFINE y == x - 1
             m == n - x + 1
  <2>2. y \in Nat /\ n - y = m /\ m \in i..n /\ m \in 1..n /\ ~(x <= y)
    BY <2>0, <2>1
  <2>3. s[m].at \in Nat  BY <1>1, <2>2, RowAt
  <2>4. y \in T  BY <1>2, <2>2, <2>3
  <2>5. QED  BY <1>3, <2>2, <2>4
<1>6. \E j \in i..n : s[j].at <= target /\ (j = n \/ s[j + 1].at > target)
  BY <1>4, <1>5
<1>7. QED  BY <1>6 DEF StateAt

\* A marker that the pair was cut off shows no edge.
Marked(s) == \A i \in DOMAIN s : s[i].reason = "UNSUBSCRIBED" => ~s[i].viable

\* A fate is told by one row: the last of the period up to the target.
LEMMA FateIs ==
  ASSUME NEW s \in Seq(Row), InOrder(s), Marked(s), NEW i \in Opens(s), NEW d \in Nat
  PROVE  \E j \in i..Len(s) :
           /\ j = StateAt(s, i, s[i].at + d) /\ j \in DOMAIN s /\ i \in DOMAIN s /\ s[i].viable
           /\ s[i].at <= s[j].at /\ s[j].at <= s[i].at + d
           /\ j = Len(s) \/ s[j + 1].at > s[i].at + d
           /\ Fate(s, i, d) = "shut" => s[j].reason # "UNSUBSCRIBED" /\ ~s[j].viable
           /\ Fate(s, i, d) = "survived" => s[j].reason # "UNSUBSCRIBED" /\ s[j].viable
           /\ s[j].viable /\ s[j].reason # "UNSUBSCRIBED" =>
                Fate(s, i, d) = IF s[Len(s)].at < s[i].at + d THEN "censored" ELSE "survived"
<1>1. i \in 1..Len(s) /\ Len(s) \in Nat /\ DOMAIN s = 1..Len(s) /\ s[i].viable
  BY LenProperties DEF Opens
<1>2. s[i].at \in Nat /\ s[i].at + d \in Nat /\ s[i].at <= s[i].at + d
  BY <1>1, RowAt
<1> DEFINE target == s[i].at + d
           j == StateAt(s, i, target)
<1>3. s[j].at <= target /\ (j = Len(s) \/ s[j + 1].at > target)
  BY <1>1, <1>2, StateAtIs
<1>0. j \in i..Len(s)  BY <1>1, <1>2, StateAtIs
<1> HIDE DEF j
<1>4. j \in DOMAIN s /\ (s[j].reason = "UNSUBSCRIBED" => ~s[j].viable)
  <2>1. j \in 1..Len(s)  BY <1>0, <1>1
  <2>2. QED  BY <1>1, <2>1 DEF Marked
<1>5. /\ s[j].at \in Nat /\ s[j].viable \in BOOLEAN /\ s[Len(s)].at \in Nat
  BY <1>1, <1>4, RowAt
<1>6. s[i].at <= s[j].at
  <2>1. CASE i = j  BY <1>2, <2>1
  <2>2. CASE i # j  BY <1>0, <1>1, <1>2, <1>4, <1>5, <2>2 DEF InOrder
  <2>3. QED  BY <2>1, <2>2
<1>7. Fate(s, i, d) = IF s[j].reason = "UNSUBSCRIBED" THEN "censored"
                      ELSE IF ~s[j].viable THEN "shut"
                      ELSE IF s[Len(s)].at < target THEN "censored" ELSE "survived"
  <2>1. CASE s[j].reason = "UNSUBSCRIBED"
    BY <1>4, <2>1 DEF Fate, j
  <2>2. CASE s[j].reason # "UNSUBSCRIBED" /\ ~s[j].viable
    BY <2>2 DEF Fate, j
  <2>3. CASE s[j].reason # "UNSUBSCRIBED" /\ s[j].viable /\ s[Len(s)].at < target
    <3>1. ~(s[Len(s)].at >= target)  BY <1>2, <1>5, <2>3
    <3>2. QED  BY <2>3, <3>1 DEF Fate, j, Last
  <2>4. CASE s[j].reason # "UNSUBSCRIBED" /\ s[j].viable /\ ~(s[Len(s)].at < target)
    <3>1. s[Len(s)].at >= target  BY <1>2, <1>5, <2>4
    <3>2. QED  BY <2>4, <3>1 DEF Fate, j, Last
  <2>5. QED  BY <2>1, <2>2, <2>3, <2>4
<1>8. /\ Fate(s, i, d) = "shut" => s[j].reason # "UNSUBSCRIBED" /\ ~s[j].viable
      /\ Fate(s, i, d) = "survived" => s[j].reason # "UNSUBSCRIBED" /\ s[j].viable
      /\ s[j].viable /\ s[j].reason # "UNSUBSCRIBED" =>
           Fate(s, i, d) = IF s[Len(s)].at < s[i].at + d THEN "censored" ELSE "survived"
  BY <1>2, <1>5, <1>7
<1>10. j = StateAt(s, i, s[i].at + d)  BY DEF j
<1>9. QED  BY <1>0, <1>1, <1>3, <1>4, <1>6, <1>8, <1>10

\* What the invariant says of the rows of a period of a pair.
LEMMA PeriodFacts ==
  ASSUME IInv, NEW p \in Pair, NEW k \in DOMAIN rows[p]
  PROVE  /\ From(rows[p], k) \in Seq(Row) /\ InOrder(From(rows[p], k)) /\ Marked(From(rows[p], k))
         /\ \A i \in DOMAIN From(rows[p], k) : Witnessed(From(rows[p], k)[i], seen[p])
         /\ seen[p] \in Seq(Evaluation)
<1> DEFINE s == rows[p]
           q == From(s, k)
<1>1. /\ s \in Seq(Row) /\ seen[p] \in Seq(Evaluation) /\ InOrder(s) /\ Written(s, seen[p])
  BY DEF IInv, Typed, Accurate, InTime
<1>2. /\ q \in Seq(Row) /\ k \in 1..Len(s) /\ Len(s) \in Nat /\ Len(q) = Len(s) - k + 1
      /\ \A i \in 1..(Len(s) - k + 1) : q[i] = s[k + i - 1]
  BY <1>1, PeriodIs
<1>3. InOrder(q)  BY <1>1, PeriodInOrder
<1>4. DOMAIN q = 1..(Len(s) - k + 1) /\ DOMAIN s = 1..Len(s)  BY <1>1, <1>2, LenProperties
<1> HIDE DEF q, s
<1>5. ASSUME NEW i \in DOMAIN q PROVE Witnessed(q[i], seen[p])
  <2>1. k + i - 1 \in DOMAIN s  BY <1>2, <1>4
  <2>2. QED  BY <1>1, <1>2, <1>4, <2>1 DEF Written
<1>6. Marked(q)  BY <1>5 DEF Marked, Witnessed
<1>7. QED  BY <1>1, <1>2, <1>3, <1>5, <1>6 DEF q, s

\* A window the survival curve calls shut was seen shut in time: lost rows, markers of the
\* refresh, restarts and the choice of the period never make a decay, for any pairs and
\* any number of faults.
THEOREM ReportNoManufacturedDecay == Spec => []NoManufacturedDecay
<1>1. IInv => NoManufacturedDecay
  <2> SUFFICES ASSUME IInv, NEW p \in Pair, NEW d \in 0..now, NEW k \in DOMAIN rows[p],
                      NEW i \in Opens(From(rows[p], k)), Fate(From(rows[p], k), i, d) = "shut"
               PROVE  \E e \in Range(seen[p]) :
                        /\ ~e.viable /\ From(rows[p], k)[i].at < e.at
                        /\ e.at <= From(rows[p], k)[i].at + d
    BY DEF NoManufacturedDecay
  <2> DEFINE s == From(rows[p], k)
  <2>1. /\ s \in Seq(Row) /\ InOrder(s) /\ Marked(s)
        /\ \A j \in DOMAIN s : Witnessed(s[j], seen[p])
    BY PeriodFacts
  <2>2. d \in Nat  BY DEF IInv, Typed
  <2> HIDE DEF s
  <2>3. PICK j \in i..Len(s) :
           /\ j \in DOMAIN s /\ i \in DOMAIN s /\ s[i].viable
           /\ s[i].at <= s[j].at /\ s[j].at <= s[i].at + d
           /\ s[j].reason # "UNSUBSCRIBED" /\ ~s[j].viable
    <3>1. i \in Opens(s) /\ Fate(s, i, d) = "shut"  BY DEF s
    <3>2. QED  BY <2>1, <2>2, <3>1, FateIs
  <2>4. i < j  BY <2>1, <2>3, LenProperties
  <2>5. s[i].at < s[j].at  BY <2>1, <2>3, <2>4 DEF InOrder
  <2>6. PICK x \in DOMAIN seen[p] : seen[p][x].at = s[j].at /\ seen[p][x].viable = s[j].viable
    BY <2>1, <2>3 DEF Witnessed
  <2>7. seen[p][x] \in Range(seen[p])  BY DEF Range
  <2>8. QED  BY <2>3, <2>5, <2>6, <2>7 DEF s
<1>2. QED  BY Invariance, <1>1, PTL

\* Unless a row was lost, a window the curve calls open after some time was open then:
\* the last evaluation up to that time found it so, restarts of the collector and pairs
\* dropped and added again included, but for a restart on a young host since the row that
\* the curve reads.
THEOREM ReportSurvivalFaithful == Spec => []SurvivalFaithful
<1>1. IInv => SurvivalFaithful
  <2> SUFFICES ASSUME IInv, ~lost, NEW p \in Pair, NEW d \in 0..now, NEW k \in DOMAIN rows[p],
                      NEW i \in Opens(From(rows[p], k)), Fate(From(rows[p], k), i, d) = "survived"
               PROVE  \/ OpenAt(p, From(rows[p], k)[i].at + d)
                      \/ \E c \in coldStarts :
                           /\ From(rows[p], k)[StateAt(From(rows[p], k), i,
                                                       From(rows[p], k)[i].at + d)].at < c
                           /\ c <= From(rows[p], k)[i].at + d
    BY DEF SurvivalFaithful
  <2> DEFINE s == From(rows[p], k)
             z == seen[p]
             all == rows[p]
             n == Len(all)
             end == s[i].at + d
  <2>1. /\ s \in Seq(Row) /\ InOrder(s) /\ Marked(s) /\ z \in Seq(Evaluation)
        /\ \A j \in DOMAIN s : Witnessed(s[j], z)
    BY PeriodFacts
  <2>2. d \in Nat /\ coldStarts \subseteq Nat
    <3>1. now \in Nat /\ coldStarts \subseteq 0..now  BY DEF IInv, Typed
    <3>2. QED  BY <3>1
  <2>3. /\ all \in Seq(Row) /\ k \in 1..n /\ n \in Nat /\ Len(s) = n - k + 1
        /\ \A j \in 1..(n - k + 1) : s[j] = all[k + j - 1]
    <3>1. all \in Seq(Row)  BY DEF IInv, Typed
    <3>2. QED  BY <3>1, PeriodIs
  <2>4. Told(all, z, coldStarts)  BY DEF IInv, Accurate
  <2>5. i \in Opens(s) /\ Fate(s, i, d) = "survived"  OBVIOUS
  <2>0. end = s[i].at + d  OBVIOUS
  <2> HIDE DEF s, z, all, n, end
  <2>6. PICK j \in i..Len(s) :
           /\ j = StateAt(s, i, end) /\ j \in DOMAIN s /\ i \in DOMAIN s
           /\ s[j].at <= end /\ (j = Len(s) \/ s[j + 1].at > end)
           /\ s[j].reason # "UNSUBSCRIBED" /\ s[j].viable
    BY <2>0, <2>1, <2>2, <2>5, FateIs
  <2>7. PICK x \in DOMAIN z : z[x].at = s[j].at /\ z[x].viable = s[j].viable
    BY <2>1, <2>6 DEF Witnessed
  <2> DEFINE m == k + j - 1
  <2>8. j \in 1..(n - k + 1) /\ m \in 1..n /\ s[j] = all[m]
    <3>1. j \in 1..(n - k + 1)  BY <2>1, <2>3, <2>6, LenProperties
    <3>2. QED  BY <2>3, <3>1
  <2>9. DOMAIN all = 1..Len(all) /\ n = Len(all)  BY <2>3, LenProperties DEF n
  <2>15. s[i].at \in Nat /\ end \in Nat  BY <2>0, <2>1, <2>2, <2>6, RowAt
  <2> HIDE DEF m
  <2> DEFINE cold == \E c \in coldStarts : s[j].at < c /\ c <= end
  <2> HIDE DEF cold
  <2>10. ASSUME ~cold, NEW y \in DOMAIN z PROVE z[y].at <= z[x].at \/ z[y].at > end
    <3> SUFFICES ASSUME ~(z[y].at <= z[x].at), ~(z[y].at > end) PROVE FALSE  OBVIOUS
    <3>1. z[y].at \in Nat /\ z[x].at \in Nat  BY <2>1, EvaluationAt
    <3>2. all[m].at < z[y].at /\ z[y].at <= end  BY <2>7, <2>8, <2>15, <3>1
    <3>3. m < n /\ all[m + 1].at <= z[y].at
      <4>1. \/ m < Len(all) /\ all[m + 1].at <= z[y].at
            \/ \E c \in coldStarts : all[m].at < c /\ c <= z[y].at
        BY <2>4, <2>6, <2>8, <2>9, <3>2 DEF Told
      <4>2. ASSUME NEW c \in coldStarts, all[m].at < c, c <= z[y].at PROVE FALSE
        <5>1. c <= end  BY <2>2, <2>15, <3>1, <3>2, <4>2
        <5>2. s[j].at < c  BY <2>8, <4>2
        <5>3. QED  BY <2>10, <5>1, <5>2 DEF cold
      <4>3. QED  BY <2>9, <4>1, <4>2
    <3>4. j # Len(s) /\ j + 1 \in 1..(n - k + 1) /\ k + (j + 1) - 1 = m + 1 /\ m + 1 \in DOMAIN all
      BY <2>3, <2>8, <2>9, <3>3 DEF m
    <3>5. s[j + 1] = all[m + 1]  BY <2>3, <3>4
    <3>6. all[m + 1].at \in Nat  BY <2>3, <3>4, RowAt
    <3>7. s[j + 1].at > end  BY <2>6, <3>4
    <3>8. all[m + 1].at > end  BY ONLY <3>5, <3>7
    <3> DEFINE late == all[m + 1].at
               then == z[y].at
    <3>9. late \in Nat /\ then \in Nat /\ end \in Nat  BY <2>15, <3>1, <3>6
    <3>10. late <= then /\ then <= end /\ late > end  BY <3>2, <3>3, <3>8
    <3> HIDE DEF late, then
    <3>11. QED  BY ONLY <3>9, <3>10
  <2>11. z[x] \in Range(z) /\ \A f \in Range(z) : \E y \in DOMAIN z : f = z[y]  BY DEF Range
  <2>12. z[x].viable /\ z[x].at <= end  BY <2>6, <2>7
  <2>13. ASSUME ~cold PROVE OpenAt(p, end)
    <3>1. \A f \in Range(z) : f.at <= z[x].at \/ f.at > end  BY <2>10, <2>11, <2>13
    <3>2. QED  BY <2>11, <2>12, <3>1 DEF OpenAt, z
  <2>14. ASSUME cold PROVE \E c \in coldStarts : s[StateAt(s, i, end)].at < c /\ c <= end
    BY <2>6, <2>14 DEF cold
  <2>16. QED  BY <2>13, <2>14 DEF s, end
<1>2. QED  BY Invariance, <1>1, PTL

-----------------------------------------------------------------------------
(* The funnel's windows                                                    *)

\* A set that holds 0 and the successor of each of its naturals holds them all.
LEMMA SetInduction ==
  ASSUME NEW S, 0 \in S, \A n \in Nat : n \in S => n + 1 \in S
  PROVE  Nat \subseteq S
<1>1. SUFFICES ASSUME NEW T, T = Nat \ S, T # {}  PROVE FALSE  OBVIOUS
<1>2. PICK x \in T : \A y \in T : x <= y  BY <1>1, LeastNatural
<1>3. x # 0 /\ x - 1 \in Nat /\ x - 1 \in S  BY <1>1, <1>2
<1>4. QED  BY <1>1, <1>2, <1>3

\* What one more row makes of the windows, and the windows after every row.
WithRow(ws, r) == IF r.viable THEN JoinWindow(ws, r) ELSE ws

IsWalk(g, s, n) ==
  /\ g = [i \in 0..n |-> g[i]] /\ g[0] = <<>>
  /\ \A i \in 1..n : g[i] = WithRow(g[i - 1], s[i])

LEMMA WalkExists ==
  ASSUME NEW s, Len(s) \in Nat
  PROVE  \E g : IsWalk(g, s, Len(s))
<1> DEFINE S == {n \in Nat : \E g : IsWalk(g, s, n)}
<1>1. 0 \in S
  <2>1. IsWalk([i \in 0..0 |-> <<>>], s, 0)  BY DEF IsWalk
  <2>2. QED  BY <2>1
<1>2. ASSUME NEW n \in Nat, n \in S  PROVE n + 1 \in S
  <2>1. PICK g : IsWalk(g, s, n)  BY <1>2
  <2> DEFINE h == [i \in 0..(n + 1) |-> IF i = n + 1 THEN WithRow(g[n], s[n + 1]) ELSE g[i]]
  <2>2. h = [i \in 0..(n + 1) |-> h[i]] /\ h[0] = <<>>
    BY <2>1 DEF IsWalk
  <2>3. ASSUME NEW i \in 1..(n + 1) PROVE h[i] = WithRow(h[i - 1], s[i])
    <3>1. CASE i = n + 1
      <4>1. h[i] = WithRow(g[n], s[n + 1]) /\ h[i - 1] = g[n]  BY <3>1
      <4>2. QED  BY <3>1, <4>1
    <3>2. CASE i \in 1..n
      <4>1. h[i] = g[i] /\ h[i - 1] = g[i - 1]  BY <3>2
      <4>2. QED  BY <2>1, <3>2, <4>1 DEF IsWalk
    <3>3. QED  BY <3>1, <3>2
  <2> HIDE DEF h
  <2>4. IsWalk(h, s, n + 1)  BY <2>2, <2>3 DEF IsWalk
  <2>5. QED  BY <2>4
<1> HIDE DEF S
<1>3. Len(s) \in S  BY <1>1, <1>2, SetInduction
<1>4. QED  BY <1>3 DEF S

\* Windows is where that walk ends.
LEMMA WindowsEquation ==
  ASSUME NEW s, Len(s) \in Nat
  PROVE  \E g : IsWalk(g, s, Len(s)) /\ Windows(s) = g[Len(s)]
<1> DEFINE Def(g) == g = [n \in 0..Len(s) |->
                            IF n = 0 THEN <<>>
                            ELSE IF s[n].viable THEN JoinWindow(g[n - 1], s[n]) ELSE g[n - 1]]
           h == CHOOSE g : Def(g)
<1>1. \E g : Def(g)
  <2>1. PICK g : IsWalk(g, s, Len(s))  BY WalkExists
  <2>2. ASSUME NEW n \in 0..Len(s)
        PROVE  g[n] = IF n = 0 THEN <<>>
                      ELSE IF s[n].viable THEN JoinWindow(g[n - 1], s[n]) ELSE g[n - 1]
    <3>1. CASE n = 0  BY <2>1, <3>1 DEF IsWalk
    <3>2. CASE n # 0
      <4>1. n \in 1..Len(s)  BY <3>2
      <4>2. QED  BY <2>1, <3>2, <4>1 DEF IsWalk, WithRow
    <3>3. QED  BY <3>1, <3>2
  <2>3. Def(g)  BY <2>1, <2>2 DEF IsWalk
  <2>4. QED  BY <2>3
<1>2. Def(h)  BY <1>1
<1>3. Windows(s) = h[Len(s)]  BY DEF Windows
<1> HIDE DEF h
<1>4. h[0] = <<>> /\ h = [i \in 0..Len(s) |-> h[i]]  BY <1>2
<1>5. ASSUME NEW i \in 1..Len(s) PROVE h[i] = WithRow(h[i - 1], s[i])
  <2>1. i \in 0..Len(s) /\ i # 0  OBVIOUS
  <2>2. QED  BY <1>2, <2>1 DEF WithRow
<1>6. IsWalk(h, s, Len(s))  BY <1>4, <1>5 DEF IsWalk
<1>7. QED  BY <1>3, <1>6

\* A row starts a window if no viable row before it is within the gap.
Starts(s, m) ==
  /\ m \in DOMAIN s /\ s[m].viable
  /\ \A q \in DOMAIN s : q < m /\ s[q].viable => s[m].at - s[q].at > Gap

\* The windows of the first n rows.
Bounded(s, n, w) ==
  /\ w \in Seq(Row) /\ Len(w) > 0
  /\ \E m \in 1..n : Starts(s, m) /\ w[1] = s[m]
  /\ \E l \in 1..n : s[l].viable /\ w[Len(w)] = s[l]

LatestIn(s, n, ws) ==
  \E l \in 1..n : /\ s[l].viable /\ Last(Last(ws)) = s[l]
                  /\ \A q \in 1..n : q > l => ~s[q].viable

Grouped(s, n, ws) ==
  /\ ws \in Seq(Seq(Row))
  /\ \A x \in DOMAIN ws : Bounded(s, n, ws[x])
  /\ \A m \in 1..n : Starts(s, m) => \E x \in DOMAIN ws : ws[x][1] = s[m]
  /\ IF ws = <<>> THEN \A q \in 1..n : ~s[q].viable ELSE LatestIn(s, n, ws)

LEMMA BoundedMore ==
  ASSUME NEW s, NEW n \in Nat, NEW w, Bounded(s, n, w)
  PROVE  Bounded(s, n + 1, w)
<1>1. \A m \in 1..n : m \in 1..(n + 1)  OBVIOUS
<1>2. QED  BY <1>1 DEF Bounded

\* A row that is not viable changes nothing.
LEMMA GroupedQuiet ==
  ASSUME NEW s \in Seq(Row), NEW n \in Nat, NEW ws, Grouped(s, n, ws), ~s[n + 1].viable
  PROVE  Grouped(s, n + 1, ws)
<1>1. \A x \in DOMAIN ws : Bounded(s, n + 1, ws[x])  BY BoundedMore DEF Grouped
<1>2. ASSUME NEW m \in 1..(n + 1), Starts(s, m) PROVE \E x \in DOMAIN ws : ws[x][1] = s[m]
  <2>1. m \in 1..n  BY <1>2 DEF Starts
  <2>2. QED  BY <1>2, <2>1 DEF Grouped
<1>3. CASE ws = <<>>
  <2>1. \A q \in 1..n : ~s[q].viable  BY <1>3 DEF Grouped
  <2>2. \A q \in 1..(n + 1) : q \in 1..n \/ q = n + 1  OBVIOUS
  <2>3. \A q \in 1..(n + 1) : ~s[q].viable  BY <2>1, <2>2
  <2>4. QED  BY <1>1, <1>2, <1>3, <2>3 DEF Grouped
<1>4. CASE ws # <<>>
  <2>1. PICK l \in 1..n : /\ s[l].viable /\ Last(Last(ws)) = s[l]
                          /\ \A q \in 1..n : q > l => ~s[q].viable
    BY <1>4 DEF Grouped, LatestIn
  <2>2. l \in 1..(n + 1) /\ \A q \in 1..(n + 1) : q \in 1..n \/ q = n + 1  OBVIOUS
  <2>3. \A q \in 1..(n + 1) : q > l => ~s[q].viable  BY <2>1, <2>2
  <2>4. LatestIn(s, n + 1, ws)  BY <2>1, <2>2, <2>3 DEF LatestIn
  <2>5. QED  BY <1>1, <1>2, <1>4, <2>4 DEF Grouped
<1>5. QED  BY <1>3, <1>4

LEMMA NotEmpty ==
  ASSUME NEW S, NEW ws \in Seq(S), ws # <<>>
  PROVE  Len(ws) \in Nat /\ Len(ws) > 0 /\ Len(ws) \in DOMAIN ws /\ DOMAIN ws = 1..Len(ws)
<1>1. Len(ws) \in Nat /\ DOMAIN ws = 1..Len(ws)  BY LenProperties
<1>2. Len(ws) # 0  BY EmptySeq
<1>3. QED  BY <1>1, <1>2

\* A viable row within the gap joins the latest window.
LEMMA GroupedExtends ==
  ASSUME NEW s \in Seq(Row), InOrder(s), NEW n \in Nat, n + 1 \in DOMAIN s,
         NEW ws, Grouped(s, n, ws), s[n + 1].viable, ws # <<>>, Extends(Last(ws), s[n + 1])
  PROVE  Grouped(s, n + 1, [ws EXCEPT ![Len(ws)] = Append(@, s[n + 1])])
<1> DEFINE r == s[n + 1]
           z == Len(ws)
           w == ws[z]
           v == Append(w, r)
           us == [ws EXCEPT ![z] = v]
<1>1. ws \in Seq(Seq(Row)) /\ z \in Nat /\ z > 0 /\ z \in DOMAIN ws /\ DOMAIN ws = 1..z
  BY NotEmpty DEF Grouped
<1>2. Bounded(s, n, w)  BY <1>1 DEF Grouped
<1>3. w \in Seq(Row) /\ Len(w) \in Nat /\ Len(w) > 0 /\ r \in Row
  BY <1>2, RowAt, LenProperties DEF Bounded
<1>4. /\ v \in Seq(Row) /\ Len(v) = Len(w) + 1
      /\ v[Len(w) + 1] = r /\ \A i \in 1..Len(w) : v[i] = w[i]
  BY <1>3, Extended
<1>5. PICK l \in 1..n : /\ s[l].viable /\ w[Len(w)] = s[l]
                        /\ \A q \in 1..n : q > l => ~s[q].viable
  BY DEF Grouped, LatestIn, Last
<1>6. /\ DOMAIN s = 1..Len(s) /\ l \in DOMAIN s /\ l < n + 1 /\ n + 1 \in 1..(n + 1)
      /\ s[l].at \in Nat /\ s[n + 1].at \in Nat
  <2>1. DOMAIN s = 1..Len(s) /\ Len(s) \in Nat  BY LenProperties
  <2>2. l \in DOMAIN s  BY <2>1
  <2>3. QED  BY <2>1, <2>2, RowAt
<1>7. ~(s[n + 1].at - s[l].at > Gap)
  <2>1. s[n + 1].at - s[l].at <= Gap  BY <1>5 DEF Extends, Last
  <2>2. QED  BY <1>6, <2>1, ReportAssumption
<1>8. ~Starts(s, n + 1)  BY <1>5, <1>6, <1>7 DEF Starts
<1> HIDE DEF r, z, w, v
<1>9. /\ us \in Seq(Seq(Row)) /\ DOMAIN us = DOMAIN ws /\ us[z] = v
      /\ \A x \in DOMAIN ws : x # z => us[x] = ws[x]
  <2>1. us \in Seq(Seq(Row))  BY <1>1, <1>4, ExceptSeq
  <2>2. QED  BY <1>1, <2>1
<1>10. Len(us) = z
  BY <1>1, <1>9, LenProperties
<1>11. us # <<>>
  BY <1>1, <1>9, <1>10, EmptySeq
<1> HIDE DEF us
<1>12. Bounded(s, n + 1, v)
  <2>1. PICK m \in 1..n : Starts(s, m) /\ w[1] = s[m]  BY <1>2 DEF Bounded
  <2>2. m \in 1..(n + 1) /\ v[1] = s[m]  BY <1>3, <1>4, <2>1
  <2>3. v[Len(v)] = s[n + 1]  BY <1>4 DEF r
  <2>4. Len(v) > 0  BY <1>3, <1>4
  <2>5. QED  BY <1>4, <1>6, <2>1, <2>2, <2>3, <2>4 DEF Bounded
<1>13. \A x \in DOMAIN us : Bounded(s, n + 1, us[x])
  <2> SUFFICES ASSUME NEW x \in DOMAIN us PROVE Bounded(s, n + 1, us[x])  OBVIOUS
  <2>1. CASE x = z  BY <1>9, <1>12, <2>1
  <2>2. CASE x # z
    <3>1. Bounded(s, n, ws[x])  BY <1>9 DEF Grouped
    <3>2. QED  BY <1>9, <2>2, <3>1, BoundedMore
  <2>3. QED  BY <2>1, <2>2
<1>14. ASSUME NEW m \in 1..(n + 1), Starts(s, m) PROVE \E x \in DOMAIN us : us[x][1] = s[m]
  <2>1. m \in 1..n
    <3>1. m # n + 1  BY <1>8, <1>14
    <3>2. QED  BY <3>1
  <2>2. PICK x \in DOMAIN ws : ws[x][1] = s[m]  BY <1>14, <2>1 DEF Grouped
  <2>3. us[x][1] = s[m]
    <3>1. CASE x = z
      <4>1. v[1] = w[1]  BY <1>3, <1>4
      <4>2. QED  BY <1>9, <2>2, <3>1, <4>1 DEF w
    <3>2. CASE x # z  BY <1>9, <2>2, <3>2
    <3>3. QED  BY <3>1, <3>2
  <2>4. QED  BY <1>9, <2>3
<1>15. LatestIn(s, n + 1, us)
  <2>1. Last(Last(us)) = s[n + 1]  BY <1>4, <1>9, <1>10 DEF Last, r
  <2>2. \A q \in 1..(n + 1) : ~(q > n + 1)  OBVIOUS
  <2>3. QED  BY <1>6, <2>1, <2>2 DEF LatestIn
<1>16. Grouped(s, n + 1, us)
  BY <1>9, <1>11, <1>13, <1>14, <1>15 DEF Grouped
<1>17. QED  BY <1>16 DEF us, v, w, z, r

\* Any other viable row starts a window of its own.
LEMMA GroupedStarts ==
  ASSUME NEW s \in Seq(Row), InOrder(s), NEW n \in Nat, n + 1 \in DOMAIN s,
         NEW ws, Grouped(s, n, ws), s[n + 1].viable,
         ws = <<>> \/ ~Extends(Last(ws), s[n + 1])
  PROVE  Grouped(s, n + 1, Append(ws, <<s[n + 1]>>))
<1> DEFINE r == s[n + 1]
           v == <<r>>
           us == Append(ws, v)
<1>1. ws \in Seq(Seq(Row)) /\ r \in Row /\ r.viable
  BY RowAt DEF Grouped
<1>2. v \in Seq(Row) /\ Len(v) = 1 /\ v[1] = r  BY <1>1
<1>3. /\ DOMAIN s = 1..Len(s) /\ \A q \in 1..(n + 1) : q \in DOMAIN s /\ s[q].at \in Nat
  <2>1. DOMAIN s = 1..Len(s) /\ Len(s) \in Nat  BY LenProperties
  <2>2. \A q \in 1..(n + 1) : q \in DOMAIN s  BY <2>1
  <2>3. QED  BY <2>1, <2>2, RowAt
<1>4. /\ us \in Seq(Seq(Row)) /\ Len(us) = Len(ws) + 1 /\ Len(ws) \in Nat
      /\ DOMAIN ws = 1..Len(ws) /\ DOMAIN us = 1..(Len(ws) + 1)
      /\ us[Len(ws) + 1] = v /\ \A i \in 1..Len(ws) : us[i] = ws[i]
  BY <1>1, <1>2, Extended
<1>5. us # <<>>
  <2>1. v \in Seq(Row)  BY <1>2
  <2> HIDE DEF v
  <2>2. us # <<>>  BY <1>1, <2>1, AppendProperties
  <2>3. QED  BY <2>2
<1> HIDE DEF us, v
<1>6. Starts(s, n + 1)
  <2> SUFFICES ASSUME NEW q \in DOMAIN s, q < n + 1, s[q].viable
               PROVE  s[n + 1].at - s[q].at > Gap
    BY DEF Starts
  <2>1. q \in 1..n  BY <1>3
  <2>2. ws # <<>>  BY <2>1 DEF Grouped
  <2>3. PICK l \in 1..n : /\ s[l].viable /\ Last(Last(ws)) = s[l]
                          /\ \A x \in 1..n : x > l => ~s[x].viable
    BY <2>2 DEF Grouped, LatestIn
  <2>4. ~(s[n + 1].at - s[l].at <= Gap)  BY <2>2, <2>3 DEF Extends, Last
  <2>5. q <= l /\ l \in DOMAIN s /\ s[l].at \in Nat /\ s[q].at \in Nat /\ s[n + 1].at \in Nat
    BY <1>3, <2>1, <2>3
  <2>6. s[q].at <= s[l].at
    <3>1. CASE q = l  BY <2>5, <3>1
    <3>2. CASE q < l  BY <2>5, <3>2 DEF InOrder
    <3>3. QED  BY <2>1, <2>3, <2>5, <3>1, <3>2
  <2>7. QED  BY <2>4, <2>5, <2>6, ReportAssumption
<1>7. n + 1 \in 1..(n + 1)  OBVIOUS
<1>8. Bounded(s, n + 1, v)  BY <1>1, <1>2, <1>6, <1>7 DEF Bounded
<1>9. \A x \in DOMAIN us : Bounded(s, n + 1, us[x])
  <2> SUFFICES ASSUME NEW x \in DOMAIN us PROVE Bounded(s, n + 1, us[x])  OBVIOUS
  <2>1. CASE x = Len(ws) + 1  BY <1>4, <1>8, <2>1
  <2>2. CASE x \in DOMAIN ws
    <3>1. Bounded(s, n, ws[x])  BY <2>2 DEF Grouped
    <3>2. QED  BY <1>4, <2>2, <3>1, BoundedMore
  <2>3. QED  BY <1>4, <2>1, <2>2
<1>10. ASSUME NEW m \in 1..(n + 1), Starts(s, m) PROVE \E x \in DOMAIN us : us[x][1] = s[m]
  <2>1. CASE m = n + 1
    <3>1. Len(ws) + 1 \in DOMAIN us /\ us[Len(ws) + 1][1] = s[m]  BY <1>2, <1>4, <2>1
    <3>2. QED  BY <3>1
  <2>2. CASE m \in 1..n
    <3>1. PICK x \in DOMAIN ws : ws[x][1] = s[m]  BY <1>10, <2>2 DEF Grouped
    <3>2. x \in DOMAIN us /\ us[x][1] = s[m]  BY <1>4, <3>1
    <3>3. QED  BY <3>2
  <2>3. QED  BY <2>1, <2>2
<1>11. LatestIn(s, n + 1, us)
  <2>1. Last(Last(us)) = s[n + 1]  BY <1>2, <1>4 DEF Last
  <2>2. \A q \in 1..(n + 1) : ~(q > n + 1)  OBVIOUS
  <2>3. QED  BY <1>1, <1>7, <2>1, <2>2 DEF LatestIn
<1>12. Grouped(s, n + 1, us)
  BY <1>4, <1>5, <1>9, <1>10, <1>11 DEF Grouped
<1>13. QED  BY <1>12 DEF us, v

LEMMA WindowsGrouped ==
  ASSUME NEW s \in Seq(Row), InOrder(s)
  PROVE  Grouped(s, Len(s), Windows(s))
<1>1. Len(s) \in Nat /\ DOMAIN s = 1..Len(s)  BY LenProperties
<1>2. PICK g : IsWalk(g, s, Len(s)) /\ Windows(s) = g[Len(s)]  BY <1>1, WindowsEquation
<1> DEFINE S == {n \in Nat : n <= Len(s) => Grouped(s, n, g[n])}
<1>3. 0 \in S
  <2>1. <<>> \in Seq(Seq(Row)) /\ DOMAIN <<>> = {}  BY EmptySeq
  <2>2. Grouped(s, 0, <<>>)  BY <2>1 DEF Grouped
  <2>3. QED  BY <1>2, <2>2 DEF IsWalk
<1>4. ASSUME NEW n \in Nat, n \in S PROVE n + 1 \in S
  <2> SUFFICES ASSUME n + 1 <= Len(s) PROVE Grouped(s, n + 1, g[n + 1])  OBVIOUS
  <2>1. Grouped(s, n, g[n]) /\ n + 1 \in DOMAIN s /\ n + 1 \in 1..Len(s)  BY <1>1, <1>4
  <2>2. g[n + 1] = WithRow(g[n], s[n + 1])
    <3>1. (n + 1) - 1 = n  OBVIOUS
    <3>2. QED  BY <1>2, <2>1, <3>1 DEF IsWalk
  <2> DEFINE ws == g[n]
             r == s[n + 1]
  <2>3. CASE ~r.viable
    BY <2>1, <2>2, <2>3, GroupedQuiet DEF WithRow
  <2>4. CASE r.viable /\ ws # <<>> /\ Extends(Last(ws), r)
    <3>1. g[n + 1] = [ws EXCEPT ![Len(ws)] = Append(@, r)]
      BY <2>2, <2>4 DEF WithRow, JoinWindow
    <3> HIDE DEF ws
    <3>2. Grouped(s, n + 1, [ws EXCEPT ![Len(ws)] = Append(@, r)])
      BY <2>1, <2>4, GroupedExtends DEF ws
    <3>3. QED  BY <3>1, <3>2
  <2>5. CASE r.viable /\ ~(ws # <<>> /\ Extends(Last(ws), r))
    <3>1. g[n + 1] = Append(ws, <<r>>)
      BY <2>2, <2>5 DEF WithRow, JoinWindow
    <3>2. Grouped(s, n + 1, Append(ws, <<r>>))
      BY <2>1, <2>5, GroupedStarts
    <3>3. QED  BY <3>1, <3>2
  <2>6. QED  BY <2>3, <2>4, <2>5
<1> HIDE DEF S
<1>5. Len(s) \in S  BY <1>1, <1>3, <1>4, SetInduction
<1>6. QED  BY <1>1, <1>2, <1>5 DEF S

-----------------------------------------------------------------------------
(* Windows and openings                                                    *)

OpenInstants(s) == {s[i].at : i \in Opens(s)}
StartInstants(s) == {w[1].at : w \in Range(Windows(s))}

\* The order of the rows is that of their instants.
LEMMA OrderIs ==
  ASSUME NEW s \in Seq(Row), InOrder(s), NEW i \in DOMAIN s, NEW j \in DOMAIN s
  PROVE  /\ i \in 1..Len(s) /\ j \in 1..Len(s) /\ Len(s) \in Nat /\ DOMAIN s = 1..Len(s)
         /\ s[i].at \in Nat /\ s[j].at \in Nat
         /\ s[i].at < s[j].at <=> i < j
         /\ s[i].at <= s[j].at <=> i <= j
<1>1. /\ i \in 1..Len(s) /\ j \in 1..Len(s) /\ Len(s) \in Nat /\ DOMAIN s = 1..Len(s)
      /\ s[i].at \in Nat /\ s[j].at \in Nat
  BY RowAt, LenProperties
<1>2. (i < j => s[i].at < s[j].at) /\ (j < i => s[j].at < s[i].at)  BY DEF InOrder
<1>3. i = j => s[i].at = s[j].at  OBVIOUS
<1>4. QED  BY <1>1, <1>2, <1>3

\* The windows of the funnel start where no viable row is within the gap.
LEMMA StartInstantsAre ==
  ASSUME NEW s \in Seq(Row), InOrder(s)
  PROVE  /\ \A t \in StartInstants(s) : \E m \in DOMAIN s : Starts(s, m) /\ t = s[m].at
         /\ \A m \in DOMAIN s : Starts(s, m) => s[m].at \in StartInstants(s)
<1> DEFINE ws == Windows(s)
<1>1. Grouped(s, Len(s), ws) /\ DOMAIN s = 1..Len(s)  BY WindowsGrouped, LenProperties
<1> HIDE DEF ws
<1>2. ASSUME NEW w \in Range(ws) PROVE \E m \in DOMAIN s : Starts(s, m) /\ w[1].at = s[m].at
  <2>1. PICK x \in DOMAIN ws : w = ws[x]  BY DEF Range
  <2>2. Bounded(s, Len(s), w)  BY <1>1, <2>1 DEF Grouped
  <2>3. QED  BY <1>1, <2>2 DEF Bounded
<1>3. ASSUME NEW m \in DOMAIN s, Starts(s, m) PROVE \E w \in Range(ws) : w[1].at = s[m].at
  <2>1. PICK x \in DOMAIN ws : ws[x][1] = s[m]  BY <1>1, <1>3 DEF Grouped
  <2>2. ws[x] \in Range(ws)  BY DEF Range
  <2>3. QED  BY <2>1, <2>2
<1>4. QED  BY <1>2, <1>3 DEF StartInstants, ws

\* A window that is no opening follows a silence longer than the gap.
LEMMA StartNotOpen ==
  ASSUME NEW s \in Seq(Row), InOrder(s), NEW t \in StartInstants(s), t \notin OpenInstants(s)
  PROVE  \E r \in Range(s) : /\ r.at < t /\ r.viable /\ t - r.at > Gap
                             /\ \A q \in Range(s) : q.at < t => ~(q.at > r.at)
<1>1. PICK m \in DOMAIN s : Starts(s, m) /\ t = s[m].at  BY StartInstantsAre
<1>2. m \in 1..Len(s) /\ Len(s) \in Nat /\ DOMAIN s = 1..Len(s) /\ s[m].at \in Nat
  BY OrderIs
<1>3. m # 1 /\ s[m - 1].viable
  <2>1. m \notin Opens(s)  BY <1>1 DEF OpenInstants
  <2>2. QED  BY <1>1, <1>2, <2>1 DEF Opens, Starts
<1> DEFINE l == m - 1
<1>4. l \in DOMAIN s /\ l < m  BY <1>2, <1>3
<1>5. s[l].viable /\ s[l] \in Range(s)  BY <1>3, <1>4 DEF Range
<1> HIDE DEF l
<1>6. s[l].at < t /\ t - s[l].at > Gap  BY <1>1, <1>4, <1>5, OrderIs DEF Starts
<1>7. ASSUME NEW q \in Range(s), q.at < t PROVE ~(q.at > s[l].at)
  <2>1. PICK x \in DOMAIN s : q = s[x]  BY DEF Range
  <2>2. x < m  BY <1>1, <1>7, <2>1, OrderIs
  <2>3. x \in 1..Len(s)  BY <1>2
  <2>4. x <= l  BY <1>2, <2>2, <2>3 DEF l
  <2>5. s[x].at <= s[l].at /\ s[x].at \in Nat /\ s[l].at \in Nat  BY <1>4, <2>4, OrderIs
  <2>6. QED  BY <2>1, <2>5
<1>8. QED  BY <1>5, <1>6, <1>7

\* An opening that is no window follows one closed and reopened within the gap.
LEMMA OpenNotStart ==
  ASSUME NEW s \in Seq(Row), InOrder(s), NEW t \in OpenInstants(s), t \notin StartInstants(s)
  PROVE  \E r \in Range(s) : /\ r.at < t /\ r.viable /\ t - r.at <= Gap
                             /\ \E q \in Range(s) : q.at < t /\ q.at > r.at
                             /\ \A q \in Range(s) : q.at < t /\ q.at > r.at => ~q.viable
<1>1. PICK m \in Opens(s) : t = s[m].at  BY DEF OpenInstants
<1>2. m \in DOMAIN s /\ s[m].viable /\ (m = 1 \/ ~s[m - 1].viable)
  BY <1>1, LenProperties DEF Opens
<1>3. m \in 1..Len(s) /\ Len(s) \in Nat /\ DOMAIN s = 1..Len(s) /\ s[m].at \in Nat
  BY <1>2, OrderIs
<1>4. ~Starts(s, m)  BY <1>1, <1>2, StartInstantsAre
<1>5. PICK x \in DOMAIN s : x < m /\ s[x].viable /\ ~(s[m].at - s[x].at > Gap)
  BY <1>2, <1>4 DEF Starts
<1>6. x \in 1..Len(s)  BY <1>3
<1> DEFINE T == {n \in Nat : m - n \in 1..m /\ m - n < m /\ s[m - n].viable}
<1>7. m - x \in T
  <2>1. m - x \in Nat /\ m - (m - x) = x /\ x \in 1..m  BY <1>3, <1>5, <1>6
  <2>2. QED  BY <1>5, <2>1
<1>8. PICK n \in T : \A y \in T : n <= y  BY <1>7, LeastNatural
<1> DEFINE l == m - n
<1>9. l \in DOMAIN s /\ l < m /\ s[l].viable /\ n \in Nat
  <2>1. n \in Nat /\ l \in 1..m /\ l < m /\ s[l].viable  BY <1>8
  <2>2. l \in 1..Len(s)  BY <1>3, <2>1
  <2>3. QED  BY <1>3, <2>1, <2>2
<1>10. ASSUME NEW y \in DOMAIN s, l < y, y < m PROVE ~s[y].viable
  <2> SUFFICES ASSUME s[y].viable PROVE FALSE  OBVIOUS
  <2>1. y \in 1..Len(s)  BY <1>3
  <2>2. m - y \in Nat /\ m - (m - y) = y /\ y \in 1..m /\ m - y < n
    BY <1>3, <1>9, <1>10, <2>1
  <2>3. m - y \in T  BY <1>10, <2>2
  <2>4. QED  BY <1>8, <1>9, <2>2, <2>3
<1>11. x <= l
  <2>1. ~(l < x)  BY <1>5, <1>10
  <2>2. QED  BY <1>3, <1>6, <1>9, <2>1
<1> HIDE DEF l, T
<1>12. s[x].at <= s[l].at /\ s[x].at \in Nat /\ s[l].at \in Nat  BY <1>9, <1>11, OrderIs
<1>13. s[m].at - s[l].at <= Gap  BY <1>3, <1>5, <1>12, ReportAssumption
<1>14. s[l] \in Range(s) /\ s[l].at < t  BY <1>1, <1>2, <1>9, OrderIs DEF Range
<1>15. \E q \in Range(s) : q.at < t /\ q.at > s[l].at
  <2>1. l \in 1..Len(s)  BY <1>3, <1>9
  <2>2. m # 1  BY <1>3, <1>9, <2>1
  <2> DEFINE k == m - 1
  <2>3. k \in DOMAIN s /\ k < m  BY <1>3, <2>2
  <2>4. k # l  BY <1>2, <1>9, <2>2
  <2>5. l < k  BY <1>3, <1>9, <2>1, <2>4
  <2> HIDE DEF k
  <2>6. s[k].at < s[m].at /\ s[l].at < s[k].at /\ s[k].at \in Nat
    BY <1>2, <1>9, <2>3, <2>5, OrderIs
  <2>7. s[k] \in Range(s)  BY <2>3 DEF Range
  <2>8. QED  BY <1>1, <1>12, <2>6, <2>7
<1>16. ASSUME NEW q \in Range(s), q.at < t, q.at > s[l].at PROVE ~q.viable
  <2>1. PICK y \in DOMAIN s : q = s[y]  BY DEF Range
  <2>2. s[y].at \in Nat  BY RowAt
  <2>3. s[l].at < s[y].at  BY <1>12, <1>16, <2>1, <2>2
  <2>4. y < m /\ l < y  BY <1>1, <1>2, <1>9, <1>16, <2>1, <2>3, OrderIs
  <2>5. QED  BY <1>10, <2>1, <2>4
<1>17. QED  BY <1>1, <1>9, <1>13, <1>14, <1>15, <1>16

LEMMA StartAfterGap ==
  ASSUME NEW s \in Seq(Row), InOrder(s), NEW t \in StartInstants(s),
         NEW r \in Range(s), r.at < t, r.viable
  PROVE  t - r.at > Gap
<1>1. PICK m \in DOMAIN s : Starts(s, m) /\ t = s[m].at  BY StartInstantsAre
<1>2. PICK x \in DOMAIN s : r = s[x]  BY DEF Range
<1>3. x < m  BY <1>1, <1>2, OrderIs
<1>4. QED  BY <1>1, <1>2, <1>3 DEF Starts

\* What a rounded duration of at least d says of the exact one.
LEMMA RoundedSpan ==
  ASSUME NEW s, NEW d \in Nat, NEW w \in Persistence(s, d), Span(w) \in Int
  PROVE  2 * (d - Span(w)) <= Tenth
<1>1. PICK t \in Durations(w) : t >= d  BY DEF Persistence
<1>2. t \in Tenths /\ 2 * (t - Span(w)) \in -Tenth..Tenth  BY <1>1 DEF Durations
<1>3. Tenth \in Nat /\ MaxTime \in Nat  BY ReportAssumption
<1>4. PICK q \in 0..MaxTime : t = Tenth * q  BY <1>2 DEF Tenths
<1>5. t \in Int  BY <1>3, <1>4
<1> DEFINE e == Span(w)
<1> HIDE DEF e
<1>6. e \in Int /\ 2 * (t - e) <= Tenth  BY <1>2, <1>3, <1>5 DEF e
<1>7. 2 * (d - e) <= Tenth  BY <1>1, <1>3, <1>5, <1>6
<1>8. QED  BY <1>7 DEF e

\* A window that persisted, with no other row in it, survived, or its rows end within
\* half a tenth of the cutoff.
LEMMA PersistedSurvived ==
  ASSUME NEW s \in Seq(Row), InOrder(s), Marked(s), NEW d \in Nat, NEW i \in Opens(s),
         NEW w \in Persistence(s, d), w[1] = s[i],
         \A r \in Range(s) : r.at \in s[i].at..(s[i].at + d) => r.viable
  PROVE  \/ Fate(s, i, d) = "survived"
         \/ Fate(s, i, d) = "censored" /\ 2 * (s[i].at + d - Last(s).at) <= Tenth
<1>1. Grouped(s, Len(s), Windows(s)) /\ DOMAIN s = 1..Len(s) /\ Len(s) \in Nat
  BY WindowsGrouped, LenProperties
<1>2. PICK x \in DOMAIN Windows(s) : w = Windows(s)[x]  BY DEF Persistence, Range
<1>3. Bounded(s, Len(s), w)  BY <1>1, <1>2 DEF Grouped
<1>4. PICK l \in DOMAIN s : w[Len(w)] = s[l]  BY <1>1, <1>3 DEF Bounded
<1>5. i \in DOMAIN s  BY <1>1 DEF Opens
<1>6. Span(w) = s[l].at - s[i].at  BY <1>4 DEF Span, Last
<1>7. Len(s) \in DOMAIN s  BY <1>1, <1>5
<1>8. /\ s[l].at \in Nat /\ s[i].at \in Nat /\ s[Len(s)].at \in Nat
      /\ s[l].at <= s[Len(s)].at
  <2>1. l <= Len(s)  BY <1>1
  <2>2. QED  BY <1>5, <1>7, <2>1, OrderIs
<1>9. 2 * (d - (s[l].at - s[i].at)) <= Tenth
  <2>1. Span(w) \in Int  BY <1>6, <1>8
  <2>2. QED  BY <1>6, <2>1, RoundedSpan
<1>10. PICK j \in i..Len(s) :
           /\ j \in DOMAIN s
           /\ s[i].at <= s[j].at /\ s[j].at <= s[i].at + d
           /\ s[j].viable /\ s[j].reason # "UNSUBSCRIBED" =>
                Fate(s, i, d) = IF s[Len(s)].at < s[i].at + d THEN "censored" ELSE "survived"
  BY FateIs
<1>11. s[j] \in Range(s) /\ s[j].at \in s[i].at..(s[i].at + d)
  <2>1. s[j].at \in Nat  BY <1>10, RowAt
  <2>2. s[j] \in Range(s)  BY <1>10 DEF Range
  <2>3. QED  BY <1>8, <1>10, <2>1, <2>2
<1>12. s[j].viable  BY <1>11
<1>13. s[j].reason # "UNSUBSCRIBED"  BY <1>10, <1>12 DEF Marked
<1>14. Fate(s, i, d) = IF s[Len(s)].at < s[i].at + d THEN "censored" ELSE "survived"
  BY <1>10, <1>12, <1>13
<1>15. 2 * (s[i].at + d - Last(s).at) <= Tenth
  <2> DEFINE first == s[i].at
             late  == s[l].at
             end   == s[Len(s)].at
  <2>1. first \in Nat /\ late \in Nat /\ end \in Nat /\ late <= end /\ Tenth \in Nat
    BY <1>8, ReportAssumption
  <2>2. 2 * (d - (late - first)) <= Tenth  BY <1>9
  <2>3. Last(s).at = end  BY DEF Last
  <2> HIDE DEF first, late, end
  <2>4. 2 * (first + d - end) <= Tenth  BY <2>1, <2>2
  <2>5. QED  BY <2>3, <2>4 DEF first
<1>16. QED  BY <1>14, <1>15

\* The funnel's windows and the curve's openings differ only by a silence longer than the
\* gap, and by a close and reopening within it; what persisted undisturbed survived, or
\* ends within half a tenth of a second of the cutoff.  For every gap and every history
\* of rows.
THEOREM ReportWindowsExplainOpens == Spec => []WindowsExplainOpens
<1>1. IInv => WindowsExplainOpens
  <2> SUFFICES ASSUME IInv, NEW p \in Pair
               PROVE  LET s      == rows[p]
                          opens  == {s[i].at : i \in Opens(s)}
                          starts == {w[1].at : w \in Range(Windows(s))}
                          before(t) == {r \in Range(s) : r.at < t}
                          after(t, r) == {q \in before(t) : q.at > r.at}
                      IN /\ \A t \in starts \ opens : \E r \in before(t) :
                              r.viable /\ after(t, r) = {} /\ t - r.at > Gap
                         /\ \A t \in opens \ starts : \E r \in before(t) :
                              /\ r.viable /\ t - r.at <= Gap
                              /\ after(t, r) # {} /\ \A q \in after(t, r) : ~q.viable
                         /\ \A t \in opens \cap starts : \A r \in before(t) :
                              r.viable => t - r.at > Gap
                         /\ \A d \in Tenths, i \in Opens(s) : \A w \in Persistence(s, d) :
                              w[1] = s[i] /\ (\A r \in Range(s) : r.at \in s[i].at..(s[i].at + d) => r.viable)
                                => \/ Fate(s, i, d) = "survived"
                                   \/ /\ Fate(s, i, d) = "censored"
                                      /\ 2 * (s[i].at + d - Last(s).at) <= Tenth
    BY DEF WindowsExplainOpens
  <2> DEFINE s == rows[p]
             before(t) == {r \in Range(s) : r.at < t}
             after(t, r) == {q \in before(t) : q.at > r.at}
             opens == OpenInstants(s)
             starts == StartInstants(s)
  <2>1. s \in Seq(Row) /\ InOrder(s) /\ Written(s, seen[p]) /\ now \in Nat
    BY DEF IInv, Typed, Accurate, InTime
  <2>2. Marked(s)  BY <2>1 DEF Marked, Written, Witnessed
  <2> HIDE DEF s
  <2>3. ASSUME NEW t \in starts \ opens
        PROVE  \E r \in before(t) : r.viable /\ after(t, r) = {} /\ t - r.at > Gap
    <3>1. PICK r \in Range(s) : /\ r.at < t /\ r.viable /\ t - r.at > Gap
                                /\ \A q \in Range(s) : q.at < t => ~(q.at > r.at)
      BY <2>1, StartNotOpen
    <3>2. QED  BY <3>1
  <2>4. ASSUME NEW t \in opens \ starts
        PROVE  \E r \in before(t) : /\ r.viable /\ t - r.at <= Gap
                                    /\ after(t, r) # {} /\ \A q \in after(t, r) : ~q.viable
    <3>1. PICK r \in Range(s) : /\ r.at < t /\ r.viable /\ t - r.at <= Gap
                                /\ \E q \in Range(s) : q.at < t /\ q.at > r.at
                                /\ \A q \in Range(s) : q.at < t /\ q.at > r.at => ~q.viable
      BY <2>1, OpenNotStart
    <3>2. r \in before(t) /\ after(t, r) # {} /\ \A q \in after(t, r) : ~q.viable  BY <3>1
    <3>3. QED  BY <3>1, <3>2
  <2>5. ASSUME NEW t \in opens \cap starts, NEW r \in before(t), r.viable
        PROVE  t - r.at > Gap
    BY <2>1, <2>5, StartAfterGap
  <2>6. ASSUME NEW d \in Tenths, NEW i \in Opens(s), NEW w \in Persistence(s, d), w[1] = s[i],
               \A r \in Range(s) : r.at \in s[i].at..(s[i].at + d) => r.viable
        PROVE  \/ Fate(s, i, d) = "survived"
               \/ Fate(s, i, d) = "censored" /\ 2 * (s[i].at + d - Last(s).at) <= Tenth
    <3>1. d \in Nat
      <4>1. PICK q \in 0..MaxTime : d = Tenth * q  BY DEF Tenths
      <4>2. QED  BY <4>1, ReportAssumption
    <3>2. QED  BY <2>1, <2>2, <2>6, <3>1, PersistedSurvived
  <2>7. QED  BY <2>3, <2>4, <2>5, <2>6 DEF OpenInstants, StartInstants, s
<1>2. QED  BY Invariance, <1>1, PTL

=============================================================================
