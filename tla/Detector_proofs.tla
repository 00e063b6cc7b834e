---------------------------- MODULE Detector_proofs ----------------------------
(* What TLAPS proves of Detector, for any number of rule objects and of     *)
(* connections, any settings, and any bound on the queue.                   *)
EXTENDS Detector, DataInduction, SequenceTheorems, FiniteSetTheorems, TLAPS

-----------------------------------------------------------------------------
(* The inductive invariant.                                                 *)

Names == {x.id : x \in Signals}
Finding ==
  [id : Nat, owner : Owners, signals : Seq(Signals), score : 0..100, pinned : BOOLEAN]
Session ==
  [live : BOOLEAN, owner : Owners, buffers : [Dirs -> Seq(Byte)], matched : SUBSET Names,
   finding : Finding, steady : BOOLEAN]
Capture == [kept : BOOLEAN, pinned : BOOLEAN, risk : 0..100]
Events ==
  [kind : {"begin", "chunk", "end"}, conn : Conns, dir : Dirs, data : Seq(Byte)]
Connection == [pc : {"none", "open", "ended"}, late : SUBSET Dirs, chunks : Nat]
Work ==
  [pc : {"idle", "signal", "hook"}, key : Ids \cup {0}, todo : Seq(Signals),
   mark : [owner : Owners, score : 0..100, pin : BOOLEAN]]

Types ==
  /\ epoch \in Epochs /\ config \in Configs /\ recent \in 0..(Burst + 1) /\ sequence \in Nat
  /\ conn \in [Conns -> Connection]
  /\ \A c \in Conns : conn[c].late # {} => conn[c].pc = "ended"
  /\ capture \in [Ids -> Capture]
  /\ queue \in Seq(Events) /\ Len(queue) <= QueueSize
  /\ findings \in Seq(Finding) /\ sessions \in [Ids -> Session] /\ worker \in Work
  /\ missed \in BOOLEAN /\ lagged \in BOOLEAN

\* The signals are of different detectors.
Distinct(signals) ==
  \A m, n \in DOMAIN signals : signals[m].id = signals[n].id => m = n

\* A finding says who it is of, once it has a number, and adds up.
Sound(f) ==
  /\ f.id # 0 => f.owner \in Conns
  /\ Distinct(f.signals) /\ f.score = Scored(f.signals)

\* The worker has yet to add signals that its session, which is there, has not.
WorkInv ==
  worker.pc # "idle" =>
    /\ worker.key \in Ids /\ sessions[worker.key].live
    /\ worker.pc = "signal" => worker.todo # <<>>
    /\ worker.pc = "hook" => worker.mark.owner \in Conns
    /\ Distinct(worker.todo)
    /\ \A k \in DOMAIN worker.todo : worker.todo[k].id \notin sessions[worker.key].matched

\* A session has matched what its finding is made of, and no two have the same.
OwnFinding(s, last) ==
  /\ s.live => s.owner \in Conns
  /\ s.finding.id <= last /\ Sound(s.finding)
  /\ \A k \in DOMAIN s.finding.signals : s.finding.signals[k].id \in s.matched

SessionInv ==
  /\ \A i \in Ids : OwnFinding(sessions[i], sequence)
  /\ \A i, j \in Ids :
       sessions[i].finding.id = sessions[j].finding.id /\ sessions[i].finding.id # 0 => i = j

\* The list is the newest findings, which it shares with the sessions.
ListInv ==
  /\ Len(findings) <= config.maxFindings /\ Len(findings) <= sequence
  /\ \A k \in DOMAIN findings :
       /\ findings[k].id = sequence - k + 1 /\ Sound(findings[k])
       /\ \A i \in Ids : sessions[i].finding.id = findings[k].id =>
                           sessions[i].finding = findings[k]

IInv == Types /\ WorkInv /\ SessionInv /\ ListInv

-----------------------------------------------------------------------------
(* Signals and what they score.                                             *)

LEMMA SignalType ==
  /\ \A x \in Signals : x.score \in 1..100 /\ x.id \in Names
  /\ \A c \in Configs : \A d \in ToSet(c.detectors) :
       [id |-> d.id, score |-> d.score] \in Signals
  /\ BurstSignal \in Signals
<1>1. ASSUME NEW c \in Configs, NEW d \in ToSet(c.detectors)
      PROVE  [id |-> d.id, score |-> d.score] \in Signals /\ d.score \in 1..100
  <2>1. d \in AllDetectors
    BY <1>1 DEF AllDetectors
  <2> QED
    BY <1>1, <2>1, DetectorAssumption DEF Signals
<1>2. BurstSignal.score = 25 /\ BurstSignal \in Signals
  BY DEF BurstSignal, Signals
<1>3. ASSUME NEW x \in Signals PROVE x.score \in 1..100
  <2>1. CASE x = BurstSignal
    BY <1>2, <2>1
  <2>2. CASE x # BurstSignal
    <3>1. PICK d \in AllDetectors : x = [id |-> d.id, score |-> d.score]
      BY <2>2 DEF Signals
    <3>2. PICK c \in Configs : d \in ToSet(c.detectors)
      BY <3>1 DEF AllDetectors
    <3> QED
      BY <1>1, <3>1, <3>2
  <2> QED
    BY <2>1, <2>2
<1> QED
  BY <1>1, <1>2, <1>3 DEF Names

LEMMA RaisedType ==
  ASSUME NEW score \in 0..100, NEW by \in 1..100
  PROVE  Raised(score, by) \in 0..100
BY DEF Raised

\* One signal more.
Scoring == [p \in (0..100) \X Signals |-> Raised(p[1], p[2].score)]

LEMMA ScoringType == Scoring \in Steps(Signals, 0..100)
<1>1. ASSUME NEW p \in (0..100) \X Signals PROVE Raised(p[1], p[2].score) \in 0..100
  <2>1. p[1] \in 0..100 /\ p[2].score \in 1..100
    BY SignalType
  <2> QED
    BY <2>1, RaisedType, Zenon
<1> QED
  BY <1>1 DEF Scoring, Steps

LEMMA ScoredIsFold ==
  ASSUME NEW signals \in Seq(Signals)
  PROVE  \E f \in [0..Len(signals) -> 0..100] :
           IsFold(f, 0, Scoring, signals) /\ Scored(signals) = f[Len(signals)]
<1>1. PICK f \in [0..Len(signals) -> 0..100] : IsFold(f, 0, Scoring, signals)
  <2>1. 0 \in 0..100
    OBVIOUS
  <2> QED
    BY <2>1, ScoringType, FoldExists
<1> DEFINE R(g) == [i \in 0..Len(signals) |->
                      IF i = 0 THEN 0 ELSE Raised(g[i - 1], signals[i].score)]
<1>2. f = R(f)
  <2>1. ASSUME NEW i \in 0..Len(signals) PROVE f[i] = R(f)[i]
    <3>1. CASE i = 0
      BY <1>1, <3>1 DEF IsFold
    <3>2. CASE i # 0
      <4>1. i \in 1..Len(signals) /\ i - 1 \in 0..Len(signals) /\ signals[i] \in Signals
        BY <3>2
      <4>2. <<f[i - 1], signals[i]>> \in (0..100) \X Signals
        BY <1>1, <4>1
      <4>3. f[i] = Scoring[<<f[i - 1], signals[i]>>]
        BY <1>1, <4>1 DEF IsFold
      <4>4. f[i] = Raised(f[i - 1], signals[i].score)
        BY <4>2, <4>3 DEF Scoring
      <4> QED
        BY <3>2, <4>4
    <3> QED
      BY <3>1, <3>2
  <2>2. f = [i \in 0..Len(signals) |-> f[i]]
    BY <1>1
  <2> QED
    BY <2>1, <2>2
<1> DEFINE F == CHOOSE g : g = R(g)
<1>3. F = R(F)
  BY <1>2, Zenon
<1>4. Scored(signals) = F[Len(signals)]
  BY Zenon DEF Scored
<1> HIDE DEF F
<1> DEFINE T == {i \in 0..Len(signals) : F[i] = f[i]}
<1>5. \A i \in 0..Len(signals) : F[i] = R(F)[i] /\ f[i] = R(f)[i]
  BY <1>2, <1>3, Zenon
<1>6. 0 \in T
  <2>1. 0 \in 0..Len(signals)
    OBVIOUS
  <2>2. F[0] = 0 /\ f[0] = 0
    BY <1>5, <2>1
  <2> QED
    BY <2>1, <2>2
<1>7. ASSUME NEW i \in 1..Len(signals), i - 1 \in T PROVE i \in T
  <2>1. i \in 0..Len(signals) /\ i # 0 /\ F[i - 1] = f[i - 1]
    BY <1>7
  <2>2. F[i] = f[i]
    BY <1>5, <2>1
  <2> QED
    BY <2>1, <2>2
<1> HIDE DEF T
<1>8. Len(signals) \in Nat /\ Len(signals) \in 0..Len(signals)
  OBVIOUS
<1>9. \A i \in 0..Len(signals) : i \in T
  BY <1>6, <1>7, <1>8, UpTo
<1>10. F[Len(signals)] = f[Len(signals)]
  BY <1>8, <1>9 DEF T
<1> QED
  BY <1>1, <1>4, <1>10

LEMMA ScoredType ==
  ASSUME NEW signals \in Seq(Signals)
  PROVE  Scored(signals) \in 0..100
<1>1. Len(signals) \in 0..Len(signals)
  OBVIOUS
<1>2. PICK f \in [0..Len(signals) -> 0..100] : Scored(signals) = f[Len(signals)]
  BY ScoredIsFold, Zenon
<1> QED
  BY <1>1, <1>2

LEMMA ScoredEmpty == Scored(<<>>) = 0
<1>1. <<>> \in Seq(Signals) /\ Len(<<>>) = 0
  OBVIOUS
<1>2. PICK f : IsFold(f, 0, Scoring, <<>>) /\ Scored(<<>>) = f[Len(<<>>)]
  BY <1>1, ScoredIsFold, Zenon
<1> QED
  BY <1>1, <1>2 DEF IsFold

\* A signal more raises the score by its own.
LEMMA ScoredAppend ==
  ASSUME NEW signals \in Seq(Signals), NEW x \in Signals
  PROVE  Scored(Append(signals, x)) = Raised(Scored(signals), x.score)
<1> DEFINE more == Append(signals, x)
<1>1. more \in Seq(Signals) /\ Len(more) = Len(signals) + 1
  OBVIOUS
<1>2. PICK f : IsFold(f, 0, Scoring, signals) /\ Scored(signals) = f[Len(signals)]
  BY ScoredIsFold
<1>3. PICK g : IsFold(g, 0, Scoring, more) /\ Scored(more) = g[Len(more)]
  BY <1>1, ScoredIsFold
<1>4. g[Len(signals) + 1] = Scoring[<<f[Len(signals)], x>>]
  <2> DEFINE op == Scoring
             Y == 0..100
             b == 0
  <2>1. op \in Steps(Signals, Y) /\ b \in Y
    BY ScoringType
  <2>2. IsFold(f, b, op, signals) /\ IsFold(g, b, op, Append(signals, x))
    BY <1>2, <1>3
  <2> HIDE DEF op, Y, b
  <2>3. g[Len(signals) + 1] = op[<<f[Len(signals)], x>>]
    BY <2>1, <2>2, FoldAppend
  <2> QED
    BY <2>3 DEF op
<1>5. <<f[Len(signals)], x>> \in (0..100) \X Signals
  BY <1>2, ScoredType
<1> QED
  BY <1>1, <1>2, <1>3, <1>4, <1>5 DEF Scoring

\* What the loop over the detectors finds: signals of different detectors, none
\* of them matched before, whose texts occur; and it overlooks no ID.
LEMMA SignalledIs ==
  ASSUME config \in Configs, NEW matched, NEW dir, NEW text
  PROVE  LET r == Signalled(matched, dir, text)
             Found(d) == Looks(d, dir) /\ Occurs(d.pattern, text)
         IN  /\ r \in Seq(Signals) /\ Distinct(r)
             /\ \A k \in DOMAIN r :
                  /\ r[k].id \notin matched
                  /\ \E d \in ToSet(config.detectors) :
                       Found(d) /\ r[k] = [id |-> d.id, score |-> d.score]
             /\ \A d \in ToSet(config.detectors) :
                  Found(d) => d.id \in matched \/ \E k \in DOMAIN r : r[k].id = d.id
<1> DEFINE ds == config.detectors
           D == ToSet(ds)
           Found(d) == Looks(d, dir) /\ Occurs(d.pattern, text)
           Signal(d) == [id |-> d.id, score |-> d.score]
           Known(r, d) == d.id \in matched \cup {x.id : x \in ToSet(r)}
           Next1(r, d) == IF ~Known(r, d) /\ Found(d) THEN Append(r, Signal(d)) ELSE r
           op == [p \in Seq(Signals) \X D |-> Next1(p[1], p[2])]
           R(g) == [k \in 0..Len(ds) |-> IF k = 0 THEN <<>> ELSE Next1(g[k - 1], ds[k])]
<1>1. /\ ds \in Seq(D) /\ Len(ds) \in Nat /\ Len(ds) \in 0..Len(ds) /\ DOMAIN ds = 1..Len(ds)
      /\ \A d \in D : \E k \in 1..Len(ds) : ds[k] = d
  <2>1. ds \in Seq(D)
    BY DetectorAssumption
  <2>2. DOMAIN ds = 1..Len(ds) /\ Len(ds) \in Nat
    BY <2>1
  <2>3. \A d \in D : \E k \in DOMAIN ds : ds[k] = d
    BY DEF ToSet
  <2> QED
    BY <2>1, <2>2, <2>3
<1>2. \A d \in D : Signal(d) \in Signals /\ Signal(d).id = d.id
  BY SignalType, Zenon
<1> HIDE DEF ds, D, Found, Signal
<1>3. ASSUME NEW r \in Seq(Signals), NEW d \in D
      PROVE  /\ Next1(r, d) \in Seq(Signals)
             /\ Known(r, d) <=> d.id \in matched \/ \E k \in DOMAIN r : r[k].id = d.id
  BY <1>2 DEF ToSet
<1>4. op \in Steps(D, Seq(Signals))
  <2>1. ASSUME NEW p \in Seq(Signals) \X D PROVE Next1(p[1], p[2]) \in Seq(Signals)
    <3>1. p[1] \in Seq(Signals) /\ p[2] \in D
      OBVIOUS
    <3> HIDE DEF Next1
    <3> QED
      BY <1>3, <3>1
  <2> HIDE DEF Next1
  <2> QED
    BY <2>1 DEF Steps
<1>5. PICK f \in [0..Len(ds) -> Seq(Signals)] : IsFold(f, <<>>, op, ds)
  <2> DEFINE b == <<>>
  <2>1. b \in Seq(Signals)
    OBVIOUS
  <2> HIDE DEF b, op
  <2>2. \E f \in [0..Len(ds) -> Seq(Signals)] : IsFold(f, b, op, ds)
    BY <1>1, <1>4, <2>1, FoldExists
  <2> QED
    BY <2>2 DEF b
<1> HIDE DEF Next1
<1>6. ASSUME NEW k \in 1..Len(ds)
      PROVE  /\ ds[k] \in D /\ k - 1 \in 0..Len(ds) /\ k \in 0..Len(ds)
             /\ f[k] = Next1(f[k - 1], ds[k])
  <2>1. ds[k] \in D /\ k - 1 \in 0..Len(ds) /\ k \in 0..Len(ds)
    BY <1>1
  <2>2. <<f[k - 1], ds[k]>> \in Seq(Signals) \X D
    BY <2>1
  <2>3. f[k] = op[<<f[k - 1], ds[k]>>]
    BY <1>5 DEF IsFold
  <2> QED
    BY <2>1, <2>2, <2>3
<1> HIDE DEF op
<1>7. f[0] = <<>> /\ f = [k \in 0..Len(ds) |-> f[k]]
  BY <1>5 DEF IsFold
<1>8. f = R(f)
  <2>1. ASSUME NEW k \in 0..Len(ds) PROVE f[k] = R(f)[k]
    <3>1. CASE k = 0
      BY <1>7, <3>1
    <3>2. CASE k # 0
      <4>1. k \in 1..Len(ds)
        BY <3>2
      <4> QED
        BY <1>6, <3>2, <4>1
    <3> QED
      BY <3>1, <3>2
  <2> QED
    BY <1>7, <2>1
<1> DEFINE F == CHOOSE g : g = R(g)
<1>9. F = R(F)
  BY <1>8, Zenon
<1>10. Signalled(matched, dir, text) = F[Len(ds)]
  <2> DEFINE G == CHOOSE g : g = [k \in 0..Len(ds) |->
                    IF k = 0 THEN <<>>
                    ELSE IF ds[k].id \notin matched \cup {x.id : x \in ToSet(g[k - 1])}
                              /\ Looks(ds[k], dir) /\ Occurs(ds[k].pattern, text)
                         THEN Append(g[k - 1], [id |-> ds[k].id, score |-> ds[k].score])
                         ELSE g[k - 1]]
  <2>1. Signalled(matched, dir, text) = G[Len(ds)]
    BY Zenon DEF Signalled, ds
  <2>2. G = F
    BY Zenon DEF Next1, Known, Found, Signal
  <2> QED
    BY <2>1, <2>2, Zenon
<1> HIDE DEF F
<1>11. \A k \in 0..Len(ds) : F[k] = R(F)[k] /\ f[k] = R(f)[k]
  BY <1>8, <1>9, Zenon
<1> DEFINE Good(r, k) ==
             /\ Distinct(r)
             /\ \A m \in DOMAIN r :
                  /\ r[m].id \notin matched
                  /\ \E d \in D : Found(d) /\ r[m] = Signal(d)
             /\ \A j \in 1..k : Found(ds[j]) =>
                  ds[j].id \in matched \/ \E m \in DOMAIN r : r[m].id = ds[j].id
           T == {k \in 0..Len(ds) : F[k] = f[k] /\ Good(f[k], k)}
<1>12. 0 \in T
  <2>1. 0 \in 0..Len(ds)
    BY <1>1
  <2>2. F[0] = <<>>
    BY <1>11, <2>1
  <2>3. Good(<<>>, 0)
    BY DEF Distinct
  <2> HIDE DEF Good
  <2> QED
    BY <1>7, <2>1, <2>2, <2>3
<1>13. ASSUME NEW k \in 1..Len(ds), k - 1 \in T PROVE k \in T
  <2> DEFINE r == f[k - 1]
             d == ds[k]
  <2>1. r \in Seq(Signals) /\ d \in D /\ Good(r, k - 1) /\ F[k - 1] = f[k - 1]
    BY <1>6, <1>13
  <2>2. F[k] = f[k]
    BY <1>6, <1>11, <2>1
  <2>3. f[k] = Next1(r, d)
    BY <1>6
  <2>4. /\ k \in Nat /\ ds[k] = d
        /\ \A j \in 1..k : j = k \/ j \in 1..(k - 1)
    BY <1>6
  <2> HIDE DEF r, d
  <2>5. CASE Known(r, d) \/ ~Found(d)
    <3>1. f[k] = r
      BY <2>3, <2>5 DEF Next1
    <3>2. Found(d) => d.id \in matched \/ \E m \in DOMAIN r : r[m].id = d.id
      BY <1>3, <2>1, <2>5
    <3>3. Good(r, k)
      BY <2>1, <2>4, <3>2
    <3> QED
      BY <1>6, <2>2, <3>1, <3>3
  <2>6. CASE ~Known(r, d) /\ Found(d)
    <3> DEFINE x == Signal(d)
    <3>1. /\ f[k] = Append(r, x) /\ x.id = d.id /\ x.id \notin matched
          /\ \A m \in DOMAIN r : r[m].id # x.id
      BY <1>2, <1>3, <2>1, <2>3, <2>6 DEF Next1
    <3>2. /\ DOMAIN Append(r, x) = 1..(Len(r) + 1) /\ DOMAIN r = 1..Len(r) /\ Len(r) \in Nat
          /\ \A m \in 1..Len(r) : Append(r, x)[m] = r[m]
          /\ Append(r, x)[Len(r) + 1] = x
      BY <2>1
    <3>3. Distinct(Append(r, x))
      BY <2>1, <3>1, <3>2 DEF Distinct
    <3>4. ASSUME NEW m \in DOMAIN Append(r, x)
          PROVE  /\ Append(r, x)[m].id \notin matched
                 /\ \E e \in D : Found(e) /\ Append(r, x)[m] = Signal(e)
      <4>1. CASE m = Len(r) + 1
        BY <2>1, <2>6, <3>1, <3>2, <4>1
      <4>2. CASE m # Len(r) + 1
        <5>1. m \in DOMAIN r /\ Append(r, x)[m] = r[m]
          BY <3>2, <3>4, <4>2
        <5> QED
          BY <2>1, <5>1
      <4> QED
        BY <4>1, <4>2
    <3>5. ASSUME NEW j \in 1..k, Found(ds[j])
          PROVE  ds[j].id \in matched \/ \E m \in DOMAIN Append(r, x) : Append(r, x)[m].id = ds[j].id
      <4>1. CASE j = k
        <5>1. Len(r) + 1 \in DOMAIN Append(r, x) /\ Append(r, x)[Len(r) + 1].id = ds[j].id
          BY <2>4, <3>1, <3>2, <4>1
        <5> QED
          BY <5>1
      <4>2. CASE j # k
        <5>1. ds[j].id \in matched \/ \E m \in DOMAIN r : r[m].id = ds[j].id
          BY <2>1, <2>4, <3>5, <4>2
        <5>2. \A m \in DOMAIN r : m \in DOMAIN Append(r, x) /\ Append(r, x)[m] = r[m]
          BY <3>2
        <5> QED
          BY <5>1, <5>2
      <4> QED
        BY <4>1, <4>2
    <3>6. Good(Append(r, x), k)
      BY <3>3, <3>4, <3>5
    <3> QED
      BY <1>6, <2>2, <3>1, <3>6
  <2> QED
    BY <2>5, <2>6
<1> HIDE DEF T
<1>14. \A k \in 0..Len(ds) : k \in T
  BY <1>1, <1>12, <1>13, UpTo
<1>15. F[Len(ds)] = f[Len(ds)] /\ Good(f[Len(ds)], Len(ds)) /\ f[Len(ds)] \in Seq(Signals)
  BY <1>1, <1>14 DEF T
<1> DEFINE r == Signalled(matched, dir, text)
<1>16. r \in Seq(Signals) /\ Good(r, Len(ds))
  BY <1>10, <1>15
<1> HIDE DEF r
<1>17. \A d \in D : Found(d) => d.id \in matched \/ \E k \in DOMAIN r : r[k].id = d.id
  BY <1>1, <1>16
<1>18. /\ r \in Seq(Signals) /\ Distinct(r)
       /\ \A k \in DOMAIN r :
            r[k].id \notin matched /\ \E d \in D : Found(d) /\ r[k] = Signal(d)
  BY <1>16
<1> QED
  BY <1>17, <1>18, Zenon DEF r, D, ds, Found, Signal

-----------------------------------------------------------------------------
(* Connections.  They change nothing the worker goes by.                    *)

LEMMA EngineKept ==
  ASSUME IInv, UNCHANGED <<sessions, engine>>, Types'
  PROVE  IInv'
<1>1. UNCHANGED <<config, findings, sequence, worker, sessions>>
  BY DEF engine
<1>2. (WorkInv /\ SessionInv /\ ListInv)'
  BY <1>1 DEF IInv, WorkInv, SessionInv, OwnFinding, ListInv, Sound
<1> QED
  BY <1>2 DEF IInv

LEMMA EventType ==
  ASSUME NEW kind \in {"begin", "chunk", "end"}, NEW c \in Conns,
         NEW ch \in Chunks \cup {NoChunk}
  PROVE  Event(kind, c, ch) \in Events
<1>1. ch.dir \in Dirs /\ ch.data \in Seq(Byte)
  <2>1. CASE ch \in Chunks
    BY <2>1, DetectorAssumption
  <2>2. CASE ch = NoChunk
    BY <2>2 DEF NoChunk, Dirs
  <2> QED
    BY <2>1, <2>2
<1> QED
  BY <1>1 DEF Event, Events

LEMMA EnqueueType ==
  ASSUME Types, NEW e \in Events, Enqueue(e)
  PROVE  /\ queue' \in Seq(Events) /\ Len(queue') <= QueueSize /\ missed' \in BOOLEAN
         /\ UNCHANGED <<sessions, engine>>
<1>1. queue \in Seq(Events) /\ Len(queue) \in Nat /\ Len(queue) <= QueueSize /\ missed \in BOOLEAN
  BY DEF Types
<1>2. UNCHANGED <<sessions, engine>>
  BY DEF Enqueue
<1>3. CASE config.enabled /\ Len(queue) < QueueSize
  <2>1. queue' = Append(queue, e) /\ missed' = missed
    BY <1>3 DEF Enqueue
  <2>2. Append(queue, e) \in Seq(Events) /\ Len(Append(queue, e)) = Len(queue) + 1
    BY <1>1
  <2> QED
    BY <1>1, <1>2, <1>3, <2>1, <2>2, DetectorAssumption
<1>4. CASE ~(config.enabled /\ Len(queue) < QueueSize)
  <2>1. queue' = queue /\ missed' = TRUE
    BY <1>4 DEF Enqueue
  <2> QED
    BY <1>1, <1>2, <2>1
<1> QED
  BY <1>3, <1>4

LEMMA ConnectStep ==
  ASSUME IInv, NEW i \in Ids, Connect(i)
  PROVE  IInv'
<1> DEFINE c == <<epoch, i>>
<1>1. /\ conn' = [conn EXCEPT ![c].pc = "open"] /\ conn[c].pc = "none"
      /\ capture' = [capture EXCEPT ![i].kept = TRUE]
      /\ Enqueue(Event("begin", c, NoChunk))
      /\ UNCHANGED <<epoch, lagged>>
  BY DEF Connect
<1>2. c \in Conns /\ Types
  BY <1>1 DEF Conns, IInv, Types
<1> HIDE DEF c
<1>3. Event("begin", c, NoChunk) \in Events
  BY <1>2, EventType
<1>4. /\ queue' \in Seq(Events) /\ Len(queue') <= QueueSize /\ missed' \in BOOLEAN
      /\ UNCHANGED <<sessions, engine>>
  BY <1>1, <1>2, <1>3, EnqueueType
<1>5. /\ conn' \in [Conns -> Connection]
      /\ \A b \in Conns : conn'[b].late # {} => conn'[b].pc = "ended"
  <2>1. conn \in [Conns -> Connection] /\ conn[c].late = {}
    BY <1>2, <1>1 DEF Types
  <2> QED
    BY <1>1, <1>2, <2>1 DEF Types, Connection
<1>6. capture' \in [Ids -> Capture]
  <2>1. capture \in [Ids -> Capture] /\ capture[i] \in Capture
    BY <1>1, <1>2 DEF Types
  <2>2. [capture[i] EXCEPT !.kept = TRUE] \in Capture
    BY <2>1 DEF Capture
  <2>3. i \in Ids /\ capture' = [capture EXCEPT ![i] = [capture[i] EXCEPT !.kept = TRUE]]
    BY <1>1
  <2> HIDE DEF Capture
  <2> QED
    BY <2>1, <2>2, <2>3
<1>7. Types'
  BY <1>1, <1>2, <1>4, <1>5, <1>6 DEF Types, engine
<1> QED
  BY <1>4, <1>7, EngineKept

LEMMA SendStep ==
  ASSUME IInv, NEW c \in Conns, NEW ch \in Chunks, Send(c, ch)
  PROVE  IInv'
<1>1. /\ conn' = [conn EXCEPT ![c].late = @ \ {ch.dir}, ![c].chunks = @ + 1]
      /\ Enqueue(Event("chunk", c, ch)) /\ UNCHANGED <<epoch, capture, lagged>> /\ Types
  BY DEF Send, IInv
<1>2. Event("chunk", c, ch) \in Events
  BY EventType
<1>3. /\ queue' \in Seq(Events) /\ Len(queue') <= QueueSize /\ missed' \in BOOLEAN
      /\ UNCHANGED <<sessions, engine>>
  BY <1>1, <1>2, EnqueueType
<1>4. /\ conn' \in [Conns -> Connection]
      /\ \A b \in Conns : conn'[b].late # {} => conn'[b].pc = "ended"
  BY <1>1 DEF Types, Connection
<1>5. Types'
  BY <1>1, <1>3, <1>4 DEF Types, engine
<1> QED
  BY <1>3, <1>5, EngineKept

LEMMA FinishStep ==
  ASSUME IInv, NEW c \in Conns, Finish(c)
  PROVE  IInv'
<1>1. /\ conn' = [conn EXCEPT ![c].pc = "ended", ![c].late = IF c \in Udp THEN Dirs ELSE {}]
      /\ Enqueue(Event("end", c, NoChunk)) /\ UNCHANGED <<epoch, capture, lagged>> /\ Types
  BY DEF Finish, IInv
<1>2. Event("end", c, NoChunk) \in Events
  BY EventType
<1>3. /\ queue' \in Seq(Events) /\ Len(queue') <= QueueSize /\ missed' \in BOOLEAN
      /\ UNCHANGED <<sessions, engine>>
  BY <1>1, <1>2, EnqueueType
<1>4. /\ conn' \in [Conns -> Connection]
      /\ \A b \in Conns : conn'[b].late # {} => conn'[b].pc = "ended"
  BY <1>1 DEF Types, Connection
<1>5. Types'
  BY <1>1, <1>3, <1>4 DEF Types, engine
<1> QED
  BY <1>3, <1>5, EngineKept

LEMMA EvictStep ==
  ASSUME IInv, NEW i \in Ids, Evict(i)
  PROVE  IInv'
<1>1. /\ capture' = [capture EXCEPT ![i] = NoCapture]
      /\ UNCHANGED <<epoch, conn, queue, sessions, engine, missed, lagged>> /\ Types
  BY DEF Evict, IInv
<1>2. capture' \in [Ids -> Capture]
  BY <1>1 DEF Types, Capture, NoCapture
<1>3. Types'
  BY <1>1, <1>2 DEF Types, engine
<1> QED
  BY <1>1, <1>3, EngineKept

LEMMA ReplaceStep ==
  ASSUME IInv, Replace
  PROVE  IInv'
<1>1. /\ epoch' = epoch + 1 /\ epoch + 1 \in Epochs
      /\ conn' = [c \in Conns |-> [conn[c] EXCEPT !.late = {}]]
      /\ capture' = [i \in Ids |-> NoCapture]
      /\ lagged' = (lagged \/ queue # <<>> \/ worker # Idle)
      /\ UNCHANGED <<queue, sessions, engine, missed>> /\ Types
  BY DEF Replace, IInv
<1>2. capture' \in [Ids -> Capture]
  BY <1>1 DEF Capture, NoCapture
<1>3. /\ conn' \in [Conns -> Connection]
      /\ \A b \in Conns : conn'[b].late # {} => conn'[b].pc = "ended"
  BY <1>1 DEF Types, Connection
<1>4. lagged' \in BOOLEAN
  BY <1>1
<1>5. Types'
  BY <1>1, <1>2, <1>3, <1>4 DEF Types, engine
<1> QED
  BY <1>1, <1>5, EngineKept

-----------------------------------------------------------------------------
(* The worker between two events.                                           *)

LEMMA NoSessionType ==
  /\ NoSession \in Session /\ NoFinding \in Finding /\ NoSession.finding = NoFinding
  /\ ~NoSession.live /\ NoFinding.id = 0 /\ Sound(NoFinding)
  /\ \A n \in Nat : OwnFinding(NoSession, n)
  /\ \A c \in Conns, e \in Events : e.conn = c =>
       LET s == NewSession(e)
       IN  /\ s \in Session /\ s.live /\ s.owner = c /\ s.finding = NoFinding
           /\ s.matched = {} /\ \A n \in Nat : OwnFinding(s, n)
<1>1. /\ NoFinding \in Finding /\ NoFinding.id = 0 /\ NoFinding.signals = <<>>
      /\ NoFinding.score = 0
  <2>1. <<>> \in Seq(Signals) /\ <<0, 0>> \in Owners
    BY DEF Owners
  <2> QED
    BY <2>1 DEF NoFinding, Finding
<1>2. Sound(NoFinding)
  BY <1>1, ScoredEmpty DEF Sound, Distinct
<1>3. Empty \in [Dirs -> Seq(Byte)]
  <2>1. <<>> \in Seq(Byte)
    OBVIOUS
  <2> QED
    BY <2>1 DEF Empty
<1>4. /\ NoSession \in Session /\ NoSession.finding = NoFinding /\ ~NoSession.live
      /\ NoSession.matched = {}
  <2>1. <<0, 0>> \in Owners
    BY DEF Owners
  <2> QED
    BY <1>1, <1>3, <2>1 DEF NoSession, Session
<1>5. \A n \in Nat : OwnFinding(NoSession, n)
  BY <1>1, <1>2, <1>4 DEF OwnFinding
<1>6. ASSUME NEW c \in Conns, NEW e \in Events, e.conn = c, NEW s, s = NewSession(e)
      PROVE  /\ s \in Session /\ s.live /\ s.owner = c /\ s.finding = NoFinding
             /\ s.matched = {} /\ \A n \in Nat : OwnFinding(s, n)
  <2>1. s = [NoSession EXCEPT !.live = TRUE, !.owner = c] /\ c \in Owners
    BY <1>6 DEF NewSession, Owners
  <2>2. /\ s \in Session /\ s.live /\ s.owner = c /\ s.finding = NoFinding
        /\ s.matched = {}
    BY <1>4, <2>1 DEF Session
  <2>3. \A n \in Nat : OwnFinding(s, n)
    BY <1>1, <1>2, <1>6, <2>2 DEF OwnFinding
  <2> QED
    BY <2>2, <2>3
<1> QED
  BY <1>1, <1>2, <1>4, <1>5, <1>6

\* What is still to be signalled is the worker's next work.
LEMMA WithSignalsIs ==
  ASSUME NEW i \in Ids, NEW todo \in Seq(Signals)
  PROVE  LET w == WithSignals(i, todo)
         IN  /\ w \in Work /\ w.pc # "hook"
             /\ w.pc # "idle" => w.pc = "signal" /\ w.key = i /\ w.todo = todo /\ todo # <<>>
<1>1. Idle \in Work /\ Idle.pc = "idle"
  <2>1. <<>> \in Seq(Signals) /\ <<0, 0>> \in Owners
    BY DEF Owners
  <2> QED
    BY <2>1 DEF Idle, NoMark, Work
<1>2. CASE todo = <<>>
  BY <1>1, <1>2 DEF WithSignals
<1>3. CASE todo # <<>>
  <2>1. WithSignals(i, todo) = [Idle EXCEPT !.pc = "signal", !.key = i, !.todo = todo]
    BY <1>3 DEF WithSignals
  <2> QED
    BY <1>1, <1>3, <2>1 DEF Work
<1> QED
  BY <1>2, <1>3

\* Sessions come, go and are emptied; the findings they keep stay theirs.
LEMMA SessionsKept ==
  ASSUME IInv, sessions' \in [Ids -> Session], UNCHANGED sequence,
         \A i \in Ids : /\ OwnFinding(sessions'[i], sequence)
                        /\ sessions'[i].finding \in {sessions[i].finding, NoFinding}
  PROVE  /\ SessionInv'
         /\ \A k \in DOMAIN findings : \A i \in Ids :
              sessions'[i].finding.id = findings[k].id => sessions'[i].finding = findings[k]
<1>1. /\ sequence \in Nat /\ Len(findings) \in Nat /\ Len(findings) <= sequence
      /\ DOMAIN findings = 1..Len(findings)
  BY DEF IInv, Types, ListInv
<1>2. \A k \in DOMAIN findings : findings[k].id # 0
  BY <1>1 DEF IInv, ListInv
<1>3. NoFinding.id = 0
  BY NoSessionType
<1>4. \A i, j \in Ids :
        sessions'[i].finding.id = sessions'[j].finding.id /\ sessions'[i].finding.id # 0 => i = j
  BY <1>3 DEF IInv, SessionInv
<1>5. SessionInv'
  BY <1>4 DEF SessionInv
<1>6. ASSUME NEW k \in DOMAIN findings, NEW i \in Ids,
             sessions'[i].finding.id = findings[k].id
      PROVE  sessions'[i].finding = findings[k]
  <2>1. sessions'[i].finding = sessions[i].finding
    BY <1>2, <1>3, <1>6
  <2> QED
    BY <1>6, <2>1 DEF IInv, ListInv
<1> QED
  BY <1>5, <1>6

LEMMA ListKept ==
  ASSUME IInv, sessions' \in [Ids -> Session], UNCHANGED <<sequence, findings, config>>,
         \A i \in Ids : /\ OwnFinding(sessions'[i], sequence)
                        /\ sessions'[i].finding \in {sessions[i].finding, NoFinding}
  PROVE  SessionInv' /\ ListInv'
<1>1. /\ SessionInv'
      /\ \A k \in DOMAIN findings : \A i \in Ids :
           sessions'[i].finding.id = findings[k].id => sessions'[i].finding = findings[k]
  BY SessionsKept
<1>2. ListInv'
  BY <1>1 DEF IInv, ListInv
<1> QED
  BY <1>1, <1>2

\* The event at the head of the queue.
LEMMA HeadType ==
  ASSUME Types, queue # <<>>
  PROVE  /\ Head(queue) \in Events /\ Head(queue).conn \in Conns
         /\ Head(queue).conn[2] \in Ids
         /\ Tail(queue) \in Seq(Events) /\ Len(Tail(queue)) <= QueueSize
<1>1. queue \in Seq(Events) /\ Len(queue) \in Nat /\ Len(queue) <= QueueSize /\ QueueSize \in Nat
  BY DetectorAssumption DEF Types
<1>2. Head(queue) \in Events /\ Tail(queue) \in Seq(Events) /\ Len(Tail(queue)) <= QueueSize
  BY <1>1
<1> QED
  BY <1>2 DEF Events, Conns

LEMMA TakeBeginStep ==
  ASSUME IInv, TakeBegin
  PROVE  IInv'
<1> DEFINE e == Head(queue)
           i == e.conn[2]
           s == NewSession(e)
           todo == IF config.builtins /\ recent + 1 = Burst THEN <<BurstSignal>> ELSE <<>>
<1>1. /\ queue # <<>> /\ queue' = Tail(queue) /\ worker = Idle
      /\ sessions' = [sessions EXCEPT ![i] = s]
      /\ recent' = IF config.builtins /\ recent <= Burst THEN recent + 1 ELSE recent
      /\ worker' = WithSignals(i, todo)
      /\ UNCHANGED <<epoch, conn, missed, lagged, capture, config, findings, sequence>>
  BY DEF TakeBegin, BegunSession, ConnFrame
<1>2. Types
  BY DEF IInv
<1>3. /\ e \in Events /\ e.conn \in Conns /\ i \in Ids
      /\ queue' \in Seq(Events) /\ Len(queue') <= QueueSize
  BY <1>1, <1>2, HeadType
<1>4. todo \in Seq(Signals) /\ Distinct(todo)
  BY SignalType DEF Distinct
<1> HIDE DEF e, todo
<1>5. /\ s \in Session /\ s.live /\ s.finding = NoFinding /\ s.matched = {}
      /\ OwnFinding(s, sequence)
  BY <1>2, <1>3, NoSessionType DEF Types
<1> HIDE DEF i, s
<1>6. /\ sessions' \in [Ids -> Session] /\ sessions'[i] = s
      /\ \A j \in Ids : /\ OwnFinding(sessions'[j], sequence)
                        /\ sessions'[j].finding \in {sessions[j].finding, NoFinding}
  BY <1>1, <1>2, <1>3, <1>5 DEF Types, IInv, SessionInv
<1>7. SessionInv' /\ ListInv'
  BY <1>1, <1>6, ListKept
<1>8. /\ worker' \in Work /\ worker'.pc # "hook"
      /\ worker'.pc # "idle" =>
           worker'.pc = "signal" /\ worker'.key = i /\ worker'.todo = todo /\ todo # <<>>
  BY <1>1, <1>3, <1>4, WithSignalsIs
<1>9. recent' \in 0..(Burst + 1)
  BY <1>1, <1>2, DetectorAssumption DEF Types
<1>10. Types'
  BY <1>1, <1>2, <1>3, <1>6, <1>8, <1>9 DEF Types
<1>11. WorkInv'
  BY <1>3, <1>4, <1>5, <1>6, <1>8 DEF WorkInv
<1> QED
  BY <1>7, <1>10, <1>11 DEF IInv

LEMMA TakeEndStep ==
  ASSUME IInv, TakeEnd
  PROVE  IInv'
<1> DEFINE i == Head(queue).conn[2]
<1>1. /\ queue # <<>> /\ queue' = Tail(queue) /\ worker = Idle
      /\ sessions' = [sessions EXCEPT ![i] = NoSession]
      /\ UNCHANGED <<epoch, conn, missed, lagged, capture, config, recent, findings, sequence,
                     worker>>
  BY DEF TakeEnd, ConnFrame
<1>2. Types
  BY DEF IInv
<1>3. i \in Ids /\ queue' \in Seq(Events) /\ Len(queue') <= QueueSize
  BY <1>1, <1>2, HeadType
<1> HIDE DEF i
<1>4. /\ NoSession \in Session /\ NoSession.finding = NoFinding
      /\ OwnFinding(NoSession, sequence)
  BY <1>2, NoSessionType DEF Types
<1>5. /\ sessions' \in [Ids -> Session]
      /\ \A j \in Ids : /\ OwnFinding(sessions'[j], sequence)
                        /\ sessions'[j].finding \in {sessions[j].finding, NoFinding}
  BY <1>1, <1>2, <1>3, <1>4 DEF Types, IInv, SessionInv
<1>6. SessionInv' /\ ListInv'
  BY <1>1, <1>5, ListKept
<1>7. Types'
  BY <1>1, <1>2, <1>3, <1>5 DEF Types
<1>8. WorkInv'
  BY <1>1 DEF WorkInv, Idle
<1> QED
  BY <1>6, <1>7, <1>8 DEF IInv

LEMMA BufferedType ==
  ASSUME NEW buffers \in [Dirs -> Seq(Byte)], NEW dir \in Dirs, NEW data \in Seq(Byte),
         NEW n \in Nat
  PROVE  Buffered(buffers, dir, data, n) \in [Dirs -> Seq(Byte)]
<1> DEFINE s == buffers[dir] \o data
<1>1. s \in Seq(Byte) /\ Len(s) \in Nat
  OBVIOUS
<1> HIDE DEF s
<1>2. LastBytes(s, n) \in Seq(Byte)
  BY <1>1 DEF LastBytes
<1>3. Buffered(buffers, dir, data, n) = [buffers EXCEPT ![dir] = LastBytes(s, n)]
  BY DEF Buffered, s
<1> QED
  BY <1>2, <1>3

LEMMA TakeChunkStep ==
  ASSUME IInv, TakeChunk
  PROVE  IInv'
<1> DEFINE e == Head(queue)
           i == e.conn[2]
           s == IF sessions[i].live THEN sessions[i] ELSE NewSession(e)
           buffers == Buffered(s.buffers, e.dir, e.data, config.bufferBytes)
           todo == Signalled(s.matched, e.dir, buffers[e.dir])
           t == [s EXCEPT !.buffers = buffers]
<1>1. /\ queue # <<>> /\ queue' = Tail(queue) /\ worker = Idle
      /\ sessions' = [sessions EXCEPT ![i] = t]
      /\ worker' = WithSignals(i, todo)
      /\ UNCHANGED <<epoch, conn, missed, lagged, capture, config, recent, findings, sequence>>
  BY Zenon DEF TakeChunk, ConnFrame
<1>2. Types /\ SessionInv
  BY DEF IInv
<1>3. /\ e \in Events /\ e.conn \in Conns /\ i \in Ids
      /\ queue' \in Seq(Events) /\ Len(queue') <= QueueSize
  BY <1>1, <1>2, HeadType
<1> HIDE DEF e
<1>4. e.dir \in Dirs /\ e.data \in Seq(Byte) /\ config \in Configs /\ config.bufferBytes \in Nat
  BY <1>2, <1>3, DetectorAssumption DEF Events, Types
<1>5. /\ s \in Session /\ s.live /\ s.finding \in {sessions[i].finding, NoFinding}
      /\ OwnFinding(s, sequence)
  <2>1. CASE sessions[i].live
    BY <1>2, <1>3, <2>1 DEF Types, SessionInv
  <2>2. CASE ~sessions[i].live
    <3>1. LET new == NewSession(e)
          IN  new \in Session /\ new.live /\ new.finding = NoFinding /\ OwnFinding(new, sequence)
      BY <1>2, <1>3, NoSessionType DEF Types
    <3> QED
      BY <2>2, <3>1
  <2> QED
    BY <2>1, <2>2
<1> HIDE DEF i, s
<1>6. buffers \in [Dirs -> Seq(Byte)]
  BY <1>4, <1>5, BufferedType DEF Session
<1>7. /\ todo \in Seq(Signals) /\ Distinct(todo)
      /\ \A k \in DOMAIN todo : todo[k].id \notin s.matched
  BY <1>4, SignalledIs
<1> HIDE DEF buffers, todo
<1>8. /\ t \in Session /\ t.live /\ t.finding = s.finding /\ t.matched = s.matched
      /\ OwnFinding(t, sequence)
  <2>1. /\ t \in Session /\ t.live /\ t.owner = s.owner
        /\ t.finding = s.finding /\ t.matched = s.matched
    BY <1>5, <1>6 DEF Session
  <2> QED
    BY <1>5, <2>1 DEF OwnFinding
<1> HIDE DEF t
<1>9. /\ sessions' \in [Ids -> Session] /\ sessions'[i] = t
      /\ \A j \in Ids : /\ OwnFinding(sessions'[j], sequence)
                        /\ sessions'[j].finding \in {sessions[j].finding, NoFinding}
  BY <1>1, <1>2, <1>3, <1>5, <1>8 DEF Types, SessionInv
<1>10. SessionInv' /\ ListInv'
  BY <1>1, <1>9, ListKept
<1>11. /\ worker' \in Work /\ worker'.pc # "hook"
       /\ worker'.pc # "idle" =>
            worker'.pc = "signal" /\ worker'.key = i /\ worker'.todo = todo /\ todo # <<>>
  BY <1>1, <1>3, <1>7, WithSignalsIs
<1>12. Types'
  BY <1>1, <1>2, <1>3, <1>9, <1>11 DEF Types
<1>13. WorkInv'
  BY <1>3, <1>7, <1>8, <1>9, <1>11 DEF WorkInv
<1> QED
  BY <1>10, <1>12, <1>13 DEF IInv

LEMMA CleanupStep ==
  ASSUME IInv, NEW gone \in SUBSET Ids, NEW n \in 0..recent, Cleanup(gone, n)
  PROVE  IInv'
<1>1. /\ worker = Idle /\ recent' = n
      /\ sessions' = [i \in Ids |-> IF i \in gone THEN NoSession ELSE sessions[i]]
      /\ UNCHANGED <<epoch, conn, missed, lagged, capture, queue, config, findings, sequence,
                     worker>>
  BY DEF Cleanup, ConnFrame
<1>2. Types /\ SessionInv
  BY DEF IInv
<1>3. /\ NoSession \in Session /\ NoSession.finding = NoFinding
      /\ OwnFinding(NoSession, sequence)
  BY <1>2, NoSessionType DEF Types
<1>4. /\ sessions' \in [Ids -> Session]
      /\ \A j \in Ids : /\ OwnFinding(sessions'[j], sequence)
                        /\ sessions'[j].finding \in {sessions[j].finding, NoFinding}
  BY <1>1, <1>2, <1>3 DEF Types, SessionInv
<1>5. SessionInv' /\ ListInv'
  BY <1>1, <1>4, ListKept
<1>6. Types'
  <2>1. recent' \in 0..(Burst + 1)
    BY <1>1, <1>2, DetectorAssumption DEF Types
  <2> QED
    BY <1>1, <1>2, <1>4, <2>1 DEF Types
<1>7. WorkInv'
  BY <1>1 DEF WorkInv, Idle
<1> QED
  BY <1>5, <1>6, <1>7 DEF IInv

LEMMA HookStep ==
  ASSUME IInv, Hook
  PROVE  IInv'
<1> DEFINE i == worker.mark.owner[2]
           c == capture[i]
           risk == IF worker.mark.score > c.risk THEN worker.mark.score ELSE c.risk
<1>1. /\ worker.pc = "hook"
      /\ capture' = IF ~c.kept THEN capture
                    ELSE [capture EXCEPT ![i].risk = risk,
                                         ![i].pinned = c.pinned \/ worker.mark.pin]
      /\ worker' = WithSignals(worker.key, worker.todo)
      /\ UNCHANGED <<epoch, conn, missed, lagged, queue, config, sessions, recent, findings,
                     sequence>>
  BY DEF Hook, ConnFrame
<1>2. Types /\ SessionInv /\ ListInv /\ WorkInv
  BY DEF IInv
<1>3. i \in Ids /\ c \in Capture /\ worker \in Work /\ worker.todo \in Seq(Signals)
  BY <1>1, <1>2 DEF Types, WorkInv, Conns, Work
<1>4. capture' \in [Ids -> Capture]
  <2>1. risk \in 0..100 /\ (c.pinned \/ worker.mark.pin) \in BOOLEAN
    BY <1>3 DEF Capture, Work
  <2> DEFINE pinned == c.pinned \/ worker.mark.pin
  <2>2. capture' = capture \/ capture' = [capture EXCEPT ![i].risk = risk, ![i].pinned = pinned]
    BY <1>1
  <2>3. capture \in [Ids -> Capture] /\ pinned \in BOOLEAN
    BY <1>2, <2>1 DEF Types
  <2>4. [c EXCEPT !.risk = risk, !.pinned = pinned] \in Capture
    BY <1>3, <2>1, <2>3 DEF Capture
  <2>5. capture' = capture \/ capture' = [capture EXCEPT ![i] = [c EXCEPT !.risk = risk, !.pinned = pinned]]
    BY <2>2
  <2> HIDE DEF risk, pinned, i, c, Capture
  <2> QED
    BY <1>3, <2>3, <2>4, <2>5
<1>5. /\ worker' \in Work /\ worker'.pc # "hook"
      /\ worker'.pc # "idle" =>
           /\ worker'.pc = "signal" /\ worker'.key = worker.key
           /\ worker'.todo = worker.todo /\ worker.todo # <<>>
  <2>1. worker.key \in Ids
    BY <1>1, <1>2 DEF WorkInv
  <2> QED
    BY <1>1, <1>3, <2>1, WithSignalsIs
<1>6. Types'
  BY <1>1, <1>2, <1>4, <1>5 DEF Types
<1>7. WorkInv'
  BY <1>1, <1>2, <1>5 DEF WorkInv
<1>8. SessionInv' /\ ListInv'
  BY <1>1, <1>2 DEF SessionInv, OwnFinding, ListInv, Sound
<1> QED
  BY <1>6, <1>7, <1>8 DEF IInv

-----------------------------------------------------------------------------
(* The list of findings.                                                    *)

LEMMA FirstOfIs ==
  ASSUME NEW X, NEW s \in Seq(X), NEW n \in Nat
  PROVE  /\ FirstOf(s, n) \in Seq(X) /\ Len(FirstOf(s, n)) \in Nat
         /\ Len(FirstOf(s, n)) <= n /\ Len(FirstOf(s, n)) <= Len(s)
         /\ DOMAIN FirstOf(s, n) = 1..Len(FirstOf(s, n))
         /\ \A k \in DOMAIN FirstOf(s, n) : k \in DOMAIN s /\ FirstOf(s, n)[k] = s[k]
<1>1. CASE Len(s) > n
  <2>1. FirstOf(s, n) = SubSeq(s, 1, n)
    BY <1>1 DEF FirstOf
  <2> QED
    BY <1>1, <2>1
<1>2. CASE ~(Len(s) > n)
  BY <1>2 DEF FirstOf
<1> QED
  BY <1>1, <1>2

LEMMA InFront ==
  ASSUME NEW X, NEW s \in Seq(X), NEW x \in X
  PROVE  /\ <<x>> \o s \in Seq(X) /\ Len(<<x>> \o s) = Len(s) + 1
         /\ DOMAIN (<<x>> \o s) = 1..(Len(s) + 1)
         /\ (<<x>> \o s)[1] = x
         /\ \A k \in 2..(Len(s) + 1) : (<<x>> \o s)[k] = s[k - 1]
OBVIOUS

LEMMA ConfigureStep ==
  ASSUME IInv, NEW c \in Configs, Configure(c)
  PROVE  IInv'
<1>1. /\ config' = c /\ findings' = FirstOf(findings, c.maxFindings)
      /\ sessions' = [i \in Ids |-> Unsettled(sessions[i])]
      /\ UNCHANGED <<epoch, conn, missed, lagged, capture, queue, recent, sequence, worker>>
  BY DEF Configure, ConnFrame
<1>2. Types /\ SessionInv /\ WorkInv /\ ListInv
  BY DEF IInv
<1>3. ASSUME NEW i \in Ids
      PROVE  /\ sessions'[i] \in Session
             /\ sessions'[i].live = sessions[i].live /\ sessions'[i].matched = sessions[i].matched
             /\ sessions'[i].finding = sessions[i].finding
             /\ sessions'[i].owner = sessions[i].owner
  <2>1. sessions'[i] = Unsettled(sessions[i]) /\ sessions[i] \in Session
    BY <1>1, <1>2 DEF Types
  <2> QED
    BY <2>1 DEF Unsettled, Session
<1>4. /\ sessions' \in [Ids -> Session]
      /\ \A i \in Ids : /\ OwnFinding(sessions'[i], sequence)
                        /\ sessions'[i].finding \in {sessions[i].finding, NoFinding}
  BY <1>1, <1>2, <1>3 DEF SessionInv, OwnFinding
<1>5. /\ SessionInv'
      /\ \A k \in DOMAIN findings : \A i \in Ids :
           sessions'[i].finding.id = findings[k].id => sessions'[i].finding = findings[k]
  BY <1>1, <1>4, SessionsKept
<1>6. /\ findings' \in Seq(Finding) /\ Len(findings') \in Nat
      /\ Len(findings') <= c.maxFindings /\ Len(findings') <= Len(findings)
      /\ \A k \in DOMAIN findings' : k \in DOMAIN findings /\ findings'[k] = findings[k]
  <2>1. c.maxFindings \in Nat /\ findings \in Seq(Finding)
    BY <1>2, DetectorAssumption DEF Types
  <2> QED
    BY <1>1, <2>1, FirstOfIs
<1>7. ListInv'
  <2>1. Len(findings') <= sequence
    BY <1>2, <1>6 DEF ListInv, Types
  <2> QED
    BY <1>1, <1>2, <1>5, <1>6, <2>1 DEF ListInv
<1>8. Types'
  BY <1>1, <1>2, <1>4, <1>6 DEF Types
<1>9. WorkInv'
  BY <1>1, <1>2, <1>3 DEF WorkInv
<1> QED
  BY <1>5, <1>7, <1>8, <1>9 DEF IInv

LEMMA ClearFindingsStep ==
  ASSUME IInv, ClearFindings
  PROVE  IInv'
<1>1. /\ findings' = <<>>
      /\ UNCHANGED <<epoch, conn, missed, lagged, capture, queue, config, sessions, recent,
                     sequence, worker>>
  BY DEF ClearFindings, ConnFrame
<1>2. Types /\ SessionInv /\ WorkInv
  BY DEF IInv
<1>3. Types' /\ ListInv'
  <2>1. findings' \in Seq(Finding) /\ Len(findings') = 0 /\ DOMAIN findings' = {}
    BY <1>1
  <2>2. config.maxFindings \in Nat /\ sequence \in Nat
    BY <1>2, DetectorAssumption DEF Types
  <2> QED
    BY <1>1, <1>2, <2>1, <2>2 DEF Types, ListInv
<1>4. SessionInv' /\ WorkInv'
  BY <1>1, <1>2 DEF SessionInv, OwnFinding, WorkInv
<1> QED
  BY <1>3, <1>4 DEF IInv

-----------------------------------------------------------------------------
(* A signal.                                                                *)

\* The finding of a session with the signal, before it has a number.
Grown(s, x) ==
  [s.finding EXCEPT !.owner = s.owner, !.signals = Append(@, x), !.score = Raised(@, x.score)]

LEMMA GrownIs ==
  ASSUME NEW s \in Session, s.live, NEW n \in Nat, OwnFinding(s, n), NEW x \in Signals,
         x.id \notin s.matched
  PROVE  /\ Grown(s, x) \in Finding /\ Grown(s, x).id = s.finding.id
         /\ Grown(s, x).owner \in Conns /\ Grown(s, x).pinned = s.finding.pinned
         /\ Distinct(Grown(s, x).signals)
         /\ Grown(s, x).score = Scored(Grown(s, x).signals)
         /\ \A k \in DOMAIN Grown(s, x).signals :
              Grown(s, x).signals[k].id \in s.matched \cup {x.id}
<1> DEFINE f == s.finding
           g == Grown(s, x)
           more == Append(f.signals, x)
<1>1. /\ f \in Finding /\ f.signals \in Seq(Signals) /\ s.owner \in Conns
      /\ f.score \in 0..100
  BY Zenon DEF Session, Finding, OwnFinding
<1>2. /\ Distinct(f.signals) /\ f.score = Scored(f.signals)
      /\ \A k \in DOMAIN f.signals : f.signals[k].id \in s.matched
  BY DEF OwnFinding, Sound
<1>3. Raised(f.score, x.score) = Scored(more) /\ Raised(f.score, x.score) \in 0..100
  BY <1>1, <1>2, SignalType, RaisedType, ScoredAppend, Zenon
<1>4. /\ more \in Seq(Signals)
      /\ DOMAIN more = 1..(Len(f.signals) + 1) /\ DOMAIN f.signals = 1..Len(f.signals)
      /\ \A k \in 1..Len(f.signals) : more[k] = f.signals[k]
      /\ more[Len(f.signals) + 1] = x /\ Len(f.signals) \in Nat
  BY <1>1
<1>5. /\ g \in Finding /\ g.id = f.id /\ g.owner = s.owner /\ g.pinned = f.pinned
      /\ g.signals = more /\ g.score = Scored(more)
  <2>1. g = [f EXCEPT !.owner = s.owner, !.signals = more, !.score = Scored(more)]
    BY <1>3 DEF Grown
  <2>2. s.owner \in Owners /\ Scored(more) \in 0..100
    BY <1>1, <1>3 DEF Owners
  <2> HIDE DEF f, g, more
  <2> QED
    BY <1>1, <1>4, <2>1, <2>2 DEF Finding
<1> HIDE DEF f, g, more
<1>6. Distinct(more) /\ \A k \in DOMAIN more : more[k].id \in s.matched \cup {x.id}
  <2>1. ASSUME NEW k \in DOMAIN more
        PROVE  (k \in DOMAIN f.signals /\ more[k] = f.signals[k]) \/ k = Len(f.signals) + 1
    BY <1>4
  <2>2. \A k \in DOMAIN f.signals : f.signals[k].id # x.id
    BY <1>2
  <2> QED
    BY <1>2, <1>4, <2>1, <2>2 DEF Distinct
<1> QED
  BY <1>1, <1>5, <1>6 DEF g, f

LEMMA AddSignalStep ==
  ASSUME IInv, AddSignal
  PROVE  IInv'
<1> DEFINE i == worker.key
           s == sessions[i]
           x == Head(worker.todo)
           rest == Tail(worker.todo)
           grown == Grown(s, x)
           created == grown.id = 0 /\ grown.score >= config.threshold
           known == IF created THEN [grown EXCEPT !.id = sequence + 1] ELSE grown
           pin == Pins(s, known)
           f == [known EXCEPT !.pinned = @ \/ pin]
           listed == [k \in DOMAIN findings |-> IF findings[k].id = f.id THEN f ELSE findings[k]]
<1>1. /\ worker.pc = "signal"
      /\ sequence' = IF created THEN sequence + 1 ELSE sequence
      /\ findings' = IF created THEN FirstOf(<<f>> \o findings, config.maxFindings) ELSE listed
      /\ sessions' = [sessions EXCEPT ![i].finding = f, ![i].matched = @ \cup {x.id}]
      /\ worker' = IF f.id = 0 THEN WithSignals(i, rest)
                   ELSE [pc |-> "hook", key |-> i, todo |-> rest,
                         mark |-> [owner |-> s.owner, score |-> f.score, pin |-> pin]]
      /\ UNCHANGED <<epoch, conn, missed, lagged, capture, queue, config, recent>>
  BY Zenon DEF AddSignal, ConnFrame, Grown
<1>2. Types /\ WorkInv /\ SessionInv /\ ListInv
  BY DEF IInv
<1>3. /\ i \in Ids /\ s \in Session /\ s.live /\ s.owner \in Conns /\ OwnFinding(s, sequence)
      /\ sequence \in Nat /\ config \in Configs
  BY <1>1, <1>2 DEF WorkInv, SessionInv, OwnFinding, Types
<1>4. /\ x \in Signals /\ x.id \in Names /\ x.id \notin s.matched
      /\ rest \in Seq(Signals) /\ Distinct(rest)
      /\ \A k \in DOMAIN rest : rest[k].id \notin s.matched \cup {x.id}
  <2> DEFINE todo == worker.todo
  <2>1. /\ todo \in Seq(Signals) /\ todo # <<>> /\ Distinct(todo)
        /\ \A k \in DOMAIN todo : todo[k].id \notin s.matched
    BY <1>1, <1>2 DEF Types, Work, WorkInv
  <2> HIDE DEF todo, s
  <2>2. /\ DOMAIN todo = 1..Len(todo) /\ Len(todo) \in Nat \ {0}
        /\ Head(todo) = todo[1] /\ Head(todo) \in Signals
        /\ Tail(todo) \in Seq(Signals) /\ DOMAIN Tail(todo) = 1..(Len(todo) - 1)
        /\ \A k \in 1..(Len(todo) - 1) : Tail(todo)[k] = todo[k + 1]
    BY <2>1
  <2>3. \A k \in 1..(Len(todo) - 1) : k + 1 \in DOMAIN todo /\ k + 1 # 1 /\ 1 \in DOMAIN todo
    BY <2>2
  <2>4. /\ Distinct(Tail(todo))
        /\ \A k \in DOMAIN Tail(todo) : Tail(todo)[k].id \notin s.matched \cup {Head(todo).id}
    BY <2>1, <2>2, <2>3 DEF Distinct
  <2>5. Head(todo).id \notin s.matched
    BY <2>1, <2>2
  <2> QED
    BY <2>2, <2>4, <2>5, SignalType DEF todo
<1> HIDE DEF i, s, x, rest
<1>5. /\ grown \in Finding /\ grown.id = s.finding.id /\ grown.owner \in Conns
      /\ Distinct(grown.signals) /\ grown.score = Scored(grown.signals)
      /\ \A k \in DOMAIN grown.signals : grown.signals[k].id \in s.matched \cup {x.id}
  BY <1>3, <1>4, GrownIs
<1> HIDE DEF grown
<1>6. /\ f \in Finding /\ f.owner = grown.owner /\ f.signals = grown.signals
      /\ f.score = grown.score /\ f.id = IF created THEN sequence + 1 ELSE s.finding.id
  <2>1. /\ known \in Finding /\ known.id = IF created THEN sequence + 1 ELSE s.finding.id
        /\ known.owner = grown.owner /\ known.signals = grown.signals
        /\ known.score = grown.score
    BY <1>3, <1>5 DEF Finding
  <2> DEFINE pinned == known.pinned \/ pin
  <2>2. pinned \in BOOLEAN
    OBVIOUS
  <2>3. f = [known EXCEPT !.pinned = pinned]
    OBVIOUS
  <2> HIDE DEF known, pinned, f, created
  <2> QED
    BY <2>1, <2>2, <2>3 DEF Finding
<1>7. pin \in BOOLEAN
  BY DEF Pins
<1> HIDE DEF known, pin, f
<1>8. Sound(f) /\ \A k \in DOMAIN f.signals : f.signals[k].id \in s.matched \cup {x.id}
  BY <1>5, <1>6 DEF Sound
<1>9. sequence' \in Nat /\ sequence <= sequence' /\ f.id <= sequence'
  <2>1. s.finding.id \in Nat /\ s.finding.id <= sequence
    BY <1>3 DEF OwnFinding, Session, Finding
  <2> QED
    BY <1>1, <1>3, <1>6, <2>1
<1> HIDE DEF created
<1>10. /\ sessions' \in [Ids -> Session]
       /\ sessions'[i].finding = f /\ sessions'[i].matched = s.matched \cup {x.id}
       /\ sessions'[i].live /\ sessions'[i].owner = s.owner
       /\ \A j \in Ids : j # i => sessions'[j] = sessions[j]
  <2> DEFINE t == [s EXCEPT !.finding = f, !.matched = @ \cup {x.id}]
  <2>1. /\ t \in Session /\ t.finding = f /\ t.matched = s.matched \cup {x.id}
        /\ t.live /\ t.owner = s.owner
    BY <1>3, <1>4, <1>6 DEF Session
  <2>2. sessions' = [sessions EXCEPT ![i] = t]
    BY <1>1 DEF s
  <2> HIDE DEF t
  <2> QED
    BY <1>2, <1>3, <2>1, <2>2 DEF Types
<1>11. SessionInv'
  <2>1. OwnFinding(sessions'[i], sequence')
    BY <1>3, <1>8, <1>9, <1>10 DEF OwnFinding
  <2>2. ASSUME NEW j \in Ids, j # i
        PROVE  /\ OwnFinding(sessions'[j], sequence') /\ sessions'[j] = sessions[j]
               /\ sessions[j].finding.id \in Nat /\ sessions[j].finding.id <= sequence
    <3>1. /\ OwnFinding(sessions[j], sequence) /\ sessions'[j] = sessions[j]
          /\ sessions[j] \in Session
      BY <1>2, <1>10, <2>2 DEF SessionInv, Types
    <3>2. sessions[j].finding.id \in Nat /\ sessions[j].finding.id <= sequence
      BY <3>1 DEF OwnFinding, Session, Finding
    <3>3. sessions[j].finding.id <= sequence'
      BY <1>3, <1>9, <3>2
    <3> QED
      BY <3>1, <3>2, <3>3 DEF OwnFinding
  <2>3. \A j \in Ids : OwnFinding(sessions'[j], sequence')
    BY <2>1, <2>2
  <2>4. ASSUME NEW j \in Ids, j # i, sessions[j].finding.id # 0
        PROVE  sessions[j].finding.id # f.id
    <3>1. sessions[j].finding.id # s.finding.id
      BY <1>2, <1>3, <2>4 DEF SessionInv, s
    <3>2. sessions[j].finding.id # sequence + 1
      BY <1>3, <2>2, <2>4
    <3> QED
      BY <1>6, <3>1, <3>2
  <2>5. ASSUME NEW j \in Ids, NEW l \in Ids,
               sessions'[j].finding.id = sessions'[l].finding.id, sessions'[j].finding.id # 0
        PROVE  j = l
    <3>1. CASE j = i
      BY <1>10, <2>2, <2>4, <2>5, <3>1
    <3>2. CASE l = i
      BY <1>10, <2>2, <2>4, <2>5, <3>2
    <3>3. CASE j # i /\ l # i
      BY <1>2, <2>2, <2>5, <3>3 DEF SessionInv
    <3> QED
      BY <3>1, <3>2, <3>3
  <2> QED
    BY <2>3, <2>5 DEF SessionInv
<1>12. /\ findings \in Seq(Finding) /\ Len(findings) \in Nat /\ DOMAIN findings = 1..Len(findings)
       /\ Len(findings) <= config.maxFindings /\ Len(findings) <= sequence
       /\ config.maxFindings \in Nat /\ config' = config
       /\ \A k \in DOMAIN findings :
            /\ findings[k] \in Finding /\ findings[k].id = sequence - k + 1
            /\ findings[k].id \in 1..sequence /\ Sound(findings[k])
            /\ \A j \in Ids : sessions[j].finding.id = findings[k].id =>
                                sessions[j].finding = findings[k]
  <2>1. findings \in Seq(Finding) /\ config.maxFindings \in Nat /\ config' = config
    BY <1>1, <1>2, <1>3, DetectorAssumption DEF Types
  <2>2. /\ Len(findings) \in Nat /\ DOMAIN findings = 1..Len(findings)
        /\ Len(findings) <= sequence
    BY <1>2, <2>1 DEF ListInv
  <2>3. \A k \in DOMAIN findings : sequence - k + 1 \in 1..sequence
    BY <1>3, <2>2
  <2> QED
    BY <1>2, <2>1, <2>2, <2>3 DEF ListInv
\* The finding that now is the session's is the one a list shows.
<1>13. ASSUME NEW g \in Finding, g.id # 0, NEW j \in Ids, sessions'[j].finding.id = g.id,
              g = f \/ (g.id # f.id /\ \E k \in DOMAIN findings : g = findings[k])
       PROVE  sessions'[j].finding = g
  <2>1. CASE j = i
    BY <1>10, <1>13, <2>1
  <2>2. CASE j # i /\ g = f
    BY <1>3, <1>10, <1>11, <1>13, <2>2 DEF SessionInv
  <2>3. CASE j # i /\ g # f
    BY <1>10, <1>12, <1>13, <2>3
  <2> QED
    BY <2>1, <2>2, <2>3
<1>14. ASSUME created
       PROVE  findings' \in Seq(Finding) /\ ListInv'
  <2> DEFINE all == <<f>> \o findings
             new == FirstOf(all, config.maxFindings)
  <2>1. findings' = new /\ sequence' = sequence + 1 /\ f.id = sequence + 1
    BY <1>1, <1>6, <1>14
  <2>2. /\ all \in Seq(Finding) /\ Len(all) = Len(findings) + 1
        /\ DOMAIN all = 1..(Len(findings) + 1) /\ all[1] = f
        /\ \A k \in 2..(Len(findings) + 1) : all[k] = findings[k - 1]
    BY <1>6, <1>12, InFront
  <2> HIDE DEF all
  <2>3. /\ new \in Seq(Finding) /\ Len(new) \in Nat /\ Len(new) <= config.maxFindings
        /\ Len(new) <= Len(findings) + 1 /\ DOMAIN new = 1..Len(new)
        /\ \A k \in DOMAIN new : k \in DOMAIN all /\ new[k] = all[k]
    BY <1>12, <2>2, FirstOfIs
  <2> HIDE DEF new
  <2>4. ASSUME NEW k \in DOMAIN new
        PROVE  /\ new[k] \in Finding /\ new[k].id = sequence' - k + 1 /\ new[k].id # 0
               /\ Sound(new[k])
               /\ new[k] = f \/ (new[k].id # f.id /\ \E m \in DOMAIN findings : new[k] = findings[m])
    <3>1. CASE k = 1
      <4>1. new[k] = f
        BY <2>2, <2>3, <3>1
      <4> QED
        BY <1>3, <1>6, <1>8, <2>1, <3>1, <4>1
    <3>2. CASE k # 1
      <4>1. k \in 2..(Len(findings) + 1)
        BY <2>2, <2>3, <3>2
      <4>2. k - 1 \in DOMAIN findings /\ new[k] = findings[k - 1]
        BY <1>12, <2>2, <2>3, <4>1
      <4>3. /\ findings[k - 1] \in Finding /\ Sound(findings[k - 1])
            /\ findings[k - 1].id = sequence - (k - 1) + 1 /\ findings[k - 1].id \in 1..sequence
        BY <1>12, <4>2
      <4>4. sequence - (k - 1) + 1 = sequence' - k + 1
        BY <1>3, <2>1, <4>1
      <4>5. findings[k - 1].id # sequence + 1 /\ findings[k - 1].id # 0
        BY <1>3, <4>3
      <4> QED
        BY <2>1, <4>2, <4>3, <4>4, <4>5
    <3> QED
      BY <3>1, <3>2
  <2>5. \A k \in DOMAIN new : \A j \in Ids :
          sessions'[j].finding.id = new[k].id => sessions'[j].finding = new[k]
    BY <1>13, <2>4
  <2>6. Len(new) <= sequence'
    BY <1>3, <1>12, <2>1, <2>3
  <2> QED
    BY <1>12, <2>1, <2>3, <2>4, <2>5, <2>6 DEF ListInv
<1>15. ASSUME ~created
       PROVE  findings' \in Seq(Finding) /\ ListInv'
  <2>1. findings' = listed /\ sequence' = sequence
    BY <1>1, <1>15
  <2>2. ASSUME NEW k \in DOMAIN findings
        PROVE  /\ listed[k] \in Finding /\ listed[k].id = sequence' - k + 1 /\ listed[k].id # 0
               /\ Sound(listed[k])
               /\ \/ listed[k] = f
                  \/ (listed[k].id # f.id /\ \E m \in DOMAIN findings : listed[k] = findings[m])
    <3>1. CASE findings[k].id = f.id
      <4>1. listed[k] = f
        BY <3>1
      <4> HIDE DEF listed
      <4> QED
        BY <1>3, <1>6, <1>8, <1>12, <2>1, <3>1, <4>1
    <3>2. CASE findings[k].id # f.id
      <4>1. listed[k] = findings[k]
        BY <3>2
      <4> HIDE DEF listed
      <4> QED
        BY <1>3, <1>12, <2>1, <3>2, <4>1
    <3> QED
      BY <3>1, <3>2
  <2>3. listed \in Seq(Finding) /\ Len(listed) = Len(findings) /\ DOMAIN listed = DOMAIN findings
    <3>1. listed \in [1..Len(findings) -> Finding] /\ DOMAIN listed = DOMAIN findings
      BY <1>12, <2>2
    <3> HIDE DEF listed
    <3> QED
      BY <1>12, <3>1
  <2> HIDE DEF listed
  <2>4. \A k \in DOMAIN listed : \A j \in Ids :
          sessions'[j].finding.id = listed[k].id => sessions'[j].finding = listed[k]
    BY <1>13, <2>2, <2>3
  <2> QED
    BY <1>12, <2>1, <2>2, <2>3, <2>4 DEF ListInv
<1>16. worker' \in Work /\ WorkInv'
  <2>1. CASE f.id = 0
    <3>1. worker' = WithSignals(i, rest)
      BY <1>1, <2>1
    <3>2. /\ worker' \in Work /\ worker'.pc # "hook"
          /\ worker'.pc # "idle" =>
               worker'.pc = "signal" /\ worker'.key = i /\ worker'.todo = rest /\ rest # <<>>
      BY <1>3, <1>4, <3>1, WithSignalsIs
    <3> QED
      BY <1>3, <1>4, <1>10, <3>2 DEF WorkInv
  <2>2. CASE f.id # 0
    <3>1. worker' = [pc |-> "hook", key |-> i, todo |-> rest,
                     mark |-> [owner |-> s.owner, score |-> f.score, pin |-> pin]]
      BY <1>1, <2>2
    <3>2. s.owner \in Owners /\ f.score \in 0..100
      BY <1>3, <1>6 DEF Owners, Finding
    <3>3. worker' \in Work
      BY <1>3, <1>4, <1>7, <3>1, <3>2 DEF Work
    <3>4. /\ worker'.pc = "hook" /\ worker'.key = i /\ worker'.todo = rest
          /\ worker'.mark.owner = s.owner
      BY <3>1
    <3> QED
      BY <1>3, <1>4, <1>10, <3>3, <3>4 DEF WorkInv
  <2> QED
    BY <2>1, <2>2
<1>17. findings' \in Seq(Finding) /\ ListInv'
  BY <1>14, <1>15
<1>18. Types'
  BY <1>1, <1>2, <1>9, <1>10, <1>16, <1>17 DEF Types
<1> QED
  BY <1>11, <1>16, <1>17, <1>18 DEF IInv

-----------------------------------------------------------------------------
(* Types, and findings that are sound.                                      *)

LEMMA InitInv == Init => IInv
<1> SUFFICES ASSUME Init PROVE IInv
  OBVIOUS
<1>1. /\ epoch = 1 /\ conn = [c \in Conns |-> [pc |-> "none", late |-> {}, chunks |-> 0]]
      /\ capture = [i \in Ids |-> NoCapture] /\ queue = <<>> /\ config = FirstConfig
      /\ sessions = [i \in Ids |-> NoSession] /\ recent = 0 /\ findings = <<>> /\ sequence = 0
      /\ worker = Idle /\ missed = FALSE /\ lagged = FALSE
  BY DEF Init
<1>2. Idle \in Work /\ Idle.pc = "idle"
  <2>1. <<>> \in Seq(Signals) /\ <<0, 0>> \in Owners
    BY DEF Owners
  <2> QED
    BY <2>1 DEF Idle, NoMark, Work
<1>3. conn \in [Conns -> Connection] /\ \A c \in Conns : conn[c].late = {}
  BY <1>1 DEF Connection
<1>4. capture \in [Ids -> Capture]
  BY <1>1 DEF NoCapture, Capture
<1>5. /\ queue \in Seq(Events) /\ Len(queue) = 0 /\ findings \in Seq(Finding)
      /\ Len(findings) = 0 /\ DOMAIN findings = {}
  BY <1>1
<1>6. sessions \in [Ids -> Session] /\ \A i \in Ids : sessions[i] = NoSession
  BY <1>1, NoSessionType
<1>7. /\ FirstConfig \in Configs /\ FirstConfig.maxFindings \in Nat /\ Burst \in Nat
      /\ QueueSize \in Nat /\ 1 \in Epochs
  BY DetectorAssumption
<1>8. Types
  <2>1. epoch \in Epochs /\ config \in Configs /\ sequence \in Nat
    BY <1>1, <1>7
  <2>2. recent \in 0..(Burst + 1)
    BY <1>1, <1>7
  <2>3. Len(queue) <= QueueSize
    BY <1>5, <1>7
  <2>4. worker \in Work
    BY <1>1, <1>2, Zenon
  <2>5. missed \in BOOLEAN /\ lagged \in BOOLEAN
    BY <1>1, Zenon
  <2> QED
    BY <1>3, <1>4, <1>5, <1>6, <2>1, <2>2, <2>3, <2>4, <2>5 DEF Types
<1>9. SessionInv
  <2>1. OwnFinding(NoSession, sequence) /\ NoSession.finding.id = 0
    <3>1. sequence \in Nat
      BY <1>1
    <3> QED
      BY <3>1, NoSessionType
  <2> QED
    BY <1>6, <2>1 DEF SessionInv
<1>10. WorkInv /\ ListInv
  BY <1>1, <1>2, <1>5, <1>7 DEF WorkInv, ListInv
<1> QED
  BY <1>8, <1>9, <1>10 DEF IInv

LEMMA NextInv == IInv /\ [Next]_vars => IInv'
<1> SUFFICES ASSUME IInv, [Next]_vars PROVE IInv'
  OBVIOUS
<1>1. ASSUME NEW i \in Ids, Connect(i) PROVE IInv'
  BY <1>1, ConnectStep
<1>2. ASSUME NEW c \in Conns, Finish(c) PROVE IInv'
  BY <1>2, FinishStep
<1>3. ASSUME NEW c \in Conns, NEW ch \in Chunks, Send(c, ch) PROVE IInv'
  BY <1>3, SendStep
<1>4. ASSUME NEW i \in Ids, Evict(i) PROVE IInv'
  BY <1>4, EvictStep
<1>5. CASE Replace
  BY <1>5, ReplaceStep
<1>6. CASE TakeBegin
  BY <1>6, TakeBeginStep
<1>7. CASE TakeEnd
  BY <1>7, TakeEndStep
<1>8. CASE TakeChunk
  BY <1>8, TakeChunkStep
<1>9. CASE AddSignal
  BY <1>9, AddSignalStep
<1>10. CASE Hook
  BY <1>10, HookStep
<1>11. ASSUME NEW gone \in SUBSET Ids, NEW n \in 0..recent, Cleanup(gone, n) PROVE IInv'
  BY <1>11, CleanupStep
<1>12. ASSUME NEW c \in Configs, Configure(c) PROVE IInv'
  BY <1>12, ConfigureStep
<1>13. CASE ClearFindings
  BY <1>13, ClearFindingsStep
<1>14. CASE UNCHANGED vars
  <2>1. UNCHANGED <<epoch, conn, capture, queue, sessions, engine, missed, lagged>>
    BY <1>14 DEF vars
  <2>2. Types'
    BY <2>1 DEF engine, IInv, Types
  <2> QED
    BY <2>1, <2>2, EngineKept
<1> QED
  BY <1>1, <1>2, <1>3, <1>4, <1>5, <1>6, <1>7, <1>8, <1>9, <1>10, <1>11, <1>12, <1>13, <1>14
  DEF Next

LEMMA Invariance == Spec => []IInv
  BY InitInv, NextInv, PTL DEF Spec

\* Every variable has its type, and no score exceeds 100 (addSignal).
THEOREM TypeCorrect == Spec => []TypeOK
<1>1. ASSUME IInv PROVE TypeOK
  <2>1. Types /\ SessionInv /\ ListInv
    BY <1>1 DEF IInv
  <2>2. \A c \in Conns : conn[c].pc \in {"none", "open", "ended"} /\ conn[c].late \subseteq Dirs
    BY <2>1 DEF Types, Connection
  <2>3. \A k \in DOMAIN queue :
          queue[k].kind \in {"begin", "chunk", "end"} /\ queue[k].conn \in Conns
    <3>1. \A k \in DOMAIN queue : queue[k] \in Events
      BY <2>1 DEF Types
    <3> QED
      BY <3>1 DEF Events
  <2>4. ASSUME NEW k \in DOMAIN findings PROVE findings[k] \in FindingType
    <3>1. findings[k] \in Finding /\ findings[k].id = sequence - k + 1 /\ k \in 1..Len(findings)
      BY <2>1 DEF Types, ListInv
    <3>2. findings[k].id \in 0..sequence
      BY <2>1, <3>1 DEF Types, ListInv, Finding
    <3> QED
      BY <3>1, <3>2 DEF Finding, FindingType
  <2>5. ASSUME NEW i \in Ids
        PROVE  sessions[i].owner \in Owners /\ sessions[i].finding \in FindingType
    <3>1. sessions[i] \in Session /\ sessions[i].finding.id <= sequence /\ sequence \in Nat
      BY <2>1 DEF Types, SessionInv, OwnFinding
    <3>2. sessions[i].finding \in Finding /\ sessions[i].finding.id \in 0..sequence
      BY <3>1 DEF Session, Finding
    <3> QED
      BY <3>1, <3>2 DEF Session, Finding, FindingType
  <2>6. worker.pc \in {"idle", "signal", "hook"} /\ worker.todo \in Seq(Signals)
    BY <2>1 DEF Types, Work
  <2> QED
    BY <2>1, <2>2, <2>3, <2>4, <2>5, <2>6 DEF Types, TypeOK, Capture
<1> QED
  BY <1>1, Invariance, PTL

\* What an operator reads is always the newest findings, within the limit,
\* numbered without a gap, each of one connection and adding up, and the same
\* as the worker's (addSignal, Configure, ClearFindings).
THEOREM FindingsAreAlwaysSound == Spec => []FindingsAreSound
<1>1. ASSUME IInv PROVE FindingsAreSound
  <2>1. Types /\ ListInv
    BY <1>1 DEF IInv
  <2>2. ASSUME NEW k \in DOMAIN findings
        PROVE  /\ findings[k].id = sequence - k + 1 /\ findings[k].owner \in Conns
               /\ \A m, n \in DOMAIN findings[k].signals :
                    findings[k].signals[m].id = findings[k].signals[n].id => m = n
               /\ findings[k].score = Scored(findings[k].signals)
               /\ \A i \in Ids : sessions[i].finding.id = findings[k].id =>
                                   sessions[i].finding = findings[k]
    <3>1. findings[k].id = sequence - k + 1 /\ Sound(findings[k]) /\ k \in 1..Len(findings)
      BY <2>1 DEF ListInv, Types
    <3>2. findings[k].id # 0
      BY <2>1, <3>1 DEF ListInv, Types
    <3> QED
      BY <2>1, <3>1, <3>2 DEF ListInv, Sound, Distinct
  <2> QED
    BY <2>1, <2>2 DEF ListInv, FindingsAreSound
<1> QED
  BY <1>1, Invariance, PTL

-----------------------------------------------------------------------------
(* Texts.                                                                   *)

\* t is something, and then s.
Ends(s, t) == \E u \in Seq(Byte) : t = u \o s

LEMMA SuffixOf ==
  ASSUME NEW s \in Seq(Byte), NEW t \in Seq(Byte), Ends(s, t)
  PROVE  IsSuffix(s, t)
<1>1. PICK u \in Seq(Byte) : t = u \o s
  BY DEF Ends
<1>2. /\ Len(s) \in Nat /\ Len(u) \in Nat /\ Len(t) = Len(u) + Len(s)
      /\ \A k \in 1..Len(s) : t[Len(u) + k] = s[k]
  BY <1>1
<1>3. /\ Len(Reverse(s)) = Len(s) /\ Len(Reverse(t)) = Len(t)
      /\ \A k \in 1..Len(s) : Reverse(s)[k] = s[Len(s) - k + 1]
      /\ \A k \in 1..Len(t) : Reverse(t)[k] = t[Len(t) - k + 1]
      /\ Reverse(s) \in Seq(Byte) /\ Reverse(t) \in Seq(Byte)
  BY <1>2 DEF Reverse
<1>4. ASSUME NEW k \in 1..Len(s) PROVE Reverse(s)[k] = Reverse(t)[k]
  <2>1. Len(s) - k + 1 \in 1..Len(s) /\ Len(t) - k + 1 = Len(u) + (Len(s) - k + 1)
        /\ k \in 1..Len(t)
    BY <1>2
  <2> QED
    BY <1>2, <1>3, <2>1
<1> HIDE DEF Reverse
<1> DEFINE a == Reverse(s)
           b == Reverse(t)
<1>5. /\ a \in Seq(Byte) /\ b \in Seq(Byte) /\ Len(a) = Len(s) /\ Len(a) <= Len(b)
      /\ \A k \in 1..Len(a) : a[k] = b[k]
  BY <1>2, <1>3, <1>4
<1> HIDE DEF a, b
<1>6. SubSeq(a, 1, Len(a)) = SubSeq(b, 1, Len(a))
  BY <1>5
<1> QED
  BY <1>5, <1>6 DEF IsSuffix, IsPrefix, a, b

\* What comes is appended to both, ...
LEMMA EndsAppend ==
  ASSUME NEW s \in Seq(Byte), NEW t \in Seq(Byte), NEW d \in Seq(Byte), Ends(s, t)
  PROVE  Ends(s \o d, t \o d)
<1>1. PICK u \in Seq(Byte) : t = u \o s
  BY DEF Ends
<1>2. t \o d = u \o (s \o d)
  BY <1>1, ConcatAssociative
<1> QED
  BY <1>2 DEF Ends

\* ... and what s begins with may be forgotten.
LEMMA EndsDrop ==
  ASSUME NEW a \in Seq(Byte), NEW s \in Seq(Byte), NEW t \in Seq(Byte), Ends(a \o s, t)
  PROVE  Ends(s, t)
<1>1. PICK u \in Seq(Byte) : t = u \o (a \o s)
  BY DEF Ends
<1>2. t = (u \o a) \o s /\ u \o a \in Seq(Byte)
  BY <1>1, ConcatAssociative
<1> QED
  BY <1>2 DEF Ends

LEMMA EndsTrans ==
  ASSUME NEW r \in Seq(Byte), NEW s \in Seq(Byte), NEW t \in Seq(Byte), Ends(r, s), Ends(s, t)
  PROVE  Ends(r, t)
<1>1. PICK u \in Seq(Byte) : s = u \o r
  BY DEF Ends
<1> QED
  BY <1>1, EndsDrop

LEMMA EndsSelf ==
  ASSUME NEW s \in Seq(Byte)
  PROVE  Ends(s, s) /\ Ends(<<>>, s)
<1>1. s = <<>> \o s /\ s = s \o <<>> /\ <<>> \in Seq(Byte)
  BY ConcatEmptySeq
<1> QED
  BY <1>1 DEF Ends

LEMMA LastBytesIs ==
  ASSUME NEW s \in Seq(Byte), NEW n \in Nat
  PROVE  /\ LastBytes(s, n) \in Seq(Byte) /\ Ends(LastBytes(s, n), s)
         /\ Len(LastBytes(s, n)) = IF Len(s) > n THEN n ELSE Len(s)
         /\ Len(s) >= Len(LastBytes(s, n))
         /\ \A k \in 1..Len(LastBytes(s, n)) :
              LastBytes(s, n)[k] = s[Len(s) - Len(LastBytes(s, n)) + k]
<1>1. Len(s) \in Nat
  OBVIOUS
<1>2. CASE Len(s) > n
  <2> DEFINE t == SubSeq(s, Len(s) - n + 1, Len(s))
             u == SubSeq(s, 1, Len(s) - n)
  <2>1. LastBytes(s, n) = t
    BY <1>2 DEF LastBytes
  <2>2. /\ t \in Seq(Byte) /\ Len(t) = n /\ u \in Seq(Byte) /\ Len(u) = Len(s) - n
        /\ \A k \in 1..n : t[k] = s[Len(s) - n + k]
        /\ \A k \in 1..(Len(s) - n) : u[k] = s[k]
    BY <1>1, <1>2
  <2> HIDE DEF t, u
  <2>3. s = u \o t
    <3>1. /\ Len(u \o t) = Len(s) /\ u \o t \in Seq(Byte)
          /\ \A k \in 1..Len(s) : (u \o t)[k] = IF k <= Len(s) - n THEN u[k]
                                                ELSE t[k - (Len(s) - n)]
      <4>1. Len(u) + Len(t) = Len(s)
        BY <1>1, <2>2
      <4>2. t \in Seq(Byte) /\ u \in Seq(Byte) /\ Len(u) = Len(s) - n
        BY <2>2
      <4> QED
        BY <4>1, <4>2, ConcatProperties
    <3>2. ASSUME NEW k \in 1..Len(s) PROVE (u \o t)[k] = s[k]
      <4>1. CASE k <= Len(s) - n
        <5>1. k \in 1..(Len(s) - n)
          BY <1>1, <1>2, <4>1
        <5> QED
          BY <2>2, <3>1, <4>1, <5>1
      <4>2. CASE ~(k <= Len(s) - n)
        <5>1. k - (Len(s) - n) \in 1..n /\ Len(s) - n + (k - (Len(s) - n)) = k
          BY <1>1, <1>2, <4>2
        <5> QED
          BY <2>2, <3>1, <4>2, <5>1
      <4> QED
        BY <4>1, <4>2
    <3> QED
      BY <3>1, <3>2, SeqEqual
  <2>4. Ends(t, s)
    BY <2>2, <2>3 DEF Ends
  <2>5. Len(t) = IF Len(s) > n THEN n ELSE Len(s)
    BY <1>2, <2>2
  <2>6. Len(s) >= Len(t)
    BY <1>1, <1>2, <2>2
  <2>7. \A k \in 1..Len(t) : t[k] = s[Len(s) - Len(t) + k]
    BY <2>2
  <2>8. t \in Seq(Byte)
    BY <2>2
  <2> HIDE DEF Ends
  <2> QED
    BY <2>1, <2>4, <2>5, <2>6, <2>7, <2>8
<1>3. CASE ~(Len(s) > n)
  <2>1. LastBytes(s, n) = s
    BY <1>3 DEF LastBytes
  <2> QED
    BY <1>1, <1>3, <2>1, EndsSelf
<1> QED
  BY <1>2, <1>3

\* Bytes that have left the buffer do not come back.
LEMMA LastBytesTwice ==
  ASSUME NEW s \in Seq(Byte), NEW d \in Seq(Byte), NEW n \in Nat
  PROVE  LastBytes(LastBytes(s, n) \o d, n) = LastBytes(s \o d, n)
<1> DEFINE t == LastBytes(s, n)
           a == t \o d
           b == s \o d
           x == LastBytes(a, n)
           y == LastBytes(b, n)
<1>1. /\ t \in Seq(Byte) /\ Len(t) = (IF Len(s) > n THEN n ELSE Len(s)) /\ Len(s) >= Len(t)
      /\ \A k \in 1..Len(t) : t[k] = s[Len(s) - Len(t) + k]
      /\ Len(s) \in Nat /\ Len(d) \in Nat /\ Len(t) \in Nat
  BY LastBytesIs
<1> HIDE DEF t
<1>2. /\ a \in Seq(Byte) /\ Len(a) = Len(t) + Len(d)
      /\ b \in Seq(Byte) /\ Len(b) = Len(s) + Len(d)
      /\ \A k \in 1..Len(t) : a[k] = t[k]
      /\ \A k \in 1..Len(s) : b[k] = s[k]
      /\ \A k \in 1..Len(d) : a[Len(t) + k] = d[k] /\ b[Len(s) + k] = d[k]
  <2>1. ASSUME NEW r \in Seq(Byte)
        PROVE  /\ r \o d \in Seq(Byte) /\ Len(r \o d) = Len(r) + Len(d)
               /\ \A k \in 1..Len(r) : (r \o d)[k] = r[k]
               /\ \A k \in 1..Len(d) : (r \o d)[Len(r) + k] = d[k]
    <3>1. Len(r) \in Nat /\ Len(d) \in Nat
      OBVIOUS
    <3> DEFINE whole == r \o d
    <3>2. /\ whole \in Seq(Byte) /\ Len(whole) = Len(r) + Len(d)
          /\ \A k \in 1..(Len(r) + Len(d)) :
               whole[k] = IF k <= Len(r) THEN r[k] ELSE d[k - Len(r)]
      BY ConcatProperties, Zenon
    <3> HIDE DEF whole
    <3>3. \A k \in 1..Len(r) : whole[k] = r[k]
      BY <3>1, <3>2
    <3>4. ASSUME NEW k \in 1..Len(d) PROVE whole[Len(r) + k] = d[k]
      <4>1. /\ Len(r) + k \in 1..(Len(r) + Len(d)) /\ ~(Len(r) + k <= Len(r))
            /\ (Len(r) + k) - Len(r) = k
        BY <3>1
      <4> QED
        BY <3>2, <4>1
    <3> QED
      BY <3>2, <3>3, <3>4 DEF whole
  <2>2. t \in Seq(Byte)
    BY <1>1
  <2> QED
    BY <2>1, <2>2, Zenon DEF a, b
<1> HIDE DEF a, b
<1>3. ASSUME NEW k \in 1..Len(a) PROVE a[k] = b[Len(b) - Len(a) + k]
  <2> Len(t) \in Nat /\ Len(a) \in Nat /\ k \in Int
    BY <1>1, <1>2
  <2>1. CASE k <= Len(t)
    <3>1. k \in 1..Len(t) /\ Len(s) - Len(t) + k \in 1..Len(s)
          /\ Len(b) - Len(a) + k = Len(s) - Len(t) + k
      BY <1>1, <1>2, <2>1
    <3> QED
      BY <1>1, <1>2, <3>1
  <2>2. CASE k > Len(t)
    <3>1. k - Len(t) \in 1..Len(d) /\ k = Len(t) + (k - Len(t))
          /\ Len(b) - Len(a) + k = Len(s) + (k - Len(t))
      BY <1>1, <1>2, <2>2
    <3> DEFINE m == k - Len(t)
    <3>2. m \in 1..Len(d) /\ k = Len(t) + m /\ Len(b) - Len(a) + k = Len(s) + m
      BY <3>1
    <3> HIDE DEF m
    <3>3. a[Len(t) + m] = d[m] /\ b[Len(s) + m] = d[m]
      BY <1>2, <3>2, Zenon
    <3> QED
      BY <3>2, <3>3, Zenon
  <2> QED
    BY <2>1, <2>2
<1>4. /\ x \in Seq(Byte) /\ Len(x) = (IF Len(a) > n THEN n ELSE Len(a)) /\ Len(a) >= Len(x)
      /\ \A k \in 1..Len(x) : x[k] = a[Len(a) - Len(x) + k]
      /\ y \in Seq(Byte) /\ Len(y) = (IF Len(b) > n THEN n ELSE Len(b)) /\ Len(b) >= Len(y)
      /\ \A k \in 1..Len(y) : y[k] = b[Len(b) - Len(y) + k]
  BY <1>2, LastBytesIs
<1> HIDE DEF x, y
<1>5. Len(x) = Len(y) /\ Len(x) \in Nat /\ Len(a) \in Nat /\ Len(b) \in Nat
  BY <1>1, <1>2, <1>4
<1>6. ASSUME NEW k \in 1..Len(x) PROVE x[k] = y[k]
  <2>1. /\ Len(a) - Len(x) + k \in 1..Len(a)
        /\ Len(b) - Len(a) + (Len(a) - Len(x) + k) = Len(b) - Len(y) + k
    <3>1. Len(a) >= Len(x)
      BY <1>4
    <3> QED
      BY <1>5, <3>1
  <2> QED
    BY <1>3, <1>4, <1>5, <2>1
<1> QED
  BY <1>4, <1>5, <1>6, SeqEqual DEF x, y, a, b, t

-----------------------------------------------------------------------------
(* Where a text occurs.                                                     *)

LEMMA OccursIs ==
  ASSUME NEW P, NEW p \in Seq(P), NEW s \in Seq(Byte)
  PROVE  Occurs(p, s) <=> \E i \in 0..(Len(s) - Len(p)) : \A m \in 1..Len(p) : s[i + m] = p[m]
<1>1. Len(p) \in Nat /\ Len(s) \in Nat /\ p = [m \in 1..Len(p) |-> p[m]]
  OBVIOUS
<1>2. ASSUME NEW i \in 0..(Len(s) - Len(p))
      PROVE  SubSeq(s, i + 1, i + Len(p)) = p <=> \A m \in 1..Len(p) : s[i + m] = p[m]
  <2> DEFINE t == SubSeq(s, i + 1, i + Len(p))
  <2>1. t \in Seq(Byte) /\ Len(t) = Len(p) /\ \A m \in 1..Len(p) : t[m] = s[i + m]
    <3> DEFINE a == i + 1
               b == i + Len(p)
    <3>1. a \in 1..(Len(s) + 1) /\ b \in (a - 1)..Len(s) /\ b - a + 1 = Len(p)
          /\ \A m \in 1..Len(p) : a + m - 1 = i + m
      <4>1. i \in Nat /\ i + Len(p) <= Len(s) /\ i <= Len(s)
        BY <1>1
      <4>2. a \in 1..(Len(s) + 1)
        BY <1>1, <4>1
      <4>3. b \in (a - 1)..Len(s) /\ b - a + 1 = Len(p)
        BY <1>1, <4>1
      <4>4. \A m \in 1..Len(p) : a + m - 1 = i + m
        BY <1>1, <4>1
      <4> QED
        BY <4>2, <4>3, <4>4
    <3> HIDE DEF a, b
    <3>2. SubSeq(s, a, b) \in Seq(Byte) /\ Len(SubSeq(s, a, b)) = Len(p)
          /\ \A m \in 1..Len(p) : SubSeq(s, a, b)[m] = s[a + m - 1]
      BY <3>1, SubSeqProperties
    <3> QED
      BY <3>1, <3>2 DEF a, b
  <2>2. t = [m \in 1..Len(p) |-> t[m]]
    BY <2>1
  <2> HIDE DEF t
  <2>3. t = p <=> \A m \in 1..Len(p) : t[m] = p[m]
    BY <1>1, <2>2
  <2> QED
    BY <2>1, <2>3 DEF t
<1> QED
  BY <1>2 DEF Occurs

LEMMA OccursLater ==
  ASSUME NEW P, NEW p \in Seq(P), NEW s \in Seq(Byte), NEW t \in Seq(Byte), Occurs(p, s)
  PROVE  Occurs(p, s \o t) /\ Occurs(p, t \o s)
<1>1. PICK i \in 0..(Len(s) - Len(p)) : \A m \in 1..Len(p) : s[i + m] = p[m]
  BY OccursIs
<1>2. Len(p) \in Nat /\ Len(s) \in Nat /\ Len(t) \in Nat
  OBVIOUS
<1>3. Occurs(p, s \o t)
  <2>1. s \o t \in Seq(Byte) /\ i \in 0..(Len(s \o t) - Len(p))
    BY <1>2
  <2>2. ASSUME NEW m \in 1..Len(p) PROVE (s \o t)[i + m] = p[m]
    <3>1. i + m \in 1..Len(s)
      BY <1>2
    <3>2. (s \o t)[i + m] = s[i + m]
      BY <3>1
    <3> QED
      BY <1>1, <3>2
  <2> QED
    BY <2>1, <2>2, OccursIs
<1>4. Occurs(p, t \o s)
  <2>1. t \o s \in Seq(Byte) /\ Len(t) + i \in 0..(Len(t \o s) - Len(p))
    BY <1>2
  <2>2. ASSUME NEW m \in 1..Len(p) PROVE (t \o s)[Len(t) + i + m] = p[m]
    <3>1. i + m \in 1..Len(s) /\ Len(t) + i + m = Len(t) + (i + m)
      BY <1>2
    <3>2. (t \o s)[Len(t) + (i + m)] = s[i + m]
      BY <1>2, <3>1
    <3> QED
      BY <1>1, <3>1, <3>2
  <2> QED
    BY <2>1, <2>2, OccursIs
<1> QED
  BY <1>3, <1>4

\* A text that occurs only with what has come last is within the last bytes.
LEMMA OccursInBuffer ==
  ASSUME NEW P, NEW p \in Seq(P), Len(p) > 0, NEW s \in Seq(Byte), NEW d \in Seq(Byte),
         NEW n \in Nat, Len(d) + Len(p) - 1 <= n, Occurs(p, s \o d), ~Occurs(p, s)
  PROVE  Occurs(p, LastBytes(s \o d, n))
<1> DEFINE b == s \o d
           y == LastBytes(b, n)
<1>1. /\ Len(p) \in Nat /\ Len(s) \in Nat /\ Len(d) \in Nat
      /\ b \in Seq(Byte) /\ Len(b) = Len(s) + Len(d) /\ \A k \in 1..Len(s) : b[k] = s[k]
  OBVIOUS
<1>2. PICK i \in 0..(Len(b) - Len(p)) : \A m \in 1..Len(p) : b[i + m] = p[m]
  BY <1>1, OccursIs
<1> HIDE DEF b
<1>3. i + Len(p) > Len(s)
  <2> SUFFICES ASSUME i + Len(p) <= Len(s) PROVE FALSE
    BY <1>1
  <2>1. i \in 0..(Len(s) - Len(p))
    BY <1>1
  <2>2. ASSUME NEW m \in 1..Len(p) PROVE s[i + m] = p[m]
    <3>1. i + m \in 1..Len(s)
      BY <1>1
    <3> QED
      BY <1>1, <1>2, <3>1
  <2> QED
    BY <2>1, <2>2, OccursIs
<1>4. /\ y \in Seq(Byte) /\ Len(y) = (IF Len(b) > n THEN n ELSE Len(b)) /\ Len(b) >= Len(y)
      /\ \A k \in 1..Len(y) : y[k] = b[Len(b) - Len(y) + k]
  BY <1>1, LastBytesIs
<1> HIDE DEF y
<1> DEFINE j == i - (Len(b) - Len(y))
<1>5. j \in 0..(Len(y) - Len(p)) /\ Len(b) - Len(y) \in Nat /\ Len(y) \in Nat
  BY <1>1, <1>3, <1>4
<1>6. ASSUME NEW m \in 1..Len(p) PROVE y[j + m] = p[m]
  <2>1. j + m \in 1..Len(y) /\ Len(b) - Len(y) + (j + m) = i + m
    BY <1>1, <1>5
  <2> QED
    BY <1>2, <1>4, <2>1
<1> HIDE DEF j
<1>7. Occurs(p, y)
  BY <1>4, <1>5, <1>6, OccursIs
<1> QED
  BY <1>7 DEF y, b

-----------------------------------------------------------------------------
(* What the queue carries.                                                  *)

\* What one event does.
Part(e, c, dir) == IF e.kind = "chunk" /\ e.conn = c /\ e.dir = dir THEN e.data ELSE <<>>

Carrying(c, dir) == [p \in Seq(Byte) \X Events |-> p[1] \o Part(p[2], c, dir)]

LEMMA PartType ==
  ASSUME NEW e \in Events, NEW c, NEW dir
  PROVE  Part(e, c, dir) \in Seq(Byte)
BY DEF Part, Events

LEMMA CarryingType ==
  ASSUME NEW c, NEW dir
  PROVE  Carrying(c, dir) \in Steps(Events, Seq(Byte))
<1>1. ASSUME NEW p \in Seq(Byte) \X Events PROVE p[1] \o Part(p[2], c, dir) \in Seq(Byte)
  BY PartType
<1> QED
  BY <1>1 DEF Carrying, Steps

LEMMA CarriedIsFold ==
  ASSUME NEW q \in Seq(Events), NEW c, NEW dir
  PROVE  \E f \in [0..Len(q) -> Seq(Byte)] :
           IsFold(f, <<>>, Carrying(c, dir), q) /\ Carried(q, c, dir) = f[Len(q)]
<1> DEFINE op == Carrying(c, dir)
           b == <<>>
           R(g) == [k \in 0..Len(q) |->
                      IF k = 0 THEN <<>>
                      ELSE IF q[k].kind = "chunk" /\ q[k].conn = c /\ q[k].dir = dir
                           THEN g[k - 1] \o q[k].data
                           ELSE g[k - 1]]
<1>1. PICK f \in [0..Len(q) -> Seq(Byte)] : IsFold(f, b, op, q)
  <2>1. op \in Steps(Events, Seq(Byte)) /\ b \in Seq(Byte)
    BY CarryingType
  <2> HIDE DEF op, b
  <2> QED
    BY <2>1, FoldExists
<1>2. ASSUME NEW k \in 1..Len(q)
      PROVE  f[k] = f[k - 1] \o Part(q[k], c, dir) /\ f[k - 1] \in Seq(Byte)
  <2>1. <<f[k - 1], q[k]>> \in Seq(Byte) \X Events
    <3>1. k - 1 \in 0..Len(q)
      OBVIOUS
    <3>2. f[k - 1] \in Seq(Byte)
      BY <3>1
    <3>3. q[k] \in Events
      OBVIOUS
    <3> QED
      BY <3>2, <3>3, Zenon
  <2>2. f[k] = op[<<f[k - 1], q[k]>>]
    BY <1>1 DEF IsFold
  <2> QED
    BY <2>1, <2>2 DEF Carrying
<1>3. f[0] = <<>> /\ f = [k \in 0..Len(q) |-> f[k]]
  BY <1>1 DEF IsFold
<1>4. f = R(f)
  <2>1. ASSUME NEW k \in 0..Len(q) PROVE f[k] = R(f)[k]
    <3>1. CASE k = 0
      BY <1>3, <3>1
    <3>2. CASE k # 0
      <4>1. k \in 1..Len(q)
        BY <3>2
      <4>2. f[k] = f[k - 1] \o Part(q[k], c, dir) /\ f[k - 1] \o <<>> = f[k - 1]
        BY <1>2, <4>1
      <4> QED
        BY <3>2, <4>2 DEF Part
    <3> QED
      BY <3>1, <3>2
  <2> HIDE DEF R
  <2>2. R(f) = [k \in 0..Len(q) |-> R(f)[k]]
    BY DEF R
  <2> QED
    BY <1>3, <2>1, <2>2
<1> DEFINE F == CHOOSE g : g = R(g)
<1>5. F = R(F)
  BY <1>4, Zenon
<1>6. Carried(q, c, dir) = F[Len(q)]
  BY Zenon DEF Carried
<1> HIDE DEF F
<1> DEFINE T == {k \in 0..Len(q) : F[k] = f[k]}
<1>7. \A k \in 0..Len(q) : F[k] = R(F)[k] /\ f[k] = R(f)[k]
  BY <1>4, <1>5, Zenon
<1>8. 0 \in T
  <2>1. 0 \in 0..Len(q)
    OBVIOUS
  <2>2. F[0] = <<>> /\ f[0] = <<>>
    BY <1>3, <1>7, <2>1
  <2> QED
    BY <2>1, <2>2
<1>9. ASSUME NEW k \in 1..Len(q), k - 1 \in T PROVE k \in T
  <2>1. k \in 0..Len(q) /\ k # 0 /\ F[k - 1] = f[k - 1]
    BY <1>9
  <2>2. F[k] = f[k]
    BY <1>7, <2>1
  <2> QED
    BY <2>1, <2>2
<1> HIDE DEF T
<1>10. Len(q) \in Nat /\ Len(q) \in 0..Len(q)
  OBVIOUS
<1>11. \A k \in 0..Len(q) : k \in T
  BY <1>8, <1>9, <1>10, UpTo
<1>12. F[Len(q)] = f[Len(q)]
  BY <1>10, <1>11 DEF T
<1> QED
  BY <1>1, <1>6, <1>12

LEMMA CarriedType ==
  ASSUME NEW q \in Seq(Events), NEW c, NEW dir
  PROVE  Carried(q, c, dir) \in Seq(Byte)
<1>1. PICK f \in [0..Len(q) -> Seq(Byte)] : Carried(q, c, dir) = f[Len(q)]
  BY CarriedIsFold, Zenon
<1>2. Len(q) \in 0..Len(q)
  OBVIOUS
<1> QED
  BY <1>1, <1>2

LEMMA CarriedEmpty ==
  ASSUME NEW c, NEW dir
  PROVE  Carried(<<>>, c, dir) = <<>>
<1>1. <<>> \in Seq(Events) /\ Len(<<>>) = 0
  OBVIOUS
<1>2. PICK f : IsFold(f, <<>>, Carrying(c, dir), <<>>) /\ Carried(<<>>, c, dir) = f[Len(<<>>)]
  BY <1>1, CarriedIsFold, Zenon
<1> QED
  BY <1>1, <1>2 DEF IsFold

LEMMA BytesAssociate ==
  \A x, y, z \in Seq(Byte) : (x \o y) \o z = x \o (y \o z)
BY ConcatAssociative

\* An event that enters the queue ...
LEMMA CarriedAppend ==
  ASSUME NEW q \in Seq(Events), NEW e \in Events, NEW c, NEW dir
  PROVE  Carried(Append(q, e), c, dir) = Carried(q, c, dir) \o Part(e, c, dir)
<1> DEFINE op == Carrying(c, dir)
           b == <<>>
           Y == Seq(Byte)
           more == Append(q, e)
<1>1. more \in Seq(Events) /\ Len(more) = Len(q) + 1
  OBVIOUS
<1>2. PICK f : IsFold(f, b, op, q) /\ Carried(q, c, dir) = f[Len(q)]
  BY CarriedIsFold, Zenon
<1> HIDE DEF more
<1>3. PICK g : IsFold(g, b, op, more) /\ Carried(more, c, dir) = g[Len(more)]
  BY <1>1, CarriedIsFold, Zenon
<1>4. op \in Steps(Events, Y) /\ b \in Y
  BY CarryingType
<1>5. f[Len(q)] \in Seq(Byte)
  BY <1>2, CarriedType
<1> HIDE DEF op, b, Y
<1>6. g[Len(q) + 1] = op[<<f[Len(q)], e>>]
  BY <1>2, <1>3, <1>4, FoldAppend DEF more
<1>7. <<f[Len(q)], e>> \in Seq(Byte) \X Events
  BY <1>5
<1>8. op[<<f[Len(q)], e>>] = f[Len(q)] \o Part(e, c, dir)
  BY <1>7 DEF op, Carrying
<1>9. Carried(more, c, dir) = Carried(q, c, dir) \o Part(e, c, dir)
  BY <1>1, <1>2, <1>3, <1>6, <1>8
<1> QED
  BY <1>9, Zenon DEF more

\* ... and one that leaves it.
LEMMA CarriedHead ==
  ASSUME NEW q \in Seq(Events), q # <<>>, NEW c, NEW dir
  PROVE  /\ Carried(q, c, dir) = Part(Head(q), c, dir) \o Carried(Tail(q), c, dir)
         /\ Part(Head(q), c, dir) \in Seq(Byte) /\ Carried(Tail(q), c, dir) \in Seq(Byte)
<1> DEFINE h == Part(Head(q), c, dir)
           t == Tail(q)
           first == [n \in 0..Len(t) |-> SubSeq(q, 1, n + 1)]
           rest == [n \in 0..Len(t) |-> SubSeq(t, 1, n)]
           T == {n \in 0..Len(t) : Carried(first[n], c, dir) = h \o Carried(rest[n], c, dir)}
<1>1. /\ Head(q) \in Events /\ t \in Seq(Events) /\ Len(q) = Len(t) + 1 /\ Len(t) \in Nat
      /\ \A n \in 1..Len(t) : t[n] = q[n + 1]
      /\ Head(q) = q[1]
  BY HeadTailProperties
<1>2. h \in Seq(Byte)
  BY <1>1, PartType
<1>a. ASSUME NEW a \in Seq(Events), NEW e \in Events
      PROVE  Carried(Append(a, e), c, dir) = Carried(a, c, dir) \o Part(e, c, dir)
  BY CarriedAppend
<1> HIDE DEF h, t
<1>3. \A n \in 0..Len(t) : first[n] \in Seq(Events) /\ rest[n] \in Seq(Events)
  BY <1>1
<1>b. first[0] = Append(<<>>, Head(q)) /\ rest[0] = <<>>
  <2>1. SubSeq(q, 1, 1) = <<q[1]>> /\ SubSeq(t, 1, 0) = <<>>
    <3> DEFINE x == SubSeq(q, 1, 1)
    <3>1. x \in Seq(Events) /\ Len(x) = 1 /\ x[1] = q[1]
      BY <1>1
    <3> HIDE DEF x
    <3>2. x = <<q[1]>>
      BY <3>1
    <3>3. SubSeq(t, 1, 0) = <<>>
      BY <1>1
    <3> QED
      BY <3>2, <3>3 DEF x
  <2>2. first[0] = SubSeq(q, 1, 1) /\ rest[0] = SubSeq(t, 1, 0)
    BY <1>1
  <2> QED
    BY <1>1, <2>1, <2>2
<1>c. \A n \in 1..Len(t) : first[n] = Append(first[n - 1], t[n]) /\ rest[n] = Append(rest[n - 1], t[n])
  <2>1. ASSUME NEW n \in 1..Len(t)
        PROVE  first[n] = Append(first[n - 1], t[n]) /\ rest[n] = Append(rest[n - 1], t[n])
    <3>1. n \in 0..Len(t) /\ n - 1 \in 0..Len(t) /\ t[n] = q[n + 1]
      BY <1>1
    <3>2. SubSeq(q, 1, n + 1) = Append(SubSeq(q, 1, n), t[n])
      BY <1>1, <3>1
    <3>3. SubSeq(t, 1, n) = Append(SubSeq(t, 1, n - 1), t[n])
      BY <1>1, <3>1
    <3> QED
      BY <3>1, <3>2, <3>3
  <2> QED
    BY <2>1
<1>d. first[Len(t)] = q /\ rest[Len(t)] = t
  BY <1>1
<1> HIDE DEF first, rest
<1>4. 0 \in T
  <2>1. Carried(<<>>, c, dir) = <<>> /\ <<>> \in Seq(Events)
    BY CarriedEmpty
  <2>2. Carried(first[0], c, dir) = Carried(<<>>, c, dir) \o Part(Head(q), c, dir)
    BY <1>1, <1>a, <1>b, <2>1, Zenon
  <2>3. Carried(rest[0], c, dir) = <<>>
    BY <1>b, <2>1, Zenon
  <2>4. Carried(first[0], c, dir) = <<>> \o h
    BY <2>1, <2>2, Zenon DEF h
  <2>5. <<>> \o h = h \o <<>> /\ 0 \in 0..Len(t)
    BY <1>1, <1>2
  <2> QED
    BY <2>3, <2>4, <2>5
<1>5. ASSUME NEW n \in 1..Len(t), n - 1 \in T PROVE n \in T
  <2>1. n \in 0..Len(t) /\ n - 1 \in 0..Len(t) /\ t[n] \in Events
    BY <1>1
  <2> DEFINE x == Carried(rest[n - 1], c, dir)
             y == Part(t[n], c, dir)
  <2>2. x \in Seq(Byte) /\ y \in Seq(Byte)
    BY <1>3, <2>1, CarriedType, PartType
  <2>3. Carried(first[n - 1], c, dir) = h \o x
    BY <1>5
  <2>4. /\ Carried(Append(first[n - 1], t[n]), c, dir) = Carried(first[n - 1], c, dir) \o y
        /\ Carried(Append(rest[n - 1], t[n]), c, dir) = x \o y
    BY <1>3, <1>a, <2>1, Zenon
  <2>5. /\ first[n] = Append(first[n - 1], t[n]) /\ rest[n] = Append(rest[n - 1], t[n])
    BY <1>c
  <2>6. Carried(first[n], c, dir) = (h \o x) \o y /\ Carried(rest[n], c, dir) = x \o y
    BY <2>3, <2>4, <2>5, Zenon
  <2> HIDE DEF x, y
  <2>7. (h \o x) \o y = h \o (x \o y)
    BY <1>2, <2>2, BytesAssociate, Zenon
  <2> QED
    BY <2>1, <2>6, <2>7
<1> HIDE DEF T
<1>6. \A n \in 0..Len(t) : n \in T
  BY <1>1, <1>4, <1>5, UpTo
<1>7. Carried(first[Len(t)], c, dir) = h \o Carried(rest[Len(t)], c, dir)
  BY <1>1, <1>6 DEF T
<1>8. Carried(t, c, dir) \in Seq(Byte)
  BY <1>1, CarriedType
<1>9. Carried(q, c, dir) = h \o Carried(t, c, dir)
  BY <1>7, <1>d, Zenon
<1> QED
  BY <1>2, <1>8, <1>9 DEF h, t

-----------------------------------------------------------------------------
(* What the sessions hold, while no event is lost.                          *)

Texts == [Dirs -> Seq(Byte)]

HistoryType == sent \in [Conns -> Texts] /\ stream \in [Ids -> Texts]

\* Only a chunk carries data, and never more than the longest chunk.
Sized(e) == IF e.kind = "chunk" THEN Len(e.data) <= LongestChunk ELSE e.data = <<>>

DataInv == \A k \in DOMAIN queue : Sized(queue[k])

\* The event at j of the queue, or the session at 0, is of another connection
\* with the id of c.
Foreign(c, j) ==
  IF j = 0 THEN sessions[c[2]].live /\ sessions[c[2]].owner # c
  ELSE queue[j].conn[2] = c[2] /\ queue[j].conn # c

Begins(c, m) == queue[m].kind = "begin" /\ queue[m].conn = c

\* An event of c at k of the queue finds no session but one of c.
Fresh(c, k) == \A j \in 0..(k - 1) : Foreign(c, j) => \E m \in (j + 1)..(k - 1) : Begins(c, m)

Sending(c) == conn[c].pc = "open" \/ conn[c].late # {}

OrderInv ==
  \A c \in Conns :
    /\ \A k \in 1..Len(queue) : queue[k].conn = c /\ queue[k].kind # "begin" => Fresh(c, k)
    /\ Sending(c) => c[1] = epoch /\ \A k \in {Len(queue) + 1} : Fresh(c, k)

SentInv == \A c \in Conns, dir \in Dirs : Ends(Carried(queue, c, dir), sent[c][dir])

\* What a session has matched, or will have when the worker is idle again.
Known(i) ==
  sessions[i].matched \cup
    (IF worker.pc # "idle" /\ worker.key = i
     THEN {worker.todo[k].id : k \in DOMAIN worker.todo} ELSE {})

\* The buffers are the end of the text, and what is known is what came in it.
Exact(buffers, text, known) ==
  /\ \A dir \in Dirs : buffers[dir] = LastBytes(text[dir], config.bufferBytes)
  /\ \A d \in ToSet(config.detectors) :
       /\ d.id \in known =>
            \/ d.id = BurstSignal.id
            \/ \E e \in ToSet(config.detectors) : e.id = d.id /\ Came(e, text)
       /\ Came(d, text) /\ LongestChunk + Len(d.pattern) - 1 <= config.bufferBytes => d.id \in known

\* text is the end of what came of c, but for what is still in q.
Reaches(text, c, q, all) ==
  \A dir \in Dirs : Ends(text[dir] \o Carried(q, c, dir), all[dir])

Streamed(i) ==
  LET s == sessions[i]
  IN  IF ~s.live THEN stream[i] = Empty
      ELSE /\ s.owner[2] = i
           /\ \A dir \in Dirs : Ends(s.buffers[dir], stream[i][dir])
           /\ Reaches(stream[i], s.owner, queue, sent[s.owner])
           /\ s.steady => Exact(s.buffers, stream[i], Known(i))

XInv == ~missed =>
  HistoryType /\ DataInv /\ OrderInv /\ SentInv /\ \A i \in Ids : Streamed(i)

LEMMA LongestIs ==
  /\ LongestChunk \in Nat /\ \A ch \in Chunks : Len(ch.data) <= LongestChunk
  /\ \A ch \in Chunks : Sized(Event("chunk", <<>>, ch))
  /\ \A kind \in {"begin", "end"} : Sized(Event(kind, <<>>, NoChunk))
<1>1. PICK longest \in Chunks : \A ch \in Chunks : Len(ch.data) <= Len(longest.data)
  BY DetectorAssumption
<1> DEFINE S == {Len(ch.data) : ch \in Chunks}
<1>2. \E n \in S : \A ch \in Chunks : Len(ch.data) <= n
  BY <1>1
<1>3. LongestChunk = CHOOSE n \in S : \A ch \in Chunks : Len(ch.data) <= n
  BY Zenon DEF LongestChunk
<1>4. LongestChunk \in S /\ \A ch \in Chunks : Len(ch.data) <= LongestChunk
  BY <1>2, <1>3, Zenon
<1>5. \A ch \in Chunks : Len(ch.data) \in Nat
  BY DetectorAssumption
<1> QED
  BY <1>4, <1>5 DEF Sized, Event, NoChunk

LEMMA XEnqueue ==
  ASSUME IInv, XInv, NEW e \in Events, Enqueue(e), Sized(e), UNCHANGED epoch,
         e.conn[1] = epoch,
         ~missed /\ e.kind # "begin" => Fresh(e.conn, Len(queue) + 1),
         \A c \in Conns : Sending(c)' => Sending(c) \/ c = e.conn
  PROVE  XInv'
<1> SUFFICES ASSUME ~missed'
             PROVE  (HistoryType /\ DataInv /\ OrderInv /\ SentInv /\ \A i \in Ids : Streamed(i))'
  BY DEF XInv
<1>1. /\ queue' = Append(queue, e) /\ ~missed /\ UNCHANGED <<sessions, config, worker>>
      /\ sent' = [sent EXCEPT ![e.conn][e.dir] = @ \o e.data]
      /\ stream' = stream
  BY DEF Enqueue, engine
<1>2. /\ HistoryType /\ DataInv /\ OrderInv /\ SentInv /\ \A i \in Ids : Streamed(i)
      /\ queue \in Seq(Events) /\ Len(queue) \in Nat
  BY <1>1 DEF XInv, IInv, Types
<1>3. e.conn \in Conns /\ e.dir \in Dirs /\ e.data \in Seq(Byte)
  BY DEF Events
<1>4. /\ queue' \in Seq(Events) /\ Len(queue') = Len(queue) + 1
      /\ \A k \in 1..Len(queue) : queue'[k] = queue[k]
      /\ queue'[Len(queue) + 1] = e
  BY <1>1, <1>2
<1>5. HistoryType'
  <2>1. sent[e.conn][e.dir] \o e.data \in Seq(Byte)
    BY <1>2, <1>3 DEF HistoryType, Texts
  <2> QED
    BY <1>1, <1>2, <1>3, <2>1 DEF HistoryType, Texts
<1>6. DataInv'
  BY <1>1, <1>2, <1>4 DEF DataInv
<1>7. ASSUME NEW c \in Conns, NEW dir \in Dirs
      PROVE  /\ Carried(queue', c, dir) = Carried(queue, c, dir) \o Part(e, c, dir)
             /\ sent'[c][dir] = sent[c][dir] \o Part(e, c, dir)
             /\ Carried(queue, c, dir) \in Seq(Byte) /\ Part(e, c, dir) \in Seq(Byte)
             /\ sent[c][dir] \in Seq(Byte)
  <2>1. Carried(queue', c, dir) = Carried(queue, c, dir) \o Part(e, c, dir)
    BY <1>1, <1>2, CarriedAppend, Zenon
  <2>2. Carried(queue, c, dir) \in Seq(Byte) /\ Part(e, c, dir) \in Seq(Byte)
    BY <1>2, CarriedType, PartType, Zenon
  <2>3. sent[c][dir] \in Seq(Byte) /\ sent[c][dir] \o <<>> = sent[c][dir]
    BY <1>2 DEF HistoryType, Texts
  <2>4. sent'[c][dir] = sent[c][dir] \o Part(e, c, dir)
    <3>1. CASE e.conn = c /\ e.dir = dir
      <4>1. Part(e, c, dir) = e.data
        BY <3>1 DEF Part, Sized
      <4>2. sent'[c][dir] = sent[c][dir] \o e.data
        BY <1>1, <1>2, <1>3, <3>1 DEF HistoryType, Texts
      <4> QED
        BY <4>1, <4>2
    <3>2. CASE ~(e.conn = c /\ e.dir = dir)
      <4>1. Part(e, c, dir) = <<>>
        BY <3>2 DEF Part
      <4>2. sent'[c][dir] = sent[c][dir]
        BY <1>1, <1>2, <1>3, <3>2 DEF HistoryType, Texts
      <4> QED
        BY <2>3, <4>1, <4>2
    <3> QED
      BY <3>1, <3>2
  <2> QED
    BY <2>1, <2>2, <2>3, <2>4
<1>8. SentInv'
  <2>1. ASSUME NEW c \in Conns, NEW dir \in Dirs PROVE Ends(Carried(queue', c, dir), sent'[c][dir])
    BY <1>2, <1>7, EndsAppend DEF SentInv
  <2> QED
    BY <2>1 DEF SentInv
<1>9. ASSUME NEW c \in Conns, NEW k \in 1..(Len(queue) + 1), Fresh(c, k)
      PROVE  Fresh(c, k)'
  <2>1. \A j \in 0..(k - 1) : Foreign(c, j)' <=> Foreign(c, j)
    BY <1>1, <1>2, <1>4 DEF Foreign
  <2>2. \A m \in 1..(k - 1) : Begins(c, m)' <=> Begins(c, m)
    BY <1>1, <1>2, <1>4 DEF Begins
  <2>3. ASSUME NEW j \in 0..(k - 1), Foreign(c, j)'
        PROVE  \E m \in (j + 1)..(k - 1) : Begins(c, m)'
    <3>1. PICK m \in (j + 1)..(k - 1) : Begins(c, m)
      BY <1>9, <2>1, <2>3 DEF Fresh
    <3>2. m \in 1..(k - 1)
      OBVIOUS
    <3> QED
      BY <2>2, <3>1, <3>2
  <2> QED
    BY <2>3 DEF Fresh
<1>10. OrderInv'
  <2>1. ASSUME NEW c \in Conns, NEW k \in 1..Len(queue'), queue'[k].conn = c, queue'[k].kind # "begin"
        PROVE  Fresh(c, k)'
    <3>1. CASE k \in 1..Len(queue)
      BY <1>2, <1>4, <1>9, <2>1, <3>1 DEF OrderInv
    <3>2. CASE k = Len(queue) + 1
      BY <1>1, <1>2, <1>4, <1>9, <2>1, <3>2
    <3> QED
      BY <1>2, <1>4, <3>1, <3>2
  <2>2. ASSUME NEW c \in Conns, Sending(c)', NEW k \in {Len(queue') + 1}
        PROVE  c[1] = epoch' /\ Fresh(c, k)'
    <3>n. PICK n \in Nat : n = Len(queue) + 1
      BY <1>2
    <3>1. /\ n \in Nat /\ n \in 1..n /\ n \in 1..(Len(queue) + 1) /\ k - 1 = n /\ n # 0
          /\ queue'[n] = e /\ \A j \in 0..n : j = n \/ j \in 0..(n - 1)
          /\ n \in {Len(queue) + 1}
      BY <1>2, <1>4, <3>n
    <3>2. c[1] = epoch /\ (c = e.conn \/ (c # e.conn /\ Sending(c)))
      BY <1>2, <2>2 DEF OrderInv
    <3>3. ~Foreign(c, n)'
      <4>1. c = e.conn \/ c[2] # e.conn[2]
        BY <1>3, <3>2 DEF Conns
      <4> QED
        BY <3>1, <4>1 DEF Foreign
    <3>4. ASSUME NEW j \in 0..(n - 1), Foreign(c, j)' PROVE \E m \in (j + 1)..n : Begins(c, m)'
      <4>1. CASE c = e.conn /\ e.kind = "begin"
        <5>1. Begins(c, n)' /\ n \in (j + 1)..n
          BY <3>1, <4>1 DEF Begins
        <5> QED
          BY <5>1
      <4>2. CASE ~(c = e.conn /\ e.kind = "begin")
        <5>1. Fresh(c, n)
          <6>1. CASE c = e.conn
            BY <1>1, <4>2, <6>1, <3>n
          <6>2. CASE c # e.conn
            BY <1>2, <3>1, <3>2, <6>2 DEF OrderInv
          <6> QED
            BY <6>1, <6>2
        <5>2. Fresh(c, n)'
          BY <1>9, <3>1, <5>1
        <5>3. PICK m \in (j + 1)..(n - 1) : Begins(c, m)'
          BY <3>4, <5>2 DEF Fresh
        <5>4. m \in (j + 1)..n
          BY <3>1
        <5> QED
          BY <5>3, <5>4
      <4> QED
        BY <4>1, <4>2
    <3>5. Fresh(c, k)'
      BY <3>1, <3>3, <3>4 DEF Fresh
    <3> QED
      BY <3>2, <3>5
  <2> QED
    BY <2>1, <2>2 DEF OrderInv
<1>11. ASSUME NEW i \in Ids PROVE Streamed(i)'
  <2> DEFINE s == sessions[i]
  <2>1. Streamed(i) /\ s.live => s.owner \in Conns
    BY <1>2 DEF IInv, SessionInv, OwnFinding
  <2>2. UNCHANGED <<sessions[i], stream[i], config, Known(i)>>
    BY <1>1 DEF Known
  <2>3. ASSUME s.live
        PROVE  Reaches(stream[i], s.owner, queue', sent'[s.owner])
    <3>1. ASSUME NEW dir \in Dirs
          PROVE  Ends(stream[i][dir] \o Carried(queue', s.owner, dir), sent'[s.owner][dir])
      <4> DEFINE c == s.owner
                 a == stream[i][dir]
                 b == Carried(queue, c, dir)
                 t == sent[c][dir]
                 d == Part(e, c, dir)
      <4>1. Ends(a \o b, t)
        BY <1>2, <2>3 DEF Streamed, Reaches
      <4>2. c \in Conns
        BY <1>2, <2>3 DEF IInv, SessionInv, OwnFinding
      <4>3. a \in Seq(Byte)
        BY <1>2 DEF HistoryType, Texts
      <4> HIDE DEF c
      <4>4. /\ b \in Seq(Byte) /\ t \in Seq(Byte) /\ d \in Seq(Byte)
            /\ Carried(queue', c, dir) = b \o d /\ sent'[c][dir] = t \o d
        BY <1>7, <4>2
      <4> HIDE DEF a, b, t, d
      <4>5. a \o b \in Seq(Byte) /\ (a \o b) \o d = a \o (b \o d)
        BY <4>3, <4>4, ConcatAssociative
      <4>6. Ends(a \o (b \o d), t \o d)
        BY <4>1, <4>4, <4>5, EndsAppend
      <4> QED
        BY <4>4, <4>6 DEF a, c
    <3> QED
      BY <3>1 DEF Reaches
  <2> QED
    BY <1>2, <2>2, <2>3 DEF Streamed, Exact
<1> QED
  BY <1>5, <1>6, <1>8, <1>10, <1>11

LEMMA TailIs ==
  ASSUME Types, queue # <<>>, queue' = Tail(queue)
  PROVE  /\ Len(queue) \in Nat /\ Len(queue) >= 1 /\ Len(queue') = Len(queue) - 1
         /\ Head(queue) = queue[1] /\ queue' \in Seq(Events)
         /\ \A k \in 1..Len(queue') : queue'[k] = queue[k + 1]
<1>1. queue \in Seq(Events)
  BY DEF Types
<1> QED
  BY <1>1, HeadTailProperties

LEMMA XTake ==
  ASSUME IInv, XInv, ~missed, queue # <<>>, queue' = Tail(queue), worker = Idle,
         UNCHANGED <<epoch, conn, missed, sent, config>>,
         NEW i \in Ids, i = Head(queue).conn[2],
         \A j \in Ids \ {i} : sessions'[j] = sessions[j] /\ stream'[j] = stream[j],
         sessions'[i].live => sessions'[i].owner = Head(queue).conn,
         worker'.pc # "idle" => worker'.key = i,
         stream' \in [Ids -> Texts], Streamed(i)'
  PROVE  XInv'
<1>1. /\ HistoryType /\ DataInv /\ OrderInv /\ SentInv /\ \A j \in Ids : Streamed(j)
      /\ queue \in Seq(Events) /\ Types
  BY DEF XInv, IInv, Types
<1> DEFINE h == Head(queue)
<1>2. /\ Len(queue) \in Nat /\ Len(queue) >= 1 /\ Len(queue') = Len(queue) - 1
      /\ h = queue[1] /\ queue' \in Seq(Events)
      /\ \A k \in 1..Len(queue') : queue'[k] = queue[k + 1]
  BY <1>1, TailIs
<1>3. h \in Events /\ h.conn \in Conns
  BY <1>1, HeadType
<1> HIDE DEF h
<1>4. HistoryType'
  BY <1>1 DEF HistoryType
<1>5. DataInv'
  BY <1>1, <1>2 DEF DataInv
<1>6. ASSUME NEW c \in Conns, NEW dir \in Dirs
      PROVE  /\ Carried(queue, c, dir) = Part(h, c, dir) \o Carried(queue', c, dir)
             /\ Part(h, c, dir) \in Seq(Byte) /\ Carried(queue', c, dir) \in Seq(Byte)
             /\ sent[c][dir] \in Seq(Byte)
             /\ h.conn # c => Carried(queue', c, dir) = Carried(queue, c, dir)
  <2>1. /\ Carried(queue, c, dir) = Part(h, c, dir) \o Carried(queue', c, dir)
        /\ Part(h, c, dir) \in Seq(Byte) /\ Carried(queue', c, dir) \in Seq(Byte)
    BY <1>1, CarriedHead, Zenon DEF h
  <2>2. sent[c][dir] \in Seq(Byte)
    BY <1>1 DEF HistoryType, Texts
  <2>3. ASSUME h.conn # c PROVE Carried(queue', c, dir) = Carried(queue, c, dir)
    <3>1. Part(h, c, dir) = <<>>
      BY <2>3 DEF Part
    <3> QED
      BY <2>1, <3>1
  <2> QED
    BY <2>1, <2>2, <2>3
<1>7. SentInv'
  <2>1. ASSUME NEW c \in Conns, NEW dir \in Dirs PROVE Ends(Carried(queue', c, dir), sent'[c][dir])
    <3>1. Ends(Part(h, c, dir) \o Carried(queue', c, dir), sent[c][dir])
      BY <1>1, <1>6 DEF SentInv
    <3>2. Ends(Carried(queue', c, dir), sent[c][dir])
      BY <1>6, <3>1, EndsDrop
    <3> QED
      BY <3>2
  <2> QED
    BY <2>1 DEF SentInv
<1>8. ASSUME NEW c \in Conns, NEW k \in 1..Len(queue), Fresh(c, k + 1)
      PROVE  Fresh(c, k)'
  <2>2. ASSUME NEW m \in 2..Len(queue), Begins(c, m)
        PROVE  Begins(c, m - 1)'
    <3>1. queue'[m - 1] = queue[m]
      <4>1. m - 1 \in 1..Len(queue') /\ m - 1 + 1 = m
        BY <1>2
      <4> QED
        BY <1>2, <4>1
    <3> QED
      BY <2>2, <3>1 DEF Begins
  <2>3. ASSUME NEW j \in 0..(k - 1), Foreign(c, j)'
        PROVE  \E m \in (j + 1)..(k - 1) : Begins(c, m)'
    <3>1. CASE j # 0 \/ (j = 0 /\ c[2] = i)
      <4>1. Foreign(c, j + 1)
        <5>1. CASE j # 0
          <6>1. j \in 1..Len(queue') /\ queue'[j] = queue[j + 1] /\ j + 1 # 0
            BY <1>2, <5>1
          <6> QED
            BY <2>3, <5>1, <6>1 DEF Foreign
        <5>2. CASE j = 0 /\ c[2] = i
          <6>1. h.conn[2] = i /\ h.conn # c
            BY <2>3, <5>2 DEF Foreign, h
          <6> QED
            BY <1>2, <5>2, <6>1 DEF Foreign
        <5> QED
          BY <3>1, <5>1, <5>2
      <4>2. j + 1 \in 0..(k + 1 - 1) /\ k + 1 - 1 = k
        BY <1>2
      <4>3. PICK m \in (j + 1 + 1)..k : Begins(c, m)
        BY <1>8, <4>1, <4>2 DEF Fresh
      <4>4. m \in 2..Len(queue) /\ m - 1 \in (j + 1)..(k - 1)
        BY <1>2
      <4> QED
        BY <2>2, <4>3, <4>4
    <3>2. CASE j = 0 /\ c[2] # i
      <4>1. Foreign(c, 0)
        BY <2>3, <3>2 DEF Foreign, Conns
      <4>2. 0 \in 0..(k + 1 - 1) /\ k + 1 - 1 = k /\ 0 + 1 = 1
        BY <1>2
      <4>3. PICK m \in 1..k : Begins(c, m)
        BY <1>8, <4>1, <4>2 DEF Fresh
      <4>4. m # 1
        BY <1>2, <3>2, <4>3 DEF Begins, h
      <4>5. m \in 2..Len(queue) /\ m - 1 \in (j + 1)..(k - 1)
        BY <1>2, <3>2, <4>4
      <4> QED
        BY <2>2, <4>3, <4>5
    <3> QED
      BY <3>1, <3>2
  <2> QED
    BY <2>3 DEF Fresh
<1>9. OrderInv'
  <2>1. ASSUME NEW c \in Conns, NEW k \in 1..Len(queue'), queue'[k].conn = c, queue'[k].kind # "begin"
        PROVE  Fresh(c, k)'
    <3>1. k + 1 \in 1..Len(queue) /\ k \in 1..Len(queue) /\ queue'[k] = queue[k + 1]
      BY <1>2
    <3>2. Fresh(c, k + 1)
      BY <1>1, <2>1, <3>1 DEF OrderInv
    <3> QED
      BY <1>8, <3>1, <3>2
  <2>2. ASSUME NEW c \in Conns, Sending(c)', NEW k \in {Len(queue') + 1}
        PROVE  c[1] = epoch' /\ Fresh(c, k)'
    <3>1. k \in 1..Len(queue) /\ k + 1 = Len(queue) + 1 /\ Sending(c)
      BY <1>2, <2>2 DEF Sending
    <3>2. c[1] = epoch /\ Fresh(c, k + 1)
      BY <1>1, <3>1 DEF OrderInv
    <3> QED
      BY <1>8, <3>1, <3>2
  <2> QED
    BY <2>1, <2>2 DEF OrderInv
<1>10. ASSUME NEW j \in Ids, j # i PROVE Streamed(j)'
  <2>1. Streamed(j) /\ UNCHANGED <<sessions[j], stream[j]>> /\ UNCHANGED Known(j)
    BY <1>1, <1>10 DEF Known, Idle
  <2>2. CASE ~sessions[j].live
    BY <2>1, <2>2 DEF Streamed
  <2>3. CASE sessions[j].live
    <3> DEFINE c == sessions[j].owner
    <3>1. c \in Conns /\ c[2] = j /\ h.conn # c
      BY <1>10, <2>1, <2>3 DEF Streamed, IInv, SessionInv, OwnFinding, h
    <3>2. \A dir \in Dirs : Carried(queue', c, dir) = Carried(queue, c, dir)
      BY <1>6, <3>1
    <3>3. Reaches(stream[j], c, queue', sent[c])
      BY <2>1, <2>3, <3>2 DEF Streamed, Reaches
    <3>4. /\ c[2] = j /\ \A dir \in Dirs : Ends(sessions[j].buffers[dir], stream[j][dir])
          /\ sessions[j].steady => Exact(sessions[j].buffers, stream[j], Known(j))
      BY <2>1, <2>3 DEF Streamed
    <3>5. sessions[j].steady => Exact(sessions[j].buffers, stream[j], Known(j))'
      BY <2>1, <3>4 DEF Exact
    <3> QED
      BY <2>1, <2>3, <3>3, <3>4, <3>5 DEF Streamed
  <2> QED
    BY <2>2, <2>3
<1> QED
  BY <1>4, <1>5, <1>7, <1>9, <1>10 DEF XInv

-----------------------------------------------------------------------------
(* What has come of a text that a detector looks for.                       *)

LEMMA DetectorIs ==
  ASSUME NEW c \in Configs, NEW d \in ToSet(c.detectors)
  PROVE  /\ d.pattern \in Seq(ToSet(d.pattern)) /\ Len(d.pattern) > 0 /\ Len(d.pattern) \in Nat
         /\ d.score \in 1..100 /\ d \in AllDetectors
         /\ c.bufferBytes \in Nat
<1>1. d.pattern \in Seq(ToSet(d.pattern)) /\ Len(d.pattern) > 0 /\ d.score \in 1..100
  BY DetectorAssumption
<1>2. c.bufferBytes \in Nat
  BY DetectorAssumption
<1> QED
  BY <1>1, <1>2 DEF AllDetectors

LEMMA NothingCame ==
  ASSUME NEW c \in Configs, NEW d \in ToSet(c.detectors)
  PROVE  ~Came(d, Empty)
<1>1. Len(d.pattern) > 0 /\ Len(d.pattern) \in Nat /\ Len(<<>>) = 0
  BY DetectorIs
<1>2. \A i \in 0..(Len(<<>>) - Len(d.pattern)) : FALSE
  BY <1>1
<1>3. ~Occurs(d.pattern, <<>>)
  BY <1>2 DEF Occurs
<1> QED
  BY <1>3 DEF Came, Empty

LEMMA ExactNew ==
  ASSUME config \in Configs, NEW known, known \subseteq {BurstSignal.id}
  PROVE  Exact(Empty, Empty, known)
<1>1. ASSUME NEW dir \in Dirs PROVE Empty[dir] = LastBytes(Empty[dir], config.bufferBytes)
  <2>1. Empty[dir] = <<>> /\ Len(<<>>) = 0 /\ config.bufferBytes \in Nat
    BY DetectorAssumption DEF Empty
  <2> QED
    BY <2>1 DEF LastBytes
<1> QED
  BY <1>1, NothingCame DEF Exact

LEMMA CameLater ==
  ASSUME NEW c \in Configs, NEW d \in ToSet(c.detectors), NEW text \in Texts, NEW more \in Texts,
         Came(d, text),
         \A dir \in Dirs : \E b \in Seq(Byte) :
           more[dir] = text[dir] \o b \/ more[dir] = b \o text[dir]
  PROVE  Came(d, more)
<1>1. PICK dir \in Dirs : Looks(d, dir) /\ Occurs(d.pattern, text[dir])
  BY DEF Came
<1>2. PICK b \in Seq(Byte) : more[dir] = text[dir] \o b \/ more[dir] = b \o text[dir]
  OBVIOUS
<1>3. text[dir] \in Seq(Byte) /\ d.pattern \in Seq(ToSet(d.pattern))
  BY DetectorIs DEF Texts
<1>4. Occurs(d.pattern, more[dir])
  BY <1>1, <1>2, <1>3, OccursLater
<1> QED
  BY <1>1, <1>4 DEF Came

LEMMA SignalledFound ==
  ASSUME config \in Configs, NEW matched, NEW dir, NEW text, NEW r, r = Signalled(matched, dir, text)
  PROVE  /\ r \in Seq(Signals)
         /\ \A k \in DOMAIN r : \E d \in ToSet(config.detectors) :
              Looks(d, dir) /\ Occurs(d.pattern, text) /\ r[k] = [id |-> d.id, score |-> d.score]
         /\ \A d \in ToSet(config.detectors) : Looks(d, dir) /\ Occurs(d.pattern, text) =>
              d.id \in matched \/ \E k \in DOMAIN r : r[k].id = d.id
BY SignalledIs

\* Of a session, that data comes to it and r is signalled.
Receives(B, text, matched, dir, data, buffers, more, r, known) ==
  /\ text \in Texts /\ dir \in Dirs /\ data \in Seq(Byte) /\ Len(data) <= LongestChunk
  /\ Exact(B, text, matched)
  /\ buffers[dir] = LastBytes(B[dir] \o data, config.bufferBytes)
  /\ more \in Texts /\ more[dir] = text[dir] \o data
  /\ \A d \in Dirs \ {dir} : buffers[d] = B[d] /\ more[d] = text[d]
  /\ r = Signalled(matched, dir, buffers[dir])
  /\ \A x : x \in known <=> x \in matched \/ \E k \in DOMAIN r : r[k].id = x

LEMMA ExactChunk ==
  ASSUME config \in Configs, NEW B, NEW text, NEW matched, NEW dir, NEW data, NEW buffers, NEW more,
         NEW r, NEW known, Receives(B, text, matched, dir, data, buffers, more, r, known)
  PROVE  Exact(buffers, more, known)
<1> DEFINE n == config.bufferBytes
           D == ToSet(config.detectors)
<1>0. /\ text \in Texts /\ dir \in Dirs /\ data \in Seq(Byte) /\ Len(data) <= LongestChunk
      /\ Exact(B, text, matched) /\ more \in Texts
      /\ r = Signalled(matched, dir, buffers[dir])
      /\ \A x : x \in known <=> x \in matched \/ \E k \in DOMAIN r : r[k].id = x
  BY DEF Receives
<1>1. n \in Nat /\ text[dir] \in Seq(Byte) /\ text[dir] \o data \in Seq(Byte)
  BY <1>0, DetectorAssumption DEF Texts
<1>2. /\ more \in Texts /\ more[dir] = text[dir] \o data
      /\ \A d \in Dirs \ {dir} : more[d] = text[d]
  BY DEF Receives
<1>3. buffers[dir] = LastBytes(more[dir], n) /\ \A d \in Dirs : buffers[d] = LastBytes(more[d], n)
  <2>1. buffers[dir] = LastBytes(more[dir], n)
    <3>1. B[dir] = LastBytes(text[dir], n)
      BY <1>0 DEF Exact
    <3>2. buffers[dir] = LastBytes(LastBytes(text[dir], n) \o data, n)
      BY <3>1 DEF Receives
    <3>3. LastBytes(LastBytes(text[dir], n) \o data, n) = LastBytes(text[dir] \o data, n)
      BY <1>0, <1>1, LastBytesTwice
    <3> QED
      BY <1>2, <3>2, <3>3
  <2>2. ASSUME NEW d \in Dirs, d # dir PROVE buffers[d] = LastBytes(more[d], n)
    BY <1>0, <1>2, <2>2 DEF Exact, Receives
  <2> QED
    BY <2>1, <2>2
<1>4. more[dir] \in Seq(Byte) /\ buffers[dir] \in Seq(Byte) /\ Ends(buffers[dir], more[dir])
  BY <1>1, <1>2, <1>3, LastBytesIs
<1>5. \A d \in D : Came(d, text) => Came(d, more)
  <2>1. ASSUME NEW d \in Dirs PROVE \E b \in Seq(Byte) : more[d] = text[d] \o b
    <3>1. text[d] \in Seq(Byte) /\ text[d] \o <<>> = text[d] /\ <<>> \in Seq(Byte)
      BY <1>0 DEF Texts
    <3> QED
      BY <1>0, <1>1, <1>2, <3>1
  <2> QED
    BY <1>0, <1>2, <2>1, CameLater
<1>6. ASSUME NEW d \in D, Looks(d, dir), Occurs(d.pattern, buffers[dir]) PROVE Came(d, more)
  <2>1. PICK u \in Seq(Byte) : more[dir] = u \o buffers[dir]
    BY <1>4 DEF Ends
  <2>2. d.pattern \in Seq(ToSet(d.pattern))
    BY DetectorIs
  <2>3. Occurs(d.pattern, more[dir])
    BY <1>4, <1>6, <2>1, <2>2, OccursLater
  <2> QED
    BY <1>0, <1>6, <2>3 DEF Came
<1>7. /\ \A k \in DOMAIN r : \E d \in D : /\ Looks(d, dir) /\ Occurs(d.pattern, buffers[dir])
                                          /\ r[k] = [id |-> d.id, score |-> d.score]
      /\ \A d \in D : Looks(d, dir) /\ Occurs(d.pattern, buffers[dir]) => d.id \in known
  <2>1. PICK w : w = buffers[dir]
    OBVIOUS
  <2>2. r = Signalled(matched, dir, w)
    BY <1>0, <2>1
  <2>3. /\ \A k \in DOMAIN r : \E d \in D : /\ Looks(d, dir) /\ Occurs(d.pattern, w)
                                            /\ r[k] = [id |-> d.id, score |-> d.score]
        /\ \A d \in D : Looks(d, dir) /\ Occurs(d.pattern, w) =>
             d.id \in matched \/ \E k \in DOMAIN r : r[k].id = d.id
    BY <2>2, SignalledFound
  <2>4. \A d \in D : Looks(d, dir) /\ Occurs(d.pattern, w) => d.id \in known
    BY <1>0, <2>3
  <2> QED
    BY <2>1, <2>3, <2>4, Zenon
<1>8. ASSUME NEW d \in D, d.id \in known
      PROVE  d.id = BurstSignal.id \/ \E e \in D : e.id = d.id /\ Came(e, more)
  <2>1. CASE d.id \in matched
    <3>1. d.id = BurstSignal.id \/ \E e \in D : e.id = d.id /\ Came(e, text)
      BY <1>0, <2>1 DEF Exact
    <3> QED
      BY <1>5, <3>1
  <2>2. CASE d.id \notin matched
    <3>1. PICK k \in DOMAIN r : d.id = r[k].id
      BY <1>0, <1>8, <2>2
    <3>2. PICK e \in D : /\ Looks(e, dir) /\ Occurs(e.pattern, buffers[dir])
                         /\ r[k] = [id |-> e.id, score |-> e.score]
      BY <1>7
    <3>3. Came(e, more)
      BY <1>6, <3>2
    <3>4. e.id = d.id
      BY <3>1, <3>2
    <3> QED
      BY <3>3, <3>4
  <2> QED
    BY <2>1, <2>2
<1>9. ASSUME NEW d \in D, Came(d, more), LongestChunk + Len(d.pattern) - 1 <= n
      PROVE  d.id \in known
  <2>1. CASE Came(d, text)
    BY <1>0, <1>9, <2>1 DEF Exact
  <2>2. CASE ~Came(d, text)
    <3>1. PICK x \in Dirs : Looks(d, x) /\ Occurs(d.pattern, more[x]) /\ ~Occurs(d.pattern, text[x])
      BY <1>9, <2>2 DEF Came
    <3>2. x = dir
      BY <1>0, <1>2, <3>1
    <3>3. /\ d.pattern \in Seq(ToSet(d.pattern)) /\ Len(d.pattern) > 0 /\ Len(d.pattern) \in Nat
          /\ LongestChunk \in Nat /\ Len(data) \in Nat
      BY <1>0, DetectorIs, LongestIs
    <3>4. Len(data) + Len(d.pattern) - 1 <= n
      BY <1>0, <1>1, <1>9, <3>3
    <3>5. Occurs(d.pattern, LastBytes(text[dir] \o data, n))
      BY <1>0, <1>1, <1>2, <3>1, <3>2, <3>3, <3>4, OccursInBuffer
    <3>6. Occurs(d.pattern, buffers[dir])
      BY <1>2, <1>3, <3>5
    <3> QED
      BY <1>7, <3>1, <3>2, <3>6
  <2> QED
    BY <2>1, <2>2
<1> QED
  BY <1>3, <1>8, <1>9 DEF Exact

-----------------------------------------------------------------------------
(* The worker draws an event.                                               *)

EmptyText == Empty \in Texts /\ \A dir \in Dirs : Empty[dir] = <<>>

LEMMA EmptyIs == EmptyText
<1>1. <<>> \in Seq(Byte)
  OBVIOUS
<1> QED
  BY <1>1 DEF EmptyText, Empty, Texts

\* What is left in the queue is the end of what came.
LEMMA SentTail ==
  ASSUME Types, HistoryType, SentInv, queue # <<>>, NEW c \in Conns, NEW dir \in Dirs
  PROVE  /\ Ends(Carried(Tail(queue), c, dir), sent[c][dir])
         /\ Carried(Tail(queue), c, dir) \in Seq(Byte) /\ sent[c][dir] \in Seq(Byte)
<1>1. queue \in Seq(Events)
  BY DEF Types
<1>2. /\ Carried(queue, c, dir) = Part(Head(queue), c, dir) \o Carried(Tail(queue), c, dir)
      /\ Part(Head(queue), c, dir) \in Seq(Byte) /\ Carried(Tail(queue), c, dir) \in Seq(Byte)
  BY <1>1, CarriedHead, Zenon
<1>3. sent[c][dir] \in Seq(Byte)
  BY DEF HistoryType, Texts
<1>4. Ends(Part(Head(queue), c, dir) \o Carried(Tail(queue), c, dir), sent[c][dir])
  BY <1>2 DEF SentInv
<1>5. Ends(Carried(Tail(queue), c, dir), sent[c][dir])
  BY <1>2, <1>3, <1>4, EndsDrop
<1> QED
  BY <1>2, <1>3, <1>5

LEMMA TakeBeginX ==
  ASSUME IInv, XInv, TakeBegin
  PROVE  XInv'
<1>0. Types /\ queue # <<>> /\ (~missed => HistoryType /\ SentInv)
  BY DEF IInv, XInv, TakeBegin
<1>1. PICK e \in Events : e = Head(queue) /\ e.conn \in Conns /\ e.conn[2] \in Ids
  BY <1>0, HeadType
<1> DEFINE i == e.conn[2]
           s == NewSession(e)
           todo == IF config.builtins /\ recent + 1 = Burst THEN <<BurstSignal>> ELSE <<>>
<1>2. /\ queue' = Tail(queue) /\ worker = Idle
      /\ sessions' = [sessions EXCEPT ![i] = s] /\ stream' = [stream EXCEPT ![i] = Empty]
      /\ worker' = WithSignals(i, todo)
      /\ UNCHANGED <<epoch, conn, missed, sent, config>>
  BY <1>1 DEF TakeBegin, BegunSession, ConnFrame
<1> SUFFICES ASSUME ~missed PROVE XInv'
  BY <1>2 DEF XInv
<1>5. todo \in Seq(Signals) /\ {todo[k].id : k \in DOMAIN todo} \subseteq {BurstSignal.id}
  BY SignalType
<1>6. /\ s \in Session /\ s.live /\ s.owner = e.conn /\ s.matched = {} /\ s.buffers = Empty
  <2>1. s \in Session /\ s.live /\ s.owner = e.conn /\ s.matched = {}
    BY <1>1, NoSessionType
  <2>2. s.buffers = Empty
    BY DEF NewSession, NoSession
  <2> QED
    BY <2>1, <2>2
<1> HIDE DEF i, s, todo
<1>7. /\ sessions'[i] = s /\ stream'[i] = Empty /\ stream' \in [Ids -> Texts]
      /\ \A j \in Ids \ {i} : sessions'[j] = sessions[j] /\ stream'[j] = stream[j]
      /\ i \in Ids /\ i = e.conn[2]
  BY <1>0, <1>1, <1>2, EmptyIs DEF Types, HistoryType, EmptyText, i
<1>8. worker'.pc # "idle" => worker'.key = i /\ worker'.todo = todo
  BY <1>2, <1>5, <1>7, WithSignalsIs
<1>k. PICK known : known = Known(i)'
  OBVIOUS
<1>9. Exact(Empty, Empty, known)'
  <2>1. known \subseteq {BurstSignal.id}
    <3>1. sessions'[i].matched = {}
      BY <1>6, <1>7
    <3> QED
      BY <1>5, <1>8, <1>k, <3>1 DEF Known
  <2>2. Exact(Empty, Empty, known)
    BY <1>0, <2>1, ExactNew DEF Types
  <2> QED
    BY <1>2, <2>2 DEF Exact
<1>10. ASSUME NEW dir \in Dirs
       PROVE  /\ Ends(s.buffers[dir], Empty[dir])
              /\ Ends(Empty[dir] \o Carried(queue', e.conn, dir), sent[e.conn][dir])
  <2>1. /\ Ends(Carried(queue', e.conn, dir), sent[e.conn][dir])
        /\ Carried(queue', e.conn, dir) \in Seq(Byte)
    BY <1>0, <1>1, <1>2, SentTail
  <2>2. Empty[dir] = <<>> /\ <<>> \in Seq(Byte)
    BY EmptyIs DEF EmptyText
  <2>3. <<>> \o Carried(queue', e.conn, dir) = Carried(queue', e.conn, dir)
    BY <2>1
  <2>4. Ends(<<>>, <<>>)
    BY <2>2, EndsSelf
  <2> QED
    BY <1>6, <2>1, <2>2, <2>3, <2>4
<1>11. Streamed(i)'
  <2>1. sessions'[i].owner[2] = i /\ sessions'[i].live
    BY <1>6, <1>7
  <2>2. \A dir \in Dirs : Ends(sessions'[i].buffers[dir], stream'[i][dir])
    BY <1>6, <1>7, <1>10
  <2>3. Reaches(stream[i], sessions[i].owner, queue, sent[sessions[i].owner])'
    BY <1>2, <1>6, <1>7, <1>10 DEF Reaches
  <2>4. Exact(sessions[i].buffers, stream[i], Known(i))'
    BY <1>6, <1>7, <1>9, <1>k DEF Exact
  <2> QED
    BY <2>1, <2>2, <2>3, <2>4 DEF Streamed
<1>12. sessions'[i].owner = e.conn
  BY <1>6, <1>7
<1> QED
  BY <1>0, <1>1, <1>2, <1>7, <1>8, <1>11, <1>12, XTake

LEMMA TakeEndX ==
  ASSUME IInv, XInv, TakeEnd
  PROVE  XInv'
<1>0. Types /\ queue # <<>> /\ (~missed => HistoryType)
  BY DEF IInv, XInv, TakeEnd
<1>1. PICK i \in Ids : i = Head(queue).conn[2]
  BY <1>0, HeadType
<1>2. /\ queue' = Tail(queue) /\ worker = Idle
      /\ sessions' = [sessions EXCEPT ![i] = NoSession] /\ stream' = [stream EXCEPT ![i] = Empty]
      /\ UNCHANGED <<epoch, conn, missed, sent, config, worker>>
  BY <1>1 DEF TakeEnd, ConnFrame
<1> SUFFICES ASSUME ~missed PROVE XInv'
  BY <1>2 DEF XInv
<1>4. ~NoSession.live
  BY NoSessionType
<1>5. /\ sessions'[i] = NoSession /\ stream'[i] = Empty /\ stream' \in [Ids -> Texts]
      /\ \A j \in Ids \ {i} : sessions'[j] = sessions[j] /\ stream'[j] = stream[j]
  BY <1>0, <1>2, EmptyIs DEF Types, HistoryType, EmptyText
<1>6. Streamed(i)'
  BY <1>4, <1>5 DEF Streamed
<1>7. worker'.pc = "idle"
  BY <1>2 DEF Idle
<1> QED
  BY <1>0, <1>1, <1>2, <1>4, <1>5, <1>6, <1>7, XTake

\* A chunk finds no session but one of its own connection.
LEMMA ChunkFinds ==
  ASSUME IInv, XInv, ~missed, queue # <<>>, Head(queue).kind # "begin",
         sessions[Head(queue).conn[2]].live
  PROVE  sessions[Head(queue).conn[2]].owner = Head(queue).conn
<1>1. Types /\ OrderInv
  BY DEF IInv, XInv
<1>2. queue \in Seq(Events) /\ Len(queue) \in Nat /\ Len(queue) >= 1 /\ Head(queue) = queue[1]
  BY <1>1 DEF Types
<1>3. PICK c \in Conns : c = Head(queue).conn
  BY <1>1, HeadType
<1>4. 1 \in 1..Len(queue) /\ 0 \in 0..(1 - 1) /\ (0 + 1)..(1 - 1) = {}
  BY <1>2
<1>5. Fresh(c, 1)
  BY <1>1, <1>2, <1>3, <1>4 DEF OrderInv
<1>6. ~Foreign(c, 0)
  BY <1>4, <1>5 DEF Fresh
<1> QED
  BY <1>3, <1>6 DEF Foreign

LEMMA TakeChunkX ==
  ASSUME IInv, XInv, TakeChunk
  PROVE  XInv'
<1>0. /\ Types /\ queue # <<>> /\ Head(queue).kind = "chunk"
      /\ ~missed => HistoryType /\ SentInv /\ DataInv /\ \A i \in Ids : Streamed(i)
  BY Zenon DEF IInv, XInv, TakeChunk
<1>1. PICK e \in Events : e = Head(queue) /\ e.conn \in Conns /\ e.conn[2] \in Ids
  BY <1>0, HeadType
<1> DEFINE i == e.conn[2]
           c == e.conn
           n == config.bufferBytes
           s == IF sessions[i].live THEN sessions[i] ELSE NewSession(e)
           buffers == Buffered(s.buffers, e.dir, e.data, config.bufferBytes)
           todo == Signalled(s.matched, e.dir, buffers[e.dir])
           t == [s EXCEPT !.buffers = buffers]
<1>2. /\ queue' = Tail(queue) /\ worker = Idle
      /\ sessions' = [sessions EXCEPT ![i] = t]
      /\ stream' = IF missed THEN stream ELSE [stream EXCEPT ![i][e.dir] = @ \o e.data]
      /\ worker' = WithSignals(i, todo)
      /\ UNCHANGED <<epoch, conn, missed, sent, config>>
  BY <1>1, Zenon DEF TakeChunk, ConnFrame
<1> SUFFICES ASSUME ~missed PROVE XInv'
  BY <1>2 DEF XInv
<1>3. /\ e.dir \in Dirs /\ e.data \in Seq(Byte) /\ config \in Configs /\ n \in Nat
      /\ Len(e.data) <= LongestChunk
  <2>1. e.dir \in Dirs /\ e.data \in Seq(Byte) /\ config \in Configs
    BY <1>0, <1>1 DEF Events, Types
  <2>2. n \in Nat
    BY <2>1, DetectorAssumption
  <2>3. 1 \in DOMAIN queue /\ Head(queue) = queue[1]
    BY <1>0 DEF Types
  <2>4. Sized(e)
    BY <1>0, <1>1, <2>3 DEF DataInv
  <2> QED
    BY <1>0, <1>1, <2>1, <2>2, <2>4 DEF Sized
<1> DEFINE text == stream[i]
           more == [text EXCEPT ![e.dir] = @ \o e.data]
           known == s.matched \cup {todo[k].id : k \in DOMAIN todo}
<1>4. text \in Texts /\ stream' = [stream EXCEPT ![i] = more] /\ sent[c] \in Texts
  BY <1>0, <1>1, <1>2, <1>3, Zenon DEF HistoryType, Texts
<1>5. ASSUME NEW dir \in Dirs
      PROVE  /\ Ends(Carried(queue, c, dir), sent[c][dir]) /\ Carried(queue, c, dir) \in Seq(Byte)
             /\ Carried(queue, c, dir) = Part(e, c, dir) \o Carried(queue', c, dir)
             /\ Part(e, c, dir) \in Seq(Byte) /\ Carried(queue', c, dir) \in Seq(Byte)
             /\ Part(e, c, dir) = IF dir = e.dir THEN e.data ELSE <<>>
  <2>1. queue \in Seq(Events)
    BY <1>0 DEF Types
  <2>2. /\ Carried(queue, c, dir) = Part(e, c, dir) \o Carried(queue', c, dir)
        /\ Part(e, c, dir) \in Seq(Byte) /\ Carried(queue', c, dir) \in Seq(Byte)
    BY <1>0, <1>1, <1>2, <2>1, CarriedHead, Zenon
  <2>3. Ends(Carried(queue, c, dir), sent[c][dir])
    BY <1>0, <1>1 DEF SentInv
  <2>4. Carried(queue, c, dir) \in Seq(Byte)
    BY <2>1, CarriedType, Zenon
  <2>5. Part(e, c, dir) = IF dir = e.dir THEN e.data ELSE <<>>
    BY <1>0, <1>1 DEF Part
  <2> QED
    BY <2>2, <2>3, <2>4, <2>5
<1>6. /\ s \in Session /\ s.live /\ s.owner = c
      /\ \A dir \in Dirs : Ends(s.buffers[dir], text[dir])
      /\ \A dir \in Dirs : Ends(text[dir] \o Carried(queue, c, dir), sent[c][dir])
      /\ s.steady => Exact(s.buffers, text, s.matched)
  <2>1. CASE sessions[i].live
    <3>1. sessions[i] \in Session /\ sessions[i].owner = c
      BY <1>0, <1>1, <2>1, ChunkFinds DEF Types
    <3>2. Known(i) = sessions[i].matched
      BY <1>2 DEF Known, Idle
    <3>3. Streamed(i)
      BY <1>0, <1>1
    <3> QED
      BY <2>1, <3>1, <3>2, <3>3 DEF Streamed, Reaches
  <2>2. CASE ~sessions[i].live
    <3>1. s = NewSession(e) /\ text = Empty
      BY <1>0, <1>1, <2>2 DEF Streamed
    <3>2. s \in Session /\ s.live /\ s.owner = c /\ s.matched = {}
      BY <1>1, <3>1, NoSessionType
    <3>3. s.buffers = Empty
      BY <3>1 DEF NewSession, NoSession
    <3>4. Exact(Empty, Empty, {})
      BY <1>3, ExactNew
    <3> HIDE DEF s, text
    <3>5. ASSUME NEW dir \in Dirs
          PROVE  /\ Ends(s.buffers[dir], text[dir])
                 /\ Ends(text[dir] \o Carried(queue, c, dir), sent[c][dir])
      <4>1. text[dir] = <<>> /\ s.buffers[dir] = <<>> /\ <<>> \in Seq(Byte)
        BY <3>1, <3>3, EmptyIs DEF EmptyText
      <4>2. <<>> \o Carried(queue, c, dir) = Carried(queue, c, dir)
        BY <1>5
      <4>3. Ends(<<>>, <<>>)
        BY <4>1, EndsSelf
      <4> QED
        BY <1>5, <4>1, <4>2, <4>3
    <3> QED
      BY <3>1, <3>2, <3>3, <3>4, <3>5
  <2> QED
    BY <2>1, <2>2
<1> HIDE DEF s, text
<1>7. /\ buffers = [d \in Dirs |-> IF d = e.dir THEN LastBytes(s.buffers[e.dir] \o e.data, n)
                                   ELSE s.buffers[d]]
  <2>1. s.buffers \in [Dirs -> Seq(Byte)]
    BY <1>6 DEF Session
  <2> QED
    BY <1>3, <2>1 DEF Buffered
<1>8. todo \in Seq(Signals)
  BY <1>3, SignalledIs
<1> HIDE DEF buffers, todo
<1>11. more \in Texts /\ \A dir \in Dirs : more[dir] = text[dir] \o Part(e, c, dir)
  <2>1. text[e.dir] \o e.data \in Seq(Byte) /\ \A dir \in Dirs : text[dir] \o <<>> = text[dir]
    BY <1>3, <1>4 DEF Texts
  <2> QED
    BY <1>3, <1>4, <1>5, <2>1 DEF Texts
<1> HIDE DEF more
<1>9. s.steady => Exact(buffers, more, known)
  <2>1. PICK B : B = s.buffers
    OBVIOUS
  <2>2. PICK matched : matched = s.matched
    OBVIOUS
  <2>3. todo = Signalled(matched, e.dir, buffers[e.dir]) /\ known = matched \cup {todo[k].id : k \in DOMAIN todo}
    BY <2>2 DEF todo
  <2>4. /\ more[e.dir] = text[e.dir] \o e.data
        /\ \A d \in Dirs \ {e.dir} : more[d] = text[d]
    BY <1>4, <1>3, <1>11 DEF more, Texts
  <2>5. /\ buffers[e.dir] = LastBytes(B[e.dir] \o e.data, config.bufferBytes)
        /\ \A d \in Dirs \ {e.dir} : buffers[d] = B[d]
    BY <1>3, <1>7, <2>1
  <2>6. s.steady => Exact(B, text, matched)
    BY <1>6, <2>1, <2>2
  <2>7. \A x : x \in known <=> x \in matched \/ \E k \in DOMAIN todo : todo[k].id = x
    BY <2>3
  <2> HIDE DEF known
  <2>8. ASSUME s.steady PROVE Exact(buffers, more, known)
    <3>1. PICK dir \in Dirs, data \in Seq(Byte) : dir = e.dir /\ data = e.data
      BY <1>3
    <3>2. config \in Configs /\ Len(data) <= LongestChunk /\ Exact(B, text, matched)
      BY <1>3, <2>6, <2>8, <3>1
    <3>3. /\ buffers[dir] = LastBytes(B[dir] \o data, config.bufferBytes)
          /\ todo = Signalled(matched, dir, buffers[dir])
          /\ more[dir] = text[dir] \o data
      BY <2>3, <2>4, <2>5, <3>1
    <3>4. \A d \in Dirs \ {dir} : buffers[d] = B[d] /\ more[d] = text[d]
      BY <2>4, <2>5, <3>1
    <3>5. text \in Texts /\ more \in Texts
      BY <1>4, <1>11
    <3>6. Receives(B, text, matched, dir, data, buffers, more, todo, known)
      BY <2>7, <3>2, <3>3, <3>4, <3>5, Zenon DEF Receives
    <3> QED
      BY <3>2, <3>6, ExactChunk
  <2> QED
    BY <2>8
<1>10. /\ t.live /\ t.owner = c /\ t.buffers = buffers /\ t.matched = s.matched
       /\ t.steady = s.steady
  BY <1>6 DEF Session
<1> HIDE DEF known, t
<1>12. ASSUME NEW dir \in Dirs
       PROVE  /\ Ends(buffers[dir], more[dir])
              /\ Ends(more[dir] \o Carried(queue', c, dir), sent[c][dir])
  <2> DEFINE a == text[dir]
             b == s.buffers[dir]
             p == Part(e, c, dir)
             q == Carried(queue', c, dir)
  <2>1. /\ a \in Seq(Byte) /\ b \in Seq(Byte) /\ p \in Seq(Byte) /\ q \in Seq(Byte)
        /\ Ends(b, a) /\ Ends(a \o (p \o q), sent[c][dir]) /\ more[dir] = a \o p
    <3>1. a \in Seq(Byte) /\ b \in Seq(Byte)
      BY <1>4, <1>6 DEF Texts, Session
    <3>2. p \in Seq(Byte) /\ q \in Seq(Byte) /\ Carried(queue, c, dir) = p \o q
      BY <1>5
    <3>3. Ends(b, a) /\ Ends(a \o Carried(queue, c, dir), sent[c][dir])
      BY <1>6
    <3> HIDE DEF a, b, p, q
    <3>4. Ends(a \o (p \o q), sent[c][dir])
      BY <3>2, <3>3
    <3>5. more[dir] = a \o p
      BY <1>11 DEF a, p
    <3> QED
      BY <3>1, <3>2, <3>3, <3>4, <3>5
  <2>2. buffers[dir] = IF dir = e.dir THEN LastBytes(b \o p, n) ELSE b \o p
    <3>1. CASE dir = e.dir
      BY <1>5, <1>7, <3>1
    <3>2. CASE dir # e.dir
      <4>1. p = <<>> /\ buffers[dir] = b
        BY <1>5, <1>7, <3>2
      <4>2. b \o <<>> = b
        BY <2>1
      <4> QED
        BY <3>2, <4>1, <4>2
    <3> QED
      BY <3>1, <3>2
  <2> HIDE DEF a, b, p, q
  <2>3. b \o p \in Seq(Byte) /\ a \o p \in Seq(Byte) /\ Ends(b \o p, a \o p)
    BY <2>1, EndsAppend
  <2>4. Ends(buffers[dir], a \o p)
    <3>1. CASE dir = e.dir
      <4> DEFINE x == b \o p
                 y == a \o p
      <4>1. x \in Seq(Byte) /\ y \in Seq(Byte) /\ Ends(x, y)
        BY <2>3
      <4> HIDE DEF x, y
      <4>2. LastBytes(x, n) \in Seq(Byte) /\ Ends(LastBytes(x, n), x)
        BY <1>3, <4>1, LastBytesIs
      <4>3. Ends(LastBytes(x, n), y)
        BY <4>1, <4>2, EndsTrans
      <4> QED
        BY <2>2, <3>1, <4>3 DEF x, y
    <3>2. CASE dir # e.dir
      BY <2>2, <2>3, <3>2
    <3> QED
      BY <3>1, <3>2
  <2>5. Ends((a \o p) \o q, sent[c][dir])
    <3>1. (a \o p) \o q = a \o (p \o q)
      BY <2>1, ConcatAssociative
    <3> QED
      BY <2>1, <3>1
  <2> QED
    BY <2>1, <2>4, <2>5 DEF q
<1> HIDE DEF i
<1>13. /\ sessions'[i] = t /\ stream'[i] = more /\ stream' \in [Ids -> Texts]
       /\ \A j \in Ids \ {i} : sessions'[j] = sessions[j] /\ stream'[j] = stream[j]
       /\ i \in Ids /\ i = e.conn[2]
  <2>1. i \in Ids /\ i = e.conn[2]
    BY <1>1 DEF i
  <2>2. sessions'[i] = t /\ \A j \in Ids \ {i} : sessions'[j] = sessions[j]
    BY <1>0, <1>2, <2>1 DEF Types
  <2>3. stream \in [Ids -> Texts]
    BY <1>0 DEF HistoryType
  <2>4. /\ stream'[i] = more /\ stream' \in [Ids -> Texts]
        /\ \A j \in Ids \ {i} : stream'[j] = stream[j]
    BY <1>4, <1>11, <2>1, <2>3
  <2> QED
    BY <2>1, <2>2, <2>4
<1>14. worker'.pc # "idle" => worker'.key = i /\ worker'.todo = todo
  <2>1. worker' = WithSignals(i, todo)
    BY <1>2
  <2>2. i \in Ids /\ todo \in Seq(Signals)
    BY <1>8, <1>13
  <2> QED
    BY <2>1, <2>2, WithSignalsIs, Zenon
<1>15. Known(i)' = known
  <2>1. CASE todo = <<>>
    <3>1. worker'.pc = "idle" /\ {todo[k].id : k \in DOMAIN todo} = {}
      BY <1>2, <2>1 DEF WithSignals, Idle
    <3> QED
      BY <1>10, <1>13, <3>1 DEF Known, known
  <2>2. CASE todo # <<>>
    <3>1. worker'.pc # "idle"
      BY <1>2, <2>2 DEF WithSignals, Idle
    <3> QED
      BY <1>10, <1>13, <1>14, <3>1 DEF Known, known
  <2> QED
    BY <2>1, <2>2
<1>16. Streamed(i)'
  <2>1. /\ sessions'[i].live /\ sessions'[i].owner = c /\ sessions'[i].buffers = buffers
        /\ sessions'[i].steady = s.steady /\ stream'[i] = more
    BY <1>10, <1>13
  <2>2. \A dir \in Dirs : Ends(sessions'[i].buffers[dir], stream'[i][dir])
    BY <1>12, <2>1
  <2>3. sent' = sent /\ config' = config
    BY <1>2
  <2>4. Reaches(stream[i], sessions[i].owner, queue, sent[sessions[i].owner])'
    BY <1>12, <2>1, <2>3 DEF Reaches
  <2>5. PICK B, T, K : B = buffers /\ T = more /\ K = known
    OBVIOUS
  <2>6. s.steady => Exact(B, T, K)'
    BY <1>9, <2>3, <2>5 DEF Exact
  <2> QED
    BY <1>13, <1>15, <2>1, <2>2, <2>4, <2>5, <2>6 DEF Streamed
<1>17. sessions'[i].owner = e.conn
  BY <1>10, <1>13
<1>18. i = Head(queue).conn[2] /\ sessions'[i].owner = Head(queue).conn
  BY <1>1, <1>13, <1>17
<1>19. /\ queue' = Tail(queue) /\ worker = Idle
       /\ UNCHANGED <<epoch, conn, missed, sent, config>>
  BY <1>2
<1> QED
  BY <1>0, <1>13, <1>14, <1>16, <1>18, <1>19, XTake

-----------------------------------------------------------------------------
(* The worker adds a signal.                                                *)

\* What AddSignal does: x is added, and f is the finding from then on.
Adds(i, f, x, pin) ==
  LET s == sessions[i]
  IN  /\ worker.pc = "signal" /\ worker.key = i /\ worker.todo # <<>> /\ x = Head(worker.todo)
      /\ i \in Ids /\ s \in Session /\ s.live /\ s.owner \in Conns
      /\ f \in Finding /\ x \in Signals /\ pin \in BOOLEAN
      /\ f.owner = s.owner /\ f.signals = Append(s.finding.signals, x)
      /\ s.finding.id # 0 => f.id = s.finding.id
      /\ f.pinned <=> s.finding.pinned \/ pin
      /\ pin <=> /\ s.owner \in AutoPin /\ f.id # 0 /\ f.score >= config.autoPinScore
                 /\ ~s.finding.pinned
      /\ sessions' = [sessions EXCEPT ![i] =
           [s EXCEPT !.finding = f, !.matched = s.matched \cup {x.id}]]
      /\ \A k \in DOMAIN findings' :
           \/ findings'[k] = f
           \/ \E m \in DOMAIN findings : findings'[k] = findings[m] /\ findings[m].id # f.id
      /\ worker' = IF f.id = 0 THEN WithSignals(i, Tail(worker.todo))
                   ELSE [pc |-> "hook", key |-> i, todo |-> Tail(worker.todo),
                         mark |-> [owner |-> s.owner, score |-> f.score, pin |-> pin]]
      /\ UNCHANGED <<epoch, conn, missed, lagged, sent, stream, capture, queue, config>>

LEMMA AddSignalIs ==
  ASSUME IInv, AddSignal
  PROVE  \E i \in Ids, f \in Finding, x \in Signals, pin \in BOOLEAN : Adds(i, f, x, pin)
<1>0. Types /\ WorkInv /\ SessionInv /\ ListInv /\ worker.pc = "signal"
  BY Zenon DEF IInv, AddSignal
<1>1. PICK i \in Ids : i = worker.key /\ sessions[i] \in Session /\ sessions[i].live
  BY <1>0 DEF WorkInv, Types
<1>2. PICK s : s = sessions[i]
  OBVIOUS
<1> DEFINE todo == worker.todo
<1>3. todo \in Seq(Signals) /\ todo # <<>> /\ Head(todo) \in Signals /\ Head(todo).id \notin s.matched
  <2>1. todo \in Seq(Signals) /\ todo # <<>> /\ \A k \in DOMAIN todo : todo[k].id \notin s.matched
    BY <1>0, <1>1, <1>2 DEF Types, Work, WorkInv
  <2> HIDE DEF todo
  <2> QED
    BY <2>1
<1>4. PICK x \in Signals : x = Head(todo)
  BY <1>3
<1> HIDE DEF todo
<1> DEFINE grown == Grown(s, x)
           created == grown.id = 0 /\ grown.score >= config.threshold
           known == IF created THEN [grown EXCEPT !.id = sequence + 1] ELSE grown
           pin == Pins(s, known)
           pinned == known.pinned \/ pin
           f == [known EXCEPT !.pinned = pinned]
           listed == [k \in DOMAIN findings |-> IF findings[k].id = f.id THEN f ELSE findings[k]]
<1>5. /\ findings' = IF created THEN FirstOf(<<f>> \o findings, config.maxFindings) ELSE listed
      /\ sessions' = [sessions EXCEPT ![i].finding = f, ![i].matched = @ \cup {x.id}]
      /\ worker' = IF f.id = 0 THEN WithSignals(i, Tail(todo))
                   ELSE [pc |-> "hook", key |-> i, todo |-> Tail(todo),
                         mark |-> [owner |-> s.owner, score |-> f.score, pin |-> pin]]
      /\ UNCHANGED <<epoch, conn, missed, lagged, sent, stream, capture, queue, config>>
  <2>1. findings' = IF created THEN FirstOf(<<f>> \o findings, config.maxFindings) ELSE listed
    BY <1>1, <1>2, <1>4, Zenon DEF AddSignal, Grown, todo
  <2>2. sessions' = [sessions EXCEPT ![i].finding = f, ![i].matched = @ \cup {x.id}]
    BY <1>1, <1>2, <1>4, Zenon DEF AddSignal, Grown, todo
  <2>3. worker' = IF f.id = 0 THEN WithSignals(i, Tail(todo))
                  ELSE [pc |-> "hook", key |-> i, todo |-> Tail(todo),
                        mark |-> [owner |-> s.owner, score |-> f.score, pin |-> pin]]
    BY <1>1, <1>2, <1>4, Zenon DEF AddSignal, Grown, todo
  <2>4. UNCHANGED <<epoch, conn, missed, lagged, sent, stream, capture, queue, config>>
    BY Zenon DEF AddSignal, ConnFrame
  <2> HIDE DEF created, f, listed, pin
  <2> QED
    BY <2>1, <2>2, <2>3, <2>4, Zenon
<1>6. /\ s \in Session /\ s.live /\ s.owner \in Conns /\ OwnFinding(s, sequence)
      /\ sequence \in Nat /\ config \in Configs /\ config.autoPinScore \in Nat
  <2>1. OwnFinding(s, sequence) /\ s \in Session /\ s.live
    BY <1>0, <1>1, <1>2 DEF SessionInv
  <2>2. sequence \in Nat /\ config \in Configs
    BY <1>0 DEF Types
  <2>3. config.autoPinScore \in 1..100
    BY <2>2, DetectorAssumption
  <2> QED
    BY <2>1, <2>2, <2>3 DEF OwnFinding
<1>7. /\ grown \in Finding /\ grown.id = s.finding.id /\ grown.owner = s.owner
      /\ grown.signals = Append(s.finding.signals, x) /\ grown.pinned = s.finding.pinned
  <2>1. grown \in Finding /\ grown.id = s.finding.id /\ grown.pinned = s.finding.pinned
    BY <1>3, <1>4, <1>6, GrownIs
  <2>2. s.finding \in Finding
    BY <1>6 DEF Session
  <2>3. grown.owner = s.owner /\ grown.signals = Append(s.finding.signals, x)
    BY <2>2 DEF Grown, Finding
  <2> QED
    BY <2>1, <2>3
<1> HIDE DEF grown
<1>8. /\ known \in Finding /\ known.id = (IF created THEN sequence + 1 ELSE s.finding.id)
      /\ known.owner = s.owner /\ known.signals = Append(s.finding.signals, x)
      /\ known.score = grown.score /\ known.pinned = s.finding.pinned
  <2>1. CASE created
    <3>1. known = [grown EXCEPT !.id = sequence + 1] /\ sequence + 1 \in Nat
      BY <1>6, <2>1
    <3> HIDE DEF known, created
    <3> QED
      BY <1>7, <2>1, <3>1 DEF Finding
  <2>2. CASE ~created
    BY <1>7, <2>2
  <2> QED
    BY <2>1, <2>2
<1>c. created => s.finding.id = 0
  BY <1>7
<1> HIDE DEF known, created
<1>9. /\ pin \in BOOLEAN
      /\ pin <=> /\ s.owner \in AutoPin /\ known.id # 0 /\ known.score >= config.autoPinScore
                 /\ ~s.finding.pinned
  BY <1>8 DEF Pins
<1> HIDE DEF pin
<1>10. /\ f \in Finding /\ f.id = known.id /\ f.owner = known.owner /\ f.signals = known.signals
       /\ f.score = known.score /\ (f.pinned <=> s.finding.pinned \/ pin)
  <2>1. pinned \in BOOLEAN /\ (pinned <=> s.finding.pinned \/ pin)
    BY <1>8
  <2> HIDE DEF pinned
  <2> QED
    BY <1>8, <2>1 DEF Finding
<1> HIDE DEF pinned
<1>11. sessions' = [sessions EXCEPT ![i] = [s EXCEPT !.finding = f, !.matched = s.matched \cup {x.id}]]
  <2> HIDE DEF f
  <2> QED
    BY <1>2, <1>5
<1>12. ASSUME NEW k \in DOMAIN findings'
       PROVE  \/ findings'[k] = f
              \/ \E m \in DOMAIN findings : findings'[k] = findings[m] /\ findings[m].id # f.id
  <2> HIDE DEF f
  <2>1. CASE created
    <3> DEFINE all == <<f>> \o findings
               new == FirstOf(all, config.maxFindings)
    <3>1. findings' = new /\ f.id = sequence + 1 /\ config.maxFindings \in Nat
      BY <1>5, <1>6, <1>8, <1>10, <2>1, DetectorAssumption
    <3>2. /\ findings \in Seq(Finding) /\ DOMAIN findings = 1..Len(findings) /\ Len(findings) \in Nat
          /\ \A m \in DOMAIN findings : findings[m].id = sequence - m + 1
      BY <1>0 DEF Types, ListInv
    <3>3. /\ all \in Seq(Finding) /\ DOMAIN all = 1..(Len(findings) + 1) /\ all[1] = f
          /\ \A m \in 2..(Len(findings) + 1) : all[m] = findings[m - 1]
      BY <1>10, <3>2, InFront
    <3> HIDE DEF all
    <3>4. \A m \in DOMAIN new : m \in DOMAIN all /\ new[m] = all[m]
      BY <3>1, <3>3, FirstOfIs
    <3>5. k \in 1..(Len(findings) + 1) /\ findings'[k] = all[k]
      BY <1>12, <3>1, <3>3, <3>4
    <3>6. CASE k = 1
      BY <3>3, <3>5, <3>6
    <3>7. CASE k # 1
      <4>1. k \in 2..(Len(findings) + 1) /\ k - 1 \in DOMAIN findings
        BY <3>2, <3>5, <3>7
      <4>2. findings[k - 1].id # f.id
        BY <1>6, <3>1, <3>2, <4>1
      <4> QED
        BY <3>3, <3>5, <4>1, <4>2
    <3> QED
      BY <3>6, <3>7
  <2>2. CASE ~created
    <3>1. findings' = listed
      BY <1>5, <2>2
    <3> QED
      BY <1>12, <3>1
  <2> QED
    BY <2>1, <2>2
<1>13. s.finding.id # 0 => f.id = s.finding.id
  BY <1>8, <1>c, <1>10
<1>14. pin <=> s.owner \in AutoPin /\ f.id # 0 /\ f.score >= config.autoPinScore /\ ~s.finding.pinned
  BY <1>9, <1>10
<1>15. Adds(i, f, x, pin)
  <2>1. /\ worker.pc = "signal" /\ worker.key = i /\ worker.todo # <<>> /\ x = Head(worker.todo)
        /\ i \in Ids /\ s \in Session /\ s.live /\ s.owner \in Conns
        /\ f \in Finding /\ x \in Signals /\ pin \in BOOLEAN
        /\ f.owner = s.owner /\ f.signals = Append(s.finding.signals, x)
    BY <1>0, <1>1, <1>2, <1>3, <1>4, <1>6, <1>8, <1>9, <1>10 DEF todo
  <2>2. worker' = IF f.id = 0 THEN WithSignals(i, Tail(worker.todo))
                  ELSE [pc |-> "hook", key |-> i, todo |-> Tail(worker.todo),
                        mark |-> [owner |-> s.owner, score |-> f.score, pin |-> pin]]
    BY <1>5 DEF todo
  <2>3. f.pinned <=> s.finding.pinned \/ pin
    BY <1>10
  <2> HIDE DEF f
  <2> QED
    BY <1>2, <1>5, <1>11, <1>12, <1>13, <1>14, <2>1, <2>2, <2>3, Zenon DEF Adds
<1> HIDE DEF f
<1> QED
  BY <1>9, <1>10, <1>15

-----------------------------------------------------------------------------
(* Everything else leaves the sessions what they hold, or unsettles them.   *)

\* A session that is there goes on as it was, or is unsettled, or goes.
Stays(i) ==
  \/ ~sessions'[i].live /\ stream'[i] = Empty
  \/ /\ sessions'[i].live /\ sessions[i].live
     /\ sessions'[i].owner = sessions[i].owner /\ sessions'[i].buffers = sessions[i].buffers
     /\ stream'[i] = stream[i]
     /\ sessions'[i].steady => sessions[i].steady /\ config' = config /\ Known(i)' = Known(i)

LEMMA XStill ==
  ASSUME XInv, UNCHANGED <<queue, missed, sent>>,
         \A c \in Conns : Sending(c)' => Sending(c) /\ epoch' = epoch,
         ~missed => stream' \in [Ids -> Texts] /\ \A i \in Ids : Stays(i)
  PROVE  XInv'
<1> SUFFICES ASSUME ~missed PROVE XInv'
  BY DEF XInv
<1>1. /\ HistoryType /\ DataInv /\ OrderInv /\ SentInv /\ \A i \in Ids : Streamed(i) /\ Stays(i)
  BY DEF XInv
<1>2. HistoryType' /\ DataInv' /\ SentInv'
  BY <1>1 DEF HistoryType, DataInv, SentInv
<1>3. ASSUME NEW c \in Conns, NEW k \in Int, Fresh(c, k) PROVE Fresh(c, k)'
  <2>1. \A j \in 0..(k - 1) : Foreign(c, j)' => Foreign(c, j)
    <3>1. c[2] \in Ids
      BY DEF Conns
    <3> QED
      BY <1>1, <3>1 DEF Foreign, Stays
  <2>2. \A m : Begins(c, m)' <=> Begins(c, m)
    BY DEF Begins
  <2> QED
    BY <1>3, <2>1, <2>2 DEF Fresh
<1>4. OrderInv'
  <2>1. ASSUME NEW c \in Conns, NEW k \in 1..Len(queue'), queue'[k].conn = c, queue'[k].kind # "begin"
        PROVE  Fresh(c, k)'
    <3>1. Fresh(c, k)
      BY <1>1, <2>1 DEF OrderInv
    <3> QED
      BY <1>3, <3>1
  <2>2. ASSUME NEW c \in Conns, Sending(c)', NEW k \in {Len(queue') + 1}
        PROVE  c[1] = epoch' /\ Fresh(c, k)'
    <3>1. c[1] = epoch /\ Fresh(c, k)
      BY <1>1, <2>2 DEF OrderInv
    <3>2. CASE k \in Int
      BY <1>3, <2>2, <3>1, <3>2
    <3>3. CASE k \notin Int
      <4>1. \A j \in 0..(k - 1) : Foreign(c, j)' => Foreign(c, j)
        <5>1. c[2] \in Ids
          BY DEF Conns
        <5> QED
          BY <1>1, <5>1 DEF Foreign, Stays
      <4>2. \A m : Begins(c, m)' <=> Begins(c, m)
        BY DEF Begins
      <4> QED
        BY <2>2, <3>1, <4>1, <4>2 DEF Fresh
    <3> QED
      BY <3>2, <3>3
  <2> QED
    BY <2>1, <2>2 DEF OrderInv
<1>5. ASSUME NEW i \in Ids PROVE Streamed(i)'
  <2>1. CASE ~sessions'[i].live /\ stream'[i] = Empty
    BY <2>1 DEF Streamed
  <2>2. CASE ~(~sessions'[i].live /\ stream'[i] = Empty)
    <3>1. /\ sessions'[i].live /\ sessions[i].live
          /\ sessions'[i].owner = sessions[i].owner /\ sessions'[i].buffers = sessions[i].buffers
          /\ stream'[i] = stream[i]
          /\ sessions'[i].steady => sessions[i].steady /\ config' = config /\ Known(i)' = Known(i)
      BY <1>1, <2>2 DEF Stays
    <3>2. Streamed(i)
      BY <1>1
    <3> QED
      BY <3>1, <3>2 DEF Streamed, Reaches, Exact
  <2> QED
    BY <2>1, <2>2
<1> QED
  BY <1>2, <1>4, <1>5 DEF XInv

LEMMA ConnectX ==
  ASSUME IInv, XInv, NEW i \in Ids, Connect(i)
  PROVE  XInv'
<1>1. /\ conn' = [conn EXCEPT ![<<epoch, i>>].pc = "open"]
      /\ Enqueue(Event("begin", <<epoch, i>>, NoChunk)) /\ epoch' = epoch
  BY DEF Connect
<1>2. <<epoch, i>> \in Conns /\ conn \in [Conns -> Connection]
  BY DEF Conns, IInv, Types
<1>3. PICK e \in Events : e = Event("begin", <<epoch, i>>, NoChunk)
  BY <1>2, EventType
<1>4. e.kind = "begin" /\ e.conn = <<epoch, i>> /\ e.conn[1] = epoch /\ Sized(e)
  BY <1>3 DEF Event, NoChunk, Sized
<1>5. \A c \in Conns : Sending(c)' => Sending(c) \/ c = e.conn
  BY <1>1, <1>2, <1>4 DEF Sending, Connection
<1> QED
  BY <1>1, <1>3, <1>4, <1>5, XEnqueue

\* The events of a connection that is there.
LEMMA SendingX ==
  ASSUME IInv, XInv, NEW c \in Conns, Sending(c), NEW kind \in {"chunk", "end"},
         NEW ch \in Chunks \cup {NoChunk}, kind = "chunk" <=> ch \in Chunks,
         Enqueue(Event(kind, c, ch)), epoch' = epoch,
         \A b \in Conns : Sending(b)' => Sending(b)
  PROVE  XInv'
<1>1. PICK e \in Events : e = Event(kind, c, ch)
  BY EventType
<1>2. e.kind # "begin" /\ e.conn = c /\ e.kind = kind /\ e.data = ch.data
  BY <1>1 DEF Event
<1>3. Sized(e)
  BY <1>2, LongestIs DEF Sized, NoChunk
<1>4. ~missed => OrderInv
  BY DEF XInv
<1>5. Len(queue) + 1 \in {Len(queue) + 1}
  OBVIOUS
<1>6. ~missed => c[1] = epoch /\ Fresh(c, Len(queue) + 1)
  BY <1>4, <1>5 DEF OrderInv
<1>7. CASE ~missed
  BY <1>1, <1>2, <1>3, <1>6, <1>7, XEnqueue
<1>8. CASE missed
  BY <1>8 DEF Enqueue, XInv
<1> QED
  BY <1>7, <1>8

LEMMA SendX ==
  ASSUME IInv, XInv, NEW c \in Conns, NEW ch \in Chunks, Send(c, ch)
  PROVE  XInv'
<1>1. /\ Sending(c) /\ Enqueue(Event("chunk", c, ch)) /\ epoch' = epoch
      /\ conn' = [conn EXCEPT ![c].late = @ \ {ch.dir}, ![c].chunks = @ + 1]
  BY DEF Send, Sending
<1>2. conn \in [Conns -> Connection]
  BY DEF IInv, Types
<1>3. \A b \in Conns : Sending(b)' => Sending(b)
  BY <1>1, <1>2 DEF Sending, Connection
<1> QED
  BY <1>1, <1>3, SendingX

LEMMA FinishX ==
  ASSUME IInv, XInv, NEW c \in Conns, Finish(c)
  PROVE  XInv'
<1>1. /\ Sending(c) /\ Enqueue(Event("end", c, NoChunk)) /\ epoch' = epoch
      /\ conn' = [conn EXCEPT ![c].pc = "ended", ![c].late = IF c \in Udp THEN Dirs ELSE {}]
  BY DEF Finish, Sending
<1>2. conn \in [Conns -> Connection]
  BY DEF IInv, Types
<1>3. \A b \in Conns : Sending(b)' => Sending(b)
  BY <1>1, <1>2 DEF Sending, Connection
<1>4. NoChunk \notin Chunks
  <2>1. NoChunk.data = <<>> /\ Len(<<>>) = 0
    BY DEF NoChunk
  <2> QED
    BY <2>1, DetectorAssumption
<1> QED
  BY <1>1, <1>3, <1>4, SendingX

\* The steps that change no session, nor what it holds.
LEMMA SameX ==
  ASSUME IInv, XInv, UNCHANGED <<queue, missed, sent, stream, sessions, config, worker>>,
         \A c \in Conns : Sending(c)' => Sending(c) /\ epoch' = epoch
  PROVE  XInv'
<1>1. \A i \in Ids : Known(i)' = Known(i)
  BY DEF Known
<1>2. ~missed => stream' \in [Ids -> Texts] /\ \A i \in Ids : Stays(i)
  BY <1>1 DEF XInv, HistoryType, Streamed, Stays
<1> QED
  BY <1>2, XStill

LEMMA EvictX ==
  ASSUME IInv, XInv, NEW i \in Ids, Evict(i)
  PROVE  XInv'
<1>1. /\ UNCHANGED <<queue, missed, sent, stream, sessions, config, worker, epoch>>
      /\ \A c \in Conns : Sending(c)' <=> Sending(c)
  BY DEF Evict, engine, Sending
<1> QED
  BY <1>1, SameX

LEMMA ReplaceX ==
  ASSUME IInv, XInv, Replace
  PROVE  XInv'
<1>1. /\ UNCHANGED <<queue, missed, sent, stream, sessions, config, worker>>
      /\ \A c \in Conns : conn[c].pc # "open"
      /\ conn' = [c \in Conns |-> [conn[c] EXCEPT !.late = {}]]
  BY DEF Replace, engine
<1>2. ASSUME NEW c \in Conns PROVE ~Sending(c)'
  <2>1. conn[c] \in Connection
    BY DEF IInv, Types
  <2> QED
    BY <1>1, <2>1 DEF Sending, Connection
<1> QED
  BY <1>1, <1>2, SameX

LEMMA ClearFindingsX ==
  ASSUME IInv, XInv, ClearFindings
  PROVE  XInv'
<1>1. /\ UNCHANGED <<queue, missed, sent, stream, sessions, config, worker, epoch>>
      /\ \A c \in Conns : Sending(c)' <=> Sending(c)
  BY DEF ClearFindings, ConnFrame, Sending
<1> QED
  BY <1>1, SameX

LEMMA HookX ==
  ASSUME IInv, XInv, Hook
  PROVE  XInv'
<1>1. /\ worker.pc = "hook" /\ worker' = WithSignals(worker.key, worker.todo)
      /\ UNCHANGED <<epoch, conn, queue, missed, sent, stream, sessions, config>>
  BY DEF Hook, ConnFrame
<1>2. ASSUME NEW i \in Ids PROVE Known(i)' = Known(i)
  <2>1. CASE worker.todo = <<>>
    <3>1. worker'.pc = "idle" /\ {worker.todo[k].id : k \in DOMAIN worker.todo} = {}
      BY <1>1, <2>1 DEF WithSignals, Idle
    <3> QED
      BY <1>1, <3>1 DEF Known
  <2>2. CASE worker.todo # <<>>
    <3>1. worker'.pc = "signal" /\ worker'.key = worker.key /\ worker'.todo = worker.todo
      BY <1>1, <2>2 DEF WithSignals, Idle
    <3> QED
      BY <1>1, <3>1 DEF Known
  <2> QED
    BY <2>1, <2>2
<1>3. ~missed => stream' \in [Ids -> Texts] /\ \A i \in Ids : Stays(i)
  BY <1>1, <1>2 DEF XInv, HistoryType, Streamed, Stays
<1>4. \A c \in Conns : Sending(c)' => Sending(c) /\ epoch' = epoch
  BY <1>1 DEF Sending
<1> QED
  BY <1>1, <1>3, <1>4, XStill

LEMMA CleanupX ==
  ASSUME IInv, XInv, NEW gone \in SUBSET Ids, NEW n \in 0..recent, Cleanup(gone, n)
  PROVE  XInv'
<1>1. /\ UNCHANGED <<epoch, conn, queue, missed, sent, worker, config>>
      /\ sessions' = [i \in Ids |-> IF i \in gone THEN NoSession ELSE sessions[i]]
      /\ stream' = [i \in Ids |-> IF i \in gone THEN Empty ELSE stream[i]]
  BY DEF Cleanup, ConnFrame
<1>2. ASSUME ~missed PROVE stream' \in [Ids -> Texts]
  BY <1>1, <1>2, EmptyIs DEF XInv, HistoryType, EmptyText
<1>3. ASSUME ~missed, NEW i \in Ids PROVE Stays(i)
  <2>1. Streamed(i)
    BY <1>3 DEF XInv
  <2>2. CASE i \in gone
    BY <1>1, <2>2, NoSessionType DEF Stays
  <2>3. CASE i \notin gone
    <3>1. UNCHANGED <<sessions[i], stream[i], Known(i)>>
      BY <1>1, <2>3 DEF Known
    <3> QED
      BY <1>1, <2>1, <3>1 DEF Stays, Streamed
  <2> QED
    BY <2>2, <2>3
<1>4. \A c \in Conns : Sending(c)' => Sending(c) /\ epoch' = epoch
  BY <1>1 DEF Sending
<1> QED
  BY <1>1, <1>2, <1>3, <1>4, XStill

LEMMA ConfigureX ==
  ASSUME IInv, XInv, NEW c \in Configs, Configure(c)
  PROVE  XInv'
<1>1. /\ UNCHANGED <<epoch, conn, queue, missed, sent, worker, stream>>
      /\ sessions' = [i \in Ids |-> Unsettled(sessions[i])]
      /\ sessions \in [Ids -> Session]
  BY DEF Configure, ConnFrame, IInv, Types
<1>2. ASSUME ~missed, NEW i \in Ids PROVE Stays(i)
  <2>1. Streamed(i)
    BY <1>2 DEF XInv
  <2>2. CASE ~sessions[i].live
    BY <1>1, <2>1, <2>2 DEF Stays, Unsettled, Streamed
  <2>3. CASE sessions[i].live
    <3>1. sessions'[i] = [sessions[i] EXCEPT !.steady = FALSE] /\ sessions[i] \in Session
      BY <1>1, <2>3 DEF Unsettled
    <3>2. /\ sessions'[i].live /\ sessions'[i].owner = sessions[i].owner
          /\ sessions'[i].buffers = sessions[i].buffers /\ ~sessions'[i].steady
      BY <2>3, <3>1 DEF Session
    <3> QED
      BY <1>1, <2>3, <3>2 DEF Stays
  <2> QED
    BY <2>2, <2>3
<1>3. ~missed => stream' \in [Ids -> Texts]
  BY <1>1 DEF XInv, HistoryType
<1>4. \A b \in Conns : Sending(b)' => Sending(b) /\ epoch' = epoch
  BY <1>1 DEF Sending
<1> QED
  BY <1>1, <1>2, <1>3, <1>4, XStill

LEMMA AddSignalX ==
  ASSUME IInv, XInv, AddSignal
  PROVE  XInv'
<1>1. PICK i \in Ids, f \in Finding, x \in Signals, pin \in BOOLEAN : Adds(i, f, x, pin)
  BY AddSignalIs
<1> DEFINE s == sessions[i]
           todo == worker.todo
<1>2. /\ worker.pc = "signal" /\ worker.key = i /\ todo # <<>> /\ x = Head(todo)
      /\ s \in Session /\ s.live /\ todo \in Seq(Signals)
      /\ sessions' = [sessions EXCEPT ![i] =
           [s EXCEPT !.finding = f, !.matched = s.matched \cup {x.id}]]
      /\ worker' = IF f.id = 0 THEN WithSignals(i, Tail(todo))
                   ELSE [pc |-> "hook", key |-> i, todo |-> Tail(todo),
                         mark |-> [owner |-> s.owner, score |-> f.score, pin |-> pin]]
      /\ UNCHANGED <<epoch, conn, missed, sent, stream, queue, config>>
      /\ sessions \in [Ids -> Session]
  BY <1>1 DEF Adds, IInv, Types, Work
<1> HIDE DEF s, todo
<1>3. /\ sessions'[i].live /\ sessions'[i].owner = s.owner /\ sessions'[i].buffers = s.buffers
      /\ sessions'[i].steady = s.steady /\ sessions'[i].matched = s.matched \cup {x.id}
      /\ \A j \in Ids \ {i} : sessions'[j] = sessions[j]
  <2>1. sessions'[i] = [s EXCEPT !.finding = f, !.matched = s.matched \cup {x.id}]
    BY <1>2
  <2> QED
    BY <1>2, <2>1 DEF Session
<1>4. {todo[k].id : k \in DOMAIN todo} = {x.id} \cup {Tail(todo)[k].id : k \in DOMAIN Tail(todo)}
  <2>1. /\ DOMAIN todo = 1..Len(todo) /\ Len(todo) \in Nat \ {0} /\ Head(todo) = todo[1]
        /\ DOMAIN Tail(todo) = 1..(Len(todo) - 1)
        /\ \A k \in 1..(Len(todo) - 1) : Tail(todo)[k] = todo[k + 1]
    BY <1>2
  <2>2. ASSUME NEW k \in DOMAIN todo
        PROVE  k = 1 \/ (k - 1 \in DOMAIN Tail(todo) /\ Tail(todo)[k - 1] = todo[k])
    BY <2>1
  <2>3. ASSUME NEW k \in DOMAIN Tail(todo)
        PROVE  k + 1 \in DOMAIN todo /\ Tail(todo)[k] = todo[k + 1]
    BY <2>1
  <2>4. 1 \in DOMAIN todo /\ todo[1] = x
    BY <1>2, <2>1
  <2> DEFINE ids == {todo[k].id : k \in DOMAIN todo}
             rest == {Tail(todo)[k].id : k \in DOMAIN Tail(todo)}
  <2>5. ASSUME NEW y \in ids PROVE y \in {x.id} \cup rest
    <3>1. PICK k \in DOMAIN todo : y = todo[k].id
      OBVIOUS
    <3>2. CASE k = 1
      BY <2>4, <3>1, <3>2
    <3>3. CASE k # 1
      <4>1. PICK m \in DOMAIN Tail(todo) : Tail(todo)[m] = todo[k]
        BY <2>2, <3>3
      <4>2. Tail(todo)[m].id \in rest
        OBVIOUS
      <4> QED
        BY <3>1, <4>1, <4>2
    <3> QED
      BY <3>2, <3>3
  <2>6. ASSUME NEW y \in {x.id} \cup rest PROVE y \in ids
    <3>1. CASE y = x.id
      BY <2>4, <3>1
    <3>2. CASE y \in rest
      <4>1. PICK k \in DOMAIN Tail(todo) : y = Tail(todo)[k].id
        BY <3>2
      <4>2. PICK m \in DOMAIN todo : todo[m] = Tail(todo)[k]
        BY <2>3
      <4>3. todo[m].id \in ids
        OBVIOUS
      <4> QED
        BY <4>1, <4>2, <4>3
    <3> QED
      BY <2>6, <3>1, <3>2
  <2> QED
    BY <2>5, <2>6, Zenon
<1>5. ASSUME NEW j \in Ids PROVE Known(j)' = Known(j)
  <2>1. /\ worker'.pc # "idle" => worker'.key = i /\ worker'.todo = Tail(todo)
        /\ worker'.pc = "idle" => Tail(todo) = <<>>
    BY <1>2 DEF WithSignals, Idle
  <2>2. CASE j = i
    <3>1. Known(i) = s.matched \cup {todo[k].id : k \in DOMAIN todo}
      BY <1>2 DEF Known, todo, s
    <3>2. Known(i)' = s.matched \cup {x.id} \cup {Tail(todo)[k].id : k \in DOMAIN Tail(todo)}
      <4>1. CASE worker'.pc # "idle"
        <5>1. worker'.key = i /\ worker'.todo = Tail(todo)
          BY <2>1, <4>1
        <5>2. sessions'[i].matched = s.matched \cup {x.id}
          BY <1>3
        <5> QED
          BY <4>1, <5>1, <5>2, Zenon DEF Known
      <4>2. CASE worker'.pc = "idle"
        <5>1. {Tail(todo)[k].id : k \in DOMAIN Tail(todo)} = {}
          BY <2>1, <4>2
        <5> QED
          BY <1>3, <4>2, <5>1 DEF Known
      <4> QED
        BY <4>1, <4>2
    <3> QED
      BY <1>4, <2>2, <3>1, <3>2
  <2>3. CASE j # i
    BY <1>2, <1>3, <2>1, <2>3 DEF Known
  <2> QED
    BY <2>2, <2>3
<1>6. ASSUME ~missed, NEW j \in Ids PROVE Stays(j)
  <2>1. Streamed(j)
    BY <1>6 DEF XInv
  <2>2. CASE j = i
    BY <1>2, <1>3, <1>5, <2>2 DEF Stays, s
  <2>3. CASE j # i
    BY <1>2, <1>3, <1>5, <2>1, <2>3 DEF Stays, Streamed
  <2> QED
    BY <2>2, <2>3
<1>7. ~missed => stream' \in [Ids -> Texts]
  BY <1>2 DEF XInv, HistoryType
<1>8. \A c \in Conns : Sending(c)' => Sending(c) /\ epoch' = epoch
  BY <1>2 DEF Sending
<1> QED
  BY <1>2, <1>6, <1>7, <1>8, XStill

LEMMA InitX == Init => XInv
<1> SUFFICES ASSUME Init PROVE XInv
  OBVIOUS
<1>1. /\ conn = [c \in Conns |-> [pc |-> "none", late |-> {}, chunks |-> 0]] /\ queue = <<>>
      /\ sessions = [i \in Ids |-> NoSession] /\ sent = [c \in Conns |-> Empty]
      /\ stream = [i \in Ids |-> Empty]
  BY DEF Init
<1>2. HistoryType
  BY <1>1, EmptyIs DEF HistoryType, EmptyText
<1>3. DOMAIN queue = {} /\ 1..Len(queue) = {}
  BY <1>1
<1>4. DataInv /\ OrderInv
  BY <1>1, <1>3 DEF DataInv, OrderInv, Sending
<1>5. SentInv
  <2>1. ASSUME NEW c \in Conns, NEW dir \in Dirs PROVE Ends(Carried(queue, c, dir), sent[c][dir])
    <3>1. Carried(<<>>, c, dir) = <<>> /\ sent[c][dir] = <<>> /\ <<>> \in Seq(Byte)
      BY <1>1, CarriedEmpty, EmptyIs DEF EmptyText
    <3>2. Ends(<<>>, <<>>)
      BY <3>1, EndsSelf
    <3> QED
      BY <1>1, <3>1, <3>2
  <2> QED
    BY <2>1 DEF SentInv
<1>6. ASSUME NEW i \in Ids PROVE Streamed(i)
  BY <1>1, NoSessionType DEF Streamed
<1> QED
  BY <1>2, <1>4, <1>5, <1>6 DEF XInv

LEMMA NextX == IInv /\ XInv /\ [Next]_vars => XInv'
<1> SUFFICES ASSUME IInv, XInv, [Next]_vars PROVE XInv'
  OBVIOUS
<1>1. ASSUME UNCHANGED vars PROVE XInv'
  <2>1. /\ UNCHANGED <<queue, missed, sent, stream, sessions, config, worker, epoch>>
        /\ \A c \in Conns : Sending(c)' <=> Sending(c)
    BY <1>1 DEF vars, engine, Sending
  <2> QED
    BY <2>1, SameX
<1> QED
  BY <1>1, ConnectX, SendX, FinishX, EvictX, ReplaceX, TakeBeginX, TakeEndX, TakeChunkX, AddSignalX,
     HookX, CleanupX, ConfigureX, ClearFindingsX DEF Next

LEMMA InvarianceX == Spec => [](IInv /\ XInv)
BY InitInv, InitX, NextInv, NextX, PTL DEF Spec

\* While no event is lost, every session holds the end of what one connection
\* sent, and between two events an ID has signalled exactly if the text of a
\* detector that bears it came in it (inspectChunk): for every size of the
\* queue and of the buffers, and whatever is replaced or reconfigured meanwhile.
THEOREM InspectionIsAlwaysExact == Spec => []InspectionIsExact
<1>1. ASSUME IInv, XInv PROVE InspectionIsExact
  <2> SUFFICES ASSUME ~missed, NEW i \in Ids, sessions[i].live
               PROVE  LET s == sessions[i] IN
                 /\ \A dir \in Dirs :
                      IsSuffix(stream[i][dir] \o Carried(queue, s.owner, dir), sent[s.owner][dir])
                 /\ s.steady /\ worker = Idle => \A d \in ToSet(config.detectors) :
                      /\ d.id \in s.matched =>
                           \/ d.id = BurstSignal.id
                           \/ \E e \in ToSet(config.detectors) : e.id = d.id /\ Came(e, stream[i])
                      /\ Came(d, stream[i]) /\ LongestChunk + Len(d.pattern) - 1 <= config.bufferBytes
                           => d.id \in s.matched
    BY DEF InspectionIsExact
  <2> DEFINE s == sessions[i]
  <2>1. Streamed(i) /\ HistoryType /\ queue \in Seq(Events) /\ s.owner \in Conns
    BY <1>1 DEF XInv, IInv, Types, SessionInv, OwnFinding
  <2>2. ASSUME NEW dir \in Dirs
        PROVE  IsSuffix(stream[i][dir] \o Carried(queue, s.owner, dir), sent[s.owner][dir])
    <3> DEFINE c == s.owner
               a == stream[i][dir]
               b == Carried(queue, c, dir)
               t == sent[c][dir]
    <3>1. Ends(a \o b, t)
      BY <2>1 DEF Streamed, Reaches
    <3>2. a \in Seq(Byte) /\ t \in Seq(Byte)
      BY <2>1 DEF HistoryType, Texts
    <3>3. b \in Seq(Byte)
      BY <2>1, CarriedType, Zenon
    <3> HIDE DEF a, b, t
    <3>4. a \o b \in Seq(Byte)
      BY <3>2, <3>3
    <3>5. IsSuffix(a \o b, t)
      BY <3>1, <3>2, <3>4, SuffixOf
    <3> QED
      BY <3>5 DEF a, b, t
  <2>3. ASSUME s.steady, worker = Idle PROVE Exact(s.buffers, stream[i], s.matched)
    <3>1. Known(i) = s.matched
      BY <2>3 DEF Known, Idle
    <3> QED
      BY <2>1, <2>3, <3>1 DEF Streamed
  <2> QED
    BY <2>2, <2>3 DEF Exact
<1> QED
  BY <1>1, InvarianceX, PTL

-----------------------------------------------------------------------------
(* What detectors score together, in any order.                             *)

\* Of subsets of a finite set one is smallest.
LEMMA LeastSet ==
  ASSUME NEW S, IsFiniteSet(S), NEW T, T \subseteq SUBSET S, T # {}
  PROVE  \E a \in T : \A b \in T : b \subseteq a => b = a
<1> DEFINE R == StrictSubsetOrdering(S)
<1>1. IsWellFoundedOn(R, FiniteSubsetsOf(S)) /\ FiniteSubsetsOf(S) = SUBSET S
  BY FS_StrictSubsetOrderingWellFounded, FS_FiniteSubsetsOfFinite, Zenon
<1>2. IsWellFoundedOn(R, SUBSET S)
  BY <1>1, Zenon
<1>3. \A b, a \in SUBSET S : b \subseteq a /\ b # a => <<b, a>> \in R
  BY DEF StrictSubsetOrdering
<1> HIDE DEF R
<1>4. PICK a \in T : \A b \in T : <<b, a>> \notin R
  BY <1>2, WFMin
<1>5. ASSUME NEW b \in T, b \subseteq a PROVE b = a
  BY <1>3, <1>4, <1>5
<1> QED
  BY <1>5

LEMMA DetectorsFinite == IsFiniteSet(AllDetectors)
<1> DEFINE S == {ToSet(c.detectors) : c \in Configs}
           f == [c \in Configs |-> ToSet(c.detectors)]
<1>1. f \in Surjection(Configs, S)
  <2>1. f \in [Configs -> S]
    OBVIOUS
  <2>2. \A y \in S : \E c \in Configs : f[c] = y
    OBVIOUS
  <2> QED
    BY <2>1, <2>2 DEF Surjection
<1>2. IsFiniteSet(Configs)
  BY DetectorAssumption
<1>3. IsFiniteSet(S)
  <2> HIDE DEF S, f
  <2> QED
    BY <1>1, <1>2, FS_Surjection
<1>4. ASSUME NEW y \in S PROVE IsFiniteSet(y)
  <2>1. PICK c \in Configs : y = ToSet(c.detectors)
    OBVIOUS
  <2>2. PICK s : s = c.detectors
    OBVIOUS
  <2>3. s \in Seq(ToSet(s))
    BY <2>2, DetectorAssumption
  <2>4. s \in [1..Len(s) -> ToSet(s)] /\ Len(s) \in Nat
    BY <2>3
  <2>5. s \in Surjection(1..Len(s), ToSet(s))
    <3>1. DOMAIN s = 1..Len(s)
      BY <2>4
    <3>2. \A z \in ToSet(s) : \E k \in DOMAIN s : s[k] = z
      BY DEF ToSet
    <3> QED
      BY <2>4, <3>1, <3>2 DEF Surjection
  <2>6. IsFiniteSet(1..Len(s))
    BY <2>4, FS_Interval
  <2>7. IsFiniteSet(ToSet(s))
    BY <2>5, <2>6, FS_Surjection
  <2> QED
    BY <2>1, <2>2, <2>7
<1> HIDE DEF S
<1>5. IsFiniteSet(UNION S)
  BY <1>3, <1>4, FS_UNION
<1> QED
  BY <1>5 DEF AllDetectors, S

LEMMA DetectorScore ==
  ASSUME NEW d \in AllDetectors
  PROVE  d.score \in 1..100 /\ [id |-> d.id, score |-> d.score] \in Signals
<1>1. PICK c \in Configs : d \in ToSet(c.detectors)
  BY DEF AllDetectors
<1>2. d.score \in 1..100
  BY <1>1, DetectorAssumption
<1> QED
  BY <1>2 DEF Signals

Chosen(ds) == CHOOSE d \in ds : TRUE

LEMMA TogetherIs ==
  /\ Together[{}] = 25
  /\ \A ds \in SUBSET AllDetectors : ds # {} =>
       Chosen(ds) \in ds /\ Together[ds] = Raised(Together[ds \ {Chosen(ds)}], Chosen(ds).score)
<1> DEFINE A == AllDetectors
           Value(f, ds) == IF ds = {} THEN 25 ELSE Raised(f[ds \ {Chosen(ds)}], Chosen(ds).score)
           R(f) == [ds \in SUBSET A |-> Value(f, ds)]
           N == Cardinality(A)
<1>1. IsFiniteSet(A) /\ N \in Nat
  BY DetectorsFinite, FS_CardinalityType
<1>2. ASSUME NEW ds \in SUBSET A
      PROVE  /\ IsFiniteSet(ds) /\ Cardinality(ds) \in Nat /\ Cardinality(ds) <= N
             /\ Cardinality(ds) = 0 <=> ds = {}
  BY <1>1, FS_Subset, FS_CardinalityType, FS_EmptySet
<1>3. ASSUME NEW ds \in SUBSET A, ds # {}
      PROVE  /\ Chosen(ds) \in ds /\ Chosen(ds).score \in 1..100
             /\ ds \ {Chosen(ds)} \in SUBSET A
             /\ Cardinality(ds \ {Chosen(ds)}) = Cardinality(ds) - 1
  <2>1. Chosen(ds) \in ds
    BY <1>3 DEF Chosen
  <2>2. Chosen(ds).score \in 1..100
    BY <2>1, DetectorScore
  <2> QED
    BY <1>2, <2>1, <2>2, FS_RemoveElement
<1> HIDE DEF A
<1> DEFINE Has(n) == \E f \in [SUBSET A -> 0..100] :
             \A ds \in SUBSET A : Cardinality(ds) <= n => f[ds] = Value(f, ds)
           T == {n \in 0..N : Has(n)}
<1>4. Has(0)
  <2> DEFINE f == [ds \in SUBSET A |-> 25]
  <2>1. f \in [SUBSET A -> 0..100]
    OBVIOUS
  <2>2. ASSUME NEW ds \in SUBSET A, Cardinality(ds) <= 0 PROVE f[ds] = Value(f, ds)
    BY <1>2, <2>2
  <2> HIDE DEF f, Value
  <2> QED
    BY <2>1, <2>2
<1>5. ASSUME NEW n \in 1..N, Has(n - 1) PROVE Has(n)
  <2>1. PICK f \in [SUBSET A -> 0..100] :
          \A ds \in SUBSET A : Cardinality(ds) <= n - 1 => f[ds] = Value(f, ds)
    BY <1>5
  <2> DEFINE g == [ds \in SUBSET A |-> IF Cardinality(ds) <= n - 1 THEN f[ds] ELSE Value(f, ds)]
  <2>2. ASSUME NEW ds \in SUBSET A PROVE Value(f, ds) \in 0..100
    <3>1. CASE ds = {}
      BY <3>1
    <3>2. CASE ds # {}
      <4>1. f[ds \ {Chosen(ds)}] \in 0..100 /\ Chosen(ds).score \in 1..100
        BY <1>3, <2>1, <3>2
      <4> QED
        BY <3>2, <4>1, RaisedType, Zenon
    <3> QED
      BY <3>1, <3>2
  <2>3. g \in [SUBSET A -> 0..100]
    BY <2>1, <2>2
  <2>4. ASSUME NEW ds \in SUBSET A, Cardinality(ds) <= n PROVE g[ds] = Value(g, ds)
    <3>1. CASE ds = {}
      <4>1. Cardinality(ds) = 0 /\ Cardinality(ds) <= n - 1
        BY <1>1, <1>2, <3>1
      <4>2. g[ds] = f[ds] /\ f[ds] = Value(f, ds)
        BY <2>1, <4>1
      <4> QED
        BY <3>1, <4>2
    <3>2. CASE ds # {}
      <4> DEFINE rest == ds \ {Chosen(ds)}
      <4>1. rest \in SUBSET A /\ Cardinality(rest) <= n - 1
        BY <1>1, <1>2, <1>3, <2>4, <3>2
      <4>2. g[rest] = f[rest]
        BY <4>1
      <4>3. Value(g, ds) = Value(f, ds)
        BY <3>2, <4>2
      <4> HIDE DEF Value, rest
      <4>4. g[ds] = Value(f, ds)
        BY <2>1
      <4> QED
        BY <4>3, <4>4
    <3> QED
      BY <3>1, <3>2
  <2> HIDE DEF g, Value
  <2> QED
    BY <2>3, <2>4
<1>6. 0 \in T /\ \A n \in 1..N : n - 1 \in T => n \in T
  <2> HIDE DEF Has, N
  <2> QED
    BY <1>1, <1>4, <1>5
<1>7. Has(N)
  <2> HIDE DEF T, N, Has
  <2>1. \A n \in 0..N : n \in T
    BY <1>1, <1>6, UpTo
  <2>2. N \in 0..N
    BY <1>1
  <2> QED
    BY <2>1, <2>2 DEF T
<1>8. \E f : f = R(f)
  <2>1. PICK f \in [SUBSET A -> 0..100] :
          \A ds \in SUBSET A : Cardinality(ds) <= N => f[ds] = Value(f, ds)
    BY <1>7
  <2>2. \A ds \in SUBSET A : f[ds] = Value(f, ds)
    BY <1>2, <2>1
  <2>3. f = [ds \in SUBSET A |-> f[ds]]
    BY <2>1
  <2> HIDE DEF Value
  <2>4. f = R(f)
    BY <2>2, <2>3
  <2> QED
    BY <2>4, Zenon
<1> DEFINE F == CHOOSE f : f = R(f)
<1>9. F = R(F)
  BY <1>8, Zenon
<1>10. Together = F
  BY Zenon DEF Together, Chosen, BurstSignal, A
<1> HIDE DEF F
<1>11. \A ds \in SUBSET A : Together[ds] = Value(Together, ds)
  <2> HIDE DEF Value
  <2>1. \A ds \in SUBSET A : F[ds] = R(F)[ds]
    BY <1>9, Zenon
  <2> QED
    BY <1>10, <2>1
<1> QED
  BY <1>3, <1>11 DEF A

\* What is asked of a set of detectors.
Sums(ds) ==
  /\ Together[ds] \in 25..100
  /\ \A d \in ds : Together[ds] = Raised(Together[ds \ {d}], d.score)

LEMMA RaisedIs ==
  ASSUME NEW a \in Nat, NEW b \in Nat, NEW x \in Nat, NEW y \in Nat
  PROVE  /\ Raised(Raised(a, x), y) = Raised(Raised(a, y), x)
         /\ a <= b => Raised(a, x) <= Raised(b, x)
         /\ Raised(a, x) \in Nat /\ Raised(a, x) <= 100
         /\ a <= 100 => a <= Raised(a, x)
BY DEF Raised

LEMMA TogetherSums == \A ds \in SUBSET AllDetectors : Sums(ds)
<1> DEFINE Bad == {ds \in SUBSET AllDetectors : ~Sums(ds)}
<1>1. SUFFICES ASSUME Bad # {} PROVE FALSE
  OBVIOUS
<1>2. PICK ds \in Bad : \A b \in Bad : b \subseteq ds => b = ds
  <2>1. Bad \subseteq SUBSET AllDetectors
    OBVIOUS
  <2> HIDE DEF Bad
  <2> QED
    BY <1>1, <2>1, DetectorsFinite, LeastSet
<1>3. ds \in SUBSET AllDetectors /\ ~Sums(ds)
  BY <1>2
<1>4. ASSUME NEW d \in ds PROVE Sums(ds \ {d}) /\ d.score \in 1..100
  <2>1. ds \ {d} \in SUBSET AllDetectors /\ ds \ {d} # ds /\ ds \ {d} \subseteq ds
    BY <1>3, <1>4
  <2>2. Sums(ds \ {d})
    BY <1>2, <2>1
  <2> QED
    BY <1>3, <2>2, DetectorScore
<1> HIDE DEF Bad
<1>5. CASE ds = {}
  BY <1>3, <1>5, TogetherIs DEF Sums
<1>6. CASE ds # {}
  <2>1. PICK p \in ds : Together[ds] = Raised(Together[ds \ {p}], p.score)
    BY <1>3, <1>6, TogetherIs
  <2>2. Together[ds \ {p}] \in 25..100 /\ p.score \in 1..100
    BY <1>4 DEF Sums
  <2>3. Together[ds] \in 25..100
    BY <2>1, <2>2 DEF Raised
  <2>4. ASSUME NEW d \in ds, d # p PROVE Together[ds] = Raised(Together[ds \ {d}], d.score)
    <3> DEFINE both == ds \ {p, d}
    <3>1. (ds \ {p}) \ {d} = both /\ (ds \ {d}) \ {p} = both
      OBVIOUS
    <3>2. d \in ds \ {p} /\ p \in ds \ {d}
      BY <2>4
    <3>3. Together[ds \ {p}] = Raised(Together[both], d.score)
      BY <1>4, <3>1, <3>2 DEF Sums
    <3>4. Together[ds \ {d}] = Raised(Together[both], p.score)
      BY <1>4, <3>1, <3>2 DEF Sums
    <3>5. Together[both] \in Nat
      <4>1. both \in SUBSET AllDetectors /\ both # ds /\ both \subseteq ds
        BY <1>3
      <4>2. both \notin Bad
        BY <1>2, <4>1
      <4>3. Sums(both)
        BY <4>1, <4>2 DEF Bad
      <4> QED
        BY <4>3 DEF Sums
    <3> HIDE DEF both
    <3>6. PICK t \in Nat : t = Together[both]
      BY <3>5
    <3>7. d.score \in Nat /\ p.score \in Nat
      <4>1. d \in AllDetectors /\ p \in AllDetectors
        BY <1>3
      <4>2. d.score \in 1..100 /\ p.score \in 1..100
        BY <4>1, DetectorScore
      <4> QED
        BY <4>2
    <3>8. Raised(Raised(t, d.score), p.score) = Raised(Raised(t, p.score), d.score)
      BY <3>6, <3>7, RaisedIs
    <3> QED
      BY <2>1, <3>3, <3>4, <3>6, <3>8
  <2> QED
    BY <1>3, <2>1, <2>3, <2>4 DEF Sums
<1> QED
  BY <1>5, <1>6

\* More detectors score no less.
LEMMA TogetherGrows ==
  ASSUME NEW less \in SUBSET AllDetectors, NEW more \in SUBSET AllDetectors, less \subseteq more
  PROVE  Together[less] <= Together[more]
<1> DEFINE Bad == {ds \in SUBSET AllDetectors : less \subseteq ds /\ ~(Together[less] <= Together[ds])}
<1> SUFFICES ASSUME Bad # {} PROVE FALSE
  OBVIOUS
<1>1. PICK ds \in Bad : \A b \in Bad : b \subseteq ds => b = ds
  <2>1. Bad \subseteq SUBSET AllDetectors
    OBVIOUS
  <2> HIDE DEF Bad
  <2> QED
    BY <2>1, DetectorsFinite, LeastSet
<1>2. ds \in SUBSET AllDetectors /\ less \subseteq ds /\ ~(Together[less] <= Together[ds])
  BY <1>1
<1>3. Together[less] \in 25..100 /\ Together[ds] \in 25..100
  BY <1>2, TogetherSums DEF Sums
<1>4. PICK d \in ds : d \notin less
  BY <1>2, <1>3
<1>5. ds \ {d} \in SUBSET AllDetectors /\ less \subseteq ds \ {d} /\ ds \ {d} # ds
  BY <1>2, <1>4
<1>6. Together[less] <= Together[ds \ {d}]
  BY <1>1, <1>5
<1>7. Together[ds] = Raised(Together[ds \ {d}], d.score)
  BY <1>2, TogetherSums DEF Sums
<1>8. Together[ds \ {d}] \in 25..100 /\ d.score \in 1..100
  BY <1>2, <1>5, TogetherSums, DetectorScore DEF Sums
<1>9. Together[ds \ {d}] <= Together[ds]
  BY <1>7, <1>8 DEF Raised
<1> DEFINE a == Together[less]
           b == Together[ds \ {d}]
           c == Together[ds]
<1>10. a \in 25..100 /\ b \in 25..100 /\ c \in 25..100
  BY <1>3, <1>8, Zenon
<1>11. a <= b /\ b <= c /\ ~(a <= c)
  BY <1>2, <1>6, <1>9, Zenon
<1> HIDE DEF a, b, c
<1> QED
  BY <1>10, <1>11

\* x is the signal of a burst, or of a detector whose text came in text.
Earned(x, text) ==
  \/ x = BurstSignal
  \/ \E d \in AllDetectors : x = [id |-> d.id, score |-> d.score] /\ Came(d, text)

\* What came in text, and a burst, can score.
Worth(text) == Together[{d \in AllDetectors : Came(d, text)}]

\* more is text and what came after it.
Longer(text, more) ==
  text \in Texts /\ more \in Texts /\ \A dir \in Dirs : \E b \in Seq(Byte) : more[dir] = text[dir] \o b

LEMMA AllCameLater ==
  ASSUME NEW text, NEW more, Longer(text, more), NEW d \in AllDetectors, Came(d, text)
  PROVE  Came(d, more)
<1>1. PICK c \in Configs : d \in ToSet(c.detectors)
  BY DEF AllDetectors
<1>2. text \in Texts /\ more \in Texts
  BY DEF Longer
<1>3. \A dir \in Dirs : \E b \in Seq(Byte) :
        more[dir] = text[dir] \o b \/ more[dir] = b \o text[dir]
  BY DEF Longer
<1> QED
  BY <1>1, <1>2, <1>3, CameLater

LEMMA EarnedLater ==
  ASSUME NEW text, NEW more, Longer(text, more), NEW x, Earned(x, text)
  PROVE  Earned(x, more)
BY AllCameLater DEF Earned

LEMMA WorthGrows ==
  ASSUME NEW text, NEW more, Longer(text, more)
  PROVE  Worth(text) <= Worth(more) /\ Worth(text) \in 25..100 /\ Worth(more) \in 25..100
<1> DEFINE less == {d \in AllDetectors : Came(d, text)}
           all == {d \in AllDetectors : Came(d, more)}
<1>1. less \subseteq all
  BY AllCameLater
<1>2. less \in SUBSET AllDetectors /\ all \in SUBSET AllDetectors
  OBVIOUS
<1>3. Worth(text) = Together[less] /\ Worth(more) = Together[all]
  BY DEF Worth
<1> HIDE DEF less, all
<1> QED
  BY <1>1, <1>2, <1>3, TogetherGrows, TogetherSums DEF Sums

\* Signals that are earned, each of another detector, score no more than that.
LEMMA ScoredIsDeserved ==
  ASSUME NEW signals \in Seq(Signals), Distinct(signals), NEW text,
         \A k \in DOMAIN signals : Earned(signals[k], text)
  PROVE  Scored(signals) <= Worth(text)
<1> DEFINE hit == {d \in AllDetectors : Came(d, text)}
<1>1. PICK f \in [0..Len(signals) -> 0..100] :
        IsFold(f, 0, Scoring, signals) /\ Scored(signals) = f[Len(signals)]
  BY ScoredIsFold
<1>2. Len(signals) \in Nat /\ DOMAIN signals = 1..Len(signals) /\ Worth(text) = Together[hit]
  BY DEF Worth
<1> DEFINE Burnt(n) == \E k \in 1..n : signals[k] = BurstSignal
           Of(ds, n) == /\ \A d \in ds : \E k \in 1..n : d.id = signals[k].id
                        /\ (IF Burnt(n) THEN f[n] ELSE Raised(f[n], 25)) <= Together[ds]
           T == {n \in 0..Len(signals) : \E ds \in SUBSET hit : Of(ds, n)}
<1>3. 0 \in T
  <2>1. f[0] = 0 /\ Raised(0, 25) = 25 /\ Together[{}] = 25
    BY <1>1, TogetherIs DEF IsFold, Raised
  <2>2. Of({}, 0)
    BY <2>1
  <2>3. 0 \in 0..Len(signals) /\ {} \in SUBSET hit
    BY <1>2
  <2> HIDE DEF Of, hit
  <2> QED
    BY <2>2, <2>3
<1>4. ASSUME NEW n \in 1..Len(signals), n - 1 \in T PROVE n \in T
  <2>1. PICK ds \in SUBSET hit : Of(ds, n - 1)
    BY <1>4
  <2>2. PICK x \in Signals : x = signals[n]
    BY <1>2
  <2>3. PICK a \in 0..100 : a = f[n - 1]
    <3>1. n - 1 \in 0..Len(signals)
      BY <1>2
    <3>2. f[n - 1] \in 0..100
      BY <1>1, <3>1
    <3> QED
      BY <3>2
  <2>4. f[n] = Raised(a, x.score) /\ x.score \in 1..100
    <3>1. f[n] = Scoring[<<a, x>>] /\ <<a, x>> \in (0..100) \X Signals
      BY <1>1, <1>2, <2>2, <2>3 DEF IsFold
    <3>2. x.score \in 1..100
      BY SignalType
    <3> QED
      BY <3>1, <3>2 DEF Scoring
  <2>5. ds \in SUBSET AllDetectors /\ Together[ds] \in 25..100
    <3>1. ds \in SUBSET AllDetectors
      OBVIOUS
    <3> QED
      BY <3>1, TogetherSums DEF Sums
  <2>6. /\ n \in 1..n /\ n \in DOMAIN signals /\ \A k \in 1..(n - 1) : k \in 1..n /\ k \in DOMAIN signals /\ k # n
        /\ \A k \in 1..n : k = n \/ k \in 1..(n - 1)
    BY <1>2
  <2>7. \A k \in 1..(n - 1) : signals[k].id # x.id
    BY <2>2, <2>6 DEF Distinct
  <2>8. \A d \in ds : \E k \in 1..(n - 1) : d.id = signals[k].id
    BY <2>1
  <2>9. (IF Burnt(n - 1) THEN a ELSE Raised(a, 25)) <= Together[ds]
    BY <2>1, <2>3
  <2>10. \A d \in ds : \E k \in 1..n : d.id = signals[k].id
    BY <2>6, <2>8
  <2>11. n \in 0..Len(signals)
    BY <1>2
  <2>12. CASE x = BurstSignal
    <3>1. Burnt(n)
      BY <2>2, <2>6, <2>12
    <3>2. ~Burnt(n - 1)
      BY <2>7, <2>12
    <3>3. f[n] <= Together[ds]
      <4>1. x.score = 25
        BY <2>12 DEF BurstSignal
      <4> HIDE DEF Burnt
      <4> QED
        BY <2>4, <2>9, <3>2, <4>1
    <3>4. Of(ds, n)
      <4> HIDE DEF Burnt
      <4> QED
        BY <2>10, <3>1, <3>3
    <3> HIDE DEF Of, hit
    <3> QED
      BY <2>11, <3>4
  <2>13. CASE x # BurstSignal
    <3>1. PICK d \in hit : x = [id |-> d.id, score |-> d.score]
      <4>1. Earned(x, text)
        BY <2>2, <2>6
      <4> QED
        BY <2>13, <4>1 DEF Earned
    <3>2. x.id = d.id /\ x.score = d.score
      BY <3>1
    <3>3. d \notin ds
      BY <2>7, <2>8, <3>2
    <3> DEFINE more == ds \cup {d}
    <3>4. more \in SUBSET hit /\ more \in SUBSET AllDetectors /\ more \ {d} = ds /\ d \in more
      BY <3>3
    <3> HIDE DEF more
    <3>5. Together[more] = Raised(Together[ds], x.score)
      BY <3>2, <3>4, TogetherSums DEF Sums
    <3>6. \A e \in more : \E k \in 1..n : e.id = signals[k].id
      BY <2>2, <2>6, <2>10, <3>2 DEF more
    <3>7. Burnt(n) <=> Burnt(n - 1)
      BY <2>2, <2>6, <2>13
    <3>8. PICK t \in 25..100 : t = Together[ds]
      BY <2>5
    <3>9. (IF Burnt(n) THEN f[n] ELSE Raised(f[n], 25)) <= Together[more]
      <4> HIDE DEF Burnt
      <4>1. PICK y \in 1..100 : y = x.score
        BY <2>4
      <4>2. Together[more] = Raised(t, y) /\ f[n] = Raised(a, y)
        BY <2>4, <3>5, <3>8, <4>1
      <4>3. CASE Burnt(n)
        <5>1. a <= t
          BY <2>9, <3>7, <3>8, <4>3
        <5>2. Raised(a, y) <= Raised(t, y)
          BY <5>1 DEF Raised
        <5> QED
          BY <4>2, <4>3, <5>2
      <4>4. CASE ~Burnt(n)
        <5>1. Raised(a, 25) <= t
          BY <2>9, <3>7, <3>8, <4>4
        <5>2. Raised(Raised(a, y), 25) <= Raised(t, y)
          BY <5>1 DEF Raised
        <5> QED
          BY <4>2, <4>4, <5>2
      <4> QED
        BY <4>3, <4>4
    <3>10. Of(more, n)
      <4> HIDE DEF Burnt
      <4> QED
        BY <3>6, <3>9
    <3> HIDE DEF Of, hit
    <3> QED
      BY <2>11, <3>4, <3>10
  <2> QED
    BY <2>12, <2>13
<1> HIDE DEF T
<1>5. \A n \in 0..Len(signals) : n \in T
  BY <1>2, <1>3, <1>4, UpTo
<1>6. Len(signals) \in T
  BY <1>2, <1>5
<1>7. PICK ds \in SUBSET hit : Of(ds, Len(signals))
  BY <1>6 DEF T
<1>8. PICK a \in 0..100 : a = f[Len(signals)]
  <2>1. Len(signals) \in 0..Len(signals)
    BY <1>2
  <2>2. f[Len(signals)] \in 0..100
    BY <1>1, <2>1
  <2> QED
    BY <2>2
<1>9. ds \in SUBSET AllDetectors /\ hit \in SUBSET AllDetectors /\ ds \subseteq hit
  OBVIOUS
<1>10. Together[ds] \in 25..100 /\ Together[hit] \in 25..100 /\ Together[ds] <= Together[hit]
  <2> HIDE DEF hit
  <2> QED
    BY <1>9, TogetherSums, TogetherGrows DEF Sums
<1>11. a <= Together[ds]
  <2> HIDE DEF Burnt, hit
  <2>1. (IF Burnt(Len(signals)) THEN a ELSE Raised(a, 25)) <= Together[ds]
    BY <1>7, <1>8
  <2>2. PICK t \in 25..100 : t = Together[ds]
    BY <1>10
  <2>3. a <= Raised(a, 25)
    BY DEF Raised
  <2>4. Raised(a, 25) \in 0..100
    BY DEF Raised
  <2>5. CASE Burnt(Len(signals))
    <3>1. a <= Together[ds]
      BY <2>1, <2>5, Zenon
    <3> QED
      BY <2>2, <3>1
  <2>6. CASE ~Burnt(Len(signals))
    <3>1. Raised(a, 25) <= Together[ds]
      BY <2>1, <2>6, Zenon
    <3>2. PICK r \in 0..100 : r = Raised(a, 25)
      BY <2>4
    <3>3. a <= r /\ r <= t
      BY <2>2, <2>3, <3>1, <3>2
    <3>4. a <= t
      BY <3>3
    <3> QED
      BY <2>2, <3>4
  <2> QED
    BY <2>5, <2>6
<1> HIDE DEF hit
<1>12. Scored(signals) = a /\ Worth(text) = Together[hit]
  BY <1>1, <1>2, <1>8
<1> HIDE DEF T
<1>13. PICK t, u : t \in 25..100 /\ u \in 25..100 /\ t = Together[ds] /\ u = Together[hit]
  BY <1>10
<1>14. a <= t /\ t <= u
  BY <1>10, <1>11, <1>13
<1> QED
  BY <1>12, <1>13, <1>14

-----------------------------------------------------------------------------
(* Who is known to the worker has begun.                                    *)

\* A session, and its finding, is of a connection that has begun.
OfBegun(s, begun) ==
  /\ s.live => s.owner \in begun
  /\ s.finding.id # 0 => s.finding.owner \in begun /\ (s.live => s.finding.owner = s.owner)
  /\ s.finding.id = 0 => ~s.finding.pinned

\* No connection of a later rule object has begun.
BegunInv ==
  /\ \A c \in Begun : c[1] <= epoch
  /\ \A i \in Ids : IF capture[i].kept THEN <<epoch, i>> \in Begun ELSE capture[i] = NoCapture
  /\ \A k \in DOMAIN queue : queue[k].conn \in Begun
  /\ \A i \in Ids : OfBegun(sessions[i], Begun)
  /\ \A k \in DOMAIN findings : findings[k].owner \in Begun

LEMMA NoSessionBegun ==
  ASSUME NEW begun, NEW e \in Events, e.conn \in begun
  PROVE  OfBegun(NoSession, begun) /\ OfBegun(NewSession(e), begun)
BY DEF OfBegun, NoSession, NewSession, NoFinding

\* A step that begins no connection, and replaces no rule.
LEMMA BegunStill ==
  ASSUME BegunInv, epoch' = epoch, Begun' = Begun,
         \A i \in Ids : capture'[i] = NoCapture \/ (capture[i].kept /\ capture'[i].kept),
         \A k \in DOMAIN queue' : queue'[k].conn \in Begun,
         \A i \in Ids : OfBegun(sessions'[i], Begun),
         \A k \in DOMAIN findings' : findings'[k].owner \in Begun
  PROVE  BegunInv'
<1>1. \A c \in Begun' : c[1] <= epoch'
  BY DEF BegunInv
<1>2. \A i \in Ids : IF capture'[i].kept THEN <<epoch, i>> \in Begun ELSE capture'[i] = NoCapture
  BY DEF BegunInv, NoCapture
<1> QED
  BY <1>1, <1>2 DEF BegunInv

LEMMA CaptureStill ==
  ASSUME BegunInv, capture' = capture
  PROVE  \A i \in Ids : capture'[i] = NoCapture \/ (capture[i].kept /\ capture'[i].kept)
BY DEF BegunInv

LEMMA ConnStill ==
  ASSUME conn' = conn
  PROVE  Begun' = Begun
BY DEF Begun

LEMMA EnqueueBegun ==
  ASSUME Types, BegunInv, NEW e \in Events, Enqueue(e), NEW begun, Begun \subseteq begun, e.conn \in begun
  PROVE  /\ \A k \in DOMAIN queue' : queue'[k].conn \in begun
         /\ \A i \in Ids : OfBegun(sessions'[i], begun)
         /\ \A k \in DOMAIN findings' : findings'[k].owner \in begun
<1>1. /\ queue \in Seq(Events) /\ DOMAIN queue = 1..Len(queue) /\ Len(queue) \in Nat
      /\ UNCHANGED <<sessions, findings>> /\ (queue' = queue \/ queue' = Append(queue, e))
  BY DEF Types, Enqueue, engine
<1>2. \A k \in DOMAIN queue' : queue'[k] = e \/ (k \in DOMAIN queue /\ queue'[k] = queue[k])
  BY <1>1
<1>3. \A k \in DOMAIN queue' : queue'[k].conn \in begun
  BY <1>2 DEF BegunInv
<1>4. \A i \in Ids : OfBegun(sessions'[i], begun)
  BY <1>1 DEF BegunInv, OfBegun
<1>5. \A k \in DOMAIN findings' : findings'[k].owner \in begun
  BY <1>1 DEF BegunInv
<1> QED
  BY <1>3, <1>4, <1>5

LEMMA ConnectB ==
  ASSUME Types, BegunInv, NEW i \in Ids, Connect(i)
  PROVE  /\ BegunInv'
         /\ <<epoch, i>> \in Conns \ Begun
         /\ capture'[i].kept /\ ~capture'[i].pinned /\ capture'[i].risk = 0
         /\ \A j \in Ids \ {i} : capture'[j] = capture[j]
<1>1. PICK c : c = <<epoch, i>>
  OBVIOUS
<1>2. /\ i \in Ids /\ conn' = [conn EXCEPT ![c].pc = "open"] /\ conn[c].pc = "none"
      /\ capture' = [capture EXCEPT ![i].kept = TRUE]
      /\ Enqueue(Event("begin", c, NoChunk)) /\ epoch' = epoch
  BY <1>1 DEF Connect
<1>3. c \in Conns /\ c[1] = epoch /\ c[2] = i /\ epoch \in Epochs /\ epoch \in Nat
  BY <1>1, <1>2, DetectorAssumption DEF Types, Conns
<1>4. c \notin Begun
  BY <1>2 DEF Begun
<1>5. Begun' = Begun \cup {c}
  <2>1. conn'[c].pc = "open" /\ \A b \in Conns \ {c} : conn'[b] = conn[b]
    BY <1>2, <1>3 DEF Types, Connection
  <2> QED
    BY <1>3, <2>1 DEF Begun
<1>6. capture'[i].kept /\ ~capture'[i].pinned /\ capture'[i].risk = 0 /\ \A j \in Ids \ {i} : capture'[j] = capture[j]
  <2>1. capture[i] = NoCapture
    BY <1>1, <1>2, <1>4 DEF BegunInv
  <2>2. capture'[i] = [capture[i] EXCEPT !.kept = TRUE] /\ \A j \in Ids \ {i} : capture'[j] = capture[j]
    BY <1>2 DEF Types
  <2>3. capture[i] \in Capture /\ ~capture[i].pinned /\ capture[i].risk = 0
    <3>1. capture[i] \in Capture
      BY <1>2 DEF Types
    <3> QED
      BY <2>1, <3>1 DEF NoCapture
  <2> QED
    BY <2>2, <2>3 DEF Capture
<1>7. \A b \in Begun' : b[1] <= epoch'
  BY <1>2, <1>3, <1>5 DEF BegunInv
<1>8. Event("begin", c, NoChunk) \in Events /\ Event("begin", c, NoChunk).conn = c
  BY <1>3, EventType DEF Event
<1>9. /\ \A k \in DOMAIN queue' : queue'[k].conn \in Begun'
      /\ \A j \in Ids : OfBegun(sessions'[j], Begun')
      /\ \A k \in DOMAIN findings' : findings'[k].owner \in Begun'
  <2>1. PICK begun : begun = Begun'
    OBVIOUS
  <2>2. Begun \subseteq begun /\ c \in begun
    BY <1>5, <2>1
  <2>3. PICK e \in Events : e = Event("begin", c, NoChunk)
    BY <1>8
  <2> QED
    BY <1>2, <1>8, <2>1, <2>2, <2>3, EnqueueBegun
<1>10. \A j \in Ids : IF capture'[j].kept THEN <<epoch, j>> \in Begun' ELSE capture'[j] = NoCapture
  BY <1>1, <1>5, <1>6 DEF BegunInv
<1>11. BegunInv'
  BY <1>2, <1>7, <1>9, <1>10 DEF BegunInv
<1> QED
  BY <1>1, <1>2, <1>3, <1>4, <1>6, <1>11

LEMMA SendBegun ==
  ASSUME Types, BegunInv, NEW c \in Conns, conn[c].pc # "none", NEW e \in Events, e.conn = c, Enqueue(e),
         \A b \in Conns \ {c} : conn'[b] = conn[b], conn'[c].pc # "none",
         UNCHANGED <<epoch, capture>>
  PROVE  BegunInv'
<1>1. Begun' = Begun /\ c \in Begun
  BY DEF Begun
<1>2. PICK begun : begun = Begun
  OBVIOUS
<1>3. /\ \A k \in DOMAIN queue' : queue'[k].conn \in begun
      /\ \A i \in Ids : OfBegun(sessions'[i], begun)
      /\ \A k \in DOMAIN findings' : findings'[k].owner \in begun
  BY <1>1, <1>2, EnqueueBegun
<1> QED
  BY <1>1, <1>2, <1>3, CaptureStill, BegunStill

LEMMA SendB ==
  ASSUME Types, BegunInv, NEW c \in Conns, NEW ch \in Chunks, Send(c, ch)
  PROVE  BegunInv'
<1>1. /\ conn[c].pc # "none" /\ Enqueue(Event("chunk", c, ch)) /\ UNCHANGED <<epoch, capture>>
      /\ conn' = [conn EXCEPT ![c].late = @ \ {ch.dir}, ![c].chunks = @ + 1]
  BY DEF Send, Types
<1>2. (\A b \in Conns \ {c} : conn'[b] = conn[b]) /\ conn'[c].pc # "none"
  BY <1>1 DEF Types, Connection
<1>3. Event("chunk", c, ch) \in Events /\ Event("chunk", c, ch).conn = c
  BY EventType DEF Event
<1> QED
  BY <1>1, <1>2, <1>3, SendBegun

LEMMA FinishB ==
  ASSUME Types, BegunInv, NEW c \in Conns, Finish(c)
  PROVE  BegunInv'
<1>1. /\ conn[c].pc # "none" /\ Enqueue(Event("end", c, NoChunk)) /\ UNCHANGED <<epoch, capture>>
      /\ conn' = [conn EXCEPT ![c].pc = "ended", ![c].late = IF c \in Udp THEN Dirs ELSE {}]
  BY DEF Finish, Types
<1>2. (\A b \in Conns \ {c} : conn'[b] = conn[b]) /\ conn'[c].pc # "none"
  BY <1>1 DEF Types, Connection
<1>3. Event("end", c, NoChunk) \in Events /\ Event("end", c, NoChunk).conn = c
  BY EventType DEF Event
<1> QED
  BY <1>1, <1>2, <1>3, SendBegun

LEMMA ReplaceB ==
  ASSUME Types, BegunInv, Replace
  PROVE  BegunInv'
<1>1. /\ epoch' = epoch + 1 /\ capture' = [i \in Ids |-> NoCapture]
      /\ UNCHANGED <<queue, sessions, findings>>
      /\ conn' = [c \in Conns |-> [conn[c] EXCEPT !.late = {}]]
      /\ epoch \in Nat
  BY DetectorAssumption DEF Replace, engine, Types
<1>2. Begun' = Begun
  BY <1>1 DEF Begun, Types, Connection
<1>3. \A c \in Begun' : c[1] <= epoch'
  <2>1. \A c \in Begun : c[1] \in Nat /\ c[1] <= epoch
    BY DetectorAssumption DEF BegunInv, Begun, Conns
  <2> QED
    BY <1>1, <1>2, <2>1
<1>4. \A i \in Ids : capture'[i] = NoCapture /\ ~capture'[i].kept
  BY <1>1 DEF NoCapture
<1> QED
  BY <1>1, <1>2, <1>3, <1>4 DEF BegunInv

-----------------------------------------------------------------------------
(* Steps that find nothing: a session and its finding stay, or go.          *)

Same(i) ==
  /\ sessions'[i].live = sessions[i].live /\ sessions'[i].owner = sessions[i].owner
  /\ sessions'[i].finding = sessions[i].finding

Moves(i) ==
  \/ Same(i)
  \/ /\ sessions'[i].finding = NoFinding
     /\ sessions'[i].live => \E m \in DOMAIN queue : sessions'[i].owner = queue[m].conn

Quiet ==
  /\ UNCHANGED <<epoch, conn, missed, lagged, sent>>
  /\ \A k \in DOMAIN queue' : \E m \in DOMAIN queue : queue'[k] = queue[m]
  /\ \A i \in Ids : Moves(i)
  /\ worker # Idle => \A i \in Ids : Same(i)
  /\ \A k \in DOMAIN findings' : k \in DOMAIN findings /\ findings'[k] = findings[k]

LEMMA QueueTail ==
  ASSUME Types, queue # <<>>, queue' = Tail(queue)
  PROVE  /\ \A k \in DOMAIN queue' : \E m \in DOMAIN queue : queue'[k] = queue[m]
         /\ \E m \in DOMAIN queue : Head(queue) = queue[m]
<1>1. /\ Len(queue) \in Nat /\ Len(queue) >= 1 /\ Len(queue') = Len(queue) - 1
      /\ Head(queue) = queue[1] /\ queue' \in Seq(Events) /\ queue \in Seq(Events)
      /\ \A k \in 1..Len(queue') : queue'[k] = queue[k + 1]
  BY TailIs DEF Types
<1>2. DOMAIN queue = 1..Len(queue) /\ DOMAIN queue' = 1..Len(queue') /\ 1 \in DOMAIN queue
  BY <1>1
<1>3. ASSUME NEW k \in DOMAIN queue' PROVE \E m \in DOMAIN queue : queue'[k] = queue[m]
  <2>1. k + 1 \in DOMAIN queue /\ queue'[k] = queue[k + 1]
    BY <1>1, <1>2
  <2> QED
    BY <2>1
<1> QED
  BY <1>1, <1>2, <1>3

LEMMA TakeQuiet ==
  ASSUME IInv, TakeBegin \/ TakeEnd \/ TakeChunk
  PROVE  Quiet /\ worker = Idle /\ worker'.pc # "hook" /\ capture' = capture
<1>1. /\ Types /\ worker = Idle /\ queue # <<>> /\ queue' = Tail(queue)
      /\ UNCHANGED <<epoch, conn, missed, lagged, sent, findings, capture>>
  BY Zenon DEF TakeBegin, TakeEnd, TakeChunk, ConnFrame, IInv
<1>2. PICK e \in Events : e = Head(queue) /\ e.conn[2] \in Ids
  BY <1>1, HeadType
<1>3. PICK i \in Ids : i = e.conn[2]
  BY <1>2
<1>4. \E m \in DOMAIN queue : e.conn = queue[m].conn
  BY <1>1, <1>2, QueueTail
<1>5. sessions \in [Ids -> Session]
  BY <1>1 DEF Types
<1>6. /\ \A j \in Ids \ {i} : sessions'[j] = sessions[j]
      /\ Moves(i)
  <2>1. CASE TakeBegin
    <3>1. sessions' = [sessions EXCEPT ![i] = NewSession(e)]
      BY <1>2, <1>3, <2>1 DEF TakeBegin, BegunSession
    <3>2. sessions'[i].finding = NoFinding /\ sessions'[i].owner = e.conn
      BY <1>2, <1>5, <3>1, NoSessionType, Zenon DEF NewSession, NoSession
    <3> QED
      BY <1>4, <1>5, <3>1, <3>2 DEF Moves
  <2>2. CASE TakeEnd
    <3>1. sessions' = [sessions EXCEPT ![i] = NoSession]
      BY <1>2, <1>3, <2>2 DEF TakeEnd
    <3>2. sessions'[i].finding = NoFinding /\ ~sessions'[i].live
      BY <1>5, <3>1 DEF NoSession
    <3> QED
      BY <1>5, <3>1, <3>2 DEF Moves
  <2>3. CASE TakeChunk
    <3> DEFINE s == IF sessions[i].live THEN sessions[i] ELSE NewSession(e)
               buffers == Buffered(s.buffers, e.dir, e.data, config.bufferBytes)
    <3>1. sessions' = [sessions EXCEPT ![i] = [s EXCEPT !.buffers = buffers]]
      BY <1>2, <1>3, <2>3, Zenon DEF TakeChunk
    <3>2. s \in Session
      <4>1. e.conn \in Conns
        BY DEF Events
      <4>2. NewSession(e) \in Session
        BY <4>1, NoSessionType
      <4> QED
        BY <1>5, <4>2
    <3>3. s = NewSession(e) => s.finding = NoFinding /\ s.owner = e.conn
      BY <1>2 DEF NewSession, NoSession
    <3>4. s = sessions[i] \/ s = NewSession(e)
      OBVIOUS
    <3> HIDE DEF s, buffers
    <3>5. /\ sessions'[i].live = s.live /\ sessions'[i].owner = s.owner
          /\ sessions'[i].finding = s.finding
      BY <1>5, <3>1, <3>2 DEF Session
    <3> QED
      BY <1>4, <1>5, <3>1, <3>3, <3>4, <3>5 DEF Moves, Same
  <2> QED
    BY <2>1, <2>2, <2>3
<1>7. \A j \in Ids : Moves(j)
  BY <1>6 DEF Moves, Same
<1>8. worker'.pc # "hook"
  <2>1. ASSUME NEW j, NEW todo PROVE WithSignals(j, todo).pc # "hook"
    <3>1. Idle.pc = "idle" /\ [Idle EXCEPT !.pc = "signal", !.key = j, !.todo = todo].pc = "signal"
      BY DEF Idle
    <3> QED
      BY <3>1 DEF WithSignals
  <2>2. worker' = worker \/ \E j, todo : worker' = WithSignals(j, todo)
    BY Zenon DEF TakeBegin, TakeEnd, TakeChunk
  <2>3. Idle.pc # "hook"
    BY DEF Idle
  <2> QED
    BY <1>1, <2>1, <2>2, <2>3
<1> QED
  BY <1>1, <1>7, <1>8, QueueTail DEF Quiet

LEMMA CleanupQuiet ==
  ASSUME IInv, NEW gone \in SUBSET Ids, NEW n \in 0..recent, Cleanup(gone, n)
  PROVE  Quiet /\ UNCHANGED <<capture, worker>>
<1>1. /\ worker = Idle
      /\ UNCHANGED <<epoch, conn, missed, lagged, sent, findings, capture, queue, worker>>
      /\ sessions' = [i \in Ids |-> IF i \in gone THEN NoSession ELSE sessions[i]]
  BY DEF Cleanup, ConnFrame
<1>2. \A i \in Ids : Moves(i)
  BY <1>1 DEF Moves, Same, NoSession
<1> QED
  BY <1>1, <1>2 DEF Quiet

LEMMA ConfigureQuiet ==
  ASSUME IInv, NEW c \in Configs, Configure(c)
  PROVE  Quiet /\ UNCHANGED <<capture, worker>>
<1>1. /\ findings' = FirstOf(findings, c.maxFindings)
      /\ sessions' = [i \in Ids |-> Unsettled(sessions[i])]
      /\ UNCHANGED <<epoch, conn, missed, lagged, sent, capture, queue, worker>>
      /\ sessions \in [Ids -> Session]
  BY DEF Configure, ConnFrame, IInv, Types
<1>2. ASSUME NEW i \in Ids PROVE Same(i)
  <2>1. sessions'[i] = Unsettled(sessions[i]) /\ sessions[i] \in Session
    BY <1>1
  <2> QED
    BY <2>1 DEF Same, Unsettled, Session
<1>3. \A k \in DOMAIN findings' : k \in DOMAIN findings /\ findings'[k] = findings[k]
  <2>1. c.maxFindings \in Nat /\ findings \in Seq(Finding)
    BY DetectorAssumption DEF IInv, Types
  <2> QED
    BY <1>1, <2>1, FirstOfIs
<1> QED
  BY <1>1, <1>2, <1>3 DEF Quiet, Moves

LEMMA OtherQuiet ==
  ASSUME ClearFindings \/ Hook \/ (\E i \in Ids : Evict(i)) \/ UNCHANGED vars
  PROVE  /\ Quiet
         /\ ClearFindings \/ (\E i \in Ids : Evict(i)) \/ UNCHANGED vars => UNCHANGED worker
<1>1. /\ UNCHANGED <<epoch, conn, missed, lagged, sent, sessions, queue>>
      /\ findings' = findings \/ findings' = <<>>
      /\ ClearFindings \/ (\E i \in Ids : Evict(i)) \/ UNCHANGED vars => UNCHANGED worker
  BY DEF ClearFindings, Hook, Evict, ConnFrame, vars, engine
<1>2. \A k \in DOMAIN findings' : k \in DOMAIN findings /\ findings'[k] = findings[k]
  BY <1>1
<1> QED
  BY <1>1, <1>2 DEF Quiet, Moves, Same

LEMMA QuietB ==
  ASSUME BegunInv, Quiet,
         \A i \in Ids : capture'[i] = NoCapture \/ (capture[i].kept /\ capture'[i].kept)
  PROVE  BegunInv'
<1>1. epoch' = epoch /\ Begun' = Begun
  BY ConnStill DEF Quiet
<1>2. \A k \in DOMAIN queue' : queue'[k].conn \in Begun
  BY DEF Quiet, BegunInv
<1>3. \A k \in DOMAIN findings' : findings'[k].owner \in Begun
  BY DEF Quiet, BegunInv
<1>4. ASSUME NEW i \in Ids PROVE OfBegun(sessions'[i], Begun)
  <2>1. Moves(i) /\ OfBegun(sessions[i], Begun)
    BY DEF Quiet, BegunInv
  <2>2. CASE Same(i)
    BY <2>1, <2>2 DEF Same, OfBegun
  <2>3. CASE ~Same(i)
    <3>1. sessions'[i].finding = NoFinding /\ (sessions'[i].live => sessions'[i].owner \in Begun)
      BY <2>1, <2>3 DEF Moves, BegunInv
    <3>2. NoFinding.id = 0 /\ ~NoFinding.pinned
      BY DEF NoFinding
    <3> QED
      BY <3>1, <3>2 DEF OfBegun
  <2> QED
    BY <2>2, <2>3
<1> QED
  BY <1>1, <1>2, <1>3, <1>4, BegunStill

LEMMA HookIs ==
  ASSUME Types, WorkInv, Hook
  PROVE  \E i \in Ids :
           /\ i = worker.mark.owner[2] /\ worker.mark.owner \in Conns
           /\ \A j \in Ids \ {i} : capture'[j] = capture[j]
           /\ capture'[i].kept = capture[i].kept
           /\ ~capture[i].kept => capture'[i] = capture[i]
           /\ capture[i].kept =>
                /\ capture'[i].risk = IF worker.mark.score > capture[i].risk THEN worker.mark.score
                                      ELSE capture[i].risk
                /\ capture'[i].pinned <=> capture[i].pinned \/ worker.mark.pin
<1>1. worker.mark.owner \in Conns /\ worker.pc = "hook" /\ worker.mark.pin \in BOOLEAN
  BY DEF Hook, WorkInv, Types, Work
<1>2. PICK i \in Ids : i = worker.mark.owner[2]
  BY <1>1 DEF Conns
<1>3. PICK m : m = worker.mark
  OBVIOUS
<1> DEFINE risk == IF m.score > capture[i].risk THEN m.score ELSE capture[i].risk
           pinned == capture[i].pinned \/ m.pin
<1>4. capture' = IF ~capture[i].kept THEN capture
                 ELSE [capture EXCEPT ![i] = [capture[i] EXCEPT !.risk = risk, !.pinned = pinned]]
  <2>1. capture \in [Ids -> Capture]
    BY DEF Types
  <2>2. CASE ~capture[i].kept
    BY <1>2, <1>3, <2>2 DEF Hook
  <2>3. CASE capture[i].kept
    BY <1>2, <1>3, <2>1, <2>3 DEF Hook
  <2> QED
    BY <2>2, <2>3
<1>5. capture \in [Ids -> Capture] /\ m.pin \in BOOLEAN
  BY <1>1, <1>3 DEF Types
<1>6. CASE ~capture[i].kept
  BY <1>1, <1>2, <1>4, <1>6
<1>7. CASE capture[i].kept
  <2>1. pinned \in BOOLEAN /\ (pinned <=> capture[i].pinned \/ m.pin)
    BY <1>5 DEF Capture
  <2> HIDE DEF risk, pinned
  <2>2. capture' = [capture EXCEPT ![i] = [capture[i] EXCEPT !.risk = risk, !.pinned = pinned]]
    BY <1>4, <1>7
  <2>3. /\ capture'[i] = [capture[i] EXCEPT !.risk = risk, !.pinned = pinned]
        /\ \A j \in Ids \ {i} : capture'[j] = capture[j]
    BY <1>5, <2>2
  <2>4. capture'[i].kept = capture[i].kept /\ capture'[i].risk = risk /\ capture'[i].pinned = pinned
    BY <1>5, <2>3 DEF Capture
  <2>5. capture'[i].risk = IF m.score > capture[i].risk THEN m.score ELSE capture[i].risk
    BY <2>4 DEF risk
  <2> QED
    BY <1>1, <1>2, <1>3, <1>7, <2>1, <2>3, <2>4, <2>5
<1> QED
  BY <1>6, <1>7

LEMMA EvictIs ==
  ASSUME Types, NEW i \in Ids, Evict(i)
  PROVE  capture'[i] = NoCapture /\ \A j \in Ids \ {i} : capture'[j] = capture[j]
BY DEF Evict, Types

LEMMA AddSignalB ==
  ASSUME IInv, BegunInv, AddSignal
  PROVE  BegunInv'
<1>1. PICK i \in Ids, f \in Finding, x \in Signals, pin \in BOOLEAN : Adds(i, f, x, pin)
  BY AddSignalIs
<1> DEFINE s == sessions[i]
<1>2. /\ s \in Session /\ s.live /\ f.owner = s.owner
      /\ (f.pinned <=> s.finding.pinned \/ pin) /\ (pin => f.id # 0)
      /\ sessions' = [sessions EXCEPT ![i] =
           [s EXCEPT !.finding = f, !.matched = s.matched \cup {x.id}]]
      /\ \A k \in DOMAIN findings' :
           \/ findings'[k] = f
           \/ \E m \in DOMAIN findings : findings'[k] = findings[m]
      /\ UNCHANGED <<epoch, conn, capture, queue>>
      /\ sessions \in [Ids -> Session]
      /\ s.finding.id # 0 => f.id = s.finding.id
  BY <1>1 DEF Adds, IInv, Types
<1>3. Begun' = Begun /\ s.owner \in Begun /\ OfBegun(s, Begun)
  BY <1>2, ConnStill DEF BegunInv, OfBegun
<1> HIDE DEF s
<1>4. ASSUME NEW j \in Ids PROVE OfBegun(sessions'[j], Begun)
  <2>1. CASE j = i
    <3>1. sessions'[i] = [s EXCEPT !.finding = f, !.matched = s.matched \cup {x.id}]
      BY <1>2
    <3>2. sessions'[i].live = s.live /\ sessions'[i].owner = s.owner /\ sessions'[i].finding = f
      BY <1>2, <3>1 DEF Session
    <3>3. f.id = 0 => ~f.pinned
      <4>1. ASSUME f.id = 0, f.pinned PROVE FALSE
        <5>1. s.finding.id = 0 /\ s.finding.pinned
          BY <1>2, <4>1
        <5> QED
          BY <1>3, <5>1 DEF OfBegun
      <4> QED
        BY <4>1
    <3> QED
      BY <1>2, <1>3, <2>1, <3>2, <3>3 DEF OfBegun
  <2>2. CASE j # i
    BY <1>2, <2>2 DEF BegunInv
  <2> QED
    BY <2>1, <2>2
<1>5. \A k \in DOMAIN findings' : findings'[k].owner \in Begun
  BY <1>2, <1>3 DEF BegunInv
<1>6. \A k \in DOMAIN queue' : queue'[k].conn \in Begun
  BY <1>2 DEF BegunInv
<1> QED
  BY <1>2, <1>3, <1>4, <1>5, <1>6, CaptureStill, BegunStill

LEMMA NextB == IInv /\ BegunInv /\ [Next]_vars => BegunInv'
<1> SUFFICES ASSUME IInv, BegunInv, [Next]_vars PROVE BegunInv'
  OBVIOUS
<1>0. Types /\ WorkInv
  BY DEF IInv
<1>1. ASSUME Quiet, capture' = capture PROVE BegunInv'
  BY <1>1, CaptureStill, QuietB
<1>2. ASSUME Hook PROVE BegunInv'
  <2>1. \A i \in Ids : capture'[i] = NoCapture \/ (capture[i].kept /\ capture'[i].kept)
    BY <1>0, <1>2, HookIs DEF BegunInv
  <2> QED
    BY <1>2, <2>1, OtherQuiet, QuietB
<1>3. ASSUME NEW j \in Ids, Evict(j) PROVE BegunInv'
  <2>1. \A i \in Ids : capture'[i] = NoCapture \/ (capture[i].kept /\ capture'[i].kept)
    BY <1>0, <1>3, EvictIs DEF BegunInv
  <2> QED
    BY <1>3, <2>1, OtherQuiet, QuietB
<1>4. ASSUME ClearFindings \/ UNCHANGED vars PROVE BegunInv'
  <2>1. capture' = capture
    BY <1>4 DEF ClearFindings, vars
  <2> QED
    BY <1>1, <1>4, <2>1, OtherQuiet
<1> QED
  BY <1>0, <1>1, <1>2, <1>3, <1>4, ConnectB, SendB, FinishB, ReplaceB, TakeQuiet, AddSignalB,
     CleanupQuiet, ConfigureQuiet DEF Next

LEMMA InitB == Init => BegunInv
<1> SUFFICES ASSUME Init PROVE BegunInv
  OBVIOUS
<1>1. /\ epoch = 1 /\ conn = [c \in Conns |-> [pc |-> "none", late |-> {}, chunks |-> 0]]
      /\ capture = [i \in Ids |-> NoCapture] /\ queue = <<>> /\ findings = <<>>
      /\ sessions = [i \in Ids |-> NoSession]
  BY DEF Init
<1>2. Begun = {}
  BY <1>1 DEF Begun
<1>3. \A c \in Begun : c[1] <= epoch
  BY <1>2
<1>4. DOMAIN queue = {} /\ DOMAIN findings = {}
  BY <1>1
<1>5. \A i \in Ids : OfBegun(sessions[i], Begun)
  BY <1>1 DEF OfBegun, NoSession, NoFinding
<1>6. \A i \in Ids : capture[i] = NoCapture /\ ~capture[i].kept
  BY <1>1 DEF NoCapture
<1> QED
  BY <1>3, <1>4, <1>5, <1>6 DEF BegunInv

-----------------------------------------------------------------------------
(* What a finding asks for, its capture shows.                              *)

\* A finding that every setting would have pinned is marked as pinned.
Claimed(f) == f.owner \in AutoPin /\ (\A x \in Configs : x.autoPinScore <= f.score) => f.pinned

Settled(f, caps, ep) ==
  f.id # 0 => \A i \in Ids : f.owner = <<ep, i>> /\ caps[i].kept =>
    f.score <= caps[i].risk /\ (f.pinned => caps[i].pinned) /\ Claimed(f)

\* The hook is called for f, whose capture shows the rest.
Marked(f, mark, caps, ep) ==
  /\ f.id # 0 /\ mark.owner = f.owner /\ mark.score = f.score
  /\ mark.pin => \E x \in Configs : x.autoPinScore <= f.score
  /\ \A i \in Ids : f.owner = <<ep, i>> /\ caps[i].kept =>
       (f.pinned => caps[i].pinned \/ mark.pin) /\ Claimed(f)

MarkInv ==
  worker.pc = "hook" =>
    /\ worker.mark.owner = sessions[worker.key].owner
    /\ Marked(sessions[worker.key].finding, worker.mark, capture, epoch)

SettledInv ==
  /\ \A i \in Ids : (worker.pc = "hook" /\ i = worker.key) \/ Settled(sessions[i].finding, capture, epoch)
  /\ \A k \in DOMAIN findings :
       \/ worker.pc = "hook" /\ findings[k].id = sessions[worker.key].finding.id
       \/ Settled(findings[k], capture, epoch)

\* A capture that was there is rated no lower, and no less pinned; one that was
\* not is of a connection that nothing is known of.
Keeps(caps, ep, more, next, begun) ==
  \A i \in Ids : more[i].kept =>
    \/ /\ next = ep /\ caps[i].kept /\ (caps[i].pinned => more[i].pinned)
       /\ \A n \in 0..100 : n <= caps[i].risk => n <= more[i].risk
    \/ <<next, i>> \notin begun

LEMMA SettledKept ==
  ASSUME NEW f \in Finding, NEW caps, NEW ep, NEW more, NEW next, NEW begun,
         f.id # 0 => f.owner \in begun, Keeps(caps, ep, more, next, begun), Settled(f, caps, ep)
  PROVE  Settled(f, more, next)
<1>1. ASSUME NEW i \in Ids, f.id # 0, f.owner = <<next, i>>, more[i].kept
      PROVE  f.score <= more[i].risk /\ (f.pinned => more[i].pinned) /\ Claimed(f)
  <2>1. /\ next = ep /\ caps[i].kept /\ (caps[i].pinned => more[i].pinned)
        /\ \A n \in 0..100 : n <= caps[i].risk => n <= more[i].risk
    BY <1>1 DEF Keeps
  <2>2. f.score <= caps[i].risk /\ (f.pinned => caps[i].pinned) /\ Claimed(f)
    BY <1>1, <2>1 DEF Settled
  <2>3. f.score \in 0..100
    BY DEF Finding
  <2> QED
    BY <2>1, <2>2, <2>3
<1> QED
  BY <1>1 DEF Settled

LEMMA MarkedKept ==
  ASSUME NEW f \in Finding, NEW mark, NEW caps, NEW ep, NEW more, NEW next, NEW begun,
         f.id # 0 => f.owner \in begun, Keeps(caps, ep, more, next, begun), Marked(f, mark, caps, ep)
  PROVE  Marked(f, mark, more, next)
<1>1. ASSUME NEW i \in Ids, f.owner = <<next, i>>, more[i].kept
      PROVE  (f.pinned => more[i].pinned \/ mark.pin) /\ Claimed(f)
  <2>1. next = ep /\ caps[i].kept /\ (caps[i].pinned => more[i].pinned)
    BY <1>1 DEF Keeps, Marked
  <2> QED
    BY <1>1, <2>1 DEF Marked
<1> QED
  BY <1>1 DEF Marked

NoFindingSettled == \A caps, ep : Settled(NoFinding, caps, ep)

LEMMA NoneToSettle == NoFindingSettled
BY DEF NoFindingSettled, Settled, NoFinding

\* A step that finds nothing, and calls no hook.
LEMMA PinsStill ==
  ASSUME IInv, BegunInv, MarkInv, SettledInv,
         Keeps(capture, epoch, capture', epoch', Begun),
         \A i \in Ids : sessions'[i].finding \in {sessions[i].finding, NoFinding},
         \A k \in DOMAIN findings' : k \in DOMAIN findings /\ findings'[k] = findings[k],
         \/ worker.pc # "hook" /\ worker'.pc # "hook"
         \/ UNCHANGED worker /\ \A i \in Ids : Same(i)
  PROVE  (MarkInv /\ SettledInv)'
<1>1. /\ \A i \in Ids : sessions[i].finding \in Finding
      /\ \A k \in DOMAIN findings : findings[k] \in Finding
      /\ worker.pc = "hook" => worker.key \in Ids
  BY DEF IInv, Types, Session, WorkInv
<1>2. PICK caps, ep, more, next, begun :
        /\ caps = capture /\ ep = epoch /\ more = capture' /\ next = epoch' /\ begun = Begun
        /\ Keeps(caps, ep, more, next, begun)
  OBVIOUS
<1>3. \A f \in Finding : (f.id # 0 => f.owner \in begun) /\ Settled(f, caps, ep) => Settled(f, more, next)
  BY <1>2, SettledKept
<1>4. \A f \in Finding : \A mark : (f.id # 0 => f.owner \in begun) /\ Marked(f, mark, caps, ep) =>
        Marked(f, mark, more, next)
  BY <1>2, MarkedKept
<1>5. \A i \in Ids : sessions[i].finding.id # 0 => sessions[i].finding.owner \in begun
  BY <1>2 DEF BegunInv, OfBegun
<1>6. \A k \in DOMAIN findings : findings[k].owner \in begun
  BY <1>2 DEF BegunInv
<1>7. CASE worker.pc # "hook" /\ worker'.pc # "hook"
  <2>1. ASSUME NEW i \in Ids PROVE Settled(sessions'[i].finding, more, next)
    <3>1. Settled(sessions[i].finding, more, next)
      BY <1>1, <1>2, <1>3, <1>5, <1>7 DEF SettledInv
    <3> QED
      BY <3>1, NoneToSettle DEF NoFindingSettled
  <2>2. ASSUME NEW k \in DOMAIN findings' PROVE Settled(findings'[k], more, next)
    BY <1>1, <1>2, <1>3, <1>6, <1>7 DEF SettledInv
  <2> QED
    BY <1>2, <1>7, <2>1, <2>2 DEF MarkInv, SettledInv
<1>8. CASE UNCHANGED worker /\ \A i \in Ids : Same(i)
  <2>1. ASSUME NEW i \in Ids, ~(worker.pc = "hook" /\ i = worker.key)
        PROVE  Settled(sessions'[i].finding, more, next)
    <3>1. Settled(sessions[i].finding, more, next)
      BY <1>1, <1>2, <1>3, <1>5, <2>1 DEF SettledInv
    <3> QED
      BY <1>8, <3>1 DEF Same
  <2>2. ASSUME NEW k \in DOMAIN findings',
               ~(worker.pc = "hook" /\ findings[k].id = sessions[worker.key].finding.id)
        PROVE  Settled(findings'[k], more, next)
    BY <1>1, <1>2, <1>3, <1>6, <2>2 DEF SettledInv
  <2>3. SettledInv'
    <3>1. \A k \in DOMAIN findings' : findings'[k] = findings[k]
      OBVIOUS
    <3>2. worker.pc = "hook" => sessions'[worker.key].finding = sessions[worker.key].finding
      BY <1>1, <1>8 DEF Same
    <3> QED
      BY <1>2, <1>8, <2>1, <2>2, <3>1, <3>2 DEF SettledInv
  <2>4. MarkInv'
    <3>1. ASSUME worker.pc = "hook"
          PROVE  /\ worker.mark.owner = sessions'[worker.key].owner
                 /\ Marked(sessions'[worker.key].finding, worker.mark, more, next)
      <4>1. PICK i \in Ids : i = worker.key
        BY <1>1, <3>1
      <4>2. /\ worker.mark.owner = sessions[i].owner
            /\ Marked(sessions[i].finding, worker.mark, caps, ep)
        BY <1>2, <3>1, <4>1 DEF MarkInv
      <4>3. Marked(sessions[i].finding, worker.mark, more, next)
        BY <1>1, <1>4, <1>5, <4>2
      <4> QED
        BY <1>8, <4>1, <4>2, <4>3 DEF Same
    <3> QED
      BY <1>2, <1>8, <3>1 DEF MarkInv
  <2> QED
    BY <2>3, <2>4
<1> QED
  BY <1>7, <1>8

LEMMA SameKeeps ==
  ASSUME epoch' = epoch, capture' = capture
  PROVE  Keeps(capture, epoch, capture', epoch', Begun)
BY DEF Keeps

LEMMA QuietPins ==
  ASSUME IInv, BegunInv, MarkInv, SettledInv, Quiet,
         Keeps(capture, epoch, capture', epoch', Begun),
         (worker.pc # "hook" /\ worker'.pc # "hook") \/ UNCHANGED worker
  PROVE  (MarkInv /\ SettledInv)'
<1>1. \A i \in Ids : sessions'[i].finding \in {sessions[i].finding, NoFinding}
  BY DEF Quiet, Moves, Same
<1>2. worker.pc = "hook" => \A i \in Ids : Same(i)
  BY DEF Quiet, Idle
<1>3. \A k \in DOMAIN findings' : k \in DOMAIN findings /\ findings'[k] = findings[k]
  BY DEF Quiet
<1> QED
  BY <1>1, <1>2, <1>3, PinsStill

LEMMA EvictPins ==
  ASSUME IInv, BegunInv, MarkInv, SettledInv, NEW i \in Ids, Evict(i)
  PROVE  (MarkInv /\ SettledInv)'
<1>1. capture'[i] = NoCapture /\ (\A j \in Ids \ {i} : capture'[j] = capture[j]) /\ epoch' = epoch
  BY EvictIs DEF IInv, Evict
<1>2. Keeps(capture, epoch, capture', epoch', Begun)
  BY <1>1 DEF Keeps, NoCapture
<1>3. Quiet /\ UNCHANGED worker
  BY OtherQuiet
<1> QED
  BY <1>2, <1>3, QuietPins

LEMMA ConnectionPins ==
  ASSUME IInv, BegunInv, MarkInv, SettledInv,
         (\E i \in Ids : Connect(i)) \/ Replace \/ \E c \in Conns : Finish(c) \/ \E ch \in Chunks : Send(c, ch)
  PROVE  (MarkInv /\ SettledInv)'
<1>1. UNCHANGED <<sessions, findings, worker>>
  BY Zenon DEF Connect, Replace, Finish, Send, Enqueue, engine
<1>2. Keeps(capture, epoch, capture', epoch', Begun)
  <2>1. CASE \E i \in Ids : Connect(i)
    <3>1. PICK i \in Ids : <<epoch, i>> \notin Begun /\ \A j \in Ids \ {i} : capture'[j] = capture[j]
      BY <2>1, ConnectB DEF IInv
    <3>2. epoch' = epoch
      BY <2>1 DEF Connect
    <3> QED
      BY <3>1, <3>2 DEF Keeps
  <2>2. CASE Replace
    <3>1. \A i \in Ids : ~capture'[i].kept
      BY <2>2 DEF Replace, NoCapture
    <3> QED
      BY <3>1 DEF Keeps
  <2>3. CASE \E c \in Conns : Finish(c) \/ \E ch \in Chunks : Send(c, ch)
    <3>1. UNCHANGED <<epoch, capture>>
      BY <2>3 DEF Finish, Send
    <3> QED
      BY <3>1, SameKeeps
  <2> QED
    BY <2>1, <2>2, <2>3
<1>3. \A i \in Ids : Same(i) /\ sessions'[i].finding \in {sessions[i].finding, NoFinding}
  BY <1>1 DEF Same
<1>4. \A k \in DOMAIN findings' : k \in DOMAIN findings /\ findings'[k] = findings[k]
  BY <1>1
<1> QED
  BY <1>1, <1>2, <1>3, <1>4, PinsStill

\* What the hook was called for is settled then.
LEMMA HookPins ==
  ASSUME IInv, BegunInv, MarkInv, SettledInv, Hook
  PROVE  (MarkInv /\ SettledInv)'
<1>1. /\ Types /\ WorkInv /\ ListInv /\ worker.pc = "hook"
      /\ UNCHANGED <<epoch, sessions, findings>>
      /\ worker' = WithSignals(worker.key, worker.todo)
  BY DEF Hook, IInv, ConnFrame
<1>2. PICK key \in Ids : key = worker.key /\ worker.todo \in Seq(Signals)
  BY <1>1 DEF WorkInv, Types, Work
<1>3. worker'.pc # "hook"
  BY <1>1, <1>2, WithSignalsIs
<1>4. PICK m, caps, more, ep, begun :
        m = worker.mark /\ caps = capture /\ more = capture' /\ ep = epoch /\ begun = Begun
  OBVIOUS
<1>5. caps \in [Ids -> Capture] /\ m.score \in 0..100
  BY <1>1, <1>4 DEF Types, Work
<1>6. PICK i \in Ids :
        /\ i = m.owner[2] /\ m.owner \in Conns
        /\ \A j \in Ids \ {i} : more[j] = caps[j]
        /\ more[i].kept = caps[i].kept
        /\ ~caps[i].kept => more[i] = caps[i]
        /\ caps[i].kept =>
             /\ more[i].risk = IF m.score > caps[i].risk THEN m.score ELSE caps[i].risk
             /\ more[i].pinned <=> caps[i].pinned \/ m.pin
  BY <1>1, <1>4, HookIs
<1>15. ASSUME caps[i].kept
      PROVE  /\ caps[i].risk \in 0..100 /\ more[i].risk \in 0..100
             /\ caps[i].risk <= more[i].risk /\ m.score <= more[i].risk
  <2>1. caps[i].risk \in 0..100
    BY <1>5 DEF Capture
  <2>2. PICK r, n : r \in 0..100 /\ n \in 0..100 /\ r = caps[i].risk /\ n = m.score
    BY <1>5, <2>1
  <2>3. more[i].risk = IF n > r THEN n ELSE r
    BY <1>6, <1>15, <2>2
  <2>4. more[i].risk \in 0..100 /\ r <= more[i].risk /\ n <= more[i].risk
    BY <2>2, <2>3
  <2> QED
    BY <2>1, <2>2, <2>4
<1>7. Keeps(caps, ep, more, ep, begun)
  <2>1. ASSUME NEW j \in Ids, more[j].kept
        PROVE  /\ caps[j].kept /\ (caps[j].pinned => more[j].pinned)
               /\ \A n \in 0..100 : n <= caps[j].risk => n <= more[j].risk
    <3>1. CASE j = i
      <4>1. caps[i].kept /\ (caps[i].pinned => more[i].pinned)
        BY <1>6, <2>1, <3>1
      <4>2. PICK r, n : /\ r \in 0..100 /\ n \in 0..100 /\ r <= n
                        /\ r = caps[i].risk /\ n = more[i].risk
        BY <1>15, <4>1
      <4>3. \A q \in 0..100 : q <= r => q <= n
        <5>1. r \in Int /\ n \in Int /\ r <= n
          BY <4>2
        <5> QED
          BY <5>1
      <4> QED
        BY <3>1, <4>1, <4>2, <4>3
    <3>2. CASE j # i
      BY <1>6, <2>1, <3>2
    <3> QED
      BY <3>1, <3>2
  <2> QED
    BY <2>1 DEF Keeps
<1>8. PICK f \in Finding : f = sessions[key].finding
  BY <1>1 DEF Types, Session
<1>9. m.owner = f.owner /\ Marked(f, m, caps, ep)
  BY <1>1, <1>2, <1>4, <1>8 DEF MarkInv, Marked
<1>10. Settled(f, more, ep)
  <2>1. ASSUME NEW j \in Ids, f.owner = <<ep, j>>, more[j].kept
        PROVE  f.score <= more[j].risk /\ (f.pinned => more[j].pinned) /\ Claimed(f)
    <3>1. j = i
      BY <1>6, <1>9, <2>1 DEF Conns
    <3>2. caps[i].kept /\ m.score <= more[i].risk /\ m.score = f.score
      BY <1>6, <1>9, <1>15, <2>1, <3>1 DEF Marked
    <3>4. caps[i].pinned \/ m.pin => more[i].pinned
      BY <1>6, <3>2
    <3>3. (f.pinned => caps[i].pinned \/ m.pin) /\ Claimed(f)
      BY <1>9, <2>1, <3>1, <3>2 DEF Marked
    <3> QED
      BY <3>1, <3>2, <3>3, <3>4
  <2> QED
    BY <2>1 DEF Settled
<1>11. ASSUME NEW g \in Finding, g.id # 0 => g.owner \in begun, Settled(g, caps, ep)
       PROVE  Settled(g, more, ep)
  BY <1>7, <1>11, SettledKept
<1>12. ASSUME NEW j \in Ids PROVE Settled(sessions[j].finding, more, ep)
  <2>1. CASE j = key
    BY <1>8, <1>10, <2>1
  <2>2. CASE j # key
    <3>1. PICK g \in Finding : g = sessions[j].finding
      BY <1>1 DEF Types, Session
    <3>2. g.id # 0 => g.owner \in begun
      BY <1>4, <3>1 DEF BegunInv, OfBegun
    <3>3. Settled(g, caps, ep)
      BY <1>2, <1>4, <2>2, <3>1 DEF SettledInv
    <3> QED
      BY <1>11, <3>1, <3>2, <3>3
  <2> QED
    BY <2>1, <2>2
<1>13. ASSUME NEW k \in DOMAIN findings PROVE Settled(findings[k], more, ep)
  <2>1. CASE findings[k].id = f.id
    <3>1. findings[k] = f
      BY <1>1, <1>8, <2>1 DEF ListInv
    <3> QED
      BY <1>10, <3>1
  <2>2. CASE findings[k].id # f.id
    <3>1. PICK g \in Finding : g = findings[k]
      BY <1>1 DEF Types
    <3>2. g.owner \in begun
      BY <1>4, <3>1 DEF BegunInv
    <3>3. Settled(g, caps, ep)
      BY <1>2, <1>4, <1>8, <2>2, <3>1 DEF SettledInv
    <3> QED
      BY <1>11, <3>1, <3>2, <3>3
  <2> QED
    BY <2>1, <2>2
<1> QED
  BY <1>1, <1>3, <1>4, <1>12, <1>13 DEF MarkInv, SettledInv

\* A finding that grows is what the hook is called for.
LEMMA AddSignalPins ==
  ASSUME IInv, BegunInv, MarkInv, SettledInv, AddSignal
  PROVE  (MarkInv /\ SettledInv)'
<1>1. PICK i \in Ids, f \in Finding, x \in Signals, pin \in BOOLEAN : Adds(i, f, x, pin)
  BY AddSignalIs
<1>2. PICK s \in Session : s = sessions[i]
  BY <1>1 DEF Adds
<1>3. PICK todo : todo = Tail(worker.todo)
  OBVIOUS
<1>4. /\ worker.pc = "signal" /\ s.live /\ f.owner = s.owner
      /\ s.finding.id # 0 => f.id = s.finding.id
      /\ f.pinned <=> s.finding.pinned \/ pin
      /\ pin <=> /\ s.owner \in AutoPin /\ f.id # 0 /\ f.score >= config.autoPinScore
                 /\ ~s.finding.pinned
      /\ sessions' = [sessions EXCEPT ![i] =
           [s EXCEPT !.finding = f, !.matched = s.matched \cup {x.id}]]
      /\ \A k \in DOMAIN findings' :
           \/ findings'[k] = f
           \/ \E m \in DOMAIN findings : findings'[k] = findings[m] /\ findings[m].id # f.id
      /\ worker' = IF f.id = 0 THEN WithSignals(i, todo)
                   ELSE [pc |-> "hook", key |-> i, todo |-> todo,
                         mark |-> [owner |-> s.owner, score |-> f.score, pin |-> pin]]
      /\ UNCHANGED <<epoch, capture>>
  BY <1>1, <1>2, <1>3 DEF Adds
<1>5. PICK caps, ep : caps = capture /\ ep = epoch /\ caps = capture' /\ ep = epoch'
  BY <1>4
<1>6. /\ sessions'[i].finding = f /\ sessions'[i].owner = s.owner
      /\ \A j \in Ids \ {i} : sessions'[j] = sessions[j]
  <2>1. sessions \in [Ids -> Session]
    BY DEF IInv, Types
  <2>2. sessions'[i] = [s EXCEPT !.finding = f, !.matched = s.matched \cup {x.id}]
    BY <1>4, <2>1
  <2> QED
    BY <1>4, <2>1, <2>2 DEF Session
<1>7. /\ \A j \in Ids : Settled(sessions[j].finding, caps, ep)
      /\ \A k \in DOMAIN findings : Settled(findings[k], caps, ep)
  BY <1>4, <1>5 DEF SettledInv
<1>8. CASE f.id = 0
  <2>1. worker'.pc # "hook"
    <3>1. todo \in Seq(Signals)
      BY <1>1, <1>3 DEF Adds, IInv, Types, Work
    <3> QED
      BY <1>4, <1>8, <3>1, WithSignalsIs
  <2>2. Settled(f, caps, ep)
    BY <1>8 DEF Settled
  <2>3. \A j \in Ids : Settled(sessions'[j].finding, caps, ep)
    BY <1>6, <1>7, <2>2
  <2>4. \A k \in DOMAIN findings' : Settled(findings'[k], caps, ep)
    BY <1>4, <1>7, <2>2
  <2> QED
    BY <1>5, <2>1, <2>3, <2>4 DEF MarkInv, SettledInv
<1>9. CASE f.id # 0
  <2>1. PICK mark : mark = [owner |-> s.owner, score |-> f.score, pin |-> pin]
    OBVIOUS
  <2>2. /\ worker'.pc = "hook" /\ worker'.key = i /\ worker'.mark = mark
        /\ mark.owner = s.owner /\ mark.score = f.score /\ mark.pin = pin
    BY <1>4, <1>9, <2>1
  <2>3. config \in Configs /\ config.autoPinScore \in Nat /\ f.score \in Nat
    <3>1. config \in Configs
      BY DEF IInv, Types
    <3>2. config.autoPinScore \in 1..100
      BY <3>1, DetectorAssumption
    <3>3. f.score \in 0..100
      BY DEF Finding
    <3> QED
      BY <3>1, <3>2, <3>3
  <2>4. pin => \E c \in Configs : c.autoPinScore <= f.score
    BY <1>4, <2>3
  <2>5. Claimed(f)
    BY <1>4, <1>9, <2>3 DEF Claimed
  <2>6. ASSUME NEW j \in Ids, f.owner = <<ep, j>>, caps[j].kept, f.pinned
        PROVE  caps[j].pinned \/ pin
    <3>1. CASE s.finding.pinned
      <4>1. s.finding.id # 0 /\ s.finding.owner = s.owner
        BY <1>2, <1>4, <3>1 DEF BegunInv, OfBegun
      <4>2. Settled(s.finding, caps, ep)
        BY <1>2, <1>7
      <4> QED
        BY <1>4, <2>6, <3>1, <4>1, <4>2 DEF Settled
    <3>2. CASE ~s.finding.pinned
      BY <1>4, <2>6, <3>2
    <3> QED
      BY <3>1, <3>2
  <2>7. Marked(f, mark, caps, ep)
    BY <1>4, <1>9, <2>2, <2>4, <2>5, <2>6 DEF Marked
  <2>8. MarkInv'
    BY <1>4, <1>5, <1>6, <2>2, <2>7 DEF MarkInv
  <2>9. SettledInv'
    <3>1. \A j \in Ids \ {i} : Settled(sessions'[j].finding, caps, ep)
      BY <1>6, <1>7
    <3>2. \A k \in DOMAIN findings' : findings'[k].id = f.id \/ Settled(findings'[k], caps, ep)
      BY <1>4, <1>7
    <3> QED
      BY <1>5, <1>6, <2>2, <3>1, <3>2 DEF SettledInv
  <2> QED
    BY <2>8, <2>9
<1> QED
  BY <1>8, <1>9

LEMMA NextPins == IInv /\ BegunInv /\ MarkInv /\ SettledInv /\ [Next]_vars => (MarkInv /\ SettledInv)'
<1> SUFFICES ASSUME IInv, BegunInv, MarkInv, SettledInv, [Next]_vars PROVE (MarkInv /\ SettledInv)'
  OBVIOUS
<1>1. ASSUME Quiet, capture' = capture, (worker.pc # "hook" /\ worker'.pc # "hook") \/ UNCHANGED worker
      PROVE  (MarkInv /\ SettledInv)'
  BY <1>1, SameKeeps, QuietPins DEF Quiet
<1>2. ASSUME TakeBegin \/ TakeEnd \/ TakeChunk PROVE (MarkInv /\ SettledInv)'
  BY <1>1, <1>2, TakeQuiet DEF Idle
<1>3. ASSUME ClearFindings \/ UNCHANGED vars PROVE (MarkInv /\ SettledInv)'
  <2>1. capture' = capture
    BY <1>3 DEF ClearFindings, vars
  <2> QED
    BY <1>1, <1>3, <2>1, OtherQuiet
<1>4. ASSUME NEW gone \in SUBSET Ids, NEW n \in 0..recent, Cleanup(gone, n)
      PROVE  (MarkInv /\ SettledInv)'
  BY <1>1, <1>4, CleanupQuiet
<1>5. ASSUME NEW c \in Configs, Configure(c) PROVE (MarkInv /\ SettledInv)'
  BY <1>1, <1>5, ConfigureQuiet
<1> QED
  BY <1>2, <1>3, <1>4, <1>5, ConnectionPins, EvictPins, HookPins, AddSignalPins DEF Next

LEMMA InitPins == Init => MarkInv /\ SettledInv
<1> SUFFICES ASSUME Init PROVE MarkInv /\ SettledInv
  OBVIOUS
<1>1. findings = <<>> /\ sessions = [i \in Ids |-> NoSession] /\ worker = Idle
  BY DEF Init
<1>2. worker.pc # "hook" /\ DOMAIN findings = {} /\ NoSession.finding = NoFinding
  BY <1>1 DEF Idle, NoSession
<1> QED
  BY <1>1, <1>2, NoneToSettle DEF MarkInv, SettledInv, NoFindingSettled

-----------------------------------------------------------------------------
(* While no event is lost, what has signalled came on its own connection.   *)

EarnedInv == ~missed =>
  /\ \A i \in Ids : sessions[i].live =>
       \A k \in DOMAIN sessions[i].finding.signals :
         Earned(sessions[i].finding.signals[k], sent[sessions[i].owner])
  /\ worker.pc # "idle" => \A k \in DOMAIN worker.todo :
       Earned(worker.todo[k], sent[sessions[worker.key].owner])

LEMMA LongerSelf ==
  ASSUME NEW text \in Texts
  PROVE  Longer(text, text)
<1>1. ASSUME NEW dir \in Dirs PROVE \E b \in Seq(Byte) : text[dir] = text[dir] \o b
  <2>1. text[dir] \in Seq(Byte) /\ <<>> \in Seq(Byte)
    BY DEF Texts
  <2>2. text[dir] = text[dir] \o <<>>
    BY <2>1
  <2> QED
    BY <2>1, <2>2
<1> QED
  BY <1>1 DEF Longer

LEMMA SentStill ==
  ASSUME XInv, ~missed, sent' = sent
  PROVE  \A c \in Conns : Longer(sent[c], sent'[c])
<1>1. \A c \in Conns : sent[c] \in Texts
  BY DEF XInv, HistoryType
<1> QED
  BY <1>1, LongerSelf

LEMMA SentLater ==
  ASSUME XInv, ~missed', NEW e \in Events, Enqueue(e)
  PROVE  ~missed /\ \A c \in Conns : Longer(sent[c], sent'[c])
<1>1. ~missed /\ sent' = [sent EXCEPT ![e.conn][e.dir] = @ \o e.data]
  BY DEF Enqueue
<1>2. sent \in [Conns -> Texts] /\ e.conn \in Conns /\ e.dir \in Dirs /\ e.data \in Seq(Byte)
  BY <1>1 DEF XInv, HistoryType, Events
<1>3. ASSUME NEW c \in Conns, c # e.conn PROVE Longer(sent[c], sent'[c])
  <2>1. sent'[c] = sent[c] /\ sent[c] \in Texts
    BY <1>1, <1>2, <1>3
  <2> QED
    BY <2>1, LongerSelf
<1>4. Longer(sent[e.conn], sent'[e.conn])
  <2>1. PICK text \in Texts : text = sent[e.conn]
    BY <1>2
  <2>2. PICK dir, data : dir \in Dirs /\ data \in Seq(Byte) /\ dir = e.dir /\ data = e.data
    BY <1>2
  <2>3. PICK more : more = [text EXCEPT ![dir] = text[dir] \o data]
    OBVIOUS
  <2>4. sent'[e.conn] = more
    BY <1>1, <1>2, <2>1, <2>2, <2>3
  <2>5. text[dir] \in Seq(Byte) /\ text[dir] \o data \in Seq(Byte)
    BY <2>1, <2>2 DEF Texts
  <2>6. more \in Texts /\ more[dir] = text[dir] \o data /\ \A d \in Dirs \ {dir} : more[d] = text[d]
    BY <2>2, <2>3, <2>5 DEF Texts
  <2>7. \A d \in Dirs : \E b \in Seq(Byte) : text[d] = text[d] \o b
    BY LongerSelf DEF Longer
  <2>8. \A d \in Dirs : \E b \in Seq(Byte) : more[d] = text[d] \o b
    BY <2>2, <2>6, <2>7
  <2> QED
    BY <2>1, <2>4, <2>6, <2>8 DEF Longer
<1> QED
  BY <1>1, <1>3, <1>4

LEMMA EarnedStill ==
  ASSUME IInv, EarnedInv, ~missed, \A c \in Conns : Longer(sent[c], sent'[c]),
         \A i \in Ids : Same(i) \/ sessions'[i].finding = NoFinding,
         worker'.pc # "idle" => \A k \in DOMAIN worker'.todo :
           Earned(worker'.todo[k], sent'[sessions'[worker'.key].owner])
  PROVE  EarnedInv'
<1>1. ASSUME NEW i \in Ids, sessions'[i].live, NEW k \in DOMAIN sessions'[i].finding.signals
      PROVE  Earned(sessions'[i].finding.signals[k], sent'[sessions'[i].owner])
  <2>1. CASE Same(i)
    <3>1. PICK c \in Conns : c = sessions[i].owner /\ c = sessions'[i].owner
      BY <1>1, <2>1 DEF Same, IInv, SessionInv, OwnFinding
    <3>2. PICK x : x = sessions[i].finding.signals[k] /\ x = sessions'[i].finding.signals[k]
      BY <2>1 DEF Same
    <3>3. Earned(x, sent[c])
      BY <1>1, <2>1, <3>1, <3>2 DEF EarnedInv, Same
    <3>4. PICK text, more : text = sent[c] /\ more = sent'[c] /\ Longer(text, more)
      BY <3>1
    <3>5. Earned(x, more)
      BY <3>3, <3>4, EarnedLater
    <3> QED
      BY <3>1, <3>2, <3>4, <3>5
  <2>2. CASE sessions'[i].finding = NoFinding
    <3>1. NoFinding.signals = <<>> /\ DOMAIN <<>> = {}
      BY DEF NoFinding
    <3> QED
      BY <1>1, <2>2, <3>1
  <2> QED
    BY <2>1, <2>2
<1> QED
  BY <1>1 DEF EarnedInv

\* The worker, if it is not done, goes on with what it had.
LEMMA WorkStill ==
  ASSUME IInv, EarnedInv, ~missed, \A c \in Conns : Longer(sent[c], sent'[c]),
         worker' = worker, worker.pc # "idle" => \A i \in Ids : Same(i)
  PROVE  worker'.pc # "idle" => \A k \in DOMAIN worker'.todo :
           Earned(worker'.todo[k], sent'[sessions'[worker'.key].owner])
<1> SUFFICES ASSUME worker.pc # "idle", NEW k \in DOMAIN worker.todo
             PROVE  Earned(worker.todo[k], sent'[sessions'[worker.key].owner])
  OBVIOUS
<1>1. PICK i \in Ids : i = worker.key /\ sessions[i].live /\ Same(i)
  BY DEF IInv, WorkInv
<1>2. PICK c \in Conns : c = sessions[i].owner /\ c = sessions'[i].owner
  BY <1>1 DEF Same, IInv, SessionInv, OwnFinding
<1>3. PICK x : x = worker.todo[k]
  OBVIOUS
<1>4. Earned(x, sent[c])
  BY <1>1, <1>2, <1>3 DEF EarnedInv
<1>5. PICK text, more : text = sent[c] /\ more = sent'[c] /\ Longer(text, more)
  BY <1>2
<1>6. Earned(x, more)
  BY <1>4, <1>5, EarnedLater
<1> QED
  BY <1>1, <1>2, <1>3, <1>5, <1>6

\* What occurs in the end of a text that is followed by more occurs in all of it.
LEMMA OccursInAll ==
  ASSUME NEW X, NEW p \in Seq(X), NEW buffer \in Seq(Byte), NEW text \in Seq(Byte), NEW rest \in Seq(Byte),
         NEW all \in Seq(Byte), Ends(buffer, text), Ends(text \o rest, all), Occurs(p, buffer)
  PROVE  Occurs(p, all)
<1>1. PICK u \in Seq(Byte) : text = u \o buffer
  BY DEF Ends
<1>2. Occurs(p, text)
  BY <1>1, OccursLater
<1>3. PICK both \in Seq(Byte) : both = text \o rest
  BY ConcatProperties
<1>4. Occurs(p, both)
  BY <1>2, <1>3, OccursLater
<1>5. PICK v \in Seq(Byte) : all = v \o both
  BY <1>3 DEF Ends
<1> QED
  BY <1>4, <1>5, OccursLater

LEMMA TakeChunkEarns ==
  ASSUME IInv, XInv, XInv', EarnedInv, ~missed, TakeChunk
  PROVE  EarnedInv'
<1>0. Types /\ Types'
  <2>1. IInv'
    BY TakeChunkStep
  <2> QED
    BY <2>1 DEF IInv
<1>1. PICK e \in Events : e = Head(queue) /\ e.conn \in Conns /\ e.conn[2] \in Ids
  BY <1>0, HeadType, Zenon DEF TakeChunk
<1>2. PICK i \in Ids : i = e.conn[2]
  BY <1>1
<1> DEFINE s == IF sessions[i].live THEN sessions[i] ELSE NewSession(e)
           bs == Buffered(s.buffers, e.dir, e.data, config.bufferBytes)
<1>3. /\ sessions' = [sessions EXCEPT ![i] = [s EXCEPT !.buffers = bs]]
      /\ worker' = WithSignals(i, Signalled(s.matched, e.dir, bs[e.dir]))
      /\ UNCHANGED <<missed, sent, config>>
  BY <1>1, <1>2, Zenon DEF TakeChunk, ConnFrame
<1>4. s \in Session /\ s.live
  <2>1. sessions[i] \in Session
    BY <1>0 DEF Types
  <2>2. NewSession(e) \in Session /\ NewSession(e).live
    BY <1>1, NoSessionType
  <2> QED
    BY <2>1, <2>2
<1>5. PICK matched : matched = s.matched
  OBVIOUS
<1>6. PICK dir \in Dirs : dir = e.dir
  BY DEF Events
<1> HIDE DEF s, bs
<1>7. PICK text : text = bs[dir]
  OBVIOUS
<1>8. PICK todo : todo = Signalled(matched, dir, text)
  OBVIOUS
<1>9. /\ sessions'[i].buffers = bs /\ sessions'[i].live /\ worker' = WithSignals(i, todo)
  <2>1. sessions'[i] = [s EXCEPT !.buffers = bs]
    BY <1>0, <1>3 DEF Types
  <2> QED
    BY <1>3, <1>4, <1>5, <1>6, <1>7, <1>8, <2>1 DEF Session
<1>10. PICK c \in Conns : c = sessions'[i].owner
  <2>1. IInv'
    BY TakeChunkStep
  <2> QED
    BY <1>9, <2>1 DEF IInv, SessionInv, OwnFinding
<1>11. PICK all, stream2, q : all = sent'[c] /\ stream2 = stream'[i] /\ q = queue'
  OBVIOUS
<1>12. /\ text \in Seq(Byte) /\ stream2[dir] \in Seq(Byte) /\ all[dir] \in Seq(Byte)
       /\ Ends(text, stream2[dir]) /\ q \in Seq(Events)
       /\ Ends(stream2[dir] \o Carried(q, c, dir), all[dir])
  <2>1. Streamed(i)' /\ HistoryType'
    BY <1>3 DEF XInv
  <2>2. stream'[i] \in Texts /\ sent'[c] \in Texts
    BY <2>1 DEF HistoryType
  <2>3. Ends(bs[dir], stream'[i][dir])
    BY <1>9, <2>1 DEF Streamed
  <2>4. Reaches(stream'[i], c, queue', sent'[c])
    BY <1>9, <1>10, <2>1 DEF Streamed
  <2>5. bs[dir] \in Seq(Byte)
    BY <1>0, <1>9 DEF Types, Session
  <2>6. queue' \in Seq(Events)
    BY <1>0 DEF Types
  <2> QED
    BY <1>7, <1>11, <2>2, <2>3, <2>4, <2>5, <2>6 DEF Reaches, Texts
<1>13. Carried(q, c, dir) \in Seq(Byte)
  BY <1>12, CarriedType, Zenon
<1>14. config \in Configs /\ todo \in Seq(Signals)
  BY <1>0, <1>8, SignalledFound DEF Types
<1>15. ASSUME NEW k \in DOMAIN todo PROVE Earned(todo[k], all)
  <2>1. PICK d \in ToSet(config.detectors) :
          /\ Looks(d, dir) /\ Occurs(d.pattern, text)
          /\ todo[k] = [id |-> d.id, score |-> d.score]
    BY <1>8, <1>14, SignalledFound
  <2>2. d \in AllDetectors /\ d.pattern \in Seq(ToSet(d.pattern))
    BY <1>14, DetectorIs
  <2>3. PICK rest, came, end : /\ rest = Carried(q, c, dir) /\ came = stream2[dir] /\ end = all[dir]
                               /\ rest \in Seq(Byte)
    BY <1>13
  <2>4. Occurs(d.pattern, end)
    BY <1>12, <2>1, <2>2, <2>3, OccursInAll
  <2>5. Came(d, all)
    BY <2>1, <2>3, <2>4 DEF Came
  <2> QED
    BY <2>1, <2>2, <2>5 DEF Earned
<1>16. worker'.pc # "idle" => worker'.key = i /\ worker'.todo = todo
  BY <1>9, <1>14, WithSignalsIs
<1>17. worker'.pc # "idle" => \A k \in DOMAIN worker'.todo :
         Earned(worker'.todo[k], sent'[sessions'[worker'.key].owner])
  BY <1>10, <1>11, <1>15, <1>16
<1>18. \A j \in Ids : Same(j) \/ sessions'[j].finding = NoFinding
  BY TakeQuiet DEF Quiet, Moves
<1> QED
  BY <1>3, <1>17, <1>18, SentStill, EarnedStill

LEMMA AddSignalEarns ==
  ASSUME IInv, XInv, EarnedInv, ~missed, AddSignal
  PROVE  EarnedInv'
<1>1. PICK i \in Ids, f \in Finding, x \in Signals, pin \in BOOLEAN : Adds(i, f, x, pin)
  BY AddSignalIs
<1>2. PICK s \in Session : s = sessions[i]
  BY <1>1 DEF Adds
<1>3. PICK todo \in Seq(Signals) : todo = worker.todo
  BY DEF IInv, Types, Work
<1>4. /\ worker.pc = "signal" /\ worker.key = i /\ todo # <<>> /\ x = Head(todo)
      /\ s.live /\ s.owner \in Conns /\ f.signals = Append(s.finding.signals, x)
      /\ sessions' = [sessions EXCEPT ![i] =
           [s EXCEPT !.finding = f, !.matched = s.matched \cup {x.id}]]
      /\ worker' = IF f.id = 0 THEN WithSignals(i, Tail(todo))
                   ELSE [pc |-> "hook", key |-> i, todo |-> Tail(todo),
                         mark |-> [owner |-> s.owner, score |-> f.score, pin |-> pin]]
      /\ UNCHANGED <<missed, sent>>
  BY <1>1, <1>2, <1>3 DEF Adds
<1>5. PICK c, text : c = s.owner /\ text = sent[c]
  OBVIOUS
<1>6. /\ sessions'[i].finding = f /\ sessions'[i].owner = c
      /\ \A j \in Ids \ {i} : sessions'[j] = sessions[j]
  <2>1. sessions \in [Ids -> Session]
    BY DEF IInv, Types
  <2>2. sessions'[i] = [s EXCEPT !.finding = f, !.matched = s.matched \cup {x.id}]
    BY <1>4, <2>1
  <2> QED
    BY <1>4, <1>5, <2>1, <2>2 DEF Session
<1>7. /\ \A k \in DOMAIN todo : Earned(todo[k], text)
      /\ \A k \in DOMAIN s.finding.signals : Earned(s.finding.signals[k], text)
  BY <1>2, <1>3, <1>4, <1>5 DEF EarnedInv
<1>8. Earned(x, text) /\ \A k \in DOMAIN Tail(todo) : Earned(Tail(todo)[k], text)
  <2>1. /\ DOMAIN todo = 1..Len(todo) /\ Len(todo) \in Nat \ {0} /\ Head(todo) = todo[1]
        /\ DOMAIN Tail(todo) = 1..(Len(todo) - 1)
        /\ \A k \in 1..(Len(todo) - 1) : Tail(todo)[k] = todo[k + 1]
    BY <1>4
  <2>2. 1 \in DOMAIN todo
    BY <2>1
  <2>3. ASSUME NEW k \in DOMAIN Tail(todo) PROVE \E m \in DOMAIN todo : Tail(todo)[k] = todo[m]
    <3>1. k + 1 \in DOMAIN todo /\ Tail(todo)[k] = todo[k + 1]
      BY <2>1
    <3> QED
      BY <3>1
  <2> QED
    BY <1>4, <1>7, <2>1, <2>2, <2>3
<1>9. ASSUME NEW k \in DOMAIN f.signals PROVE Earned(f.signals[k], text)
  <2>1. PICK old \in Seq(Signals) : old = s.finding.signals
    BY DEF Session, Finding
  <2>2. f.signals = Append(old, x)
    BY <1>4, <2>1
  <2>3. f.signals[k] = x \/ (k \in DOMAIN old /\ f.signals[k] = old[k])
    BY <2>1, <2>2
  <2> QED
    BY <1>7, <1>8, <2>1, <2>3
<1>10. worker'.pc # "idle" => worker'.key = i /\ worker'.todo = Tail(todo)
  <2>1. PICK rest \in Seq(Signals) : rest = Tail(todo)
    <3>1. Tail(todo) \in Seq(Signals)
      BY <1>4
    <3> QED
      BY <3>1
  <2>2. CASE f.id = 0
    <3>1. worker' = WithSignals(i, rest)
      BY <1>4, <2>1, <2>2
    <3>2. worker'.pc # "idle" => worker'.key = i /\ worker'.todo = rest
      BY <3>1, WithSignalsIs
    <3> QED
      BY <2>1, <3>2
  <2>3. CASE f.id # 0
    BY <1>4, <2>3
  <2> QED
    BY <2>2, <2>3
<1>11. ASSUME NEW j \in Ids, sessions'[j].live, NEW k \in DOMAIN sessions'[j].finding.signals
       PROVE  Earned(sessions'[j].finding.signals[k], sent'[sessions'[j].owner])
  <2>1. CASE j = i
    BY <1>4, <1>5, <1>6, <1>9, <1>11, <2>1
  <2>2. CASE j # i
    BY <1>4, <1>6, <1>11, <2>2 DEF EarnedInv
  <2> QED
    BY <2>1, <2>2
<1>12. worker'.pc # "idle" => \A k \in DOMAIN worker'.todo :
         Earned(worker'.todo[k], sent'[sessions'[worker'.key].owner])
  BY <1>4, <1>5, <1>6, <1>8, <1>10
<1> QED
  BY <1>11, <1>12 DEF EarnedInv

LEMMA NextEarned == IInv /\ XInv /\ XInv' /\ EarnedInv /\ [Next]_vars => EarnedInv'
<1> SUFFICES ASSUME IInv, XInv, XInv', EarnedInv, [Next]_vars, ~missed' PROVE EarnedInv'
  BY DEF EarnedInv
<1>0. Types /\ WorkInv
  BY DEF IInv
<1>1. ASSUME NEW e \in Events, Enqueue(e) PROVE EarnedInv'
  <2>1. UNCHANGED <<sessions, worker>> /\ \A i \in Ids : Same(i)
    BY <1>1 DEF Enqueue, engine, Same
  <2>2. ~missed /\ \A c \in Conns : Longer(sent[c], sent'[c])
    BY <1>1, SentLater
  <2> QED
    BY <2>1, <2>2, WorkStill, EarnedStill
<1>2. ASSUME Quiet, UNCHANGED worker PROVE EarnedInv'
  <2>1. /\ \A i \in Ids : Same(i) \/ sessions'[i].finding = NoFinding
        /\ worker.pc # "idle" => \A i \in Ids : Same(i)
        /\ ~missed /\ sent' = sent
    BY <1>2 DEF Quiet, Moves, Idle
  <2> QED
    BY <1>2, <2>1, SentStill, WorkStill, EarnedStill
<1>3. ASSUME TakeBegin PROVE EarnedInv'
  <2>1. PICK i \in Ids : i = Head(queue).conn[2]
    BY <1>0, <1>3, HeadType DEF TakeBegin
  <2>2. PICK todo : todo \in {<<>>, <<BurstSignal>>} /\ worker' = WithSignals(i, todo)
    BY <1>3, <2>1 DEF TakeBegin
  <2>3. todo \in Seq(Signals) /\ \A k \in DOMAIN todo : todo[k] = BurstSignal
    <3>1. BurstSignal \in Signals
      BY DEF Signals
    <3>2. PICK x \in Signals : x = BurstSignal
      BY <3>1
    <3>3. <<x>> \in Seq(Signals) /\ \A k \in DOMAIN <<x>> : <<x>>[k] = x
      OBVIOUS
    <3>4. CASE todo = <<>>
      <4>1. todo \in Seq(Signals) /\ DOMAIN todo = {}
        BY <3>4
      <4> QED
        BY <4>1
    <3>5. CASE todo = <<x>>
      BY <3>2, <3>3, <3>5
    <3> QED
      BY <2>2, <3>2, <3>4, <3>5
  <2>4. worker'.pc # "idle" => worker'.todo = todo
    BY <2>2, <2>3, WithSignalsIs
  <2>5. /\ \A j \in Ids : Same(j) \/ sessions'[j].finding = NoFinding
        /\ ~missed /\ sent' = sent
    BY <1>3, TakeQuiet DEF Quiet, Moves
  <2>6. worker'.pc # "idle" => \A k \in DOMAIN worker'.todo :
          Earned(worker'.todo[k], sent'[sessions'[worker'.key].owner])
    BY <2>3, <2>4 DEF Earned
  <2> QED
    BY <2>5, <2>6, SentStill, EarnedStill
<1>4. ASSUME TakeEnd PROVE EarnedInv'
  BY <1>2, <1>4, TakeQuiet DEF TakeEnd
<1>5. ASSUME TakeChunk PROVE EarnedInv'
  <2>1. ~missed
    BY <1>5, TakeQuiet DEF Quiet
  <2> QED
    BY <1>5, <2>1, TakeChunkEarns
<1>6. ASSUME Hook PROVE EarnedInv'
  <2>1. /\ worker.pc = "hook" /\ worker.key \in Ids /\ worker.todo \in Seq(Signals)
        /\ worker' = WithSignals(worker.key, worker.todo)
        /\ UNCHANGED <<sessions, missed, sent>>
    BY <1>0, <1>6 DEF Hook, WorkInv, Types, Work, ConnFrame
  <2>2. worker'.pc # "idle" => worker'.key = worker.key /\ worker'.todo = worker.todo
    BY <2>1, WithSignalsIs
  <2> QED
    BY <2>1, <2>2 DEF EarnedInv
<1>7. ASSUME AddSignal PROVE EarnedInv'
  BY <1>7, AddSignalEarns, Zenon DEF AddSignal, ConnFrame
<1>8. ASSUME NEW i \in Ids, Connect(i) PROVE EarnedInv'
  <2>1. PICK c \in Conns : Enqueue(Event("begin", c, NoChunk))
    BY <1>0, <1>8 DEF Connect, Types, Conns
  <2> QED
    BY <1>1, <2>1, EventType
<1>9. ASSUME NEW c \in Conns, Finish(c) PROVE EarnedInv'
  BY <1>1, <1>9, EventType DEF Finish
<1>10. ASSUME NEW c \in Conns, NEW ch \in Chunks, Send(c, ch) PROVE EarnedInv'
  BY <1>1, <1>10, EventType DEF Send
<1>11. ASSUME Replace PROVE EarnedInv'
  BY <1>11 DEF Replace, engine, EarnedInv
<1>12. ASSUME ClearFindings \/ (\E i \in Ids : Evict(i)) \/ UNCHANGED vars PROVE EarnedInv'
  BY <1>2, <1>12, OtherQuiet
<1> QED
  BY <1>2, <1>3, <1>4, <1>5, <1>6, <1>7, <1>8, <1>9, <1>10, <1>11, <1>12, CleanupQuiet, ConfigureQuiet
     DEF Next

-----------------------------------------------------------------------------
(* While the worker keeps up, captures are rated for their own connections. *)

Rated(cap, text) ==
  cap.kept => /\ cap.risk <= Worth(text)
              /\ cap.pinned => \E x \in Configs : x.autoPinScore <= Worth(text)

PromptInv == ~missed /\ ~lagged =>
  /\ \A k \in DOMAIN queue : queue[k].conn[1] = epoch
  /\ worker.pc # "idle" => sessions[worker.key].owner[1] = epoch
  /\ \A i \in Ids : Rated(capture[i], sent[<<epoch, i>>])

LEMMA RatedLater ==
  ASSUME NEW cap \in Capture, NEW text, NEW more, Longer(text, more), Rated(cap, text)
  PROVE  Rated(cap, more)
<1>1. PICK t, u : t \in 25..100 /\ u \in 25..100 /\ t <= u /\ t = Worth(text) /\ u = Worth(more)
  BY WorthGrows
<1>2. ASSUME cap.kept PROVE cap.risk <= u
  <2>1. cap.risk <= t /\ cap.risk \in 0..100
    BY <1>1, <1>2 DEF Rated, Capture
  <2> QED
    BY <1>1, <2>1
<1>3. ASSUME cap.kept, cap.pinned PROVE \E x \in Configs : x.autoPinScore <= u
  <2>1. PICK x \in Configs : x.autoPinScore <= t
    BY <1>1, <1>3 DEF Rated
  <2>2. x.autoPinScore \in 1..100
    BY DetectorAssumption
  <2>3. x.autoPinScore <= u
    BY <1>1, <2>1, <2>2
  <2> QED
    BY <2>3
<1> QED
  BY <1>1, <1>2, <1>3 DEF Rated

\* A capture that is new, or that is gone.
LEMMA RatedNew ==
  ASSUME NEW cap, NEW text \in Texts, cap.kept => ~cap.pinned /\ cap.risk = 0
  PROVE  Rated(cap, text)
<1>1. Worth(text) \in 25..100
  BY LongerSelf, WorthGrows
<1> QED
  BY <1>1 DEF Rated

LEMMA PromptStill ==
  ASSUME IInv, XInv', PromptInv, ~missed, ~missed', ~lagged, epoch' = epoch,
         \A c \in Conns : Longer(sent[c], sent'[c]),
         \A k \in DOMAIN queue' : queue'[k].conn[1] = epoch,
         worker'.pc # "idle" => sessions'[worker'.key].owner[1] = epoch,
         \A i \in Ids : \/ capture'[i] = capture[i]
                        \/ capture'[i].kept => ~capture'[i].pinned /\ capture'[i].risk = 0
  PROVE  PromptInv'
<1>1. ASSUME NEW i \in Ids PROVE Rated(capture'[i], sent'[<<epoch, i>>])
  <2>1. PICK c \in Conns : c = <<epoch, i>>
    BY DEF IInv, Types, Conns
  <2>2. PICK cap, new, text, more : /\ cap = capture[i] /\ new = capture'[i]
                                    /\ text = sent[c] /\ more = sent'[c] /\ Longer(text, more)
    BY <2>1
  <2>3. CASE new = cap
    <3>1. cap \in Capture
      BY <2>2 DEF IInv, Types
    <3>2. Rated(cap, text)
      BY <2>1, <2>2 DEF PromptInv
    <3> QED
      BY <2>1, <2>2, <2>3, <3>1, <3>2, RatedLater
  <2>4. CASE new.kept => ~new.pinned /\ new.risk = 0
    <3>1. more \in Texts
      BY <2>2 DEF Longer
    <3> QED
      BY <2>1, <2>2, <2>4, <3>1, RatedNew
  <2> QED
    BY <2>2, <2>3, <2>4
<1> QED
  BY <1>1 DEF PromptInv

LEMMA EnqueuePrompt ==
  ASSUME IInv, XInv, XInv', PromptInv, ~missed', ~lagged', lagged' = lagged, epoch' = epoch,
         NEW e \in Events, Enqueue(e), ~missed => e.conn[1] = epoch,
         \A i \in Ids : \/ capture'[i] = capture[i]
                        \/ capture'[i].kept => ~capture'[i].pinned /\ capture'[i].risk = 0
  PROVE  PromptInv'
<1>1. ~missed /\ \A c \in Conns : Longer(sent[c], sent'[c])
  BY SentLater
<1>2. /\ queue \in Seq(Events) /\ DOMAIN queue = 1..Len(queue) /\ Len(queue) \in Nat
      /\ UNCHANGED <<sessions, worker>> /\ (queue' = queue \/ queue' = Append(queue, e))
  BY DEF IInv, Types, Enqueue, engine
<1>3. \A k \in DOMAIN queue' : queue'[k] = e \/ (k \in DOMAIN queue /\ queue'[k] = queue[k])
  BY <1>2
<1>4. \A k \in DOMAIN queue' : queue'[k].conn[1] = epoch
  BY <1>1, <1>3 DEF PromptInv
<1>5. worker'.pc # "idle" => sessions'[worker'.key].owner[1] = epoch
  BY <1>1, <1>2 DEF PromptInv
<1> QED
  BY <1>1, <1>4, <1>5, PromptStill

LEMMA QuietPrompt ==
  ASSUME IInv, XInv, XInv', PromptInv, Quiet, ~missed', ~lagged',
         UNCHANGED worker \/ (worker'.pc # "idle" => sessions'[worker'.key].owner[1] = epoch),
         \A i \in Ids : \/ capture'[i] = capture[i]
                        \/ capture'[i].kept => ~capture'[i].pinned /\ capture'[i].risk = 0
  PROVE  PromptInv'
<1>1. ~missed /\ ~lagged /\ epoch' = epoch /\ sent' = sent
  BY DEF Quiet
<1>2. \A k \in DOMAIN queue' : queue'[k].conn[1] = epoch
  BY <1>1 DEF Quiet, PromptInv
<1>3. worker'.pc # "idle" => sessions'[worker'.key].owner[1] = epoch
  <2>1. ASSUME UNCHANGED worker, worker.pc # "idle" PROVE sessions'[worker.key].owner[1] = epoch
    <3>1. worker.key \in Ids /\ worker # Idle
      BY <2>1 DEF IInv, WorkInv, Idle
    <3>2. Same(worker.key)
      BY <3>1 DEF Quiet
    <3> QED
      BY <1>1, <2>1, <3>2 DEF Same, PromptInv
  <2> QED
    BY <2>1
<1> QED
  BY <1>1, <1>2, <1>3, SentStill, PromptStill

LEMMA TakeOwner ==
  ASSUME IInv, XInv, ~missed, TakeBegin \/ TakeChunk
  PROVE  worker'.pc # "idle" => sessions'[worker'.key].owner = Head(queue).conn
<1>0. Types /\ queue # <<>>
  BY Zenon DEF IInv, TakeBegin, TakeChunk
<1>1. PICK e \in Events : e = Head(queue) /\ e.conn \in Conns /\ e.conn[2] \in Ids
  BY <1>0, HeadType
<1>2. PICK i \in Ids : i = e.conn[2]
  BY <1>1
<1>3. NewSession(e) \in Session /\ NewSession(e).owner = e.conn
  BY <1>1, NoSessionType
<1>4. sessions'[i].owner = e.conn
  <2>1. CASE TakeBegin
    BY <1>0, <1>1, <1>2, <1>3, <2>1 DEF TakeBegin, BegunSession, Types
  <2>2. CASE TakeChunk
    <3> DEFINE s == IF sessions[i].live THEN sessions[i] ELSE NewSession(e)
               buffers == Buffered(s.buffers, e.dir, e.data, config.bufferBytes)
    <3>1. sessions' = [sessions EXCEPT ![i] = [s EXCEPT !.buffers = buffers]] /\ e.kind = "chunk"
      BY <1>1, <1>2, <2>2, Zenon DEF TakeChunk
    <3>2. sessions[i].live => sessions[i].owner = e.conn
      BY <1>0, <1>1, <1>2, <3>1, ChunkFinds
    <3>3. s \in Session /\ s.owner = e.conn
      BY <1>0, <1>3, <3>2 DEF Types
    <3> HIDE DEF s, buffers
    <3>4. sessions'[i] = [s EXCEPT !.buffers = buffers]
      BY <1>0, <3>1 DEF Types
    <3> QED
      BY <3>3, <3>4 DEF Session
  <2> QED
    BY <2>1, <2>2
<1>5. worker'.pc # "idle" => worker'.key = i
  <2>1. PICK todo : worker' = WithSignals(i, todo)
    BY <1>1, <1>2, Zenon DEF TakeBegin, TakeChunk
  <2>2. Idle.pc = "idle" /\ [Idle EXCEPT !.pc = "signal", !.key = i, !.todo = todo].key = i
    BY DEF Idle
  <2> QED
    BY <2>1, <2>2 DEF WithSignals
<1> QED
  BY <1>1, <1>4, <1>5

\* A finding never scores more than its connection is worth.
LEMMA FindingIsDeserved ==
  ASSUME IInv, EarnedInv, ~missed, NEW i \in Ids, sessions[i].live
  PROVE  sessions[i].finding.score <= Worth(sent[sessions[i].owner])
<1>1. PICK f \in Finding : f = sessions[i].finding /\ Sound(f)
  BY DEF IInv, Types, Session, SessionInv, OwnFinding
<1>2. PICK signals \in Seq(Signals) : signals = f.signals /\ Distinct(signals) /\ f.score = Scored(signals)
  BY <1>1 DEF Finding, Sound
<1>3. PICK text : text = sent[sessions[i].owner]
  OBVIOUS
<1>4. \A k \in DOMAIN signals : Earned(signals[k], text)
  BY <1>1, <1>2, <1>3 DEF EarnedInv
<1>5. Scored(signals) <= Worth(text)
  BY <1>2, <1>4, ScoredIsDeserved
<1> QED
  BY <1>1, <1>2, <1>3, <1>5

\* The hook rates the capture of the connection that the finding is of.
LEMMA HookPrompt ==
  ASSUME IInv, XInv, MarkInv, EarnedInv, PromptInv, Hook, ~missed, ~lagged
  PROVE  PromptInv'
<1>0. Types /\ WorkInv /\ worker.pc = "hook"
  BY DEF IInv, Hook
<1>m. PICK m : m = worker.mark
  OBVIOUS
<1>1. PICK j \in Ids, f \in Finding, c \in Conns :
        /\ j = worker.key /\ f = sessions[j].finding /\ c = sessions[j].owner /\ m = worker.mark
        /\ sessions[j].live
  BY <1>0, <1>m DEF WorkInv, Types, Session, IInv, SessionInv, OwnFinding
<1>2. m.owner = c /\ m.score = f.score /\ (m.pin => \E x \in Configs : x.autoPinScore <= f.score)
  BY <1>0, <1>1 DEF MarkInv, Marked
<1>3. /\ UNCHANGED <<epoch, missed, lagged, sent, queue, sessions>>
      /\ worker' = WithSignals(worker.key, worker.todo) /\ worker.todo \in Seq(Signals)
  BY <1>0 DEF Hook, ConnFrame, Types, Work
<1>4. PICK i \in Ids :
        /\ i = m.owner[2] /\ \A k \in Ids \ {i} : capture'[k] = capture[k]
        /\ capture'[i].kept = capture[i].kept
        /\ ~capture[i].kept => capture'[i] = capture[i]
        /\ capture[i].kept =>
             /\ capture'[i].risk = IF m.score > capture[i].risk THEN m.score ELSE capture[i].risk
             /\ capture'[i].pinned <=> capture[i].pinned \/ m.pin
  BY <1>0, <1>1, HookIs
<1>5. c = <<epoch, i>>
  <2>1. c[1] = epoch
    BY <1>0, <1>1 DEF PromptInv
  <2>2. c[2] = i
    BY <1>2, <1>4
  <2>3. c = <<c[1], c[2]>>
    BY DEF Conns
  <2> QED
    BY <2>1, <2>2, <2>3, Zenon
<1>6. PICK text \in Texts, w \in 25..100 : text = sent[c] /\ w = Worth(text) /\ f.score <= w
  <2>1. PICK text \in Texts : text = sent[c]
    BY <1>1 DEF XInv, HistoryType
  <2>2. f.score <= Worth(text)
    BY <1>1, <2>1, FindingIsDeserved
  <2>3. Worth(text) \in 25..100
    BY LongerSelf, WorthGrows
  <2> QED
    BY <2>1, <2>2, <2>3
<1>7. Rated(capture[i], text)
  BY <1>5, <1>6 DEF PromptInv
<1>8. ASSUME capture'[i].kept PROVE Rated(capture'[i], text)
  <2>1. /\ capture[i].kept
        /\ capture'[i].risk = IF f.score > capture[i].risk THEN f.score ELSE capture[i].risk
        /\ capture'[i].pinned <=> capture[i].pinned \/ m.pin
    BY <1>2, <1>4, <1>8
  <2>2. /\ capture[i].risk <= w
        /\ capture[i].pinned => \E x \in Configs : x.autoPinScore <= w
    BY <1>6, <1>7, <2>1 DEF Rated
  <2>3. capture'[i].risk <= w
    BY <1>6, <2>1, <2>2
  <2>4. ASSUME m.pin PROVE \E x \in Configs : x.autoPinScore <= w
    <3>1. PICK x \in Configs : x.autoPinScore <= f.score
      BY <1>2, <2>4
    <3>2. x.autoPinScore \in 1..100 /\ f.score \in 0..100
      BY DetectorAssumption DEF Finding
    <3>3. x.autoPinScore <= w
      BY <1>6, <3>1, <3>2
    <3> QED
      BY <3>3
  <2> QED
    BY <1>6, <2>1, <2>2, <2>3, <2>4 DEF Rated
<1>9. Rated(capture'[i], text)
  BY <1>8 DEF Rated
<1>10. \A k \in Ids : Rated(capture'[k], sent[<<epoch, k>>])
  <2>1. ASSUME NEW k \in Ids PROVE Rated(capture'[k], sent[<<epoch, k>>])
    <3>1. CASE k = i
      BY <1>5, <1>6, <1>9, <3>1
    <3>2. CASE k # i
      BY <1>4, <3>2 DEF PromptInv
    <3> QED
      BY <3>1, <3>2
  <2> QED
    BY <2>1
<1>11. worker'.pc # "idle" => worker'.key = worker.key
  BY <1>1, <1>3, WithSignalsIs
<1>12. worker'.pc # "idle" => sessions'[worker'.key].owner[1] = epoch
  BY <1>0, <1>3, <1>11 DEF PromptInv
<1> QED
  BY <1>3, <1>10, <1>12 DEF PromptInv

LEMMA AddSignalPrompt ==
  ASSUME IInv, XInv, XInv', PromptInv, AddSignal, ~missed, ~lagged
  PROVE  PromptInv'
<1>1. PICK i \in Ids, f \in Finding, x \in Signals, pin \in BOOLEAN : Adds(i, f, x, pin)
  BY AddSignalIs
<1>2. PICK s \in Session : s = sessions[i]
  BY DEF IInv, Types
<1>3. /\ worker.pc = "signal" /\ worker.key = i
      /\ sessions' = [sessions EXCEPT ![i] = [s EXCEPT !.finding = f, !.matched = s.matched \cup {x.id}]]
      /\ worker' = IF f.id = 0 THEN WithSignals(i, Tail(worker.todo))
                   ELSE [pc |-> "hook", key |-> i, todo |-> Tail(worker.todo),
                         mark |-> [owner |-> s.owner, score |-> f.score, pin |-> pin]]
      /\ UNCHANGED <<epoch, missed, lagged, sent, capture, queue>>
      /\ worker.todo # <<>>
  BY <1>1, <1>2 DEF Adds
<1>4. sessions'[i].owner = s.owner
  BY <1>2, <1>3 DEF IInv, Types, Session
<1>5. worker'.pc # "idle" => worker'.key = i
  <2>1. CASE f.id = 0
    <3>1. PICK todo \in Seq(Signals) : todo = worker.todo
      BY DEF IInv, Types, Work
    <3>2. PICK rest \in Seq(Signals) : rest = Tail(worker.todo)
      <4>1. Tail(todo) \in Seq(Signals)
        BY <1>3, <3>1
      <4> QED
        BY <3>1, <4>1
    <3>3. worker' = WithSignals(i, rest)
      BY <1>3, <2>1, <3>2
    <3> QED
      BY <3>3, WithSignalsIs
  <2>2. CASE f.id # 0
    BY <1>3, <2>2
  <2> QED
    BY <2>1, <2>2
<1>6. worker'.pc # "idle" => sessions'[worker'.key].owner[1] = epoch
  BY <1>2, <1>3, <1>4, <1>5 DEF PromptInv
<1>7. \A k \in DOMAIN queue' : queue'[k].conn[1] = epoch
  BY <1>3 DEF PromptInv
<1> QED
  BY <1>3, <1>6, <1>7, SentStill, PromptStill

\* The next rule object has no capture yet.
LEMMA ReplacePrompt ==
  ASSUME IInv, XInv', Replace, ~missed'
  PROVE  PromptInv'
<1>1. /\ ~lagged' => queue = <<>> /\ worker = Idle
      /\ UNCHANGED <<queue, worker>> /\ capture' = [i \in Ids |-> NoCapture]
      /\ epoch' \in Epochs
  BY DEF Replace, engine
<1>2. ASSUME NEW i \in Ids PROVE Rated(capture'[i], sent'[<<epoch', i>>])
  <2>1. ~capture'[i].kept
    BY <1>1 DEF NoCapture
  <2> QED
    BY <2>1 DEF Rated
<1>3. Idle.pc = "idle" /\ DOMAIN <<>> = {}
  BY DEF Idle
<1> QED
  BY <1>1, <1>2, <1>3 DEF PromptInv

LEMMA NextPrompt ==
  IInv /\ XInv /\ XInv' /\ BegunInv /\ MarkInv /\ EarnedInv /\ PromptInv /\ [Next]_vars => PromptInv'
<1> SUFFICES ASSUME IInv, XInv, XInv', BegunInv, MarkInv, EarnedInv, PromptInv, [Next]_vars,
                    ~missed', ~lagged'
             PROVE  PromptInv'
  BY DEF PromptInv
<1>0. Types
  BY DEF IInv
<1>1. ASSUME NEW kind, NEW c \in Conns, NEW ch, NEW e \in Events, e = Event(kind, c, ch), Enqueue(e),
             c[1] = epoch, lagged' = lagged, epoch' = epoch, capture' = capture
      PROVE  PromptInv'
  <2>1. e.conn[1] = epoch
    BY <1>1 DEF Event
  <2> QED
    BY <1>1, <2>1, EnqueuePrompt
<1>2. ASSUME NEW c \in Conns, Sending(c), ~missed PROVE c[1] = epoch
  BY <1>2 DEF XInv, OrderInv
<1>3. ASSUME NEW i \in Ids, Connect(i) PROVE PromptInv'
  <2>1. /\ <<epoch, i>> \in Conns
        /\ capture'[i].kept /\ ~capture'[i].pinned /\ capture'[i].risk = 0
        /\ \A j \in Ids \ {i} : capture'[j] = capture[j]
    BY <1>0, <1>3, ConnectB
  <2>2. PICK c \in Conns : Enqueue(Event("begin", c, NoChunk)) /\ c[1] = epoch
    BY <1>3, <2>1 DEF Connect
  <2>3. PICK e \in Events : e = Event("begin", c, NoChunk)
    BY EventType
  <2>4. e.conn[1] = epoch
    BY <2>2, <2>3 DEF Event
  <2>5. lagged' = lagged /\ epoch' = epoch
    BY <1>3 DEF Connect
  <2>6. \A j \in Ids : \/ capture'[j] = capture[j]
                       \/ capture'[j].kept => ~capture'[j].pinned /\ capture'[j].risk = 0
    BY <2>1
  <2> QED
    BY <2>2, <2>3, <2>4, <2>5, <2>6, EnqueuePrompt
<1>4. ASSUME NEW c \in Conns, NEW ch \in Chunks, Send(c, ch) PROVE PromptInv'
  <2>1. PICK e \in Events : e = Event("chunk", c, ch)
    BY EventType
  <2>2. Enqueue(e) /\ UNCHANGED <<epoch, capture, lagged>> /\ Sending(c)
    BY <1>4, <2>1 DEF Send, Sending
  <2>3. ~missed
    BY <2>2, SentLater
  <2> QED
    BY <1>1, <1>2, <2>1, <2>2, <2>3
<1>5. ASSUME NEW c \in Conns, Finish(c) PROVE PromptInv'
  <2>1. PICK e \in Events : e = Event("end", c, NoChunk)
    BY EventType
  <2>2. Enqueue(e) /\ UNCHANGED <<epoch, capture, lagged>> /\ Sending(c)
    BY <1>5, <2>1 DEF Finish, Sending
  <2>3. ~missed
    BY <2>2, SentLater
  <2> QED
    BY <1>1, <1>2, <2>1, <2>2, <2>3
<1>6. ASSUME NEW i \in Ids, Evict(i) PROVE PromptInv'
  <2>1. Quiet /\ UNCHANGED worker
    BY <1>6, OtherQuiet
  <2>2. \A j \in Ids : capture'[j] = capture[j] \/ ~capture'[j].kept
    BY <1>0, <1>6, EvictIs DEF NoCapture
  <2> QED
    BY <2>1, <2>2, QuietPrompt
<1>7. ASSUME Quiet, UNCHANGED worker, capture' = capture PROVE PromptInv'
  BY <1>7, QuietPrompt
<1>8. ASSUME TakeBegin \/ TakeChunk PROVE PromptInv'
  <2>1. Quiet /\ capture' = capture /\ ~missed /\ ~lagged
    BY <1>8, TakeQuiet DEF Quiet
  <2>2. queue # <<>> /\ queue' = Tail(queue)
    BY <1>8, Zenon DEF TakeBegin, TakeChunk
  <2>3. Head(queue).conn[1] = epoch
    BY <1>0, <2>1, <2>2, QueueTail DEF PromptInv
  <2>4. worker'.pc # "idle" => sessions'[worker'.key].owner[1] = epoch
    BY <1>8, <2>1, <2>3, TakeOwner
  <2> QED
    BY <2>1, <2>4, QuietPrompt
<1>9. ASSUME TakeEnd PROVE PromptInv'
  BY <1>7, <1>9, TakeQuiet DEF TakeEnd
<1>10. ASSUME ClearFindings \/ UNCHANGED vars PROVE PromptInv'
  <2>1. Quiet /\ UNCHANGED worker
    BY <1>10, OtherQuiet
  <2>2. capture' = capture
    BY <1>10 DEF ClearFindings, vars
  <2> QED
    BY <1>7, <2>1, <2>2
<1>11. ASSUME Hook PROVE PromptInv'
  BY <1>11, HookPrompt DEF Hook, ConnFrame
<1>12. ASSUME AddSignal PROVE PromptInv'
  BY <1>12, AddSignalPrompt, Zenon DEF AddSignal, ConnFrame
<1>13. ASSUME NEW gone \in SUBSET Ids, NEW n \in 0..recent, Cleanup(gone, n) PROVE PromptInv'
  BY <1>7, <1>13, CleanupQuiet
<1>14. ASSUME NEW c \in Configs, Configure(c) PROVE PromptInv'
  BY <1>7, <1>14, ConfigureQuiet
<1>15. ASSUME Replace PROVE PromptInv'
  BY <1>15, ReplacePrompt
<1> QED
  BY <1>3, <1>4, <1>5, <1>6, <1>8, <1>9, <1>10, <1>11, <1>12, <1>13, <1>14, <1>15 DEF Next

LEMMA InitPrompt == Init => EarnedInv /\ PromptInv
<1> SUFFICES ASSUME Init PROVE EarnedInv /\ PromptInv
  OBVIOUS
<1>1. /\ queue = <<>> /\ worker = Idle /\ sessions = [i \in Ids |-> NoSession]
      /\ capture = [i \in Ids |-> NoCapture]
  BY DEF Init
<1>2. worker.pc = "idle" /\ DOMAIN queue = {}
  BY <1>1 DEF Idle
<1>3. \A i \in Ids : ~sessions[i].live /\ ~capture[i].kept
  BY <1>1 DEF NoSession, NoCapture
<1> QED
  BY <1>2, <1>3 DEF EarnedInv, PromptInv, Rated

\* Only a rule that said so when the connection began has its capture pinned.
PinnedInv ==
  /\ worker.pc = "hook" /\ worker.mark.pin => worker.mark.owner \in AutoPin
  /\ ~missed /\ ~lagged => \A i \in Ids : capture[i].pinned => <<epoch, i>> \in AutoPin

LEMMA PinnedStill ==
  ASSUME PinnedInv, worker'.pc = "hook" => UNCHANGED worker,
         ~missed' /\ ~lagged' => ~missed /\ ~lagged,
         \A i \in Ids : ~capture'[i].pinned \/ (epoch' = epoch /\ capture'[i] = capture[i])
  PROVE  PinnedInv'
BY DEF PinnedInv

LEMMA HookPinned ==
  ASSUME IInv, PromptInv, MarkInv, PinnedInv, Hook
  PROVE  PinnedInv'
<1>1. /\ Types /\ WorkInv /\ worker.pc = "hook" /\ UNCHANGED <<epoch, missed, lagged>>
      /\ worker' = WithSignals(worker.key, worker.todo) /\ worker.todo \in Seq(Signals)
  BY DEF IInv, Hook, ConnFrame, Types, Work
<1>2. worker'.pc # "hook"
  <2>1. worker.key \in Ids
    BY <1>1 DEF WorkInv
  <2> QED
    BY <1>1, <2>1, WithSignalsIs
<1>3. PICK i \in Ids :
        /\ i = worker.mark.owner[2] /\ worker.mark.owner \in Conns
        /\ \A j \in Ids \ {i} : capture'[j] = capture[j]
        /\ capture'[i].pinned => capture[i].pinned \/ worker.mark.pin
  BY <1>1, HookIs
<1>4. ASSUME ~missed, ~lagged, worker.mark.pin PROVE <<epoch, i>> \in AutoPin
  <2>1. worker.mark.owner[1] = epoch
    BY <1>1, <1>4 DEF PromptInv, MarkInv
  <2>2. worker.mark.owner = <<epoch, i>>
    BY <1>3, <2>1 DEF Conns
  <2> QED
    BY <1>1, <1>4, <2>2 DEF PinnedInv
<1> QED
  BY <1>1, <1>2, <1>3, <1>4 DEF PinnedInv

LEMMA NextPinned ==
  IInv /\ BegunInv /\ MarkInv /\ PromptInv /\ PinnedInv /\ [Next]_vars => PinnedInv'
<1> SUFFICES ASSUME IInv, BegunInv, MarkInv, PromptInv, PinnedInv, [Next]_vars PROVE PinnedInv'
  OBVIOUS
<1>0. Types
  BY DEF IInv
<1>1. ASSUME Quiet, UNCHANGED capture, worker'.pc = "hook" => UNCHANGED worker PROVE PinnedInv'
  BY <1>1, PinnedStill DEF Quiet
<1>2. ASSUME NEW e, Enqueue(e), UNCHANGED <<epoch, capture, lagged>> PROVE PinnedInv'
  BY <1>2, PinnedStill DEF Enqueue, engine
<1>3. ASSUME NEW i \in Ids, Connect(i) PROVE PinnedInv'
  <2>1. ~capture'[i].pinned /\ (\A j \in Ids \ {i} : capture'[j] = capture[j]) /\ UNCHANGED <<epoch, lagged>>
    BY <1>0, <1>3, ConnectB DEF Connect
  <2>2. UNCHANGED worker /\ (~missed' => ~missed)
    BY <1>3 DEF Connect, Enqueue, engine
  <2> QED
    BY <2>1, <2>2, PinnedStill
<1>4. ASSUME NEW c \in Conns, Finish(c) PROVE PinnedInv'
  BY <1>2, <1>4 DEF Finish
<1>5. ASSUME NEW c \in Conns, NEW ch \in Chunks, Send(c, ch) PROVE PinnedInv'
  BY <1>2, <1>5 DEF Send
<1>6. ASSUME NEW i \in Ids, Evict(i) PROVE PinnedInv'
  <2>1. Quiet /\ UNCHANGED worker
    BY <1>6, OtherQuiet
  <2>2. \A j \in Ids : capture'[j] = capture[j] \/ ~capture'[j].pinned
    BY <1>0, <1>6, EvictIs DEF NoCapture
  <2> QED
    BY <2>1, <2>2, PinnedStill DEF Quiet
<1>7. ASSUME Replace PROVE PinnedInv'
  <2>1. /\ \A i \in Ids : ~capture'[i].pinned
        /\ ~lagged' => ~lagged
        /\ UNCHANGED <<worker, missed>>
    BY <1>7 DEF Replace, NoCapture, engine
  <2> QED
    BY <2>1, PinnedStill
<1>8. ASSUME TakeBegin \/ TakeEnd \/ TakeChunk PROVE PinnedInv'
  BY <1>1, <1>8, TakeQuiet
<1>9. ASSUME AddSignal PROVE PinnedInv'
  <2>1. PICK i \in Ids, f \in Finding, x \in Signals, pin \in BOOLEAN : Adds(i, f, x, pin)
    BY <1>9, AddSignalIs
  <2>2. PICK s : s = sessions[i]
    OBVIOUS
  <2>3. /\ UNCHANGED <<epoch, missed, lagged, capture>>
        /\ worker.todo \in Seq(Signals) /\ worker.todo # <<>>
        /\ pin => s.owner \in AutoPin
        /\ worker' = IF f.id = 0 THEN WithSignals(i, Tail(worker.todo))
                     ELSE [pc |-> "hook", key |-> i, todo |-> Tail(worker.todo),
                           mark |-> [owner |-> s.owner, score |-> f.score, pin |-> pin]]
    BY <1>0, <2>1, <2>2 DEF Adds, Types, Work
  <2>4. worker'.pc = "hook" /\ worker'.mark.pin => worker'.mark.owner \in AutoPin
    <3>1. CASE f.id = 0
      <4>1. PICK todo \in Seq(Signals) : todo = worker.todo
        BY <2>3
      <4>2. PICK rest \in Seq(Signals) : rest = Tail(worker.todo)
        <5>1. Tail(todo) \in Seq(Signals)
          BY <2>3, <4>1
        <5> QED
          BY <4>1, <5>1
      <4>3. worker' = WithSignals(i, rest)
        BY <2>3, <3>1, <4>2
      <4> QED
        BY <4>3, WithSignalsIs
    <3>2. CASE f.id # 0
      BY <2>3, <3>2
    <3> QED
      BY <3>1, <3>2
  <2> QED
    BY <2>3, <2>4 DEF PinnedInv
<1>10. ASSUME Hook PROVE PinnedInv'
  BY <1>10, HookPinned
<1>11. ASSUME NEW gone \in SUBSET Ids, NEW n \in 0..recent, Cleanup(gone, n) PROVE PinnedInv'
  BY <1>1, <1>11, CleanupQuiet
<1>12. ASSUME NEW c \in Configs, Configure(c) PROVE PinnedInv'
  BY <1>1, <1>12, ConfigureQuiet
<1>13. ASSUME ClearFindings \/ UNCHANGED vars PROVE PinnedInv'
  <2>1. Quiet /\ UNCHANGED worker
    BY <1>13, OtherQuiet
  <2>2. UNCHANGED capture
    BY <1>13 DEF ClearFindings, vars
  <2> QED
    BY <1>1, <2>1, <2>2
<1> QED
  BY <1>3, <1>4, <1>5, <1>6, <1>7, <1>8, <1>9, <1>10, <1>11, <1>12, <1>13 DEF Next

LEMMA InitPinned == Init => PinnedInv
BY DEF Init, PinnedInv, Idle, NoCapture

PInv ==
  IInv /\ XInv /\ BegunInv /\ MarkInv /\ SettledInv /\ EarnedInv /\ PromptInv /\ PinnedInv

LEMMA InvarianceP == Spec => []PInv
<1>1. Init => PInv
  BY InitInv, InitX, InitB, InitPins, InitPrompt, InitPinned DEF PInv
<1>2. PInv /\ [Next]_vars => PInv'
  <2> SUFFICES ASSUME PInv, [Next]_vars PROVE PInv'
    OBVIOUS
  <2>1. IInv' /\ XInv' /\ BegunInv'
    BY NextInv, NextX, NextB DEF PInv
  <2>2. MarkInv' /\ SettledInv'
    BY NextPins DEF PInv
  <2>3. EarnedInv' /\ PromptInv' /\ PinnedInv'
    BY <2>1, NextEarned, NextPrompt, NextPinned DEF PInv
  <2> QED
    BY <2>1, <2>2, <2>3 DEF PInv
<1> QED
  BY <1>1, <1>2, PTL DEF Spec

\* As long as no event is lost and the rule is not replaced behind the worker's
\* back, a capture is never rated higher, nor pinned, for more than its own
\* connection sent; and an idle worker has overlooked no finding (addSignal and
\* the hook of NewManager): for any number of connections and rule objects, and
\* whatever is evicted, cleared or reconfigured meanwhile.
THEOREM PinsAreAlwaysDeserved == Spec => []PinsAreDeserved
<1>1. ASSUME PInv PROVE PinsAreDeserved
  <2> SUFFICES ASSUME ~missed, ~lagged, NEW i \in Ids, capture[i].kept, NEW c, c = <<epoch, i>>
               PROVE  /\ capture[i].risk <= Deserved(c)
                      /\ capture[i].pinned =>
                           c \in AutoPin /\ \E x \in Configs : x.autoPinScore <= Deserved(c)
                      /\ worker = Idle => \A k \in DOMAIN findings : findings[k].owner = c =>
                           /\ /\ c \in AutoPin
                              /\ \A x \in Configs : x.autoPinScore <= findings[k].score
                              => capture[i].pinned
                           /\ findings[k].score <= capture[i].risk
    BY DEF PinsAreDeserved
  <2>1. Deserved(c) = Worth(sent[c])
    BY DEF Deserved, Worth
  <2>2. Rated(capture[i], sent[c])
    BY <1>1 DEF PInv, PromptInv
  <2>p. capture[i].pinned => c \in AutoPin
    BY <1>1 DEF PInv, PinnedInv
  <2>3. ASSUME worker = Idle, NEW k \in DOMAIN findings, findings[k].owner = c
        PROVE  /\ /\ c \in AutoPin
                  /\ \A x \in Configs : x.autoPinScore <= findings[k].score
                  => capture[i].pinned
               /\ findings[k].score <= capture[i].risk
    <3>1. findings[k].id # 0
      <4>1. findings \in Seq(Finding) /\ sequence \in Nat /\ Len(findings) <= sequence
        BY <1>1 DEF PInv, IInv, Types, ListInv
      <4>2. k \in 1..Len(findings) /\ Len(findings) \in Nat /\ findings[k].id = sequence - k + 1
        BY <1>1, <2>3, <4>1 DEF PInv, IInv, ListInv
      <4> QED
        BY <4>1, <4>2
    <3>2. Settled(findings[k], capture, epoch)
      BY <1>1, <2>3 DEF PInv, SettledInv, Idle
    <3> QED
      BY <2>3, <3>1, <3>2 DEF Settled, Claimed
  <2> QED
    BY <2>1, <2>2, <2>3, <2>p DEF Rated
<1> QED
  BY <1>1, InvarianceP, PTL

=============================================================================
