------------------------------ MODULE Detector ------------------------------
(***************************************************************************)
(* The traffic detector (src/internal/proxy/detect.go) with what feeds it  *)
(* (the handlers of rule.go and udp.go) and what it feeds: the hook of     *)
(* NewManager, which marks and pins captures.  Connections never wait for  *)
(* the detector: their events enter a bounded queue, or are dropped, and   *)
(* one worker draws them late, when the connection may be over and even    *)
(* its rule replaced by another object of the same ID.                     *)
(*                                                                         *)
(* One rule ID with all its rule objects, an epoch each, and one client    *)
(* host.  A byte is a member of a small set, a detector a text to look for *)
(* in the stream of a direction; the views a detector may ask for instead  *)
(* (headers, path, body, the decoded form) are functions of the same       *)
(* buffer, and excerpts and severities are wording.                        *)
(***************************************************************************)
EXTENDS Integers, SequencesExt

CONSTANTS
  Epochs,    \* 1..n: rule objects with the rule's ID, one after the other
  Ids,       \* connection ids one rule object gives
  MaxConns,  \* bound on the connections of all of them
  AutoPin,   \* the connections whose rule said so when they began
  Udp,       \* the connections that are sessions of datagrams
  Chunks,    \* pairs [dir, data] a connection may pass on
  MaxSent,   \* bound on the chunks of a connection
  MaxChanges, \* bound on evictions, idle sessions and acts of operators
  Configs,   \* settings Configure is given
  FirstConfig, \* those that NewDetectorEngine is given
  QueueSize, \* detectionQueueSize
  Burst      \* begins in the window that make a burst (20 in detectBurst)

Dirs == {"in", "out"}
Conns == Epochs \X Ids
Byte == UNION {ToSet(ch.data) : ch \in Chunks}

ASSUME DetectorAssumption ==
  /\ 1 \in Epochs /\ Epochs \cup Ids \subseteq Nat \ {0}
  /\ MaxConns \in Nat /\ MaxSent \in Nat /\ MaxChanges \in Nat
  /\ QueueSize \in Nat \ {0} /\ Burst \in Nat \ {0}
  /\ Udp \cup AutoPin \subseteq Conns
  /\ \A ch \in Chunks : ch.dir \in Dirs /\ ch.data \in Seq(Byte) /\ Len(ch.data) > 0
  /\ \E longest \in Chunks : \A ch \in Chunks : Len(ch.data) <= Len(longest.data)
  /\ FirstConfig \in Configs /\ IsFiniteSet(Configs)
  /\ \A c \in Configs :
       /\ c.enabled \in BOOLEAN /\ c.builtins \in BOOLEAN
       /\ c.threshold \in 1..100 /\ c.autoPinScore \in 1..100
       /\ c.maxFindings \in Nat \ {0} /\ c.bufferBytes \in Nat \ {0}
       /\ c.detectors \in Seq(ToSet(c.detectors))
       /\ \A d \in ToSet(c.detectors) :
            d.pattern \in Seq(ToSet(d.pattern)) /\ Len(d.pattern) > 0 /\ d.score \in 1..100

VARIABLES
  epoch,    \* the rule object Manager.rules names
  conn,     \* connection -> its step, the directions a chunk may still come
            \* from after the end, and the chunks it has passed on
  capture,  \* connection id -> its capture in the recorder of that rule object
  queue,    \* events
  config,   \* config and compiled
  sessions, \* connection id -> the worker's session for rule ID and id
  recent,   \* begins within the window of detectBurst
  findings, \* newest first
  sequence, \* the last finding ID given
  worker,   \* the goroutine: its step, the signals to add, the hook's arguments
  changes,  \* of those that MaxChanges bounds
  missed,   \* history: some event was dropped, or came while disabled
  lagged,   \* history: the rule was replaced before all its events were drawn
  sent,     \* history, until an event is missed: connection -> direction -> data
  stream    \* history, until an event is missed: id -> what its session was given

engine == <<config, recent, findings, sequence, worker>>
vars ==
  <<epoch, conn, capture, queue, sessions, engine, changes, missed, lagged, sent, stream>>

-----------------------------------------------------------------------------
Empty == [d \in Dirs |-> <<>>]
NoCapture == [kept |-> FALSE, pinned |-> FALSE, risk |-> 0]
NoFinding == [id |-> 0, owner |-> <<0, 0>>, signals |-> <<>>, score |-> 0, pinned |-> FALSE]
NoSession == [live |-> FALSE, owner |-> <<0, 0>>, buffers |-> Empty, matched |-> {},
              finding |-> NoFinding, steady |-> TRUE]
NoMark == [owner |-> <<0, 0>>, score |-> 0, pin |-> FALSE]
Idle == [pc |-> "idle", key |-> 0, todo |-> <<>>, mark |-> NoMark]

\* newDetectionSession.
NewSession(e) == [NoSession EXCEPT !.live = TRUE, !.owner = e.conn]

Init ==
  /\ epoch = 1
  /\ conn = [c \in Conns |-> [pc |-> "none", late |-> {}, chunks |-> 0]]
  /\ capture = [i \in Ids |-> NoCapture]
  /\ queue = <<>>
  /\ config = FirstConfig
  /\ sessions = [i \in Ids |-> NoSession]
  /\ recent = 0
  /\ findings = <<>> /\ sequence = 0
  /\ worker = Idle
  /\ changes = 0 /\ missed = FALSE /\ lagged = FALSE
  /\ sent = [c \in Conns |-> Empty] /\ stream = [i \in Ids |-> Empty]

-----------------------------------------------------------------------------
(* Connections, and their captures.                                         *)

Event(kind, c, ch) == [kind |-> kind, conn |-> c, dir |-> ch.dir, data |-> ch.data]
NoChunk == [dir |-> "in", data |-> <<>>]

\* Nobody waits for a place in the queue.
Enqueue(e) ==
  /\ IF config.enabled /\ Len(queue) < QueueSize
     THEN queue' = Append(queue, e) /\ UNCHANGED missed
     ELSE missed' = TRUE /\ UNCHANGED queue
  /\ sent' = IF missed' THEN [c \in Conns |-> Empty]
                        ELSE [sent EXCEPT ![e.conn][e.dir] = @ \o e.data]
  /\ stream' = IF missed' THEN [i \in Ids |-> Empty] ELSE stream
  /\ UNCHANGED <<sessions, engine, changes>>

Change == changes < MaxChanges /\ changes' = changes + 1

Begun == {c \in Conns : conn[c].pc # "none"}

\* A handler that has dialled, or the datagram loop: an id that is given once,
\* a capture (that the recorder may refuse one is an Evict at once), the begin
\* event.  Handlers have their ids before they dial, so that these events come
\* in any order, and that of a failed dial never does.
Connect(i) ==
  /\ conn[<<epoch, i>>].pc = "none" /\ Cardinality(Begun) < MaxConns
  /\ conn' = [conn EXCEPT ![<<epoch, i>>].pc = "open"]
  /\ capture' = [capture EXCEPT ![i].kept = TRUE]
  /\ Enqueue(Event("begin", <<epoch, i>>, NoChunk))
  /\ UNCHANGED <<epoch, lagged>>

\* A pipe, the datagram loop or a reply reader passes data on; the last two may
\* do so once more after the session's end.
Send(c, ch) ==
  /\ conn[c].pc = "open" \/ ch.dir \in conn[c].late
  /\ conn[c].chunks < MaxSent
  /\ conn' = [conn EXCEPT ![c].late = @ \ {ch.dir}, ![c].chunks = @ + 1]
  /\ Enqueue(Event("chunk", c, ch))
  /\ UNCHANGED <<epoch, capture, lagged>>

\* handle finishes when both pipes are done.  A session of datagrams is closed
\* by the loop, by its reader or by Stop, and whoever of the first two is not
\* the one may have written a datagram that it has yet to pass on.
Finish(c) ==
  /\ conn[c].pc = "open"
  /\ conn' = [conn EXCEPT ![c].pc = "ended", ![c].late = IF c \in Udp THEN Dirs ELSE {}]
  /\ Enqueue(Event("end", c, NoChunk))
  /\ UNCHANGED <<epoch, capture, lagged>>

\* For another connection, by a resize, or by an operator (Recorder).
Evict(i) ==
  /\ Change
  /\ capture[i].kept /\ ~capture[i].pinned
  /\ capture' = [capture EXCEPT ![i] = NoCapture]
  /\ UNCHANGED <<epoch, conn, queue, sessions, engine, missed, lagged, sent, stream>>

\* ReplaceSpecs: all connections of the old object are over, and Stop has waited
\* for whoever passes data on; the new object has a recorder of its own and
\* gives the same ids again.
Replace ==
  /\ epoch + 1 \in Epochs
  /\ \A c \in Conns : conn[c].pc # "open"
  /\ epoch' = epoch + 1
  /\ conn' = [c \in Conns |-> [conn[c] EXCEPT !.late = {}]]
  /\ capture' = [i \in Ids |-> NoCapture]
  /\ lagged' = (lagged \/ queue # <<>> \/ worker # Idle)
  /\ UNCHANGED <<queue, sessions, engine, changes, missed, sent, stream>>

-----------------------------------------------------------------------------
(* The worker.                                                              *)

LastBytes(s, n) == IF Len(s) > n THEN SubSeq(s, Len(s) - n + 1, Len(s)) ELSE s

Occurs(p, s) == \E i \in 0..(Len(s) - Len(p)) : SubSeq(s, i + 1, i + Len(p)) = p

Looks(d, dir) == d.dir \in {"any", dir}

BurstSignal == [id |-> "builtin-burst", score |-> 25]

ConnFrame == UNCHANGED <<epoch, conn, missed, lagged, sent>>

WithSignals(i, todo) ==
  IF todo = <<>> THEN Idle ELSE [Idle EXCEPT !.pc = "signal", !.key = i, !.todo = todo]

\* Faulty: a begin leaves a session of that key alone.
BegunUnlessLive(e) ==
  LET i == e.conn[2]
  IN  IF sessions[i].live THEN UNCHANGED <<sessions, stream>>
      ELSE /\ sessions' = [sessions EXCEPT ![i] = NewSession(e)]
           /\ stream' = [stream EXCEPT ![i] = Empty]

\* A session that is there is replaced.
BegunSession(e) ==
  /\ sessions' = [sessions EXCEPT ![e.conn[2]] = NewSession(e)]
  /\ stream' = [stream EXCEPT ![e.conn[2]] = Empty]

\* A burst is counted at the moments the events are drawn, and signals once.
\* More than Burst begins are not told apart from one more than it.
TakeBegin ==
  LET e == Head(queue)
      i == e.conn[2]
  IN  /\ worker = Idle /\ queue # <<>> /\ e.kind = "begin"
      /\ queue' = Tail(queue)
      /\ BegunSession(e)
      /\ recent' = IF config.builtins /\ recent <= Burst THEN recent + 1 ELSE recent
      /\ worker' = WithSignals(i, IF config.builtins /\ recent + 1 = Burst
                                  THEN <<BurstSignal>> ELSE <<>>)
      /\ ConnFrame /\ UNCHANGED <<changes, capture, config, findings, sequence>>

TakeEnd ==
  /\ worker = Idle /\ queue # <<>> /\ Head(queue).kind = "end"
  /\ queue' = Tail(queue)
  /\ sessions' = [sessions EXCEPT ![Head(queue).conn[2]] = NoSession]
  /\ stream' = [stream EXCEPT ![Head(queue).conn[2]] = Empty]
  /\ ConnFrame /\ UNCHANGED <<changes, capture, config, recent, findings, sequence, worker>>

\* Faulty: what came before is forgotten.
BufferedAlone(buffers, dir, data, n) == [buffers EXCEPT ![dir] = LastBytes(data, n)]

\* The buffers after data has come: the last bytes of each direction.
Buffered(buffers, dir, data, n) == [buffers EXCEPT ![dir] = LastBytes(@ \o data, n)]

\* The signals of the detectors whose text has come for the first time.  One
\* that bears the ID of another, as a user's may that of a builtin, is silent
\* once the other has signalled.
Signalled(matched, dir, text) ==
  LET upTo[k \in 0..Len(config.detectors)] ==
        IF k = 0 THEN <<>>
        ELSE LET d == config.detectors[k]
             IN  IF /\ d.id \notin matched \cup {x.id : x \in ToSet(upTo[k - 1])}
                    /\ Looks(d, dir) /\ Occurs(d.pattern, text)
                 THEN Append(upTo[k - 1], [id |-> d.id, score |-> d.score])
                 ELSE upTo[k - 1]
  IN  upTo[Len(config.detectors)]

\* inspectChunk, with the settings and detectors of this moment.
TakeChunk ==
  LET e == Head(queue)
      i == e.conn[2]
      s == IF sessions[i].live THEN sessions[i] ELSE NewSession(e)
      buffers == Buffered(s.buffers, e.dir, e.data, config.bufferBytes)
  IN  /\ worker = Idle /\ queue # <<>> /\ e.kind = "chunk"
      /\ queue' = Tail(queue)
      /\ sessions' = [sessions EXCEPT ![i] = [s EXCEPT !.buffers = buffers]]
      /\ stream' = IF missed THEN stream ELSE [stream EXCEPT ![i][e.dir] = @ \o e.data]
      /\ worker' = WithSignals(i, Signalled(s.matched, e.dir, buffers[e.dir]))
      /\ ConnFrame /\ UNCHANGED <<changes, capture, config, recent, findings, sequence>>

\* Faulty: the score has no limit.
RaisedFreely(score, by) == score + by

Raised(score, by) == IF score + by > 100 THEN 100 ELSE score + by

\* Faulty: only a finding that is pinned when it is made.
PinsAtOnce(s, f) == s.owner \in AutoPin /\ f.id # s.finding.id /\ f.score >= config.autoPinScore

\* Whether the finding, now f, has the capture pinned; it does so once.
Pins(s, f) == s.owner \in AutoPin /\ f.id # 0 /\ f.score >= config.autoPinScore /\ ~f.pinned

FirstOf(s, n) == IF Len(s) > n THEN SubSeq(s, 1, n) ELSE s

\* addSignal, up to its unlock: by the settings of this moment.  The list and
\* the session share the finding.
AddSignal ==
  LET s == sessions[worker.key]
      signal == Head(worker.todo)
      grown == [s.finding EXCEPT !.owner = s.owner, !.signals = Append(@, signal),
                                 !.score = Raised(@, signal.score)]
      created == grown.id = 0 /\ grown.score >= config.threshold
      known == IF created THEN [grown EXCEPT !.id = sequence + 1] ELSE grown
      pin == Pins(s, known)
      f == [known EXCEPT !.pinned = @ \/ pin]
      listed == [k \in DOMAIN findings |-> IF findings[k].id = f.id THEN f ELSE findings[k]]
  IN  /\ worker.pc = "signal"
      /\ UNCHANGED stream
      /\ sequence' = IF created THEN sequence + 1 ELSE sequence
      /\ findings' = IF created THEN FirstOf(<<f>> \o findings, config.maxFindings) ELSE listed
      /\ sessions' = [sessions EXCEPT ![worker.key].finding = f,
                                      ![worker.key].matched = @ \cup {signal.id}]
      /\ worker' = IF f.id = 0 THEN WithSignals(worker.key, Tail(worker.todo))
                   ELSE [pc |-> "hook", key |-> worker.key, todo |-> Tail(worker.todo),
                         mark |-> [owner |-> s.owner, score |-> f.score, pin |-> pin]]
      /\ ConnFrame /\ UNCHANGED <<changes, capture, queue, config, recent>>

\* The hook: the rule that has the ID by now marks its capture of that id.
Hook ==
  LET i == worker.mark.owner[2]
  IN  /\ worker.pc = "hook"
      /\ capture' = IF ~capture[i].kept THEN capture
                    ELSE [capture EXCEPT
                           ![i].risk = IF worker.mark.score > @ THEN worker.mark.score ELSE @,
                           ![i].pinned = @ \/ worker.mark.pin]
      /\ worker' = WithSignals(worker.key, worker.todo)
      /\ ConnFrame /\ UNCHANGED <<changes, stream, queue, config, sessions, recent, findings, sequence>>

\* The ticker: sessions that nothing came for in five minutes go, and so do
\* begins that have left the window.
Cleanup(gone, n) ==
  /\ worker = Idle
  /\ IF n < recent \/ \E i \in gone : sessions[i].live THEN Change ELSE UNCHANGED changes
  /\ sessions' = [i \in Ids |-> IF i \in gone THEN NoSession ELSE sessions[i]]
  /\ stream' = [i \in Ids |-> IF i \in gone THEN Empty ELSE stream[i]]
  /\ recent' = n
  /\ ConnFrame /\ UNCHANGED <<capture, queue, config, findings, sequence, worker>>

-----------------------------------------------------------------------------
(* Operators.                                                               *)

Unsettled(s) == IF s.live THEN [s EXCEPT !.steady = FALSE] ELSE s

\* Faulty: the findings stay as many as they were.
ConfigureOnly(c) ==
  /\ Change
  /\ config' = c
  /\ sessions' = [i \in Ids |-> Unsettled(sessions[i])]
  /\ ConnFrame /\ UNCHANGED <<stream, capture, queue, recent, findings, sequence, worker>>

Configure(c) ==
  /\ Change
  /\ config' = c
  /\ findings' = FirstOf(findings, c.maxFindings)
  /\ sessions' = [i \in Ids |-> Unsettled(sessions[i])]
  /\ ConnFrame /\ UNCHANGED <<stream, capture, queue, recent, sequence, worker>>

ClearFindings ==
  /\ Change
  /\ findings' = <<>>
  /\ ConnFrame /\ UNCHANGED <<stream, capture, queue, config, sessions, recent, sequence, worker>>

-----------------------------------------------------------------------------
Next ==
  \/ \E i \in Ids : Connect(i) \/ Evict(i)
  \/ \E c \in Conns : Finish(c) \/ \E ch \in Chunks : Send(c, ch)
  \/ Replace
  \/ TakeBegin \/ TakeEnd \/ TakeChunk \/ AddSignal \/ Hook
  \/ \E gone \in SUBSET Ids, n \in 0..recent : Cleanup(gone, n)
  \/ \E c \in Configs : Configure(c)
  \/ ClearFindings

Spec == Init /\ [][Next]_vars

-----------------------------------------------------------------------------
(* Properties.                                                              *)

AllDetectors == UNION {ToSet(c.detectors) : c \in Configs}

Signals == {BurstSignal} \cup
  {[id |-> d.id, score |-> d.score] : d \in AllDetectors}

Owners == Conns \cup {<<0, 0>>}

FindingType ==
  [id : 0..sequence, owner : Owners, signals : Seq(Signals), score : 0..100, pinned : BOOLEAN]

\* Every variable has its type; no score exceeds 100.
TypeOK ==
  /\ epoch \in Epochs /\ config \in Configs /\ recent \in 0..(Burst + 1) /\ sequence \in Nat
  /\ \A c \in Conns : conn[c].pc \in {"none", "open", "ended"} /\ conn[c].late \subseteq Dirs
  /\ capture \in [Ids -> [kept : BOOLEAN, pinned : BOOLEAN, risk : 0..100]]
  /\ Len(queue) <= QueueSize
  /\ \A k \in DOMAIN queue : queue[k].kind \in {"begin", "chunk", "end"} /\ queue[k].conn \in Conns
  /\ \A k \in DOMAIN findings : findings[k] \in FindingType
  /\ \A i \in Ids : sessions[i].owner \in Owners /\ sessions[i].finding \in FindingType
  /\ worker.pc \in {"idle", "signal", "hook"} /\ worker.todo \in Seq(Signals)
  /\ missed \in BOOLEAN /\ lagged \in BOOLEAN

\* What signals score together, one after the other.
Scored(signals) ==
  LET upTo[k \in 0..Len(signals)] ==
        IF k = 0 THEN 0 ELSE Raised(upTo[k - 1], signals[k].score)
  IN  upTo[Len(signals)]

\* What an operator reads is always the newest findings, no more than the
\* current limit, with no gap and no number given twice, whatever was cleared
\* or reconfigured while the worker held one of them; each is of one
\* connection, with every detector once in it, and its score is their sum, up
\* to 100 (addSignal, Configure, ClearFindings).  That a connection has one
\* finding at most is another matter: ScoresOncePerConnection.
FindingsAreSound ==
  /\ Len(findings) <= config.maxFindings
  /\ \A k \in DOMAIN findings :
       LET f == findings[k]
       IN  /\ f.id = sequence - k + 1 /\ f.owner \in Conns
           /\ \A m, n \in DOMAIN f.signals : f.signals[m].id = f.signals[n].id => m = n
           /\ f.score = Scored(f.signals)
           /\ \A i \in Ids : sessions[i].finding.id = f.id => sessions[i].finding = f

\* "Each detector adds points at most once per connection"
\* (docs/traffic-analysis.md:40): no two findings of a connection name the
\* same one.
ScoresOncePerConnection ==
  \A m, n \in DOMAIN findings :
    m # n /\ findings[m].owner = findings[n].owner =>
      \A x \in ToSet(findings[m].signals), y \in ToSet(findings[n].signals) : x.id # y.id

\* What the events of q carry of the data of c in a direction.
Carried(q, c, dir) ==
  LET upTo[k \in 0..Len(q)] ==
        IF k = 0 THEN <<>>
        ELSE IF q[k].kind = "chunk" /\ q[k].conn = c /\ q[k].dir = dir
             THEN upTo[k - 1] \o q[k].data
             ELSE upTo[k - 1]
  IN  upTo[Len(q)]

LongestChunk == CHOOSE n \in {Len(ch.data) : ch \in Chunks} :
                  \A ch \in Chunks : Len(ch.data) <= n

\* The text of d has come, in a direction it looks at.
Came(d, data) == \E dir \in Dirs : Looks(d, dir) /\ Occurs(d.pattern, data[dir])

\* While no event is lost, a session holds the data of one connection, in order
\* and by direction, also when its id is given again by the next rule object and
\* when datagrams come after the end; and between two events an ID has
\* signalled exactly if the text of a detector that bears it occurs in that
\* data, across chunks as within one (docs/traffic-analysis.md), provided the
\* buffer holds a text that begins before the longest chunk and ends in it.
InspectionIsExact ==
  ~missed => \A i \in Ids :
    LET s == sessions[i] IN s.live =>
      /\ \A dir \in Dirs :
           IsSuffix(stream[i][dir] \o Carried(queue, s.owner, dir), sent[s.owner][dir])
      /\ s.steady /\ worker = Idle => \A d \in ToSet(config.detectors) :
           /\ d.id \in s.matched =>
                \/ d.id = BurstSignal.id
                \/ \E e \in ToSet(config.detectors) : e.id = d.id /\ Came(e, stream[i])
           /\ Came(d, stream[i]) /\ LongestChunk + Len(d.pattern) - 1 <= config.bufferBytes
                => d.id \in s.matched

\* What detectors score together with a burst, in any order.
Together[ds \in SUBSET AllDetectors] ==
  IF ds = {} THEN BurstSignal.score
  ELSE LET d == CHOOSE d \in ds : TRUE IN Raised(Together[ds \ {d}], d.score)

\* The most that the data of a connection, and a burst, can score.
Deserved(c) == Together[{d \in AllDetectors : Came(d, sent[c])}]

\* The hook marks the capture of the connection the finding is of: a capture is
\* never rated higher, nor pinned, for more than its own connection sent, nor
\* pinned unless the rule said so when the connection began.  And
\* once the worker is idle again, no finding has been overlooked: the capture,
\* if it is still there, is rated no lower, and pinned if the rule says so and
\* the score reaches AutoPinScore, at once or signal by signal.  Both hold as
\* long as no event is lost and the rule is not replaced behind the worker's
\* back.
PinsAreDeserved ==
  ~missed /\ ~lagged => \A i \in Ids : capture[i].kept =>
    LET c == <<epoch, i>>
    IN  /\ capture[i].risk <= Deserved(c)
        /\ capture[i].pinned =>
             c \in AutoPin /\ \E x \in Configs : x.autoPinScore <= Deserved(c)
        /\ worker = Idle => \A k \in DOMAIN findings : findings[k].owner = c =>
             /\ /\ c \in AutoPin
                /\ \A x \in Configs : x.autoPinScore <= findings[k].score
                => capture[i].pinned
             /\ findings[k].score <= capture[i].risk

=============================================================================
