------------------------------ MODULE Recorder ------------------------------
(***************************************************************************)
(* The capture store of one rule (src/internal/proxy/dump.go).  The two    *)
(* pipes of every connection write to it, operators resize, clear and pin  *)
(* it, and the detector's hook marks findings in it, each under            *)
(* Recorder.mu, in any order.  A byte is its position in the stream of its *)
(* connection and direction, and the list of captures, oldest first, is    *)
(* their order by token; what a search or a copy returns is not modelled.  *)
(***************************************************************************)
EXTENDS Integers, SequencesExt

CONSTANTS
  Conns,      \* connection ids, each begun once (connSeq)
  Udp,        \* those whose writes are datagrams
  Limits,     \* pairs [conns, bytes] that NewRecorder and Resize are given
  MaxChunks,  \* maxDumpChunks
  MaxSent     \* bound on the bytes a connection sends in one direction

Dirs == {"in", "out"}

ASSUME RecorderAssumption ==
  /\ Udp \subseteq Conns
  /\ Limits \subseteq [conns : Nat \ {0}, bytes : Nat \ {0}]
  /\ MaxChunks \in Nat \ {0} /\ MaxSent \in Nat

VARIABLES
  limits,   \* maxConns, maxBytesPer
  sequence, \* the last token given
  dumps,    \* the captures that are kept, by their token
  active,   \* the tokens of the captures a writer may still reach
  writer,   \* connection -> its token; 0 before Begin, -1 for a nil writer
  sent      \* connection -> direction -> bytes passed on while it was recorded

vars == <<limits, sequence, dumps, active, writer, sent>>

Zero == [d \in Dirs |-> 0]

Init ==
  /\ limits \in Limits
  /\ sequence = 0 /\ dumps = <<>> /\ active = {}
  /\ writer = [k \in Conns |-> 0]
  /\ sent = [k \in Conns |-> Zero]

-----------------------------------------------------------------------------
Tokens == DOMAIN dumps
Places == Cardinality(Tokens)

\* Faulty: a pin does not protect.
All == Tokens
Unpinned == {t \in Tokens : ~dumps[t].pinned}

\* The first of those that may go, so many times evictOldestUnpinned.
Oldest(gone, n) ==
  /\ Cardinality(gone) = n
  /\ \A t \in gone, u \in Unpinned \ gone : t < u

Without(tokens) == [t \in Tokens \ tokens |-> dumps[t]]

NewDump(k) ==
  [id |-> k, pinned |-> FALSE, closed |-> FALSE, chunks |-> <<>>,
   written |-> Zero, total |-> Zero, cut |-> {}, full |-> FALSE]

\* Faulty: the new token is not kept.
CapturedUncounted(k, evicted) ==
  LET token == sequence + 1
  IN  /\ UNCHANGED sequence
      /\ dumps' = [t \in (Tokens \ evicted) \cup {token} |->
                     IF t = token THEN NewDump(k) ELSE dumps[t]]
      /\ active' = (active \ evicted) \cup {token}
      /\ writer' = [writer EXCEPT ![k] = token]

\* BeginProtocol: the oldest unpinned capture gives way; if every place is
\* pinned the connection is not captured.  (connSeq never repeats, so there is
\* no capture of the same id to replace.)
Captured(k, evicted) ==
  LET token == sequence + 1
  IN  /\ sequence' = token
      /\ dumps' = [t \in (Tokens \ evicted) \cup {token} |->
                     IF t = token THEN NewDump(k) ELSE dumps[t]]
      /\ active' = (active \ evicted) \cup {token}
      /\ writer' = [writer EXCEPT ![k] = token]

BeginProtocol(k) ==
  /\ writer[k] = 0
  /\ \/ Places < limits.conns /\ Captured(k, {})
     \/ /\ Places >= limits.conns
        /\ \E gone \in SUBSET Unpinned : Oldest(gone, 1) /\ Captured(k, gone)
     \/ /\ Places >= limits.conns /\ Unpinned = {}
        /\ writer' = [writer EXCEPT ![k] = -1]
        /\ UNCHANGED <<sequence, dumps, active>>
  /\ UNCHANGED <<limits, sent>>

-----------------------------------------------------------------------------
\* The next n bytes of a stream, from position from + 1.
Bytes(k, dir, from, n) == [i \in 1..n |-> <<k, dir, from + i>>]

\* Where the write appends: to the last chunk if it has the same direction
\* and is no datagram, else in a new chunk.
Joins(d, dir) ==
  /\ d.id \notin Udp
  /\ d.chunks # <<>> /\ Last(d.chunks).dir = dir

Extended(d, dir, data) ==
  IF Joins(d, dir)
  THEN [d.chunks EXCEPT ![Len(d.chunks)].data = @ \o data]
  ELSE Append(d.chunks, [dir |-> dir, data |-> data])

\* The direction is cut off for good.
ClipUnmarked(d, dir) == d   \* faulty: nothing is marked
Clip(d, dir) == [d EXCEPT !.cut = @ \cup {dir}]

\* connWriter.write on the capture d.
Written(d, dir, data) ==
  LET room  == limits.bytes - d.written[dir]
      n     == IF room < Len(data) THEN room ELSE Len(data)
      seen  == [d EXCEPT !.total[dir] = @ + Len(data)]
      clips == IF n < Len(data) THEN Clip(seen, dir) ELSE seen
  IN  IF dir \in d.cut \/ d.full THEN seen
      ELSE IF n = 0 THEN clips
      ELSE IF ~Joins(d, dir) /\ Len(d.chunks) >= MaxChunks THEN [clips EXCEPT !.full = TRUE]
      ELSE [clips EXCEPT !.chunks = Extended(d, dir, SubSeq(data, 1, n)),
                         !.written[dir] = @ + n]

\* Through a token that is no longer active a write changes nothing.
Write(k, dir, n) ==
  /\ writer[k] \in active
  /\ sent[k][dir] + n <= MaxSent
  /\ sent' = [sent EXCEPT ![k][dir] = @ + n]
  /\ dumps' = [dumps EXCEPT ![writer[k]] = Written(@, dir, Bytes(k, dir, sent[k][dir], n))]
  /\ UNCHANGED <<limits, sequence, active, writer>>

\* Finish stores the totals its caller counted: all that was sent for TCP,
\* perhaps less for UDP, whose session counts after it writes.
Finish(k, in, out) ==
  /\ writer[k] \in active
  /\ k \notin Udp => in = sent[k]["in"] /\ out = sent[k]["out"]
  /\ dumps' = [dumps EXCEPT ![writer[k]] =
       [@ EXCEPT !.closed = TRUE, !.total = [d \in Dirs |-> IF d = "in" THEN in ELSE out]]]
  /\ active' = active \ {writer[k]}
  /\ UNCHANGED <<limits, sequence, writer, sent>>

-----------------------------------------------------------------------------
\* One more chunk c, of which as much is kept as the limit leaves room for.
Cut(acc, c, max) ==
  LET room == max - acc.written[c.dir]
      n    == IF Len(c.data) > room THEN room ELSE Len(c.data)
  IN  [chunks  |-> IF n = 0 THEN acc.chunks
                   ELSE Append(acc.chunks, [c EXCEPT !.data = SubSeq(@, 1, n)]),
       written |-> [acc.written EXCEPT ![c.dir] = @ + n],
       cut     |-> IF n < Len(c.data) THEN acc.cut \cup {c.dir} ELSE acc.cut]

\* What Resize keeps of a capture: the first max bytes of each direction.
Trim(d, max) ==
  LET upTo[i \in 0..Len(d.chunks)] ==
        IF i = 0 THEN [chunks |-> <<>>, written |-> Zero, cut |-> d.cut]
                 ELSE Cut(upTo[i - 1], d.chunks[i], max)
      kept == upTo[Len(d.chunks)]
  IN  IF \A dir \in Dirs : d.written[dir] <= max THEN d
      ELSE [d EXCEPT !.chunks = kept.chunks, !.written = kept.written, !.cut = kept.cut]

\* Refused if more captures are pinned than the new limit has places.
Resize(l) ==
  /\ Cardinality(Tokens \ Unpinned) <= l.conns
  /\ limits' = l
  /\ \E gone \in SUBSET Unpinned :
       /\ Oldest(gone, IF Places > l.conns THEN Places - l.conns ELSE 0)
       /\ dumps' = [t \in Tokens \ gone |-> Trim(dumps[t], l.bytes)]
       /\ active' = active \ gone
  /\ UNCHANGED <<sequence, writer, sent>>

SetPinned(k, pinned) ==
  /\ \E t \in Tokens : dumps[t].id = k /\ dumps' = [dumps EXCEPT ![t].pinned = pinned]
  /\ UNCHANGED <<limits, sequence, active, writer, sent>>

\* The detector's hook, at any time after the connection began; with AutoPin
\* it pins the capture, if there still is one.
MarkFinding(k) == SetPinned(k, TRUE)

\* Faulty: writers still reach what was cleared.
ClearDumpsOnly ==
  /\ dumps' = Without(Unpinned)
  /\ UNCHANGED <<limits, sequence, active, writer, sent>>

Clear ==
  /\ dumps' = Without(Unpinned)
  /\ active' = active \ Unpinned
  /\ UNCHANGED <<limits, sequence, writer, sent>>

Next ==
  \/ \E k \in Conns : BeginProtocol(k) \/ MarkFinding(k)
  \/ \E k \in Conns, dir \in Dirs, n \in 1..MaxSent : Write(k, dir, n)
  \/ \E k \in Conns : \E in \in 0..sent[k]["in"], out \in 0..sent[k]["out"] : Finish(k, in, out)
  \/ \E l \in Limits : Resize(l)
  \/ \E k \in Conns, pinned \in BOOLEAN : SetPinned(k, pinned)
  \/ Clear

Spec == Init /\ [][Next]_vars

-----------------------------------------------------------------------------
(* Properties.                                                              *)

\* The bytes that chunks hold of one direction, in order.
Joined(chunks, dir) ==
  LET upTo[i \in 0..Len(chunks)] ==
        IF i = 0 THEN <<>>
        ELSE upTo[i - 1] \o (IF chunks[i].dir = dir THEN chunks[i].data ELSE <<>>)
  IN  upTo[Len(chunks)]

Stored(d, dir) == Joined(d.chunks, dir)

\* Tokens are given in order, and every variable has its type.
TypeOK ==
  /\ limits \in Limits
  /\ sequence \in Nat
  /\ active \subseteq 1..sequence /\ Tokens \subseteq 1..sequence
  /\ writer \in [Conns -> -1..sequence]
  /\ sent \in [Conns -> [Dirs -> 0..MaxSent]]
  /\ \A t \in Tokens :
       /\ dumps[t].id \in Conns /\ dumps[t].pinned \in BOOLEAN
       /\ dumps[t].written \in [Dirs -> Nat] /\ dumps[t].total \in [Dirs -> Nat]
       /\ dumps[t].cut \subseteq Dirs

\* "Recorder stores at most maxConns records, each with at most maxBytesPer
\* bytes per direction and maxDumpChunks chunks" (dump.go:78-79), at once also
\* after the limits were lowered, and the counter it checks against is right.
\* A writer reaches exactly the captures that are kept and not finished:
\* evicted and cleared ones are released though their connections go on
\* (dump.go:80-81).
Bounded ==
  /\ active = {t \in Tokens : ~dumps[t].closed}
  /\ Places <= limits.conns
  /\ \A t \in Tokens :
       /\ Len(dumps[t].chunks) <= MaxChunks
       /\ \A dir \in Dirs :
            /\ dumps[t].written[dir] <= limits.bytes
            /\ Len(Stored(dumps[t], dir)) = dumps[t].written[dir]

\* What is stored of a direction is the beginning of its stream, without a gap
\* and with no byte of another connection, whatever order the two pipes, limit
\* changes and evictions come in (dump.go:101-102); and a capture that misses
\* bytes it was offered says so: its Truncated is set.
CapturesArePrefixes ==
  \A t \in Tokens : \A dir \in Dirs :
    LET d == dumps[t]
    IN  /\ Stored(d, dir) = Bytes(d.id, dir, 0, d.written[dir])
        /\ d.total[dir] > d.written[dir] => d.full \/ d.cut # {}

\* A pinned capture is never removed, by no limit, no new connection and no
\* Clear; and what was stored of any capture is only taken back by lowering
\* the byte limit.
CapturesAreKept ==
  [][/\ \A t \in Tokens : dumps[t].pinned => t \in Tokens'
     /\ limits'.bytes >= limits.bytes =>
          \A t \in Tokens \cap Tokens' : \A dir \in Dirs :
            IsPrefix(Stored(dumps[t], dir), Stored(dumps'[t], dir))]_vars

=============================================================================
