------------------------- MODULE UdpSessions_proofs -------------------------
(* What TLAPS proves of UdpSessions, for every number of clients, session   *)
(* slots, targets and limits.                                               *)
EXTENDS UdpSessions, FiniteSetTheorems, TLAPS

-----------------------------------------------------------------------------
(* The inductive invariant.                                                 *)

\* TypeOK without the claim that the counters stay above zero, which only
\* follows from SessionsAreCounted.
Types ==
  /\ running \in BOOLEAN /\ done \in BOOLEAN /\ listening \in BOOLEAN
  /\ stop \in {"none", "cancel", "closeSocket", "closeSessions", "wait"}
  /\ snap \subseteq Slots
  /\ wg \in Int /\ active \in Int
  /\ route \in Targets /\ limit \in Limits
  /\ table \in [Clients -> Slots \cup {None}]
  /\ session \in [Slots -> Sessions]
  /\ loop \in Loops

\* The loop holds a session of the client whose datagram it handles; the one it
\* is making has no reader yet, and once registered nobody can remove it before
\* it is counted.
LoopInv ==
  /\ loop.pc \in {"route", "dial", "register", "count", "touch", "write", "close"} =>
       loop.client \in Clients
  /\ loop.pc \in {"register", "count", "touch", "write", "close"} =>
       loop.s \in Slots /\ session[loop.s].client = loop.client
  /\ loop.pc \in {"register", "count"} => session[loop.s].reader = "none"
  /\ loop.pc = "count" => table[loop.client] = loop.s

\* A socket or a reader is some client's.
ClientInv ==
  \A s \in Slots :
    session[s].open \/ session[s].reader # "none" => session[s].client \in Clients

\* A stop knows every session in the table, and has closed it when it waits;
\* a rule that is stopped has nothing to wait for.
StopInv ==
  /\ stop # "none" => ~running
  /\ stop = "none" /\ ~running => wg = 0
  /\ stop \in {"cancel", "closeSocket", "closeSessions"} =>
       \A c \in Registered : table[c] \in snap
  /\ stop = "wait" => \A c \in Registered : ~session[table[c]].open

IInv ==
  /\ Types /\ LoopInv /\ ClientInv /\ StopInv
  /\ SessionsAreCounted /\ HaveReaders /\ OpenHaveOwner

-----------------------------------------------------------------------------
(* Types.                                                                   *)

ReaderLabels == {"none", "read", "reply", "expired", "remove", "close", "exit"}
LoopLabels ==
  {"none", "receive", "route", "dial", "register", "count", "touch", "write", "close"}

\* The empty session and the resting loop are of their types.
LEMMA RecordTypes == NoSession \in Sessions /\ AtRest \in Loops
<1> QED
  BY DEF NoSession, Sessions, AtRest, Loops

\* A session stays a session when its fields are assigned.
LEMMA SessionUpdate ==
  ASSUME NEW r \in Sessions
  PROVE  /\ [r EXCEPT !.open = FALSE] \in Sessions
         /\ \A a, b \in BOOLEAN : [r EXCEPT !.recent = a, !.expired = b] \in Sessions
         /\ \A l \in ReaderLabels :
              /\ [r EXCEPT !.reader = l] \in Sessions
              /\ [r EXCEPT !.open = FALSE, !.reader = l] \in Sessions
BY DEF Sessions, ReaderLabels

\* What its fields are.
LEMMA SessionFields ==
  ASSUME NEW r \in Sessions
  PROVE  /\ r.client \in Clients \cup {None} /\ r.target \in Targets \cup {None}
         /\ r.open \in BOOLEAN /\ r.recent \in BOOLEAN /\ r.expired \in BOOLEAN
         /\ r.reader \in ReaderLabels
BY DEF Sessions, ReaderLabels

\* The same of the loop.
LEMMA LoopUpdate ==
  ASSUME NEW r \in Loops
  PROVE  /\ \A l \in LoopLabels : [r EXCEPT !.pc = l] \in Loops
         /\ \A l \in LoopLabels, c \in Clients : [r EXCEPT !.pc = l, !.client = c] \in Loops
         /\ \A l \in LoopLabels, t \in Targets : [r EXCEPT !.pc = l, !.target = t] \in Loops
         /\ \A l \in LoopLabels, s \in Slots : [r EXCEPT !.pc = l, !.s = s] \in Loops
         /\ \A l \in LoopLabels, t \in Targets, s \in Slots :
              [r EXCEPT !.pc = l, !.target = t, !.s = s] \in Loops
BY DEF Loops, LoopLabels

\* removeUDPSession keeps the table a table.
LEMMA RemoveTypes ==
  ASSUME Types, NEW s \in Slots, Remove(s)
  PROVE  table' \in [Clients -> Slots \cup {None}] /\ active' \in Int
BY DEF Types, Remove

\* Every step keeps the types, apart from the sign of the counters.
LEMMA TypesStep ==
  ASSUME IInv, [Next]_vars
  PROVE  Types'
<1> USE UdpAssumption DEF Types, LoopFrame, ReaderFrame, ruleVars
<1>1. Types /\ LoopInv
  BY DEF IInv
<1>2. ASSUME Start PROVE Types'
  <2>1. wg' \in Int /\ loop' \in Loops
    <3>1. wg' \in Int
      BY <1>1, <1>2 DEF Start
    <3>2. loop' \in Loops
      BY <1>2, RecordTypes DEF Start
    <3> QED
      BY <3>1, <3>2
  <2> QED
    BY <1>1, <1>2, <2>1 DEF Start
<1>3. ASSUME StopBegin PROVE Types'
  <2>1. snap' \subseteq Slots
    BY <1>1, <1>3 DEF StopBegin, Registered
  <2> QED
    BY <1>1, <1>3, <2>1 DEF StopBegin
<1>4. ASSUME StopCancel \/ StopCloseSocket \/ StopReturns PROVE Types'
  BY <1>1, <1>4 DEF StopCancel, StopCloseSocket, StopReturns
<1>5. ASSUME StopCloseSessions PROVE Types'
  <2>1. session' \in [Slots -> Sessions]
    BY <1>1, <1>5, SessionUpdate DEF StopCloseSessions
  <2> QED
    BY <1>1, <1>5, <2>1 DEF StopCloseSessions
<1>6. ASSUME NEW t \in Targets, Reroute(t) PROVE Types'
  BY <1>1, <1>6 DEF Reroute
<1>7. ASSUME NEW m \in Limits, SetLimit(m) PROVE Types'
  BY <1>1, <1>7 DEF SetLimit
<1>8. ASSUME NEW c \in Clients, Receive(c) PROVE Types'
  BY <1>1, <1>8, LoopUpdate DEF Receive, LoopLabels
<1>9. ASSUME LoopEnds PROVE Types'
  <2>1. loop' \in Loops
    BY <1>1, <1>9, LoopUpdate DEF LoopEnds, LoopLabels
  <2> QED
    BY <1>1, <1>9, <2>1 DEF LoopEnds
<1>10. ASSUME DropLate \/ DialFails \/ Write PROVE Types'
  BY <1>1, <1>10, RecordTypes DEF DropLate, DialFails, Write
<1>11. ASSUME UseSession PROVE Types'
  <2>1. table[loop.client] \in Slots
    BY <1>1, <1>11 DEF UseSession, Current, LoopInv
  <2> QED
    BY <1>1, <1>11, <2>1, LoopUpdate DEF UseSession, LoopLabels
<1>12. ASSUME NeedSession PROVE Types'
  <2>1. loop.client \in Clients
    BY <1>1, <1>12 DEF NeedSession, LoopInv
  <2>2. loop' \in Loops
    BY <1>1, <1>12, RecordTypes, LoopUpdate DEF NeedSession, LoopLabels
  <2>3. session' \in [Slots -> Sessions] /\ active' \in Int
    <3>1. CASE table[loop.client] = None
      BY <1>1, <1>12, <3>1 DEF NeedSession
    <3>2. CASE table[loop.client] # None
      <4>1. table[loop.client] \in Slots
        BY <1>1, <2>1, <3>2
      <4>2. [session[table[loop.client]] EXCEPT !.open = FALSE] \in Sessions
        BY <1>1, <4>1, SessionUpdate
      <4> QED
        BY <1>1, <1>12, <3>2, <4>2 DEF NeedSession, Closed
    <3> QED
      BY <3>1, <3>2
  <2> QED
    BY <1>1, <1>12, <2>1, <2>2, <2>3 DEF NeedSession
<1>13. ASSUME NEW s \in Slots, Dial(s) PROVE Types'
  <2>1. loop.client \in Clients \cup {None} /\ loop.target \in Targets \cup {None}
    BY <1>1 DEF Loops
  <2>2. [client |-> loop.client, target |-> loop.target, open |-> TRUE,
         recent |-> TRUE, expired |-> FALSE, reader |-> "none"] \in Sessions
    BY <2>1 DEF Sessions
  <2> QED
    BY <1>1, <1>13, <2>2, LoopUpdate DEF Dial, LoopLabels
<1>14. ASSUME RegisterTooLate \/ CloseFailed PROVE Types'
  <2>1. loop.s \in Slots
    BY <1>1, <1>14 DEF RegisterTooLate, CloseFailed, LoopInv
  <2>2. [session[loop.s] EXCEPT !.open = FALSE] \in Sessions
    BY <1>1, <2>1, SessionUpdate
  <2> QED
    BY <1>1, <1>14, <2>2, RecordTypes DEF RegisterTooLate, CloseFailed, Closed
<1>15. ASSUME Register PROVE Types'
  <2>1. loop.s \in Slots /\ loop.client \in Clients
    BY <1>1, <1>15 DEF Register, LoopInv
  <2>2. CASE table[loop.client] # None
    <3>1. [session[loop.s] EXCEPT !.open = FALSE] \in Sessions
      BY <1>1, <2>1, SessionUpdate
    <3>2. session' \in [Slots -> Sessions] /\ table' = table
      BY <1>1, <1>15, <2>2, <3>1 DEF Register, Closed
    <3>3. loop' \in Loops
      <4>1. table[loop.client] \in Slots
        BY <1>1, <2>1, <2>2
      <4>2. loop' = [loop EXCEPT !.pc = "touch", !.s = table[loop.client]]
        BY <1>15, <2>2 DEF Register
      <4> QED
        BY <1>1, <4>1, <4>2, LoopUpdate DEF LoopLabels
    <3> QED
      BY <1>1, <1>15, <3>2, <3>3 DEF Register
  <2>3. CASE table[loop.client] = None
    BY <1>1, <1>15, <2>1, <2>3, LoopUpdate DEF Register, LoopLabels
  <2> QED
    BY <2>2, <2>3
<1>16. ASSUME Count PROVE Types'
  <2>1. loop.s \in Slots
    BY <1>1, <1>16 DEF Count, LoopInv
  <2>2. session' \in [Slots -> Sessions]
    BY <1>1, <1>16, <2>1, SessionUpdate DEF Count, ReaderLabels
  <2>3. loop' \in Loops
    BY <1>1, <1>16, LoopUpdate DEF Count, LoopLabels
  <2> QED
    BY <1>1, <1>16, <2>2, <2>3 DEF Count
<1>17. ASSUME Touch PROVE Types'
  <2>1. loop.s \in Slots
    BY <1>1, <1>17 DEF Touch, LoopInv
  <2>2. session' \in [Slots -> Sessions]
    BY <1>1, <1>17, <2>1, SessionUpdate DEF Touch, Touched
  <2> QED
    BY <1>1, <1>17, <2>2, LoopUpdate DEF Touch, LoopLabels
<1>18. ASSUME WriteFails PROVE Types'
  <2>1. loop.s \in Slots
    BY <1>1, <1>18 DEF WriteFails, LoopInv
  <2> QED
    BY <1>1, <1>18, <2>1, LoopUpdate, RemoveTypes DEF WriteFails, LoopLabels
<1>19. ASSUME NEW s \in Slots, ReadReply(s) \/ ReplyFails(s) \/ ReadTimesOut(s) \/ ReadFails(s) \/ Expire(s) PROVE Types'
  <2>1. PICK l \in ReaderLabels : session' = [session EXCEPT ![s].reader = l]
    BY <1>19 DEF ReadReply, ReplyFails, ReadTimesOut, ReadFails, Expire, ReaderProceeds, ReaderLabels
  <2>2. session' \in [Slots -> Sessions]
    BY <1>1, <2>1, SessionUpdate
  <2> QED
    BY <1>1, <1>19, <2>2 DEF ReadReply, ReplyFails, ReadTimesOut, ReadFails, Expire, ReaderProceeds
<1>20. ASSUME NEW s \in Slots, Reply(s) \/ Stay(s) PROVE Types'
  <2>1. [session[s] EXCEPT !.recent = TRUE, !.expired = FALSE] \in Sessions
    BY <1>1, SessionUpdate
  <2>2. Touched(s) \in [Slots -> Sessions]
    BY <1>1, <2>1 DEF Touched
  <2>3. [Touched(s)[s] EXCEPT !.reader = "read"] \in Sessions
    BY <2>2, SessionUpdate DEF ReaderLabels
  <2>4. session' \in [Slots -> Sessions]
    <3>1. session' = [Touched(s) EXCEPT ![s] = [Touched(s)[s] EXCEPT !.reader = "read"]]
      BY <1>20, <2>2 DEF Reply, Stay
    <3> QED
      BY <2>2, <2>3, <3>1
  <2> QED
    BY <1>1, <1>20, <2>4 DEF Reply, Stay
<1>21. ASSUME NEW s \in Slots, ReaderRemoves(s) PROVE Types'
  <2>1. session' \in [Slots -> Sessions]
    BY <1>1, <1>21, SessionUpdate DEF ReaderRemoves, ReaderLabels
  <2> QED
    BY <1>1, <1>21, <2>1, RemoveTypes DEF ReaderRemoves
<1>22. ASSUME NEW s \in Slots, ReaderCloses(s) \/ ReaderExits(s) \/ Elapse(s) PROVE Types'
  <2>1. session' \in [Slots -> Sessions]
    <3>1. CASE ReaderCloses(s)
      BY <1>1, <3>1, SessionUpdate DEF ReaderCloses, ReaderLabels
    <3>2. CASE ReaderExits(s)
      BY <1>1, <3>2, SessionUpdate DEF ReaderExits, ReaderLabels
    <3>3. CASE Elapse(s)
      BY <1>1, <3>3, SessionUpdate DEF Elapse
    <3> QED
      BY <1>22, <3>1, <3>2, <3>3
  <2> QED
    BY <1>1, <1>22, <2>1 DEF ReaderCloses, ReaderExits, Elapse
<1>23. CASE UNCHANGED vars
  BY <1>1, <1>23 DEF vars
<1> QED
  BY <1>2, <1>3, <1>4, <1>5, <1>6, <1>7, <1>8, <1>9, <1>10, <1>11, <1>12, <1>13, <1>14, <1>15, <1>16, <1>17, <1>18, <1>19, <1>20, <1>21, <1>22, <1>23
  DEF Next, StopStep, Handle, ReaderStep

-----------------------------------------------------------------------------
(* Who holds a session.                                                     *)

Shape == LoopInv /\ ClientInv /\ HaveReaders /\ OpenHaveOwner

\* A slot that is free is in nobody's hands.
LEMMA FreeSlot ==
  ASSUME IInv, NEW s \in Slots, session[s].reader = "none", loop.pc # "count"
  PROVE  \A c \in Clients : table[c] # s
<1>1. ASSUME NEW c \in Clients, table[c] = s PROVE FALSE
  <2>1. c \in Registered
    BY <1>1, UdpAssumption DEF Registered
  <2> QED
    BY <1>1, <2>1 DEF IInv, HaveReaders
<1> QED
  BY <1>1

\* What the WaitGroup counts is finite, so that zero means that nothing runs.
LEMMA CountedIsFinite ==
  /\ IsFiniteSet(Registered) /\ IsFiniteSet(Readers)
  /\ Cardinality(Registered) \in Nat /\ Cardinality(Readers) \in Nat
<1>1. Registered \subseteq Clients /\ Readers \subseteq Slots
  BY DEF Registered, Readers
<1> QED
  BY <1>1, FS_Subset, FS_CardinalityType, UdpAssumption

LEMMA NothingRuns ==
  ASSUME IInv, wg = 0
  PROVE  loop.pc = "none" /\ Readers = {}
<1>1. wg = Cardinality(Readers) + (IF loop.pc = "none" THEN 0 ELSE 1)
  BY DEF IInv, SessionsAreCounted
<1>2. loop.pc = "none" /\ Cardinality(Readers) = 0
  BY <1>1, CountedIsFinite
<1> QED
  BY <1>2, CountedIsFinite, FS_EmptySet

\* Every step keeps it.
LEMMA ShapeStep ==
  ASSUME IInv, [Next]_vars
  PROVE  Shape'
<1> USE UdpAssumption DEF LoopFrame, ReaderFrame, ruleVars, LoopInv, ClientInv, HaveReaders,
        OpenHaveOwner, Registered, Sessions, Loops
<1>1. /\ Shape /\ table \in [Clients -> Slots \cup {None}]
      /\ session \in [Slots -> Sessions] /\ loop \in Loops
  BY DEF IInv, Types, Shape
<1> USE DEF Shape
<1>2. ASSUME Start PROVE Shape'
  <2>1. loop.pc = "none"
    BY <1>2, NothingRuns DEF Start, IInv, StopInv
  <2> QED
    BY <1>1, <1>2, <2>1 DEF Start, AtRest
<1>3. ASSUME StopBegin \/ StopCancel \/ StopCloseSocket \/ StopReturns PROVE Shape'
  BY <1>1, <1>3 DEF StopBegin, StopCancel, StopCloseSocket, StopReturns
<1>4. ASSUME StopCloseSessions PROVE Shape'
  BY <1>1, <1>4 DEF StopCloseSessions
<1>5. ASSUME NEW t \in Targets, Reroute(t) PROVE Shape'
  BY <1>1, <1>5 DEF Reroute
<1>6. ASSUME NEW m \in Limits, SetLimit(m) PROVE Shape'
  BY <1>1, <1>6 DEF SetLimit
<1>7. ASSUME NEW c \in Clients, Receive(c) PROVE Shape'
  BY <1>1, <1>7 DEF Receive
<1>8. ASSUME LoopEnds PROVE Shape'
  BY <1>1, <1>8 DEF LoopEnds
<1>9. ASSUME DropLate \/ DialFails \/ Write PROVE Shape'
  BY <1>1, <1>9 DEF DropLate, DialFails, Write, AtRest
<1>10. ASSUME UseSession PROVE Shape'
  BY <1>1, <1>10 DEF UseSession, Current
<1>11. ASSUME NeedSession PROVE Shape'
  BY <1>1, <1>11 DEF NeedSession, Current, Closed, AtRest
<1>12. ASSUME NEW s \in Slots, Dial(s) PROVE Shape'
  BY <1>1, <1>12, FreeSlot DEF Dial, Free
<1>13. ASSUME RegisterTooLate \/ CloseFailed PROVE Shape'
  BY <1>1, <1>13 DEF RegisterTooLate, CloseFailed, Closed, AtRest
<1>14. ASSUME Register PROVE Shape'
  <2>1. CASE table[loop.client] # None
    <3>1. /\ loop.client \in Clients /\ loop.s \in Slots /\ loop.pc = "register"
          /\ table[loop.client] \in Slots /\ loop.client \in Registered
          /\ session[table[loop.client]].client = loop.client
      BY <1>1, <1>14, <2>1 DEF Register
    <3>2. /\ session' = [session EXCEPT ![loop.s].open = FALSE] /\ table' = table
          /\ loop' = [loop EXCEPT !.pc = "touch", !.s = table[loop.client]]
      BY <1>14, <2>1 DEF Register, Closed
    <3>3. /\ \A s \in Slots : /\ session'[s].client = session[s].client
                              /\ session'[s].reader = session[s].reader
                              /\ session'[s].open => session[s].open /\ s # loop.s
          /\ loop'.pc = "touch" /\ loop'.client = loop.client /\ loop'.s = table[loop.client]
      BY <1>1, <3>1, <3>2
    <3> QED
      BY <1>1, <3>1, <3>2, <3>3
  <2>2. CASE table[loop.client] = None
    BY <1>1, <1>14, <2>2 DEF Register
  <2> QED
    BY <2>1, <2>2
<1>15. ASSUME Count PROVE Shape'
  BY <1>1, <1>15 DEF Count
<1>16. ASSUME Touch PROVE Shape'
  BY <1>1, <1>16 DEF Touch, Touched
<1>17. ASSUME WriteFails PROVE Shape'
  BY <1>1, <1>17 DEF WriteFails, Remove
<1>18. ASSUME NEW s \in Slots, ReadReply(s) \/ ReplyFails(s) \/ ReadTimesOut(s) \/ ReadFails(s) \/ Expire(s) PROVE Shape'
  BY <1>1, <1>18 DEF ReadReply, ReplyFails, ReadTimesOut, ReadFails, Expire, ReaderProceeds
<1>19. ASSUME NEW s \in Slots, Reply(s) \/ Stay(s) PROVE Shape'
  <2>1. /\ session'[s].open = session[s].open /\ session'[s].client = session[s].client
        /\ session'[s].reader = "read"
        /\ \A x \in Slots \ {s} : session'[x] = session[x]
    <3>1. session' = [Touched(s) EXCEPT ![s].reader = "read"]
      BY <1>19 DEF Reply, Stay
    <3>2. /\ Touched(s) \in [Slots -> Sessions]
          /\ Touched(s)[s].open = session[s].open /\ Touched(s)[s].client = session[s].client
          /\ \A x \in Slots \ {s} : Touched(s)[x] = session[x]
      <4> DEFINE r == [session[s] EXCEPT !.recent = TRUE, !.expired = FALSE]
      <4>1. r \in Sessions /\ r.open = session[s].open /\ r.client = session[s].client
        <5>1. session[s] \in Sessions
          BY <1>1
        <5> QED
          BY <5>1
      <4> HIDE DEF r
      <4>2. Touched(s) = [session EXCEPT ![s] = r]
        BY DEF Touched, r
      <4> QED
        BY <1>1, <4>1, <4>2
    <3> QED
      BY <3>1, <3>2
  <2>2. session[s].reader \in {"reply", "expired"} /\ UNCHANGED <<table, loop>>
    BY <1>19 DEF Reply, Stay
  <2> QED
    BY <1>1, <2>1, <2>2
<1>20. ASSUME NEW s \in Slots, ReaderRemoves(s) PROVE Shape'
  BY <1>1, <1>20 DEF ReaderRemoves, Remove
<1>21. ASSUME NEW s \in Slots, ReaderCloses(s) PROVE Shape'
  BY <1>1, <1>21 DEF ReaderCloses
<1>22. ASSUME NEW s \in Slots, ReaderExits(s) PROVE Shape'
  BY <1>1, <1>22 DEF ReaderExits
<1>23. ASSUME NEW s \in Slots, Elapse(s) PROVE Shape'
  BY <1>1, <1>23 DEF Elapse
<1>24. CASE UNCHANGED vars
  BY <1>1, <1>24 DEF vars
<1> HIDE DEF Shape
<1> QED
  BY <1>2, <1>3, <1>4, <1>5, <1>6, <1>7, <1>8, <1>9, <1>10, <1>11, <1>12, <1>13, <1>14, <1>15, <1>16, <1>17, <1>18, <1>19, <1>20, <1>21, <1>22, <1>23, <1>24
  DEF Next, StopStep, Handle, ReaderStep

-----------------------------------------------------------------------------
(* Counters.                                                                *)

\* Taking a client out of the table takes one from the number of entries.
LEMMA EntryRemoved ==
  ASSUME IInv, NEW c \in Clients, table[c] # None, table' = [table EXCEPT ![c] = None]
  PROVE  Cardinality(Registered') = Cardinality(Registered) - 1
<1>1. Registered' = Registered \ {c} /\ c \in Registered
  BY DEF IInv, Types, Registered
<1> QED
  BY <1>1, CountedIsFinite, FS_RemoveElement

\* activeConns and the table shrink together, or neither does.
CountedDown ==
  \/ active' = active /\ Cardinality(Registered') = Cardinality(Registered)
  \/ active' = active - 1 /\ Cardinality(Registered') = Cardinality(Registered) - 1

\* removeUDPSession counts down exactly when it takes an entry out of the table.
LEMMA RemoveCounts ==
  ASSUME IInv, NEW s \in Slots, session[s].client \in Clients, Remove(s)
  PROVE  CountedDown
<1>1. CASE table[session[s].client] = s
  BY <1>1, EntryRemoved, UdpAssumption DEF Remove, CountedDown
<1>2. CASE table[session[s].client] # s
  BY <1>2 DEF Remove, Registered, CountedDown
<1> QED
  BY <1>1, <1>2

\* A step that changes what is counted changes the counter with it.
LEMMA CountsStep ==
  ASSUME IInv, [Next]_vars
  PROVE  SessionsAreCounted'
<1> USE UdpAssumption DEF LoopFrame, ReaderFrame, ruleVars
<1>1. /\ SessionsAreCounted /\ LoopInv /\ ClientInv /\ HaveReaders
      /\ wg \in Int /\ active \in Int
      /\ table \in [Clients -> Slots \cup {None}]
      /\ session \in [Slots -> Sessions] /\ loop \in Loops
      /\ Cardinality(Registered) \in Nat /\ Cardinality(Readers) \in Nat
  BY CountedIsFinite DEF IInv, Types
<1>2. ASSUME UNCHANGED <<table, wg, active>>,
             \A s \in Slots : session'[s].reader = "none" <=> session[s].reader = "none",
             loop'.pc = "none" <=> loop.pc = "none",
             loop'.pc = "count" <=> loop.pc = "count"
      PROVE  SessionsAreCounted'
  <2>1. Readers' = Readers /\ Registered' = Registered
    BY <1>2 DEF Readers, Registered
  <2> QED
    BY <1>1, <1>2, <2>1 DEF SessionsAreCounted
<1>3. ASSUME UNCHANGED <<table, wg, active, session>>,
             loop'.pc \notin {"none", "count"}, loop.pc \notin {"none", "count"}
      PROVE  SessionsAreCounted'
  BY <1>2, <1>3
<1>4. ASSUME Start PROVE SessionsAreCounted'
  <2>1. loop.pc = "none" /\ loop'.pc = "receive" /\ wg' = wg + 1 /\ active' = active
    BY <1>4, NothingRuns DEF Start, AtRest, IInv, StopInv
  <2>2. Readers' = Readers /\ Registered' = Registered
    BY <1>4 DEF Start, Readers, Registered
  <2> QED
    BY <1>1, <2>1, <2>2 DEF SessionsAreCounted
<1>5. ASSUME StopBegin \/ StopCancel \/ StopCloseSocket \/ StopReturns PROVE SessionsAreCounted'
  BY <1>2, <1>5 DEF StopBegin, StopCancel, StopCloseSocket, StopReturns
<1>6. ASSUME StopCloseSessions PROVE SessionsAreCounted'
  <2>1. \A s \in Slots : session'[s].reader = session[s].reader
    BY <1>1, <1>6 DEF StopCloseSessions, Sessions
  <2> QED
    BY <1>2, <1>6, <2>1 DEF StopCloseSessions
<1>7. ASSUME NEW t \in Targets, Reroute(t) PROVE SessionsAreCounted'
  BY <1>2, <1>7 DEF Reroute
<1>8. ASSUME NEW m \in Limits, SetLimit(m) PROVE SessionsAreCounted'
  BY <1>2, <1>8 DEF SetLimit
<1>9. ASSUME NEW c \in Clients, Receive(c) PROVE SessionsAreCounted'
  BY <1>1, <1>3, <1>9 DEF Receive, Loops
<1>10. ASSUME DropLate \/ DialFails \/ Write PROVE SessionsAreCounted'
  BY <1>3, <1>10 DEF DropLate, DialFails, Write, AtRest
<1>11. ASSUME UseSession PROVE SessionsAreCounted'
  BY <1>1, <1>3, <1>11 DEF UseSession, Loops
<1>12. ASSUME LoopEnds PROVE SessionsAreCounted'
  <2>1. loop.pc = "receive" /\ loop'.pc = "none" /\ wg' = wg - 1 /\ active' = active
    BY <1>1, <1>12 DEF LoopEnds, Loops
  <2>2. Readers' = Readers /\ Registered' = Registered
    BY <1>12 DEF LoopEnds, Readers, Registered
  <2> QED
    BY <1>1, <2>1, <2>2 DEF SessionsAreCounted
<1>13. ASSUME NeedSession PROVE SessionsAreCounted'
  <2>1. loop.pc = "route" /\ loop'.pc \in {"receive", "dial"} /\ wg' = wg /\ loop.client \in Clients
    BY <1>1, <1>13 DEF NeedSession, AtRest, Loops, LoopInv
  <2>2. Readers' = Readers
    BY <1>1, <1>13 DEF NeedSession, Closed, Readers, Sessions
  <2>3. CountedDown
    <3>1. CASE table[loop.client] = None
      BY <1>1, <1>13, <2>1, <3>1 DEF NeedSession, Registered, CountedDown
    <3>2. CASE table[loop.client] # None
      BY <1>13, <2>1, <3>2, EntryRemoved DEF NeedSession, CountedDown
    <3> QED
      BY <3>1, <3>2
  <2> QED
    BY <1>1, <2>1, <2>2, <2>3 DEF SessionsAreCounted, CountedDown
<1>14. ASSUME NEW s \in Slots, Dial(s) PROVE SessionsAreCounted'
  <2>1. /\ UNCHANGED <<table, wg, active>> /\ loop.pc = "dial" /\ loop'.pc = "register"
        /\ session[s].reader = "none" /\ session'[s].reader = "none"
        /\ \A x \in Slots \ {s} : session'[x] = session[x]
    BY <1>1, <1>14 DEF Dial, Free, Loops
  <2> QED
    BY <1>2, <2>1
<1>15. ASSUME RegisterTooLate \/ CloseFailed PROVE SessionsAreCounted'
  <2>1. /\ UNCHANGED <<table, wg, active>> /\ loop'.pc = "receive" /\ loop.pc \in {"register", "close"}
        /\ \A x \in Slots : session'[x].reader = session[x].reader
    BY <1>1, <1>15 DEF RegisterTooLate, CloseFailed, Closed, AtRest, Sessions
  <2> QED
    BY <1>2, <2>1
<1>16. ASSUME Register PROVE SessionsAreCounted'
  <2>1. loop.client \in Clients /\ loop.s \in Slots /\ loop.pc = "register" /\ UNCHANGED <<wg, active>>
    BY <1>1, <1>16 DEF Register, LoopInv
  <2>2. CASE table[loop.client] # None
    <3>1. /\ table' = table /\ loop'.pc = "touch"
      BY <1>1, <1>16, <2>2 DEF Register, Loops
    <3>2. \A x \in Slots : session'[x].reader = session[x].reader
      BY <1>1, <1>16, <2>1, <2>2 DEF Register, Closed, Sessions
    <3> QED
      BY <1>2, <2>1, <3>1, <3>2
  <2>3. CASE table[loop.client] = None
    <3>1. table' = [table EXCEPT ![loop.client] = loop.s] /\ loop'.pc = "count" /\ session' = session
      BY <1>1, <1>16, <2>3 DEF Register, Loops
    <3>2. Registered' = Registered \cup {loop.client} /\ loop.client \notin Registered /\ Readers' = Readers
      BY <1>1, <2>1, <2>3, <3>1 DEF Registered, Readers
    <3>3. Cardinality(Registered') = Cardinality(Registered) + 1
      BY <3>2, CountedIsFinite, FS_AddElement
    <3> QED
      BY <1>1, <2>1, <3>1, <3>2, <3>3 DEF SessionsAreCounted
  <2> QED
    BY <2>2, <2>3
<1>17. ASSUME Count PROVE SessionsAreCounted'
  <2>1. /\ loop.pc = "count" /\ loop'.pc = "touch" /\ wg' = wg + 1 /\ active' = active + 1
        /\ table' = table /\ loop.s \in Slots /\ session[loop.s].reader = "none"
    BY <1>1, <1>17 DEF Count, Loops, LoopInv
  <2>2. Readers' = Readers \cup {loop.s} /\ loop.s \notin Readers /\ Registered' = Registered
    BY <1>1, <1>17, <2>1 DEF Count, Readers, Registered, Sessions
  <2>3. Cardinality(Readers') = Cardinality(Readers) + 1
    BY <2>2, CountedIsFinite, FS_AddElement
  <2> QED
    BY <1>1, <2>1, <2>2, <2>3 DEF SessionsAreCounted
<1>18. ASSUME Touch PROVE SessionsAreCounted'
  <2>1. /\ UNCHANGED <<table, wg, active>> /\ loop'.pc = "write" /\ loop.pc = "touch"
        /\ \A x \in Slots : session'[x].reader = session[x].reader
    BY <1>1, <1>18 DEF Touch, Touched, Loops, Sessions
  <2> QED
    BY <1>2, <2>1
<1>19. ASSUME WriteFails PROVE SessionsAreCounted'
  <2>1. /\ loop.pc = "write" /\ loop'.pc = "close" /\ wg' = wg
        /\ loop.s \in Slots /\ session[loop.s].client \in Clients
    BY <1>1, <1>19 DEF WriteFails, Loops, LoopInv
  <2>2. Readers' = Readers
    BY <1>19 DEF WriteFails, Readers
  <2>3. CountedDown
    BY <1>19, <2>1, RemoveCounts DEF WriteFails
  <2> QED
    BY <1>1, <2>1, <2>2, <2>3 DEF SessionsAreCounted, CountedDown
<1>20. ASSUME NEW s \in Slots,
              ReadReply(s) \/ ReplyFails(s) \/ ReadTimesOut(s) \/ ReadFails(s) \/ Expire(s)
       PROVE  SessionsAreCounted'
  <2>1. /\ UNCHANGED <<table, wg, active, loop>>
        /\ session[s].reader # "none" /\ session'[s].reader # "none"
        /\ \A x \in Slots \ {s} : session'[x] = session[x]
    BY <1>1, <1>20
    DEF ReadReply, ReplyFails, ReadTimesOut, ReadFails, Expire, ReaderProceeds, Sessions
  <2> QED
    BY <1>2, <2>1
<1>21. ASSUME NEW s \in Slots, Reply(s) \/ Stay(s) PROVE SessionsAreCounted'
  <2>1. /\ UNCHANGED <<table, wg, active, loop>>
        /\ session[s].reader # "none" /\ session'[s].reader # "none"
        /\ \A x \in Slots \ {s} : session'[x] = session[x]
    BY <1>1, <1>21 DEF Reply, Stay, Touched, Sessions
  <2> QED
    BY <1>2, <2>1
<1>22. ASSUME NEW s \in Slots, ReaderRemoves(s) PROVE SessionsAreCounted'
  <2>1. /\ UNCHANGED <<wg, loop>> /\ session[s].client \in Clients
        /\ session[s].reader # "none" /\ session'[s].reader # "none"
        /\ \A x \in Slots \ {s} : session'[x] = session[x]
    BY <1>1, <1>22 DEF ReaderRemoves, Sessions, ClientInv
  <2>2. Readers' = Readers
    BY <2>1 DEF Readers
  <2>3. CountedDown
    BY <1>22, <2>1, RemoveCounts DEF ReaderRemoves
  <2> QED
    BY <1>1, <2>1, <2>2, <2>3 DEF SessionsAreCounted, CountedDown
<1>23. ASSUME NEW s \in Slots, ReaderCloses(s) \/ Elapse(s) PROVE SessionsAreCounted'
  <2>1. /\ UNCHANGED <<table, wg, active, loop>>
        /\ session[s].reader = "none" <=> session'[s].reader = "none"
        /\ \A x \in Slots \ {s} : session'[x] = session[x]
    <3>1. CASE ReaderCloses(s)
      BY <1>1, <3>1 DEF ReaderCloses, Sessions
    <3>2. CASE Elapse(s)
      BY <1>1, <3>2 DEF Elapse, Sessions
    <3> QED
      BY <1>23, <3>1, <3>2
  <2> QED
    BY <1>2, <2>1
<1>24. ASSUME NEW s \in Slots, ReaderExits(s) PROVE SessionsAreCounted'
  <2>1. UNCHANGED <<table, active, loop>> /\ wg' = wg - 1
    BY <1>24 DEF ReaderExits
  <2>2. Readers' = Readers \ {s} /\ s \in Readers /\ Registered' = Registered
    BY <1>1, <1>24 DEF ReaderExits, Readers, Registered, Sessions
  <2>3. Cardinality(Readers') = Cardinality(Readers) - 1
    BY <2>2, CountedIsFinite, FS_RemoveElement
  <2> QED
    BY <1>1, <2>1, <2>2, <2>3 DEF SessionsAreCounted
<1>25. CASE UNCHANGED vars
  BY <1>2, <1>25 DEF vars
<1> QED
  BY <1>4, <1>5, <1>6, <1>7, <1>8, <1>9, <1>10, <1>11, <1>12, <1>13, <1>14, <1>15, <1>16,
     <1>17, <1>18, <1>19, <1>20, <1>21, <1>22, <1>23, <1>24, <1>25
  DEF Next, StopStep, Handle, ReaderStep

-----------------------------------------------------------------------------
(* Stops.                                                                   *)

\* No session enters the table, and none in it is opened, while the rule stops.
LEMMA StopInvStep ==
  ASSUME IInv, [Next]_vars
  PROVE  StopInv'
<1> USE UdpAssumption DEF LoopFrame, ReaderFrame, ruleVars
<1>1. /\ StopInv /\ LoopInv /\ ClientInv
      /\ table \in [Clients -> Slots \cup {None}]
      /\ session \in [Slots -> Sessions] /\ loop \in Loops
      /\ stop \in {"none", "cancel", "closeSocket", "closeSessions", "wait"}
      /\ wg = 0 => loop.pc = "none" /\ Readers = {}
  BY NothingRuns DEF IInv, Types
<1>2. ASSUME UNCHANGED <<running, stop, snap>>,
             wg = 0 => wg' = 0,
             \A c \in Clients : table'[c] \in {table[c], None},
             \A c \in Registered : session'[table[c]].open => session[table[c]].open
      PROVE  StopInv'
  <2>1. \A c \in Registered' : c \in Registered /\ table'[c] = table[c]
    BY <1>2 DEF Registered
  <2> QED
    BY <1>1, <1>2, <2>1 DEF StopInv
<1>3. ASSUME running' PROVE StopInv'
  <2>1. stop' = "none"
    BY <1>1, <1>3
    DEF Next, Start, StopBegin, StopStep, StopCancel, StopCloseSocket, StopCloseSessions,
        StopReturns, Reroute, SetLimit, Receive, LoopEnds, Handle, DropLate, UseSession,
        NeedSession, DialFails, Dial, RegisterTooLate, Register, Count, Touch, Write,
        WriteFails, CloseFailed, ReaderStep, ReadReply, Reply, ReplyFails, ReadTimesOut,
        ReadFails, Stay, Expire, ReaderRemoves, ReaderCloses, ReaderExits, ReaderProceeds,
        Elapse, StopInv, vars
  <2> QED
    BY <1>3, <2>1 DEF StopInv
<1>4. ASSUME StopBegin PROVE StopInv'
  BY <1>1, <1>4 DEF StopBegin, StopInv, Registered
<1>5. ASSUME StopCancel \/ StopCloseSocket \/ StopReturns PROVE StopInv'
  BY <1>1, <1>5 DEF StopCancel, StopCloseSocket, StopReturns, StopInv, Registered
<1>6. ASSUME StopCloseSessions PROVE StopInv'
  <2>1. \A c \in Registered : table[c] \in snap /\ table[c] \in Slots
    BY <1>1, <1>6 DEF StopCloseSessions, StopInv, Registered
  <2>2. \A s \in snap \cap Slots : ~session'[s].open
    BY <1>1, <1>6 DEF StopCloseSessions, Sessions
  <2> QED
    BY <1>1, <1>6, <2>1, <2>2 DEF StopCloseSessions, StopInv, Registered
<1>7. ASSUME NEW t \in Targets, Reroute(t) PROVE StopInv'
  BY <1>2, <1>7 DEF Reroute
<1>8. ASSUME NEW m \in Limits, SetLimit(m) PROVE StopInv'
  BY <1>2, <1>8 DEF SetLimit
<1>9. ASSUME NEW c \in Clients, Receive(c) PROVE StopInv'
  BY <1>2, <1>9 DEF Receive
<1>10. ASSUME DropLate \/ UseSession \/ DialFails \/ Write PROVE StopInv'
  BY <1>2, <1>10 DEF DropLate, UseSession, DialFails, Write
<1>11. ASSUME LoopEnds PROVE StopInv'
  BY <1>1, <1>2, <1>11 DEF LoopEnds
<1>12. ASSUME NEW s \in Slots, Dial(s) PROVE StopInv'
  <2>1. \A c \in Clients : table[c] # s
    BY <1>12, FreeSlot DEF Dial, Free
  <2> QED
    BY <1>1, <1>2, <1>12, <2>1 DEF Dial, Registered
<1>13. ASSUME RegisterTooLate \/ CloseFailed PROVE StopInv'
  <2>1. \A s \in Slots : session'[s].open => session[s].open
    BY <1>1, <1>13 DEF RegisterTooLate, CloseFailed, Closed, LoopInv, Sessions
  <2> QED
    BY <1>1, <1>2, <1>13, <2>1 DEF RegisterTooLate, CloseFailed, Registered
<1>14. ASSUME NeedSession \/ Register PROVE StopInv'
  BY <1>3, <1>14 DEF NeedSession, Register
<1>15. ASSUME Count \/ Touch PROVE StopInv'
  <2>1. \A s \in Slots : session'[s].open = session[s].open
    <3>1. loop.s \in Slots /\ session[loop.s] \in Sessions
      BY <1>1, <1>15 DEF Count, Touch, LoopInv
    <3>2. \/ session' = [session EXCEPT ![loop.s].reader = "read"]
          \/ session' = Touched(loop.s)
      BY <1>15 DEF Count, Touch
    <3>3. /\ [session[loop.s] EXCEPT !.reader = "read"].open = session[loop.s].open
          /\ [session[loop.s] EXCEPT !.recent = TRUE, !.expired = FALSE].open
               = session[loop.s].open
      BY <3>1 DEF Sessions
    <3>4. \A s \in Slots :
             \/ session'[s] = session[s]
             \/ s = loop.s /\ \/ session'[s] = [session[s] EXCEPT !.reader = "read"]
                              \/ session'[s] = [session[s] EXCEPT !.recent = TRUE,
                                                                 !.expired = FALSE]
      BY <1>1, <3>2 DEF Touched
    <3> QED
      BY <3>3, <3>4
  <2> QED
    BY <1>1, <1>2, <1>15, <2>1 DEF Count, Touch, Registered
<1>16. ASSUME WriteFails PROVE StopInv'
  BY <1>1, <1>2, <1>16 DEF WriteFails, Remove
<1>17. ASSUME NEW s \in Slots,
              \/ ReadReply(s) \/ ReplyFails(s) \/ ReadTimesOut(s) \/ ReadFails(s) \/ Expire(s)
              \/ ReaderRemoves(s) \/ ReaderCloses(s) \/ ReaderExits(s) \/ Elapse(s)
       PROVE  StopInv'
  <2>1. \A x \in Slots : session'[x].open => session[x].open
    <3>1. CASE \E l \in ReaderLabels : session' = [session EXCEPT ![s].reader = l]
      BY <1>1, <3>1 DEF Sessions
    <3>2. CASE ReaderCloses(s)
      BY <1>1, <3>2 DEF ReaderCloses, Sessions
    <3>3. CASE Elapse(s)
      BY <1>1, <3>3 DEF Elapse, Sessions
    <3>4. CASE \/ ReadReply(s) \/ ReplyFails(s) \/ ReadTimesOut(s) \/ ReadFails(s)
               \/ Expire(s) \/ ReaderRemoves(s) \/ ReaderExits(s)
      BY <3>1, <3>4
      DEF ReadReply, ReplyFails, ReadTimesOut, ReadFails, Expire, ReaderProceeds,
          ReaderRemoves, ReaderExits, ReaderLabels
    <3> QED
      BY <1>17, <3>2, <3>3, <3>4
  <2>2. \A c \in Clients : table'[c] \in {table[c], None}
    BY <1>1, <1>17
    DEF ReadReply, ReplyFails, ReadTimesOut, ReadFails, Expire, ReaderProceeds, ReaderRemoves,
        ReaderCloses, ReaderExits, Elapse, Remove
  <2>3. wg' = wg \/ s \in Readers
    BY <1>17
    DEF ReadReply, ReplyFails, ReadTimesOut, ReadFails, Expire, ReaderProceeds, ReaderRemoves,
        ReaderCloses, ReaderExits, Elapse, Readers
  <2>4. UNCHANGED <<running, stop, snap>>
    BY <1>17
    DEF ReadReply, ReplyFails, ReadTimesOut, ReadFails, Expire, ReaderProceeds, ReaderRemoves,
        ReaderCloses, ReaderExits, Elapse
  <2> QED
    BY <1>1, <1>2, <2>1, <2>2, <2>3, <2>4 DEF Registered
<1>18. ASSUME NEW s \in Slots, Reply(s) \/ Stay(s) PROVE StopInv'
  <2> DEFINE r == [session[s] EXCEPT !.recent = TRUE, !.expired = FALSE]
  <2>a. r.open = session[s].open /\ r \in Sessions
    <3>1. session[s] \in Sessions
      BY <1>1
    <3>2. r \in Sessions
      BY <3>1, SessionUpdate
    <3>3. r.open = session[s].open
      BY <3>1 DEF Sessions
    <3> QED
      BY <3>2, <3>3
  <2>b. Touched(s) = [session EXCEPT ![s] = r]
    BY <1>1 DEF Touched
  <2> HIDE DEF r
  <2>c. [r EXCEPT !.reader = "read"].open = r.open
    BY <2>a DEF Sessions
  <2>d. session' = [session EXCEPT ![s] = [r EXCEPT !.reader = "read"]]
    <3>1. session' = [Touched(s) EXCEPT ![s].reader = "read"]
      BY <1>18 DEF Reply, Stay
    <3> QED
      BY <1>1, <2>b, <3>1
  <2>1. \A x \in Slots : session'[x].open = session[x].open
    BY <1>1, <2>a, <2>c, <2>d
  <2> QED
    BY <1>1, <1>2, <1>18, <2>1 DEF Reply, Stay, Registered
<1>19. CASE UNCHANGED vars
  BY <1>2, <1>19 DEF vars
<1>20. ASSUME Start PROVE StopInv'
  BY <1>3, <1>20 DEF Start
<1> QED
  BY <1>4, <1>5, <1>6, <1>7, <1>8, <1>9, <1>10, <1>11, <1>12, <1>13, <1>14, <1>15, <1>16,
     <1>17, <1>18, <1>19, <1>20
  DEF Next, StopStep, Handle, ReaderStep

-----------------------------------------------------------------------------
(* The theorems.                                                            *)

\* The inductive invariant holds throughout.
LEMMA Invariance == Spec => []IInv
<1>1. ASSUME Init PROVE IInv
  <2>1. Types
    <3>1. session \in [Slots -> Sessions]
      BY <1>1, RecordTypes DEF Init
    <3>2. loop \in Loops
      BY <1>1, RecordTypes, LoopUpdate DEF Init, LoopLabels
    <3>3. wg \in Int /\ active \in Int /\ snap \subseteq Slots
      BY <1>1 DEF Init
    <3>4. table \in [Clients -> Slots \cup {None}]
      BY <1>1 DEF Init
    <3>5. /\ running \in BOOLEAN /\ done \in BOOLEAN /\ listening \in BOOLEAN
          /\ stop \in {"none", "cancel", "closeSocket", "closeSessions", "wait"}
          /\ route \in Targets /\ limit \in Limits
      BY <1>1 DEF Init
    <3> QED
      BY <3>1, <3>2, <3>3, <3>4, <3>5 DEF Types
  <2>2. Registered = {} /\ Readers = {} /\ loop.pc = "none"
    BY <1>1 DEF Init, Registered, Readers, NoSession, AtRest
  <2>3. LoopInv /\ ClientInv /\ StopInv /\ HaveReaders /\ OpenHaveOwner
    BY <1>1, <2>2 DEF Init, LoopInv, ClientInv, StopInv, HaveReaders, OpenHaveOwner, NoSession
  <2>4. SessionsAreCounted
    BY <1>1, <2>2, FS_EmptySet DEF Init, SessionsAreCounted
  <2> QED
    BY <2>1, <2>3, <2>4 DEF IInv
<1>2. IInv /\ [Next]_vars => IInv'
  BY TypesStep, ShapeStep, CountsStep, StopInvStep DEF IInv, Shape
<1> QED
  BY <1>1, <1>2, PTL DEF Spec

\* Type correctness: neither the WaitGroup nor activeConns goes below zero,
\* though a session is given up on three paths (udp.go).
THEOREM TypeCorrect == Spec => []TypeOK
<1>1. ASSUME IInv PROVE TypeOK
  <2>1. wg \in Nat
    BY <1>1, CountedIsFinite DEF IInv, SessionsAreCounted
  <2>2. active \in Nat
    <3>1. CASE loop.pc = "count"
      <4>1. loop.client \in Registered
        BY <1>1, <3>1, UdpAssumption DEF IInv, LoopInv, Registered
      <4>2. Cardinality(Registered) # 0
        BY <4>1, CountedIsFinite, FS_EmptySet
      <4> QED
        BY <1>1, <3>1, <4>2, CountedIsFinite DEF IInv, SessionsAreCounted
    <3>2. CASE loop.pc # "count"
      BY <1>1, <3>2, CountedIsFinite DEF IInv, SessionsAreCounted
    <3> QED
      BY <3>1, <3>2
  <2> QED
    BY <1>1, <2>1, <2>2 DEF IInv, Types, TypeOK
<1> QED
  BY <1>1, Invariance, PTL

\* No session is leaked or counted twice, whichever of replacement, failed write
\* and end of the reader give it up at once (udp.go, removeUDPSession).
THEOREM NothingLeaks == Spec => []NoLeak
<1>1. IInv => NoLeak
  BY DEF IInv, NoLeak
<1> QED
  BY <1>1, Invariance, PTL

\* Stop leaves nothing behind, whichever datagram was being handled, and while
\* it waits nobody can keep it waiting until a session is idle (udp.go:130).
THEOREM StopLeavesNothing == Spec => []StopIsComplete
<1>1. ASSUME IInv, stop = "none", ~running PROVE NothingLeft
  <2>1. wg = 0 /\ loop.pc = "none" /\ Readers = {}
    BY <1>1, NothingRuns DEF IInv, StopInv
  <2>2. Registered = {}
    <3>1. ASSUME NEW c \in Registered PROVE FALSE
      <4>1. table[c] \in Slots
        BY <1>1 DEF IInv, Types, Registered
      <4> QED
        BY <1>1, <2>1, <4>1 DEF IInv, HaveReaders, Readers
    <3> QED
      BY <3>1
  <2>3. active = 0
    BY <1>1, <2>1, <2>2, FS_EmptySet DEF IInv, SessionsAreCounted
  <2>4. ASSUME NEW s \in Slots, session[s].open PROVE FALSE
    <3>1. session[s].client \in Clients /\ session[s].reader = "none"
      BY <1>1, <2>1, <2>4 DEF IInv, ClientInv, Readers
    <3>2. table[session[s].client] = s
      BY <1>1, <2>1, <2>4, <3>1 DEF IInv, OpenHaveOwner
    <3> QED
      BY <2>2, <3>1, <3>2, UdpAssumption DEF Registered
  <2> QED
    BY <2>1, <2>2, <2>3, <2>4 DEF NothingLeft
<1>2. ASSUME IInv, stop = "wait" PROVE NobodyLingers
  <2>1. ASSUME NEW s \in Slots, session[s].open, table[session[s].client] = s PROVE FALSE
    <3>1. session[s].client \in Registered
      BY <1>2, <2>1, UdpAssumption DEF IInv, ClientInv, Registered
    <3> QED
      BY <1>2, <2>1, <3>1 DEF IInv, StopInv
  <2> QED
    BY <1>2, <2>1 DEF IInv, OpenHaveOwner, NobodyLingers
<1>3. IInv => StopIsComplete
  BY <1>1, <1>2 DEF StopIsComplete
<1> QED
  BY <1>3, Invariance, PTL

=============================================================================
