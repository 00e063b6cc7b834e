---------------------------- MODULE UdpSessions ----------------------------
(***************************************************************************)
(* A UDP forwarding rule (src/internal/proxy/udp.go, with stopLocked of    *)
(* rule.go): one loop takes the datagrams of all clients and opens a       *)
(* session for each client address; each session has a goroutine that      *)
(* reads the replies of its own upstream socket and ends the session when  *)
(* it has been idle.  Meanwhile the rule is stopped and started, the route *)
(* fails over, and the limit of sessions is changed.                       *)
(*                                                                         *)
(* Sections under Rule.mu are one action each, and so are blocking calls.  *)
(***************************************************************************)
EXTENDS Integers, FiniteSets

CONSTANTS
  Clients,  \* client addresses, the keys of udpSessions
  Slots,    \* slots for udpSession objects, reused when nothing refers to them
  Targets,  \* endpoints the route may take: the target and the backup
  Limits,   \* values of MaxConns, 0 for no limit
  None

ASSUME UdpAssumption ==
  /\ IsFiniteSet(Clients) /\ IsFiniteSet(Slots)
  /\ Limits \subseteq Nat
  /\ None \notin Clients \cup Slots \cup Targets

VARIABLES
  running, done, \* Rule.running; whether the context is cancelled
  listening,     \* whether the PacketConn is open
  stop, snap,    \* where stopLocked stands; the sessions it found
  wg, active,    \* Rule.wg, Rule.activeConns
  route, limit,  \* the current target; spec.MaxConns
  table,         \* udpSessions: client -> its session, or None
  session,       \* slot -> the udpSession in it
  loop           \* udpLoop: its step and the locals of handleUDPDatagram

ruleVars == <<running, done, listening, stop, snap>>
vars == <<ruleVars, wg, active, route, limit, table, session, loop>>

NoSession == [client |-> None, target |-> None, open |-> FALSE,
              recent |-> FALSE, expired |-> FALSE, reader |-> "none"]

AtRest == [pc |-> "receive", client |-> None, target |-> None, s |-> None]

Init ==
  /\ running = FALSE /\ done = FALSE /\ listening = FALSE
  /\ stop = "none" /\ snap = {}
  /\ wg = 0 /\ active = 0
  /\ route \in Targets /\ limit \in Limits
  /\ table = [c \in Clients |-> None]
  /\ session = [s \in Slots |-> NoSession]
  /\ loop = [AtRest EXCEPT !.pc = "none"]

-----------------------------------------------------------------------------
\* Neither the loop nor a reader nor a stop refers to it any more.
Free(s) == session[s].reader = "none" /\ loop.s # s /\ s \notin snap

Registered == {c \in Clients : table[c] # None}

\* touch: both the time of the last packet and the read deadline.
Touched(s) == [session EXCEPT ![s] = [@ EXCEPT !.recent = TRUE, !.expired = FALSE]]

\* udpSession.close.
Closed(s) == [session EXCEPT ![s].open = FALSE]

\* Faulty: removes whatever session the client has.
RemoveByKey(s) ==
  /\ table' = [table EXCEPT ![session[s].client] = None]
  /\ active' = IF table[session[s].client] # None THEN active - 1 ELSE active

\* Faulty: counts a session that another path has removed already.
RemoveTwice(s) ==
  /\ table' = [c \in Clients |-> IF table[c] = s THEN None ELSE table[c]]
  /\ active' = active - 1

\* removeUDPSession, up to the unlock.
Remove(s) ==
  IF table[session[s].client] = s
  THEN table' = [table EXCEPT ![session[s].client] = None] /\ active' = active - 1
  ELSE UNCHANGED <<table, active>>

-----------------------------------------------------------------------------
(* The rule: startLocked, stopLocked, and what updates and failover change. *)

Start ==
  /\ ~running /\ stop = "none"
  /\ running' = TRUE /\ done' = FALSE /\ listening' = TRUE
  /\ wg' = wg + 1
  /\ loop' = AtRest
  /\ UNCHANGED <<stop, snap, active, route, limit, table, session>>

StopBegin ==
  /\ running /\ stop = "none"
  /\ running' = FALSE
  /\ stop' = "cancel"
  /\ snap' = {table[c] : c \in Registered}
  /\ UNCHANGED <<done, listening, wg, active, route, limit, table, session, loop>>

StopCancel ==
  /\ stop = "cancel" /\ stop' = "closeSocket"
  /\ done' = TRUE
  /\ UNCHANGED <<running, listening, snap, wg, active, route, limit, table, session, loop>>

\* Faulty: forgets the PacketConn, which only the loop can reach now.
StopCloseSocketNot ==
  /\ stop = "closeSocket" /\ stop' = "closeSessions"
  /\ UNCHANGED <<running, done, listening, snap, wg, active, route, limit, table, session, loop>>

StopCloseSocket ==
  /\ stop = "closeSocket" /\ stop' = "closeSessions"
  /\ listening' = FALSE
  /\ UNCHANGED <<running, done, snap, wg, active, route, limit, table, session, loop>>

StopCloseSessions ==
  /\ stop = "closeSessions" /\ stop' = "wait"
  /\ session' = [s \in Slots |-> IF s \in snap THEN [session[s] EXCEPT !.open = FALSE]
                                               ELSE session[s]]
  /\ snap' = {}
  /\ UNCHANGED <<running, done, listening, wg, active, route, limit, table, loop>>

StopReturns ==
  /\ stop = "wait" /\ stop' = "none"
  /\ wg = 0
  /\ UNCHANGED <<running, done, listening, snap, wg, active, route, limit, table, session, loop>>

Reroute(t) ==
  /\ route' = t
  /\ UNCHANGED <<ruleVars, wg, active, limit, table, session, loop>>

SetLimit(n) ==
  /\ limit' = n
  /\ UNCHANGED <<ruleVars, wg, active, route, table, session, loop>>

-----------------------------------------------------------------------------
(* udpLoop and handleUDPDatagram.  Datagrams the ACL denies change nothing. *)

LoopFrame == UNCHANGED <<ruleVars, route, limit>>

Receive(c) ==
  /\ loop.pc = "receive" /\ listening
  /\ loop' = [loop EXCEPT !.pc = "route", !.client = c]
  /\ LoopFrame /\ UNCHANGED <<wg, active, table, session>>

LoopEnds ==
  /\ loop.pc = "receive" /\ ~listening /\ done
  /\ loop' = [loop EXCEPT !.pc = "none"]
  /\ wg' = wg - 1
  /\ LoopFrame /\ UNCHANGED <<active, table, session>>

DropLate ==
  /\ loop.pc = "route" /\ (~running \/ done)
  /\ loop' = AtRest
  /\ LoopFrame /\ UNCHANGED <<wg, active, table, session>>

Current(s) == s # None /\ session[s].target = route

UseSession ==
  /\ loop.pc = "route" /\ running /\ ~done
  /\ Current(table[loop.client])
  /\ loop' = [loop EXCEPT !.pc = "touch", !.target = route, !.s = table[loop.client]]
  /\ LoopFrame /\ UNCHANGED <<wg, active, table, session>>

Full(n) == limit > 0 /\ n >= limit

\* The client has no session, or one with another target, which is given up.
\* A new one is dialled unless the limit is reached.
NeedSession ==
  LET c == loop.client
      old == table[c]
  IN  /\ loop.pc = "route" /\ running /\ ~done
      /\ ~Current(old)
      /\ table' = [table EXCEPT ![c] = None]
      /\ IF old = None THEN UNCHANGED <<session, active>>
                       ELSE session' = Closed(old) /\ active' = active - 1
      /\ loop' = IF Full(Cardinality(Registered \ {c})) THEN AtRest
                 ELSE [loop EXCEPT !.pc = "dial", !.target = route]
      /\ LoopFrame /\ UNCHANGED wg

DialFails ==
  /\ loop.pc = "dial"
  /\ loop' = AtRest
  /\ LoopFrame /\ UNCHANGED <<wg, active, table, session>>

Dial(s) ==
  /\ loop.pc = "dial" /\ Free(s)
  /\ session' = [session EXCEPT ![s] =
       [client |-> loop.client, target |-> loop.target, open |-> TRUE,
        recent |-> TRUE, expired |-> FALSE, reader |-> "none"]]
  /\ loop' = [loop EXCEPT !.pc = "register", !.s = s]
  /\ LoopFrame /\ UNCHANGED <<wg, active, table>>

\* The rule has been stopped meanwhile.
RegisterTooLate ==
  /\ loop.pc = "register" /\ (~running \/ done)
  /\ session' = Closed(loop.s)
  /\ loop' = AtRest
  /\ LoopFrame /\ UNCHANGED <<wg, active, table>>

\* Faulty: does not look whether the rule has been stopped meanwhile.
RegisterAnyway ==
  /\ loop.pc = "register"
  /\ table' = [table EXCEPT ![loop.client] = loop.s]
  /\ loop' = [loop EXCEPT !.pc = "count"]
  /\ LoopFrame /\ UNCHANGED <<wg, active, session>>

\* If there is a session by now, that one is used (there never is: only the
\* loop makes them).
Register ==
  /\ loop.pc = "register" /\ running /\ ~done
  /\ IF table[loop.client] # None
     THEN /\ session' = Closed(loop.s)
          /\ loop' = [loop EXCEPT !.pc = "touch", !.s = table[loop.client]]
          /\ UNCHANGED table
     ELSE /\ table' = [table EXCEPT ![loop.client] = loop.s]
          /\ loop' = [loop EXCEPT !.pc = "count"]
          /\ UNCHANGED session
  /\ LoopFrame /\ UNCHANGED <<wg, active>>

\* Outside the lock: the count of sessions, and the reader.
Count ==
  /\ loop.pc = "count"
  /\ active' = active + 1
  /\ wg' = wg + 1
  /\ session' = [session EXCEPT ![loop.s].reader = "read"]
  /\ loop' = [loop EXCEPT !.pc = "touch"]
  /\ LoopFrame /\ UNCHANGED table

Touch ==
  /\ loop.pc = "touch"
  /\ session' = Touched(loop.s)
  /\ loop' = [loop EXCEPT !.pc = "write"]
  /\ LoopFrame /\ UNCHANGED <<wg, active, table>>

Write ==
  /\ loop.pc = "write" /\ session[loop.s].open
  /\ loop' = AtRest
  /\ LoopFrame /\ UNCHANGED <<wg, active, table, session>>

\* The target has refused an earlier datagram, or the session is closed.
WriteFails ==
  /\ loop.pc = "write"
  /\ Remove(loop.s)
  /\ loop' = [loop EXCEPT !.pc = "close"]
  /\ LoopFrame /\ UNCHANGED <<wg, session>>

CloseFailed ==
  /\ loop.pc = "close"
  /\ session' = Closed(loop.s)
  /\ loop' = AtRest
  /\ LoopFrame /\ UNCHANGED <<wg, active, table>>

-----------------------------------------------------------------------------
(* readUDPReplies of the session in slot s.                                 *)

ReaderFrame == UNCHANGED <<ruleVars, route, limit, loop>>

ReaderProceeds(s, from, to) ==
  /\ session[s].reader = from
  /\ session' = [session EXCEPT ![s].reader = to]
  /\ ReaderFrame /\ UNCHANGED <<wg, active, table>>

ReadReply(s) == session[s].open /\ ReaderProceeds(s, "read", "reply")

Reply(s) ==
  /\ session[s].reader = "reply" /\ listening
  /\ session' = [Touched(s) EXCEPT ![s].reader = "read"]
  /\ ReaderFrame /\ UNCHANGED <<wg, active, table>>

ReplyFails(s) == ReaderProceeds(s, "reply", "remove")

ReadTimesOut(s) == session[s].open /\ session[s].expired /\ ReaderProceeds(s, "read", "expired")

\* The target is unreachable, or the socket has been closed.
ReadFails(s) == ReaderProceeds(s, "read", "remove")

\* Faulty: the idle time is not looked at again.
StayAlways(s) ==
  /\ session[s].reader = "expired" /\ ~done
  /\ session' = [Touched(s) EXCEPT ![s].reader = "read"]
  /\ ReaderFrame /\ UNCHANGED <<wg, active, table>>

\* A packet came between the deadline and this look at the clock.
Stay(s) ==
  /\ session[s].reader = "expired" /\ ~done /\ session[s].recent
  /\ session' = [Touched(s) EXCEPT ![s].reader = "read"]
  /\ ReaderFrame /\ UNCHANGED <<wg, active, table>>

Expire(s) == (done \/ ~session[s].recent) /\ ReaderProceeds(s, "expired", "remove")

\* The deferred calls, in their order: removeUDPSession, r.wg.Done().
ReaderRemoves(s) ==
  /\ session[s].reader = "remove"
  /\ Remove(s)
  /\ session' = [session EXCEPT ![s].reader = "close"]
  /\ ReaderFrame /\ UNCHANGED wg

ReaderCloses(s) ==
  /\ session[s].reader = "close"
  /\ session' = [session EXCEPT ![s] = [@ EXCEPT !.open = FALSE, !.reader = "exit"]]
  /\ ReaderFrame /\ UNCHANGED <<wg, active, table>>

ReaderExits(s) ==
  /\ session[s].reader = "exit"
  /\ session' = [session EXCEPT ![s].reader = "none"]
  /\ wg' = wg - 1
  /\ ReaderFrame /\ UNCHANGED <<active, table>>

\* UDPIdleSec pass without a packet.
Elapse(s) ==
  /\ session[s].open /\ ~session[s].expired
  /\ session' = [session EXCEPT ![s] = [@ EXCEPT !.recent = FALSE, !.expired = TRUE]]
  /\ ReaderFrame /\ UNCHANGED <<wg, active, table>>

-----------------------------------------------------------------------------
StopStep == StopCancel \/ StopCloseSocket \/ StopCloseSessions \/ StopReturns

\* The steps of the loop once it has a datagram, the end of the dial included.
Handle ==
  \/ DropLate \/ UseSession \/ NeedSession
  \/ DialFails \/ \E s \in Slots : Dial(s)
  \/ RegisterTooLate \/ Register \/ Count \/ Touch \/ Write \/ WriteFails \/ CloseFailed

ReaderStep(s) ==
  \/ ReadReply(s) \/ Reply(s) \/ ReplyFails(s) \/ ReadTimesOut(s) \/ ReadFails(s)
  \/ Stay(s) \/ Expire(s) \/ ReaderRemoves(s) \/ ReaderCloses(s) \/ ReaderExits(s)

Next ==
  \/ Start \/ StopBegin \/ StopStep
  \/ \E t \in Targets : Reroute(t)
  \/ \E n \in Limits : SetLimit(n)
  \/ \E c \in Clients : Receive(c)
  \/ LoopEnds \/ Handle
  \/ \E s \in Slots : ReaderStep(s) \/ Elapse(s)

Spec == Init /\ [][Next]_vars

\* What the scheduler, the read deadlines, the dial timeout and closed sockets
\* make happen; clients and targets need not send anything.
Fairness ==
  /\ WF_vars(StopStep) /\ WF_vars(LoopEnds) /\ WF_vars(Handle)
  /\ \A s \in Slots :
       /\ WF_vars(Elapse(s))
       /\ WF_vars(ReadTimesOut(s))
       /\ WF_vars(~session[s].open /\ ReadFails(s))
       /\ WF_vars(Reply(s) \/ ReplyFails(s))
       /\ WF_vars(Stay(s) \/ Expire(s))
       /\ WF_vars(ReaderRemoves(s) \/ ReaderCloses(s) \/ ReaderExits(s))

LiveSpec == Spec /\ Fairness

-----------------------------------------------------------------------------
(* Properties.                                                              *)

Sessions ==
  [client : Clients \cup {None}, target : Targets \cup {None}, open : BOOLEAN,
   recent : BOOLEAN, expired : BOOLEAN,
   reader : {"none", "read", "reply", "expired", "remove", "close", "exit"}]

Loops ==
  [pc : {"none", "receive", "route", "dial", "register", "count", "touch", "write", "close"},
   client : Clients \cup {None}, target : Targets \cup {None}, s : Slots \cup {None}]

\* Every variable has its type, and the counters are never negative.
TypeOK ==
  /\ running \in BOOLEAN /\ done \in BOOLEAN /\ listening \in BOOLEAN
  /\ stop \in {"none", "cancel", "closeSocket", "closeSessions", "wait"}
  /\ snap \subseteq Slots
  /\ wg \in Nat /\ active \in Nat
  /\ route \in Targets /\ limit \in Limits
  /\ table \in [Clients -> Slots \cup {None}]
  /\ session \in [Slots -> Sessions]
  /\ loop \in Loops

Readers == {s \in Slots : session[s].reader # "none"}

SessionsAreCounted ==
  /\ active = Cardinality(Registered) - (IF loop.pc = "count" THEN 1 ELSE 0)
  /\ wg = Cardinality(Readers) + (IF loop.pc = "none" THEN 0 ELSE 1)

HaveReaders ==
  \A c \in Registered :
    LET s == table[c]
    IN  /\ session[s].client = c
        /\ \/ session[s].reader \in {"read", "reply", "expired", "remove"}
           \/ loop.pc = "count" /\ loop.s = s

OpenHaveOwner ==
  \A s \in Slots : session[s].open =>
    \/ table[session[s].client] = s
    \/ session[s].reader \in {"remove", "close"}
    \/ loop.pc \in {"register", "close"} /\ loop.s = s

\* Nothing is leaked and nothing counted twice, though three paths give a
\* session up, two of them at once for the same one (replacement, failed write,
\* end of the reader): activeConns is the number of sessions in the table (but
\* for one whose registration is not over) and the WaitGroup counts the loop and
\* the readers; a session in the table is its client's, and has a reader that
\* will remove it; an open socket is in the table, or being made or closed.
NoLeak == SessionsAreCounted /\ HaveReaders /\ OpenHaveOwner

NothingLeft ==
  /\ Registered = {} /\ active = 0 /\ wg = 0
  /\ loop.pc = "none" /\ Readers = {}
  /\ \A s \in Slots : ~session[s].open

\* Nobody waits for packets or for the idle time: an open socket is about to be
\* closed by the loop or its reader.
NobodyLingers ==
  \A s \in Slots : session[s].open =>
    \/ session[s].reader \in {"reply", "expired", "remove", "close"}
    \/ loop.pc \in {"register", "close"} /\ loop.s = s

\* When the rule is stopped nothing is left of it, whichever datagram was
\* being handled and whichever session was being made; and while stopLocked
\* still waits, nobody can keep it waiting until a session is idle (udp.go:130).
StopIsComplete ==
  /\ stop = "none" /\ ~running => NothingLeft
  /\ stop = "wait" => NobodyLingers

\* A session that falls idle ends (docs/udp-forwarding.md): one that stays for
\* ever has packets for ever.
IdleSessionsEnd ==
  \A s \in Slots :
    \/ []<>(\A c \in Clients : table[c] # s)
    \/ []<><<(loop.s = s /\ Touch) \/ Reply(s)>>_vars

\* Stop returns.
StopEnds == stop # "none" ~> stop = "none"

=============================================================================
