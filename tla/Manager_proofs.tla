---------------------------- MODULE Manager_proofs ----------------------------
(* What TLAPS proves of Manager, for every number of requests, rules and    *)
(* addresses, whatever the profiles and the file hold.                      *)
EXTENDS Manager, FiniteSetTheorems, TLAPS

-----------------------------------------------------------------------------
(* The inductive invariant.                                                 *)

\* TypeOK without what it says of the list and the map together.
Types ==
  /\ phase \in {"down", "boot", "up", "stopping"}
  /\ obj \in [Objects -> [spec : Spec_ \cup {None}, on : BOOLEAN]]
  /\ rules \in [Ids -> Objects \cup {None}] /\ order \in Seq(Ids)
  /\ opMu \in Procs \cup {None} /\ cfgMu \in Procs \cup {None}
  /\ op \in [Procs -> Ops]
  /\ cfgRules \in Seq(Spec_) /\ file \in Seq(Spec_)
  /\ calls \in 0..MaxCalls

\* The list and the map hold the same rules, and each rule has a spec with the
\* ID it is under.
TableInv ==
  /\ \A n \in DOMAIN order : rules[order[n]] # None
  /\ \A i \in Ids : rules[i] # None => \E n \in DOMAIN order : order[n] = i
  /\ \A m, n \in DOMAIN order : order[m] = order[n] => m = n
  /\ \A i \in Ids : rules[i] # None =>
       obj[rules[i]].spec \in Spec_ /\ obj[rules[i]].spec.id = i

Changing == {"add", "start", "clear"}

\* Exactly the holder of opMu changes the table; main works only at boot.
LockInv ==
  /\ \A p \in Procs : opMu = p <=> op[p].pc \in Changing
  /\ phase = "down" => \A p \in Procs : op[p].pc = "idle"
  /\ op[Main].pc # "idle" => phase = "boot"

\* What a call relies on at each of its steps.
Ready(o) ==
  /\ o.pc = "add" /\ o.todo # <<>> => o.kind \in {"add", "load", "replace", "rollback"}
  /\ o.pc = "start" =>
       /\ o.kind \in {"add", "load", "replace", "rollback"}
       /\ o.todo # <<>>
       /\ rules[Head(o.todo).id] # None
       /\ obj[rules[Head(o.todo).id]].spec = Head(o.todo)
       /\ Head(o.todo).enabled /\ ~obj[rules[Head(o.todo).id]].on
  /\ o.pc = "clear" => o.kind \in {"replace", "rollback"}

\* What is still to be read was in the table once.
ToRead(o) == \A n \in DOMAIN o.left : obj[o.left[n]].spec \in Spec_

OpInv == \A p \in Procs : Ready(op[p]) /\ ToRead(op[p])

\* What listens is a rule and enabled; a rule that is enabled listens, unless it
\* is just being started or the program ends.
ListenInv ==
  /\ \A o \in Objects : obj[o].on => o \in Installed /\ obj[o].spec.enabled
  /\ phase # "stopping" =>
       \A i \in Ids : rules[i] # None /\ obj[rules[i]].spec.enabled =>
         \/ obj[rules[i]].on
         \/ \E p \in Procs : op[p].pc = "start" /\ Head(op[p].todo).id = i

\* NoConflicts, said of the map.
Disjoint ==
  \A i, j \in Ids : i # j /\ rules[i] # None /\ rules[j] # None =>
    ~Overlap(obj[rules[i]].spec.addr, obj[rules[j]].spec.addr)

\* What a replacement, or its rollback, is to end with.
Goal(o) == IF o.kind = "replace" THEN o.wanted ELSE o.old

\* The last k specs of it are still to come, the others are installed.
Installing(o, k) ==
  /\ Len(order) + k = Len(Goal(o))
  /\ \A n \in 1..Len(order) : obj[rules[order[n]]].spec = Goal(o)[n]

Replacing(o) ==
  o.kind \in {"replace", "rollback"} =>
    /\ o.pc = "clear" => o.todo = Goal(o)
    /\ o.pc = "add" =>
         /\ Installing(o, Len(o.todo))
         /\ \A n \in 1..Len(o.todo) : o.todo[n] = Goal(o)[Len(order) + n]
    /\ o.pc = "start" =>
         /\ Installing(o, Len(o.todo) - 1)
         /\ \A n \in 1..Len(o.todo) : o.todo[n] = Goal(o)[Len(order) + n - 1]

ReplaceInv == \A p \in Procs : Replacing(op[p])

IInv == Types /\ TableInv /\ LockInv /\ OpInv /\ ListenInv /\ Disjoint /\ ReplaceInv

-----------------------------------------------------------------------------
(* The locals of a call.                                                    *)

Steps ==
  {"idle", "add", "start", "list", "read", "merge", "clear", "save", "rename"}
Kinds ==
  {None, "load", "add", "change", "settings", "import", "replace", "rollback", "broken"}

\* The locals a call begins with.
LEMMA BeginTypes ==
  /\ Idle \in Ops /\ Notifying \in Ops
  /\ \A k \in Kinds, t \in Seq(Spec_) : [Idle EXCEPT !.pc = "add", !.kind = k, !.todo = t] \in Ops
  /\ [Idle EXCEPT !.pc = "save", !.kind = "settings"] \in Ops
  /\ \A f \in Profiles : [Idle EXCEPT !.pc = "list", !.kind = "import", !.profile = f] \in Ops
<1>1. Idle \in Ops
  BY DEF Idle, Ops
<1> QED
  BY <1>1 DEF Idle, Notifying, Ops, Kinds

\* What is left of them when the change is made.
LEMMA ChangeTypes ==
  ASSUME NEW k \in Kinds, NEW b \in BOOLEAN
  PROVE  /\ [Idle EXCEPT !.pc = "list", !.kind = k, !.alone = b] \in Ops
         /\ [Idle EXCEPT !.pc = "save", !.kind = k, !.alone = b] \in Ops
<1>1. Idle \in Ops
  BY BeginTypes
<1> QED
  BY <1>1 DEF Ops, Kinds

\* They keep their types when they are assigned.
LEMMA OpUpdate ==
  ASSUME NEW o \in Ops
  PROVE  /\ \A b \in BOOLEAN : [o EXCEPT !.alone = b] \in Ops
         /\ \A l \in Steps : [o EXCEPT !.pc = l] \in Ops
         /\ \A l \in Steps, t \in Seq(Spec_) : [o EXCEPT !.pc = l, !.todo = t] \in Ops
         /\ \A t \in Seq(Spec_) : [o EXCEPT !.todo = t] \in Ops
         /\ \A l \in Steps, k \in Kinds, t \in Seq(Spec_) :
              [o EXCEPT !.pc = l, !.kind = k, !.todo = t] \in Ops
         /\ \A l \in Steps, w \in Seq(Objects) : [o EXCEPT !.pc = l, !.left = w] \in Ops
         /\ \A l \in Steps, s \in Seq(Spec_) : [o EXCEPT !.pc = l, !.read = s] \in Ops
         /\ \A w \in Seq(Objects), s \in Seq(Spec_) : [o EXCEPT !.left = w, !.read = s] \in Ops
<1>0. Ops = [pc : Steps, kind : Kinds, profile : Profiles \cup {None},
             todo : Seq(Spec_), old : Seq(Spec_), wanted : Seq(Spec_),
             left : Seq(Objects), read : Seq(Spec_), alone : BOOLEAN]
  BY DEF Ops, Steps, Kinds
<1>1. \A b \in BOOLEAN : [o EXCEPT !.alone = b] \in Ops
  BY <1>0
<1>2. \A l \in Steps : [o EXCEPT !.pc = l] \in Ops
  BY <1>0
<1>3. \A l \in Steps, t \in Seq(Spec_) : [o EXCEPT !.pc = l, !.todo = t] \in Ops
  BY <1>0
<1>4. \A t \in Seq(Spec_) : [o EXCEPT !.todo = t] \in Ops
  BY <1>0
<1>5. \A l \in Steps, k \in Kinds, t \in Seq(Spec_) :
         [o EXCEPT !.pc = l, !.kind = k, !.todo = t] \in Ops
  BY <1>0
<1>6. \A l \in Steps, w \in Seq(Objects) : [o EXCEPT !.pc = l, !.left = w] \in Ops
  BY <1>0
<1>7. \A l \in Steps, s \in Seq(Spec_) : [o EXCEPT !.pc = l, !.read = s] \in Ops
  BY <1>0
<1>8. \A w \in Seq(Objects), s \in Seq(Spec_) : [o EXCEPT !.left = w, !.read = s] \in Ops
  BY <1>0
<1> QED
  BY <1>1, <1>2, <1>3, <1>4, <1>5, <1>6, <1>7, <1>8

\* Replace is the one that assigns most.
LEMMA ReplaceTypes ==
  ASSUME NEW o \in Ops, NEW s \in Seq(Spec_), NEW t \in Seq(Spec_)
  PROVE  [o EXCEPT !.pc = "clear", !.kind = "replace", !.read = <<>>,
                   !.old = s, !.wanted = t, !.todo = t] \in Ops
<1>1. <<>> \in Seq(Spec_)
  OBVIOUS
<1> QED
  BY <1>1 DEF Ops

\* The locals are the same, but for the history.
Same(x, y) ==
  /\ x.pc = y.pc /\ x.kind = y.kind /\ x.todo = y.todo /\ x.old = y.old
  /\ x.wanted = y.wanted /\ x.left = y.left /\ x.read = y.read

\* A request begins and disturbs no other.
LEMMA Begun ==
  ASSUME Types, NEW c \in Callers, NEW o \in Ops, Begin(c, o)
  PROVE  /\ op' \in [Procs -> Ops] /\ calls' \in 0..MaxCalls
         /\ phase = "up" /\ op[c].pc = "idle" /\ Same(op'[c], o)
         /\ \A p \in Procs \ {c} : Same(op'[p], op[p])
<1>1. PICK b \in BOOLEAN, others \in SUBSET Callers :
        op' = [p \in Procs |-> IF p = c THEN [o EXCEPT !.alone = b]
                               ELSE IF p \in others THEN [op[p] EXCEPT !.alone = FALSE]
                               ELSE op[p]]
  BY DEF Begin
<1>2. c \in Procs
  BY DEF Procs
<1>3. op \in [Procs -> Ops]
  BY DEF Types
<1>4. \A r \in Ops, b1 \in BOOLEAN : [r EXCEPT !.alone = b1] \in Ops /\ Same([r EXCEPT !.alone = b1], r)
  <2> TAKE r \in Ops, b1 \in BOOLEAN
  <2>1. [r EXCEPT !.alone = b1] \in Ops
    BY OpUpdate
  <2> QED
    BY <2>1 DEF Ops, Same
<1>5. op' \in [Procs -> Ops]
  BY <1>1, <1>3, <1>4
<1>6. Same(op'[c], o)
  BY <1>1, <1>2, <1>4
<1>7. ASSUME NEW p \in Procs \ {c} PROVE Same(op'[p], op[p])
  <2>1. op'[p] = [op[p] EXCEPT !.alone = FALSE] \/ op'[p] = op[p]
    BY <1>1
  <2>2. op[p] \in Ops
    BY <1>3
  <2> QED
    BY <1>4, <2>1, <2>2 DEF Same
<1>8. calls' \in 0..MaxCalls /\ phase = "up" /\ op[c].pc = "idle"
  BY ManagerAssumption DEF Begin, Types
<1> QED
  BY <1>5, <1>6, <1>7, <1>8

-----------------------------------------------------------------------------
(* Sequences and specs.                                                     *)

\* A sequence is its first element and the rest.
LEMMA HeadTail ==
  ASSUME NEW S, NEW s \in Seq(S), s # <<>>
  PROVE  /\ Head(s) \in S /\ Tail(s) \in Seq(S) /\ Head(s) = s[1]
         /\ Len(s) \in Nat \ {0} /\ Len(Tail(s)) = Len(s) - 1
         /\ \A n \in 1..Len(Tail(s)) : Tail(s)[n] = s[n + 1]
OBVIOUS

\* append(order[:i], order[i+1:]...) of Delete.
LEMMA RemoveElement ==
  ASSUME NEW S, NEW s \in Seq(S), NEW n \in DOMAIN s
  PROVE  LET r == SubSeq(s, 1, n - 1) \o SubSeq(s, n + 1, Len(s))
         IN  /\ Len(r) = Len(s) - 1
             /\ \A m \in DOMAIN r : r[m] = IF m < n THEN s[m] ELSE s[m + 1]
<1> DEFINE a == SubSeq(s, 1, n - 1)
           b == SubSeq(s, n + 1, Len(s))
<1>1. n \in 1..Len(s) /\ Len(s) \in Nat
  OBVIOUS
<1>2. a \in Seq(S) /\ Len(a) = n - 1 /\ \A m \in 1..(n - 1) : a[m] = s[m]
  BY <1>1
<1>3. b \in Seq(S) /\ Len(b) = Len(s) - n /\ \A m \in 1..(Len(s) - n) : b[m] = s[n + m]
  BY <1>1
<1> HIDE DEF a, b
<1>4. /\ Len(a \o b) = Len(s) - 1 /\ DOMAIN (a \o b) = 1..(Len(s) - 1)
      /\ \A m \in 1..(Len(s) - 1) : (a \o b)[m] = IF m <= n - 1 THEN a[m] ELSE b[m - (n - 1)]
  <2>1. Len(a) + Len(b) = Len(s) - 1 /\ a \in Seq(S) /\ b \in Seq(S)
    BY <1>1, <1>2, <1>3
  <2>2. Len(a \o b) = Len(s) - 1 /\ DOMAIN (a \o b) = 1..(Len(s) - 1)
    BY <2>1
  <2>3. \A m \in 1..(Len(a) + Len(b)) :
           (a \o b)[m] = IF m <= Len(a) THEN a[m] ELSE b[m - Len(a)]
    BY <2>1
  <2> QED
    BY <1>2, <2>1, <2>2, <2>3
<1>5. ASSUME NEW m \in 1..(Len(s) - 1)
      PROVE  (a \o b)[m] = IF m < n THEN s[m] ELSE s[m + 1]
  <2>1. CASE m < n
    <3>1. m \in 1..(n - 1) /\ m <= n - 1
      BY <1>1, <2>1
    <3> QED
      BY <1>2, <1>4, <2>1, <3>1
  <2>2. CASE ~(m < n)
    <3>1. m - (n - 1) \in 1..(Len(s) - n) /\ ~(m <= n - 1) /\ n + (m - (n - 1)) = m + 1
      BY <1>1, <2>2
    <3>2. b[m - (n - 1)] = s[m + 1]
      BY <1>3, <3>1
    <3> QED
      BY <1>4, <2>2, <3>1, <3>2
  <2> QED
    BY <2>1, <2>2
<1> QED
  BY <1>4, <1>5 DEF a, b

\* The rules in the table are objects with specs, which is what List and Specs
\* read.
LEMMA ListTypes ==
  ASSUME Types, TableInv
  PROVE  /\ Specs \in Seq(Spec_) /\ Len(Specs) = Len(order)
         /\ Objs \in Seq(Objects) /\ Len(Objs) = Len(order)
         /\ \A n \in DOMAIN Objs : obj[Objs[n]].spec \in Spec_
<1>1. order \in Seq(Ids) /\ DOMAIN order = 1..Len(order) /\ Len(order) \in Nat
  BY DEF Types
<1>2. \A n \in DOMAIN order : /\ rules[order[n]] \in Objects
                              /\ obj[rules[order[n]]].spec \in Spec_
  BY <1>1 DEF Types, TableInv
<1> QED
  BY <1>1, <1>2 DEF Specs, Objs

\* A spec stays a spec, with its ID and address, when the rule is disabled.
LEMMA Disabled ==
  ASSUME NEW s \in Spec_, NEW b \in BOOLEAN
  PROVE  LET t == [s EXCEPT !.enabled = b]
         IN  t \in Spec_ /\ t.id = s.id /\ t.addr = s.addr /\ t.enabled = b
BY DEF Spec_

\* addLocked gives the rule an object that nothing refers to.
LEMMA FreshObject ==
  ASSUME HasFresh
  PROVE  Fresh \in Objects /\ ~Referenced(Fresh)
BY DEF HasFresh, Fresh

\* What follows a failure, caller by caller of addLocked.
LEMMA FailureTypes ==
  ASSUME NEW o \in Ops, o.todo # <<>>, o.kind \in {"add", "load", "replace", "rollback"}
  PROVE  LET f == AfterFailure(o)
         IN  /\ f \in Ops /\ f.left = o.left /\ f.old = o.old /\ f.wanted = o.wanted
             /\ o.kind = "add" => f.pc = "add" /\ f.kind = "add" /\ f.todo = <<>>
             /\ o.kind = "load" => f.pc = "add" /\ f.kind = "load" /\ f.todo = Tail(o.todo)
             /\ o.kind = "replace" =>
                  f.pc = "clear" /\ f.kind = "rollback" /\ f.todo = o.old
             /\ o.kind = "rollback" =>
                  f.pc = "add" /\ f.kind = "broken" /\ f.todo = <<>>
<1>1. o.todo \in Seq(Spec_) /\ o.old \in Seq(Spec_) /\ <<>> \in Seq(Spec_)
  BY DEF Ops
<1>2. Tail(o.todo) \in Seq(Spec_)
  BY <1>1, HeadTail
<1>3. CASE o.kind = "add"
  <2>1. AfterFailure(o) = [o EXCEPT !.pc = "add", !.todo = <<>>]
    BY <1>3 DEF AfterFailure
  <2>2. [o EXCEPT !.pc = "add", !.todo = <<>>] \in Ops
    BY <1>1, OpUpdate DEF Steps
  <2> QED
    BY <1>3, <2>1, <2>2 DEF Ops
<1>4. CASE o.kind = "load"
  <2>1. AfterFailure(o) = [o EXCEPT !.pc = "add", !.todo = Tail(o.todo)]
    BY <1>4 DEF AfterFailure
  <2>2. [o EXCEPT !.pc = "add", !.todo = Tail(o.todo)] \in Ops
    BY <1>2, OpUpdate DEF Steps
  <2> QED
    BY <1>4, <2>1, <2>2 DEF Ops
<1>5. CASE o.kind = "replace"
  <2>1. AfterFailure(o) = [o EXCEPT !.pc = "clear", !.kind = "rollback", !.todo = o.old]
    BY <1>5 DEF AfterFailure
  <2>2. [o EXCEPT !.pc = "clear", !.kind = "rollback", !.todo = o.old] \in Ops
    BY <1>1, OpUpdate DEF Steps, Kinds
  <2> QED
    BY <1>5, <2>1, <2>2 DEF Ops
<1>6. CASE o.kind = "rollback"
  <2>1. AfterFailure(o) = [o EXCEPT !.pc = "add", !.kind = "broken", !.todo = <<>>]
    BY <1>6 DEF AfterFailure
  <2>2. [o EXCEPT !.pc = "add", !.kind = "broken", !.todo = <<>>] \in Ops
    BY <1>1, OpUpdate DEF Steps, Kinds
  <2> QED
    BY <1>6, <2>1, <2>2 DEF Ops
<1> QED
  BY <1>3, <1>4, <1>5, <1>6

-----------------------------------------------------------------------------
(* Types.                                                                   *)

\* An object is assigned a spec and whether it listens.
Object == [spec : Spec_ \cup {None}, on : BOOLEAN]

LEMMA ObjectUpdate ==
  ASSUME NEW r \in Object, NEW b \in BOOLEAN
  PROVE  /\ NoObject \in Object
         /\ \A s \in Spec_ : [spec |-> s, on |-> b] \in Object /\ [on |-> b, spec |-> s] \in Object
         /\ [r EXCEPT !.on = b] \in Object /\ [r EXCEPT !.on = b].spec = r.spec
         /\ [r EXCEPT !.on = b].on = b
BY DEF Object, NoObject

\* ListenFails disables the rule.
LEMMA ObjectDisabled ==
  ASSUME NEW r \in Object, r.spec \in Spec_
  PROVE  LET d == [r EXCEPT !.spec.enabled = FALSE]
         IN  d \in Object /\ d.on = r.on /\ d.spec = [r.spec EXCEPT !.enabled = FALSE]
<1>1. [r EXCEPT !.spec.enabled = FALSE] = [r EXCEPT !.spec = [r.spec EXCEPT !.enabled = FALSE]]
  BY DEF Object
<1>2. [r.spec EXCEPT !.enabled = FALSE] \in Spec_
  BY Disabled
<1> QED
  BY <1>1, <1>2 DEF Object

\* Every step keeps the types.
LEMMA TypesStep ==
  ASSUME IInv, [Next]_vars
  PROVE  Types'
<1> USE ManagerAssumption DEF Types, table, config
<1>1. /\ Types /\ TableInv /\ OpInv
      /\ obj \in [Objects -> Object] /\ op \in [Procs -> Ops]
      /\ \A i \in Ids : rules[i] # None =>
           rules[i] \in Objects /\ obj[rules[i]].spec \in Spec_ /\ obj[rules[i]] \in Object
      /\ Main \in Procs /\ Callers \subseteq Procs /\ None \in Kinds
  BY DEF IInv, Object, TableInv, Procs, Kinds
<1>2. ASSUME phase' \in {"down", "boot", "up", "stopping"},
             obj' \in [Objects -> Object],
             rules' \in [Ids -> Objects \cup {None}], order' \in Seq(Ids),
             opMu' \in Procs \cup {None}, cfgMu' \in Procs \cup {None},
             op' \in [Procs -> Ops],
             cfgRules' \in Seq(Spec_), file' \in Seq(Spec_),
             calls' \in 0..MaxCalls
      PROVE  Types'
  BY <1>2 DEF Object
<1>3. ASSUME NEW p \in Procs, NEW o \in Ops, Step(p, o) PROVE op' \in [Procs -> Ops]
  BY <1>1, <1>3 DEF Step
<1>4. CASE Boot
  <2>1. [Idle EXCEPT !.pc = "add", !.kind = "load", !.todo = file] \in Ops
    BY <1>1, BeginTypes DEF Kinds
  <2> QED
    BY <1>1, <1>2, <1>4, <2>1 DEF Boot
<1>5. CASE Crash
  <2>1. Idle \in Ops /\ NoObject \in Object
    BY BeginTypes, ObjectUpdate, <1>1 DEF Object, NoObject
  <2>2. <<>> \in Seq(Ids) /\ <<>> \in Seq(Spec_)
    OBVIOUS
  <2> QED
    BY <1>1, <1>2, <1>5, <2>1, <2>2 DEF Crash
<1>6. CASE StopAll
  <2>1. obj' \in [Objects -> Object]
    BY <1>1, <1>6, ObjectUpdate DEF StopAll
  <2> QED
    BY <1>1, <1>2, <1>6, <2>1 DEF StopAll
<1>7. ASSUME NEW c \in Callers, NEW s \in Requests, Add(c, s) PROVE Types'
  <2>1. s \in Spec_ /\ <<s>> \in Seq(Spec_)
    OBVIOUS
  <2>2. [Idle EXCEPT !.pc = "add", !.kind = "add", !.todo = <<s>>] \in Ops
    BY <2>1, BeginTypes DEF Kinds
  <2> QED
    BY <1>1, <1>2, <1>7, <2>2, Begun DEF Add
<1>8. ASSUME NEW c \in Callers, UpdateRefused(c) \/ SetDetectionConfig(c) \/ SetScan(c)
      PROVE  Types'
  BY <1>1, <1>2, <1>8, BeginTypes, Begun DEF UpdateRefused, SetDetectionConfig, SetScan
<1>9. ASSUME NEW c \in Callers, NEW f \in Profiles, Import(c, f) PROVE Types'
  BY <1>1, <1>2, <1>9, BeginTypes, Begun DEF Import
<1>10. ASSUME NEW c \in Callers, NEW s \in Spec_, Update(c, s) PROVE Types'
  <2>1. obj' \in [Objects -> Object]
    BY <1>1, <1>10, ObjectUpdate DEF Update, Spec_
  <2> QED
    BY <1>1, <1>2, <1>10, <2>1, BeginTypes, Begun DEF Update
<1>11. ASSUME NEW c \in Callers, NEW s \in Requests, UpdateDisables(c, s) PROVE Types'
  <2>1. obj' \in [Objects -> Object]
    <3>1. s.id \in Ids /\ rules[s.id] # None
      BY <1>11 DEF UpdateDisables, Spec_
    <3>2. [obj[rules[s.id]].spec EXCEPT !.enabled = FALSE] \in Spec_
      BY <1>1, <3>1, Disabled
    <3>3. [on |-> FALSE, spec |-> [obj[rules[s.id]].spec EXCEPT !.enabled = FALSE]] \in Object
      BY <1>1, <3>1, <3>2, ObjectUpdate
    <3> QED
      BY <1>1, <1>11, <3>1, <3>3 DEF UpdateDisables
  <2> QED
    BY <1>1, <1>2, <1>11, <2>1, BeginTypes, Begun DEF UpdateDisables
<1>12. ASSUME NEW c \in Callers, NEW i \in Ids, Delete(c, i) PROVE Types'
  <2>1. obj' \in [Objects -> Object]
    <3>1. [obj[rules[i]] EXCEPT !.on = FALSE] \in Object
      BY <1>1, <1>12, ObjectUpdate DEF Delete
    <3> QED
      BY <1>1, <1>12, <3>1 DEF Delete
  <2>2. rules' \in [Ids -> Objects \cup {None}]
    BY <1>1, <1>12 DEF Delete, Removed
  <2>3. order' \in Seq(Ids)
    <3>1. PICK n \in DOMAIN order : order' = SubSeq(order, 1, n - 1) \o SubSeq(order, n + 1, Len(order))
      BY <1>1, <1>12 DEF Delete, Removed, TableInv
    <3>2. order \in Seq(Ids)
      BY <1>1
    <3>3. SubSeq(order, 1, n - 1) \in Seq(Ids)
      BY <3>2
    <3>4. SubSeq(order, n + 1, Len(order)) \in Seq(Ids)
      BY <3>2
    <3> QED
      BY <3>1, <3>3, <3>4
  <2> QED
    BY <1>1, <1>2, <1>12, <2>1, <2>2, <2>3, BeginTypes, Begun DEF Delete
<1>13. ASSUME NEW c \in Callers, NEW i \in Ids, NEW b \in BOOLEAN, SetEnabled(c, i, b)
       PROVE  Types'
  BY <1>1, <1>10, <1>13, Disabled DEF SetEnabled
<1>14. ASSUME NEW p \in Procs, Insert(p) PROVE Types'
  <2> DEFINE s == Head(op[p].todo)
  <2>1. op[p] \in Ops /\ op[p].todo \in Seq(Spec_) /\ op[p].todo # <<>>
    BY <1>1, <1>14 DEF Insert, Adding, Ops
  <2>2. s \in Spec_ /\ s.id \in Ids /\ s.enabled \in BOOLEAN /\ Tail(op[p].todo) \in Seq(Spec_)
    <3>1. s \in Spec_ /\ Tail(op[p].todo) \in Seq(Spec_)
      BY <2>1, HeadTail
    <3> QED
      BY <3>1 DEF Spec_
  <2>3. op' \in [Procs -> Ops]
    <3>1. /\ [op[p] EXCEPT !.pc = "start"] \in Ops
          /\ [op[p] EXCEPT !.todo = Tail(op[p].todo)] \in Ops
      BY <2>1, <2>2, OpUpdate DEF Steps
    <3> QED
      BY <1>3, <1>14, <2>1, <3>1 DEF Insert
  <2>4. Fresh \in Objects
    BY <1>14, FreshObject DEF Insert
  <2> HIDE DEF s
  <2>5. obj' \in [Objects -> Object] /\ rules' \in [Ids -> Objects \cup {None}]
    <3>1. [spec |-> s, on |-> FALSE] \in Object
      BY <2>2 DEF Object
    <3> QED
      BY <1>1, <1>14, <2>2, <2>4, <3>1 DEF Insert, s
  <2>6. order' \in Seq(Ids)
    BY <1>1, <1>14, <2>2 DEF Insert, s
  <2> QED
    BY <1>1, <1>2, <1>14, <2>3, <2>5, <2>6 DEF Insert
<1>15. ASSUME NEW p \in Procs, AddRefused(p) \/ ImportRefused(p) PROVE Types'
  BY <1>1, <1>2, <1>3, <1>15, BeginTypes DEF AddRefused, ImportRefused
<1>16. ASSUME NEW p \in Procs, SpecRefused(p) PROVE Types'
  <2>1. AfterFailure(op[p]) \in Ops
    BY <1>1, <1>16, FailureTypes DEF SpecRefused, Adding, OpInv, Ready
  <2> QED
    BY <1>1, <1>2, <1>3, <1>16, <2>1 DEF SpecRefused
<1>17. ASSUME NEW p \in Procs, Listen(p) PROVE Types'
  <2> DEFINE i == Head(op[p].todo).id
  <2>1. op[p] \in Ops /\ op[p].todo \in Seq(Spec_) /\ op[p].todo # <<>> /\ rules[i] # None
    BY <1>1, <1>17 DEF Listen, OpInv, Ready, Ops
  <2>2. i \in Ids /\ Tail(op[p].todo) \in Seq(Spec_)
    <3>1. Head(op[p].todo) \in Spec_ /\ Tail(op[p].todo) \in Seq(Spec_)
      BY <2>1, HeadTail
    <3> QED
      BY <3>1 DEF Spec_
  <2>3. op' \in [Procs -> Ops]
    BY <1>3, <1>17, <2>1, <2>2, OpUpdate DEF Listen, Steps
  <2>4. obj' \in [Objects -> Object]
    <3>1. [obj[rules[i]] EXCEPT !.on = TRUE] \in Object
      BY <1>1, <2>1, <2>2, ObjectUpdate
    <3> QED
      BY <1>1, <1>17, <2>1, <2>2, <3>1 DEF Listen
  <2> QED
    BY <1>1, <1>2, <1>17, <2>3, <2>4 DEF Listen
<1>18. ASSUME NEW p \in Procs, ListenFails(p) PROVE Types'
  <2> DEFINE i == Head(op[p].todo).id
  <2>1. /\ op[p] \in Ops /\ op[p].todo \in Seq(Spec_) /\ op[p].todo # <<>> /\ rules[i] # None
        /\ op[p].kind \in {"add", "load", "replace", "rollback"}
    BY <1>1, <1>18 DEF ListenFails, OpInv, Ready, Ops
  <2>2. i \in Ids
    <3>1. Head(op[p].todo) \in Spec_
      BY <2>1, HeadTail
    <3> QED
      BY <3>1 DEF Spec_
  <2>3. op' \in [Procs -> Ops]
    BY <1>3, <1>18, <2>1, FailureTypes DEF ListenFails
  <2>4. obj' \in [Objects -> Object]
    <3>1. [obj[rules[i]] EXCEPT !.spec.enabled = FALSE] \in Object
      BY <1>1, <2>1, <2>2, ObjectDisabled
    <3> QED
      BY <1>1, <1>18, <2>1, <2>2, <3>1 DEF ListenFails
  <2> QED
    BY <1>1, <1>2, <1>18, <2>3, <2>4 DEF ListenFails
<1>19. ASSUME NEW p \in Procs, Unlock(p) PROVE Types'
  <2>1. AfterChange(op[p]) \in Ops
    <3>1. op[p] \in Ops
      BY <1>1
    <3>a. op[p].kind \in Kinds /\ op[p].alone \in BOOLEAN
      BY <3>1 DEF Ops, Kinds
    <3>2. [Idle EXCEPT !.pc = "list", !.kind = op[p].kind, !.alone = op[p].alone] \in Ops
      BY <3>a, ChangeTypes
    <3>3. [Idle EXCEPT !.pc = "save", !.kind = op[p].kind, !.alone = op[p].alone] \in Ops
      BY <3>a, ChangeTypes
    <3> QED
      BY <3>2, <3>3 DEF AfterChange
  <2> QED
    BY <1>1, <1>2, <1>3, <1>19, <2>1 DEF Unlock
<1>20. ASSUME NEW p \in Procs, List(p) PROVE Types'
  <2>1. [op[p] EXCEPT !.pc = "read", !.left = Objs] \in Ops
    BY <1>1, ListTypes, OpUpdate DEF Steps
  <2> QED
    BY <1>1, <1>2, <1>3, <1>20, <2>1 DEF List
<1>21. ASSUME NEW p \in Procs, Read(p) PROVE Types'
  <2>1. /\ op[p] \in Ops /\ op[p].left \in Seq(Objects) /\ op[p].read \in Seq(Spec_)
        /\ op[p].left # <<>>
    BY <1>1, <1>21 DEF Read, Ops
  <2>2. obj[Head(op[p].left)].spec \in Spec_
    <3>1. 1 \in DOMAIN op[p].left /\ Head(op[p].left) = op[p].left[1]
      BY <2>1
    <3> QED
      BY <1>1, <3>1 DEF OpInv, ToRead
  <2>3. Append(op[p].read, obj[Head(op[p].left)].spec) \in Seq(Spec_)
    BY <2>1, <2>2
  <2>4. Tail(op[p].left) \in Seq(Objects)
    BY <2>1, HeadTail
  <2>5. [op[p] EXCEPT !.left = Tail(op[p].left),
                      !.read = Append(op[p].read, obj[Head(op[p].left)].spec)] \in Ops
    BY <2>1, <2>3, <2>4, OpUpdate
  <2> QED
    BY <1>1, <1>2, <1>3, <1>21, <2>5 DEF Read
<1>22. ASSUME NEW p \in Procs, ReadAll(p) PROVE Types'
  <2>1. \A l \in Steps : [op[p] EXCEPT !.pc = l] \in Ops
    BY <1>1, OpUpdate
  <2> QED
    BY <1>1, <1>2, <1>3, <1>22, <2>1 DEF ReadAll, Steps
<1>23. ASSUME NEW p \in Procs, Replace(p) PROVE Types'
  <2> DEFINE new == Merged(op[p].read, op[p].profile)
  <2>1. new \in Seq(Spec_) /\ Specs \in Seq(Spec_)
    BY <1>1, <1>23, ListTypes DEF Replace, Normal
  <2> HIDE DEF new
  <2>2. [op[p] EXCEPT !.pc = "clear", !.kind = "replace", !.read = <<>>,
                      !.old = Specs, !.wanted = new, !.todo = new] \in Ops
    BY <1>1, <2>1, ReplaceTypes
  <2> QED
    BY <1>1, <1>2, <1>3, <1>23, <2>2 DEF Replace, new
<1>24. ASSUME NEW p \in Procs, Clear(p) PROVE Types'
  <2>1. obj' \in [Objects -> Object]
    <3>1. \A o \in Objects : (obj[o].on /\ o \notin Installed) \in BOOLEAN
      OBVIOUS
    <3> QED
      BY <1>1, <1>24, <3>1, ObjectUpdate DEF Clear
  <2>2. op' \in [Procs -> Ops]
    BY <1>1, <1>3, <1>24, OpUpdate DEF Clear, Steps
  <2> QED
    BY <1>1, <1>2, <1>24, <2>1, <2>2 DEF Clear
<1>25. ASSUME NEW p \in Procs, Save(p) PROVE Types'
  <2>1. op' \in [Procs -> Ops]
    <3>1. <<>> \in Seq(Spec_)
      OBVIOUS
    <3> QED
      BY <1>1, <1>3, <1>25, <3>1, OpUpdate DEF Save, Steps
  <2>2. cfgRules' \in Seq(Spec_)
    BY <1>1, <1>25 DEF Save, Ops
  <2> QED
    BY <1>1, <1>2, <1>25, <2>1, <2>2 DEF Save
<1>26. ASSUME NEW p \in Procs, Rename(p) \/ SaveFails(p) PROVE Types'
  BY <1>1, <1>2, <1>3, <1>26, BeginTypes DEF Rename, SaveFails, Returns
<1>27. CASE UNCHANGED vars
  BY <1>1, <1>2, <1>27 DEF vars
<1>28. Requests \subseteq Spec_
  OBVIOUS
<1> QED
  BY <1>4, <1>5, <1>6, <1>7, <1>8, <1>9, <1>10, <1>11, <1>12, <1>13, <1>14, <1>15, <1>16, <1>17,
     <1>18, <1>19, <1>20, <1>21, <1>22, <1>23, <1>24, <1>25, <1>26, <1>27, <1>28
  DEF Next, Request, Proceed

-----------------------------------------------------------------------------
(* What the steps that change the table do to it.                           *)

\* Only the object o has changed.
Others(o) == \A q \in Objects \ {o} : obj'[q] = obj[q]

\* Two rules never share an object.
LEMMA Injective ==
  ASSUME TableInv, NEW i \in Ids, NEW j \in Ids, rules[i] # None, rules[i] = rules[j]
  PROVE  i = j
BY DEF TableInv

\* The types of what a rule is made of.
LEMMA RuleTypes ==
  ASSUME IInv, NEW i \in Ids, rules[i] # None
  PROVE  /\ rules[i] \in Objects /\ obj[rules[i]] \in Object
         /\ obj[rules[i]].spec \in Spec_ /\ obj[rules[i]].spec.id = i
BY DEF IInv, Types, TableInv, Object

LEMMA UpdateEffect ==
  ASSUME IInv, NEW c \in Callers, NEW s \in Spec_, Update(c, s)
  PROVE  LET o == rules[s.id]
         IN  /\ s.id \in Ids /\ o \in Objects /\ opMu = None
             /\ obj'[o].spec = s /\ obj'[o].on = s.enabled /\ Others(o)
             /\ \A i \in Ids \ {s.id} :
                  rules[i] # None => ~Overlap(obj[rules[i]].spec.addr, s.addr)
<1>1. s.id \in Ids /\ rules[s.id] # None
  BY DEF Update, Spec_
<1>2. rules[s.id] \in Objects /\ obj \in [Objects -> Object]
  BY <1>1, RuleTypes DEF IInv, Types, Object
<1> QED
  BY <1>1, <1>2 DEF Update, Conflict, Others

LEMMA DisablesEffect ==
  ASSUME IInv, NEW c \in Callers, NEW s \in Spec_, UpdateDisables(c, s)
  PROVE  LET o == rules[s.id]
         IN  /\ s.id \in Ids /\ o \in Objects /\ opMu = None
             /\ obj'[o].spec = [obj[o].spec EXCEPT !.enabled = FALSE]
             /\ ~obj'[o].on /\ Others(o)
<1>1. s.id \in Ids /\ rules[s.id] # None
  BY DEF UpdateDisables, Spec_
<1>2. rules[s.id] \in Objects /\ obj \in [Objects -> Object]
  BY <1>1, RuleTypes DEF IInv, Types, Object
<1> QED
  BY <1>1, <1>2 DEF UpdateDisables, Others

LEMMA DeleteEffect ==
  ASSUME IInv, NEW c \in Callers, NEW i \in Ids, Delete(c, i)
  PROVE  LET o == rules[i]
         IN  /\ o \in Objects /\ opMu = None
             /\ obj'[o].spec = obj[o].spec /\ ~obj'[o].on /\ Others(o)
             /\ rules'[i] = None /\ \A j \in Ids \ {i} : rules'[j] = rules[j]
             /\ \E n \in DOMAIN order :
                  /\ order[n] = i /\ Len(order') = Len(order) - 1
                  /\ \A m \in DOMAIN order' : order'[m] = IF m < n THEN order[m] ELSE order[m + 1]
<1>1. rules[i] \in Objects /\ obj[rules[i]] \in Object /\ rules[i] # None
  BY RuleTypes DEF Delete
<1>2. /\ obj \in [Objects -> Object] /\ rules \in [Ids -> Objects \cup {None}]
      /\ order \in Seq(Ids)
  BY DEF IInv, Types, Object
<1>3. PICK n \in DOMAIN order :
        order[n] = i /\ order' = SubSeq(order, 1, n - 1) \o SubSeq(order, n + 1, Len(order))
  BY <1>1 DEF Delete, Removed, IInv, TableInv
<1>4. /\ Len(order') = Len(order) - 1
      /\ \A m \in DOMAIN order' : order'[m] = IF m < n THEN order[m] ELSE order[m + 1]
  BY <1>2, <1>3, RemoveElement
<1>5. obj'[rules[i]].spec = obj[rules[i]].spec /\ ~obj'[rules[i]].on /\ Others(rules[i])
  <2>1. obj' = [obj EXCEPT ![rules[i]] = [obj[rules[i]] EXCEPT !.on = FALSE]]
    BY DEF Delete
  <2> QED
    BY <1>1, <1>2, <2>1, ObjectUpdate DEF Others
<1> QED
  BY <1>1, <1>2, <1>3, <1>4, <1>5 DEF Delete, Removed

LEMMA InsertEffect ==
  ASSUME IInv, NEW p \in Procs, Insert(p)
  PROVE  LET s == Head(op[p].todo)
             o == Fresh
         IN  /\ op[p].todo \in Seq(Spec_) /\ op[p].todo # <<>>
             /\ s \in Spec_ /\ s.id \in Ids /\ o \in Objects /\ ~Referenced(o)
             /\ obj'[o].spec = s /\ ~obj'[o].on /\ Others(o)
             /\ rules[s.id] = None /\ rules'[s.id] = o
             /\ \A j \in Ids \ {s.id} : rules'[j] = rules[j]
             /\ order' = Append(order, s.id)
             /\ \A i \in Ids :
                  rules[i] # None => ~Overlap(obj[rules[i]].spec.addr, s.addr)
<1> DEFINE s == Head(op[p].todo)
<1>1. op[p].todo \in Seq(Spec_) /\ op[p].todo # <<>>
  BY DEF Insert, Adding, IInv, Types, Ops
<1>2. s \in Spec_
  BY <1>1, HeadTail
<1>3. s.id \in Ids
  BY <1>2 DEF Spec_
<1> HIDE DEF s
<1>4. Fresh \in Objects /\ ~Referenced(Fresh)
  BY FreshObject DEF Insert
<1>5. obj \in [Objects -> Object] /\ rules \in [Ids -> Objects \cup {None}]
  BY DEF IInv, Types, Object
<1>6. /\ obj'[Fresh] = [spec |-> s, on |-> FALSE] /\ Others(Fresh)
      /\ rules'[s.id] = Fresh /\ \A j \in Ids \ {s.id} : rules'[j] = rules[j]
  BY <1>3, <1>4, <1>5 DEF Insert, Others, s
<1>7. /\ rules[s.id] = None /\ order' = Append(order, s.id)
      /\ \A i \in Ids : rules[i] # None => ~Overlap(obj[rules[i]].spec.addr, s.addr)
  BY ManagerAssumption DEF Insert, Acceptable, Conflict, s
<1> QED
  BY <1>1, <1>2, <1>3, <1>4, <1>6, <1>7 DEF s

\* The two ends of the start of a rule.
LEMMA StartEffect ==
  ASSUME IInv, NEW p \in Procs, op[p].pc = "start"
  PROVE  LET i == Head(op[p].todo).id
             o == rules[i]
         IN  /\ op[p].todo \in Seq(Spec_) /\ op[p].todo # <<>>
             /\ i \in Ids /\ o \in Objects /\ o # None
             /\ obj[o].spec = Head(op[p].todo) /\ obj[o].spec \in Spec_ /\ obj[o].spec.enabled
             /\ ~obj[o].on
             /\ Listen(p) => obj'[o].spec = obj[o].spec /\ obj'[o].on /\ Others(o)
             /\ ListenFails(p) =>
                  /\ obj'[o].spec = [obj[o].spec EXCEPT !.enabled = FALSE]
                  /\ obj'[o].on = obj[o].on /\ Others(o)
<1> DEFINE i == Head(op[p].todo).id
           o == rules[i]
<1>1. op[p].todo \in Seq(Spec_) /\ op[p].todo # <<>>
  BY DEF IInv, OpInv, Ready, Types, Ops
<1>2. i \in Ids
  <2>1. Head(op[p].todo) \in Spec_
    BY <1>1, HeadTail
  <2> QED
    BY <2>1 DEF Spec_
<1>3. o # None /\ obj[o].spec = Head(op[p].todo) /\ obj[o].spec.enabled /\ ~obj[o].on
  BY DEF IInv, OpInv, Ready
<1> HIDE DEF i
<1>4. o \in Objects /\ obj[o] \in Object /\ obj[o].spec \in Spec_ /\ obj \in [Objects -> Object]
  BY <1>2, <1>3, RuleTypes DEF IInv, Types, Object
<1>5. ASSUME Listen(p) PROVE obj'[o].spec = obj[o].spec /\ obj'[o].on /\ Others(o)
  <2>1. obj' = [obj EXCEPT ![o] = [obj[o] EXCEPT !.on = TRUE]]
    BY <1>5 DEF Listen, i
  <2> QED
    BY <1>4, <2>1, ObjectUpdate DEF Others
<1>6. ASSUME ListenFails(p)
      PROVE  /\ obj'[o].spec = [obj[o].spec EXCEPT !.enabled = FALSE]
             /\ obj'[o].on = obj[o].on /\ Others(o)
  <2>1. obj' = [obj EXCEPT ![o] = [obj[o] EXCEPT !.spec.enabled = FALSE]]
    BY <1>6 DEF ListenFails, i
  <2> QED
    BY <1>4, <2>1, ObjectDisabled DEF Others
<1> QED
  BY <1>1, <1>2, <1>3, <1>4, <1>5, <1>6 DEF i

LEMMA ClearEffect ==
  ASSUME IInv, NEW p \in Procs, Clear(p)
  PROVE  /\ \A o \in Objects : obj'[o].spec = obj[o].spec /\ ~obj'[o].on
         /\ \A i \in Ids : rules'[i] = None
         /\ order' = <<>>
<1>1. obj \in [Objects -> Object] /\ \A o \in Objects : obj[o].on => o \in Installed
  BY DEF IInv, Types, ListenInv, Object
<1>2. ASSUME NEW o \in Objects PROVE obj'[o].spec = obj[o].spec /\ ~obj'[o].on
  <2>1. obj'[o] = [obj[o] EXCEPT !.on = @ /\ o \notin Installed]
    BY DEF Clear
  <2>2. (obj[o].on /\ o \notin Installed) = FALSE
    BY <1>1
  <2>3. obj'[o] = [obj[o] EXCEPT !.on = FALSE] /\ obj[o] \in Object
    BY <1>1, <2>1, <2>2
  <2> QED
    BY <2>3, ObjectUpdate
<1> QED
  BY <1>2 DEF Clear

\* StopAll only takes the listeners.
LEMMA StopAllEffect ==
  ASSUME IInv, StopAll
  PROVE  \A o \in Objects : obj'[o].spec = obj[o].spec /\ ~obj'[o].on
<1>1. obj \in [Objects -> Object]
  BY DEF IInv, Types, Object
<1>2. \A o \in Objects : obj'[o] = [obj[o] EXCEPT !.on = FALSE]
  BY DEF StopAll
<1> QED
  BY <1>1, <1>2, ObjectUpdate

\* Every other step leaves the table alone.
LEMMA TableSteps ==
  ASSUME IInv, [Next]_vars
  PROVE  \/ UNCHANGED table
         \/ Crash \/ StopAll
         \/ \E c \in Callers, s \in Spec_ : Update(c, s) \/ UpdateDisables(c, s)
         \/ \E c \in Callers, i \in Ids : Delete(c, i)
         \/ \E p \in Procs : Insert(p) \/ Listen(p) \/ ListenFails(p) \/ Clear(p)
<1>1. Requests \subseteq Spec_
  BY ManagerAssumption
<1>2. ASSUME NEW c \in Callers, NEW i \in Ids, NEW b \in BOOLEAN, SetEnabled(c, i, b)
      PROVE  \E s \in Spec_ : Update(c, s)
  BY <1>2, RuleTypes, Disabled DEF SetEnabled
<1>3. ASSUME NEW c \in Callers, Request(c), ~UNCHANGED table
      PROVE  \/ \E s \in Spec_ : Update(c, s) \/ UpdateDisables(c, s)
             \/ \E i \in Ids : Delete(c, i)
  BY <1>1, <1>2, <1>3
  DEF Request, Add, UpdateRefused, SetDetectionConfig, SetScan, Import
<1>4. ASSUME NEW p \in Procs, Proceed(p), ~UNCHANGED table
      PROVE  Insert(p) \/ Listen(p) \/ ListenFails(p) \/ Clear(p)
  BY <1>4
  DEF Proceed, AddRefused, SpecRefused, Unlock, List, Read, ReadAll, ImportRefused, Replace,
      Save, Rename, SaveFails, Returns
<1>5. Boot \/ UNCHANGED vars => UNCHANGED table
  BY DEF Boot, vars
<1> QED
  BY <1>3, <1>4, <1>5 DEF Next

\* Every step keeps list, map and specs together.
LEMMA TableStep ==
  ASSUME IInv, [Next]_vars
  PROVE  TableInv'
<1>1. TableInv /\ order \in Seq(Ids)
  BY DEF IInv, Types
<1>2. ASSUME UNCHANGED <<rules, order>>,
             \A i \in Ids : rules[i] # None =>
               obj'[rules[i]].spec \in Spec_ /\ obj'[rules[i]].spec.id = i
      PROVE  TableInv'
  BY <1>1, <1>2 DEF TableInv
<1>3. CASE UNCHANGED table
  BY <1>1, <1>3 DEF TableInv, table
<1>4. CASE Crash
  BY <1>4 DEF Crash, TableInv
<1>5. CASE StopAll
  BY <1>2, <1>5, StopAllEffect, RuleTypes DEF StopAll
<1>6. ASSUME NEW c \in Callers, NEW s \in Spec_, Update(c, s) PROVE TableInv'
  <2>1. UNCHANGED <<rules, order>>
    BY <1>6 DEF Update
  <2>2. ASSUME NEW i \in Ids, rules[i] # None
        PROVE  obj'[rules[i]].spec \in Spec_ /\ obj'[rules[i]].spec.id = i
    <3>1. CASE i = s.id
      BY <1>6, <3>1, UpdateEffect
    <3>2. CASE i # s.id
      <4>1. rules[i] # rules[s.id]
        BY <1>1, <1>6, <2>2, <3>2, Injective, UpdateEffect
      <4> QED
        BY <1>6, <2>2, <4>1, UpdateEffect, RuleTypes DEF Others
    <3> QED
      BY <3>1, <3>2
  <2> QED
    BY <1>2, <2>1, <2>2
<1>7. ASSUME NEW c \in Callers, NEW s \in Spec_, UpdateDisables(c, s) PROVE TableInv'
  <2>1. UNCHANGED <<rules, order>>
    BY <1>7 DEF UpdateDisables
  <2>2. ASSUME NEW i \in Ids, rules[i] # None
        PROVE  obj'[rules[i]].spec \in Spec_ /\ obj'[rules[i]].spec.id = i
    <3>1. obj[rules[i]].spec \in Spec_ /\ obj[rules[i]].spec.id = i /\ rules[i] \in Objects
      BY <2>2, RuleTypes
    <3>2. CASE rules[i] = rules[s.id]
      <4>1. obj'[rules[s.id]].spec = [obj[rules[s.id]].spec EXCEPT !.enabled = FALSE]
        BY <1>7, DisablesEffect
      <4>2. obj'[rules[i]].spec = [obj[rules[i]].spec EXCEPT !.enabled = FALSE]
        BY <3>2, <4>1
      <4>3. /\ [obj[rules[i]].spec EXCEPT !.enabled = FALSE] \in Spec_
            /\ [obj[rules[i]].spec EXCEPT !.enabled = FALSE].id = obj[rules[i]].spec.id
        BY <3>1, Disabled
      <4> QED
        BY <3>1, <4>2, <4>3
    <3>3. CASE rules[i] # rules[s.id]
      BY <1>7, <3>1, <3>3, DisablesEffect DEF Others
    <3> QED
      BY <3>2, <3>3
  <2> QED
    BY <1>2, <2>1, <2>2
<1>8. ASSUME NEW c \in Callers, NEW i \in Ids, Delete(c, i) PROVE TableInv'
  <2>1. PICK n \in DOMAIN order :
          /\ order[n] = i /\ Len(order') = Len(order) - 1
          /\ \A m \in DOMAIN order' : order'[m] = IF m < n THEN order[m] ELSE order[m + 1]
    BY <1>8, DeleteEffect
  <2>2. /\ order' \in Seq(Ids) /\ DOMAIN order' = 1..(Len(order) - 1)
        /\ DOMAIN order = 1..Len(order) /\ Len(order) \in Nat /\ n \in 1..Len(order)
    BY <1>1, <2>1, TypesStep DEF Types
  <2>3. /\ rules'[i] = None /\ \A j \in Ids \ {i} : rules'[j] = rules[j]
        /\ \A o \in Objects : obj'[o].spec = obj[o].spec
    BY <1>8, DeleteEffect DEF Others
  <2>4. ASSUME NEW m \in DOMAIN order' PROVE order'[m] \in Ids \ {i} /\ rules[order'[m]] # None
    <3>1. PICK k \in DOMAIN order : k # n /\ order'[m] = order[k]
      BY <2>1, <2>2, <2>4
    <3> QED
      BY <1>1, <2>1, <3>1 DEF TableInv
  <2>5. ASSUME NEW j \in Ids, rules'[j] # None PROVE \E m \in DOMAIN order' : order'[m] = j
    <3>1. j # i /\ rules[j] # None
      BY <2>3, <2>5
    <3>2. PICK k \in DOMAIN order : order[k] = j
      BY <1>1, <3>1 DEF TableInv
    <3>3. k # n /\ k \in Int /\ n \in Int
      BY <2>1, <2>2, <3>1, <3>2
    <3>4. CASE k < n
      BY <2>1, <2>2, <3>2, <3>4
    <3>5. CASE k > n
      <4>1. k - 1 \in DOMAIN order' /\ ~(k - 1 < n) /\ (k - 1) + 1 = k
        BY <2>2, <3>5
      <4> QED
        BY <2>1, <3>2, <4>1
    <3> QED
      BY <3>3, <3>4, <3>5
  <2>6. ASSUME NEW a \in DOMAIN order', NEW b \in DOMAIN order', order'[a] = order'[b]
        PROVE  a = b
    <3> DEFINE at(m) == IF m < n THEN m ELSE m + 1
    <3>1. at(a) \in DOMAIN order /\ at(b) \in DOMAIN order
      BY <2>2
    <3>2. order[at(a)] = order[at(b)]
      BY <2>1, <2>6
    <3>3. at(a) = at(b)
      BY <1>1, <3>1, <3>2 DEF TableInv
    <3> QED
      BY <2>2, <3>3
  <2>7. \A j \in Ids : rules'[j] # None =>
          obj'[rules'[j]].spec \in Spec_ /\ obj'[rules'[j]].spec.id = j
    BY <2>3, RuleTypes
  <2> QED
    BY <2>3, <2>4, <2>5, <2>6, <2>7 DEF TableInv
<1>9. ASSUME NEW p \in Procs, Insert(p) PROVE TableInv'
  <2> DEFINE s == Head(op[p].todo)
  <2>1. /\ s \in Spec_ /\ s.id \in Ids /\ Fresh \in Objects
        /\ obj'[Fresh].spec = s /\ Others(Fresh)
        /\ rules[s.id] = None /\ rules'[s.id] = Fresh
        /\ \A j \in Ids \ {s.id} : rules'[j] = rules[j]
        /\ order' = Append(order, s.id)
    BY <1>9, InsertEffect
  <2>2. \A j \in Ids : rules[j] # Fresh
    BY <1>9, ManagerAssumption, InsertEffect DEF Referenced, Installed
  <2> HIDE DEF s
  <2>3. /\ DOMAIN order = 1..Len(order) /\ Len(order) \in Nat
        /\ DOMAIN order' = 1..(Len(order) + 1)
        /\ \A n \in DOMAIN order : order'[n] = order[n] /\ order'[n] \in Ids
        /\ order'[Len(order) + 1] = s.id
    BY <1>1, <2>1
  <2>4. \A n \in DOMAIN order : order[n] # s.id
    BY <1>1, <2>1 DEF TableInv
  <2>5. Fresh # None
    BY <2>1, ManagerAssumption
  <2>6. \A n \in DOMAIN order' : rules'[order'[n]] # None
    BY <1>1, <2>1, <2>3, <2>4, <2>5 DEF TableInv
  <2>7. \A i \in Ids : rules'[i] # None => \E n \in DOMAIN order' : order'[n] = i
    <3>1. ASSUME NEW i \in Ids, rules[i] # None PROVE \E n \in DOMAIN order' : order'[n] = i
      <4>1. PICK n \in DOMAIN order : order[n] = i
        BY <1>1, <3>1 DEF TableInv
      <4> QED
        BY <2>3, <4>1
    <3>2. \E n \in DOMAIN order' : order'[n] = s.id
      BY <2>3
    <3> QED
      BY <2>1, <3>1, <3>2
  <2>8. \A m, n \in DOMAIN order' : order'[m] = order'[n] => m = n
    BY <1>1, <2>3, <2>4 DEF TableInv
  <2>9. \A i \in Ids : rules'[i] # None =>
          obj'[rules'[i]].spec \in Spec_ /\ obj'[rules'[i]].spec.id = i
    BY <2>1, <2>2, RuleTypes DEF Others
  <2> QED
    BY <2>6, <2>7, <2>8, <2>9 DEF TableInv
<1>10. ASSUME NEW p \in Procs, Listen(p) \/ ListenFails(p) PROVE TableInv'
  <2> DEFINE o == rules[Head(op[p].todo).id]
  <2>1. /\ op[p].pc = "start" /\ UNCHANGED <<rules, order>>
    BY <1>10 DEF Listen, ListenFails
  <2>2. /\ o \in Objects /\ Others(o) /\ obj[o].spec \in Spec_
        /\ obj'[o].spec = obj[o].spec \/ obj'[o].spec = [obj[o].spec EXCEPT !.enabled = FALSE]
    BY <1>10, <2>1, StartEffect
  <2> HIDE DEF o
  <2>3. obj'[o].spec \in Spec_ /\ obj'[o].spec.id = obj[o].spec.id
    BY <2>2, Disabled
  <2> QED
    BY <1>2, <2>1, <2>2, <2>3, RuleTypes DEF Others
<1>11. ASSUME NEW p \in Procs, Clear(p) PROVE TableInv'
  BY <1>11, ClearEffect DEF TableInv
<1> QED
  BY <1>3, <1>4, <1>5, <1>6, <1>7, <1>8, <1>9, <1>10, <1>11, TableSteps

\* Every step keeps the addresses apart.
LEMMA DisjointStep ==
  ASSUME IInv, [Next]_vars
  PROVE  Disjoint'
<1>1. TableInv /\ Disjoint
  BY DEF IInv
<1>2. ASSUME \A i \in Ids : rules'[i] # None =>
               /\ rules[i] # None
               /\ obj'[rules'[i]].spec.addr = obj[rules[i]].spec.addr
      PROVE  Disjoint'
  BY <1>1, <1>2 DEF Disjoint
<1>3. CASE UNCHANGED table
  BY <1>1, <1>3 DEF Disjoint, table
<1>4. CASE Crash
  BY <1>4 DEF Crash, Disjoint
<1>5. CASE StopAll
  BY <1>2, <1>5, StopAllEffect, RuleTypes DEF StopAll
<1>6. ASSUME NEW c \in Callers, NEW s \in Spec_, Update(c, s) PROVE Disjoint'
  <2>1. UNCHANGED rules
    BY <1>6 DEF Update
  <2>2. /\ s.id \in Ids /\ obj'[rules[s.id]].spec = s /\ Others(rules[s.id])
        /\ \A i \in Ids \ {s.id} : rules[i] # None => ~Overlap(obj[rules[i]].spec.addr, s.addr)
    BY <1>6, UpdateEffect
  <2>3. \A i \in Ids \ {s.id} : rules[i] # None => obj'[rules[i]] = obj[rules[i]]
    BY <1>1, <2>2, Injective, RuleTypes DEF Others
  <2>4. \A a, b : Overlap(a, b) <=> Overlap(b, a)
    BY DEF Overlap
  <2> QED
    BY <1>1, <2>1, <2>2, <2>3, <2>4 DEF Disjoint
<1>7. ASSUME NEW c \in Callers, NEW s \in Spec_, UpdateDisables(c, s) PROVE Disjoint'
  <2>1. UNCHANGED rules
    BY <1>7 DEF UpdateDisables
  <2>2. ASSUME NEW i \in Ids, rules[i] # None
        PROVE  obj'[rules[i]].spec.addr = obj[rules[i]].spec.addr
    <3>1. rules[i] \in Objects /\ obj[rules[i]].spec \in Spec_
      BY <2>2, RuleTypes
    <3>2. CASE rules[i] = rules[s.id]
      <4>1. obj'[rules[s.id]].spec = [obj[rules[s.id]].spec EXCEPT !.enabled = FALSE]
        BY <1>7, DisablesEffect
      <4> QED
        BY <3>1, <3>2, <4>1, Disabled
    <3>3. CASE rules[i] # rules[s.id]
      BY <1>7, <3>1, <3>3, DisablesEffect DEF Others
    <3> QED
      BY <3>2, <3>3
  <2> QED
    BY <1>2, <2>1, <2>2
<1>8. ASSUME NEW c \in Callers, NEW i \in Ids, Delete(c, i) PROVE Disjoint'
  <2>1. /\ rules'[i] = None /\ \A j \in Ids \ {i} : rules'[j] = rules[j]
        /\ \A o \in Objects : obj'[o].spec = obj[o].spec
    BY <1>8, DeleteEffect DEF Others
  <2> QED
    BY <1>2, <2>1, RuleTypes
<1>9. ASSUME NEW p \in Procs, Insert(p) PROVE Disjoint'
  <2> DEFINE s == Head(op[p].todo)
  <2>1. /\ s.id \in Ids /\ Fresh \in Objects /\ obj'[Fresh].spec = s /\ Others(Fresh)
        /\ rules'[s.id] = Fresh /\ \A j \in Ids \ {s.id} : rules'[j] = rules[j]
        /\ \A i \in Ids : rules[i] # None => ~Overlap(obj[rules[i]].spec.addr, s.addr)
    BY <1>9, InsertEffect
  <2>2. \A j \in Ids : rules[j] # Fresh
    BY <1>9, ManagerAssumption, InsertEffect DEF Referenced, Installed
  <2> HIDE DEF s
  <2>3. \A i \in Ids \ {s.id} : rules[i] # None => obj'[rules'[i]] = obj[rules[i]]
    BY <2>1, <2>2, RuleTypes DEF Others
  <2>4. \A a, b : Overlap(a, b) <=> Overlap(b, a)
    BY DEF Overlap
  <2> QED
    BY <1>1, <2>1, <2>3, <2>4 DEF Disjoint
<1>10. ASSUME NEW p \in Procs, Listen(p) \/ ListenFails(p) PROVE Disjoint'
  <2> DEFINE o == rules[Head(op[p].todo).id]
  <2>1. /\ op[p].pc = "start" /\ UNCHANGED rules
    BY <1>10 DEF Listen, ListenFails
  <2>2. /\ o \in Objects /\ Others(o) /\ obj[o].spec \in Spec_
        /\ obj'[o].spec = obj[o].spec \/ obj'[o].spec = [obj[o].spec EXCEPT !.enabled = FALSE]
    BY <1>10, <2>1, StartEffect
  <2> HIDE DEF o
  <2>3. obj'[o].spec.addr = obj[o].spec.addr
    BY <2>2, Disabled
  <2> QED
    BY <1>2, <2>1, <2>2, <2>3, RuleTypes DEF Others
<1>11. ASSUME NEW p \in Procs, Clear(p) PROVE Disjoint'
  BY <1>11, ClearEffect DEF Disjoint
<1> QED
  BY <1>3, <1>4, <1>5, <1>6, <1>7, <1>8, <1>9, <1>10, <1>11, TableSteps

-----------------------------------------------------------------------------
(* The calls under way, and the lock.                                       *)

\* An object that has a spec keeps one until the process ends.
LEMMA SpecsStay ==
  ASSUME IInv, [Next]_vars, ~Crash, NEW o \in Objects, obj[o].spec \in Spec_
  PROVE  obj'[o].spec \in Spec_
<1>1. CASE UNCHANGED table
  BY <1>1 DEF table
<1>2. CASE StopAll
  BY <1>2, StopAllEffect
<1>3. ASSUME NEW c \in Callers, NEW s \in Spec_, Update(c, s) PROVE obj'[o].spec \in Spec_
  BY <1>3, UpdateEffect DEF Others
<1>4. ASSUME NEW c \in Callers, NEW s \in Spec_, UpdateDisables(c, s)
      PROVE  obj'[o].spec \in Spec_
  <2>1. /\ obj'[rules[s.id]].spec = [obj[rules[s.id]].spec EXCEPT !.enabled = FALSE]
        /\ Others(rules[s.id])
    BY <1>4, DisablesEffect
  <2> QED
    BY <2>1, Disabled DEF Others
<1>5. ASSUME NEW c \in Callers, NEW i \in Ids, Delete(c, i) PROVE obj'[o].spec \in Spec_
  BY <1>5, DeleteEffect DEF Others
<1>6. ASSUME NEW p \in Procs, Insert(p) PROVE obj'[o].spec \in Spec_
  BY <1>6, InsertEffect DEF Others
<1>7. ASSUME NEW p \in Procs, Listen(p) PROVE obj'[o].spec \in Spec_
  BY <1>7, StartEffect DEF Others, Listen
<1>8. ASSUME NEW p \in Procs, ListenFails(p) PROVE obj'[o].spec \in Spec_
  <2> DEFINE r == rules[Head(op[p].todo).id]
  <2>1. obj'[r].spec = [obj[r].spec EXCEPT !.enabled = FALSE] /\ Others(r)
    BY <1>8, StartEffect DEF ListenFails
  <2> QED
    BY <2>1, Disabled DEF Others
<1>9. ASSUME NEW p \in Procs, Clear(p) PROVE obj'[o].spec \in Spec_
  BY <1>9, ClearEffect
<1> QED
  BY <1>1, <1>2, <1>3, <1>4, <1>5, <1>6, <1>7, <1>8, <1>9, TableSteps

\* While a rule is being started nobody else changes the table.
LEMMA StartedAlone ==
  ASSUME IInv, [Next]_vars, NEW p \in Procs, op[p].pc = "start", op'[p].pc = "start"
  PROVE  UNCHANGED table
<1>1. opMu = p /\ opMu # None /\ op[p] \in Ops /\ op \in [Procs -> Ops]
      /\ \A q \in Procs : op[q].pc \in Changing => q = p
  BY ManagerAssumption DEF IInv, LockInv, Changing, Types
<1>2. ~Crash
  BY DEF Crash, Idle
<1>3. ~StopAll
  BY <1>1 DEF StopAll
<1>4. \A c \in Callers, s \in Spec_ : ~Update(c, s) /\ ~UpdateDisables(c, s)
  BY <1>1 DEF Update, UpdateDisables
<1>5. \A c \in Callers, i \in Ids : ~Delete(c, i)
  BY <1>1 DEF Delete
<1>6. ASSUME NEW q \in Procs, Insert(q) \/ Clear(q) PROVE FALSE
  BY <1>1, <1>6 DEF Insert, Adding, Clear, Changing
<1>7. ASSUME NEW q \in Procs, Listen(q) PROVE FALSE
  <2>1. q = p /\ op'[p] = [op[p] EXCEPT !.pc = "add", !.todo = Tail(op[p].todo)]
    BY <1>1, <1>7 DEF Listen, Changing, Step
  <2> QED
    BY <1>1, <2>1 DEF Ops
<1>8. ASSUME NEW q \in Procs, ListenFails(q) PROVE FALSE
  <2>1. q = p /\ op'[p] = AfterFailure(op[p])
    BY <1>1, <1>8 DEF ListenFails, Changing, Step
  <2>2. op[p].todo # <<>> /\ op[p].kind \in {"add", "load", "replace", "rollback"}
    BY DEF IInv, OpInv, Ready
  <2> QED
    BY <1>1, <2>1, <2>2, FailureTypes
<1> QED
  BY <1>2, <1>3, <1>4, <1>5, <1>6, <1>7, <1>8, TableSteps

\* What the calls rely on is so after every step, and the lock has one holder.
LEMMA OpsStep ==
  ASSUME IInv, [Next]_vars
  PROVE  LockInv' /\ OpInv'
<1> USE ManagerAssumption DEF Changing
<1>1. /\ LockInv /\ OpInv /\ op \in [Procs -> Ops] /\ op' \in [Procs -> Ops]
      /\ opMu \in Procs \cup {None} /\ None \notin Procs
      /\ Main \in Procs /\ Callers \subseteq Procs /\ Main \notin Callers
  BY TypesStep DEF IInv, Types, Procs
\* The others: p is the one that acts.
<1>2. ASSUME NEW p \in Procs, ~Crash,
             \A q \in Procs \ {p} : Same(op'[q], op[q])
      PROVE  \A q \in Procs \ {p} : (Ready(op[q]) /\ ToRead(op[q]))'
  <2> TAKE q \in Procs \ {p}
  <2>1. Ready(op[q]) /\ ToRead(op[q]) /\ Same(op'[q], op[q])
    BY <1>1, <1>2 DEF OpInv
  <2>2. Ready(op[q])'
    <3>1. CASE op[q].pc = "start"
      <4>1. UNCHANGED table
        BY <2>1, <3>1, StartedAlone DEF Same
      <4> QED
        BY <2>1, <4>1 DEF Ready, Same, table
    <3>2. CASE op[q].pc # "start"
      BY <2>1, <3>2 DEF Ready, Same
    <3> QED
      BY <3>1, <3>2
  <2>3. ToRead(op[q])'
    <3>1. op[q].left \in Seq(Objects)
      BY <1>1 DEF Ops
    <3> QED
      BY <1>2, <2>1, <3>1, SpecsStay DEF ToRead, Same
  <2> QED
    BY <2>2, <2>3
<1>3. ASSUME NEW p \in Procs, ~Crash, op'[p].left = op[p].left PROVE ToRead(op[p])'
  <2>1. op[p].left \in Seq(Objects) /\ ToRead(op[p])
    BY <1>1 DEF Ops, OpInv
  <2> QED
    BY <1>3, <2>1, SpecsStay DEF ToRead
\* The lock, when p is in a call and takes a step of it.
<1>4. ASSUME NEW p \in Procs, op[p].pc # "idle",
             \A q \in Procs \ {p} : op'[q] = op[q],
             opMu' = p <=> op'[p].pc \in Changing,
             \A q \in Procs \ {p} : opMu' = q <=> opMu = q,
             phase' = phase \/ (p = Main /\ phase' = "up" /\ op'[p].pc = "idle")
      PROVE  LockInv'
  BY <1>1, <1>4 DEF LockInv
\* The lock, when a request begins.
<1>5. ASSUME NEW c \in Callers, phase = "up", phase' = phase,
             \A q \in Procs \ {c} : Same(op'[q], op[q]),
             opMu' = c <=> op'[c].pc \in Changing,
             \A q \in Procs \ {c} : opMu' = q <=> opMu = q
      PROVE  LockInv'
  BY <1>1, <1>5 DEF LockInv, Same
<1>6. CASE Boot
  <2>1. /\ \A q \in Procs : op[q].pc = "idle"
        /\ op'[Main] = [Idle EXCEPT !.pc = "add", !.kind = "load", !.todo = file]
        /\ \A q \in Procs \ {Main} : op'[q] = op[q]
        /\ phase' = "boot" /\ opMu' = Main /\ ~Crash
    BY <1>1, <1>6 DEF Boot, LockInv, Crash
  <2>2. op'[Main].pc = "add" /\ op'[Main].kind = "load" /\ op'[Main].left = <<>>
    BY <2>1 DEF Idle
  <2>3. (Ready(op[Main]) /\ ToRead(op[Main]))'
    BY <2>2 DEF Ready, ToRead
  <2> QED
    BY <1>1, <1>2, <2>1, <2>2, <2>3 DEF LockInv, OpInv, Same
<1>7. CASE Crash
  <2>1. \A q \in Procs : op'[q].pc = "idle" /\ op'[q].left = <<>>
    BY <1>7 DEF Crash, Idle
  <2> QED
    BY <1>1, <1>7, <2>1 DEF Crash, LockInv, OpInv, Ready, ToRead
<1>8. CASE UNCHANGED <<op, opMu>> /\ (phase' = phase \/ StopAll)
  <2>1. ~Crash \/ \A p \in Procs : op'[p].left = <<>> /\ op'[p].pc = "idle"
    BY DEF Crash, Idle
  <2>2. LockInv'
    BY <1>1, <1>8 DEF LockInv, StopAll
  <2>3. OpInv'
    <3>1. CASE Crash
      BY <2>1, <3>1, <1>7
    <3>2. CASE ~Crash
      <4>1. \A p \in Procs : ToRead(op[p])'
        BY <1>3, <1>8, <3>2
      <4>2. ASSUME NEW p \in Procs PROVE Ready(op[p])'
        <5>1. CASE op[p].pc = "start"
          <6>1. UNCHANGED table
            BY <1>8, <5>1, StartedAlone
          <6> QED
            BY <1>1, <1>8, <6>1 DEF OpInv, Ready, table
        <5>2. CASE op[p].pc # "start"
          BY <1>1, <1>8, <5>2 DEF OpInv, Ready
        <5> QED
          BY <5>1, <5>2
      <4> QED
        BY <4>1, <4>2 DEF OpInv
    <3> QED
      BY <3>1, <3>2
  <2> QED
    BY <2>2, <2>3
\* A request begins with the locals o.
<1>9. ASSUME NEW c \in Callers, NEW o \in Ops, Begin(c, o), ~Crash, phase' = phase,
             o.left = <<>>,
             \/ o.pc \in {"list", "save"} /\ opMu' = opMu
             \/ o.pc = "add" /\ o.kind = "add" /\ opMu = None /\ opMu' = c
      PROVE  LockInv' /\ OpInv'
  <2>1. /\ phase = "up" /\ op[c].pc = "idle" /\ Same(op'[c], o)
        /\ \A q \in Procs \ {c} : Same(op'[q], op[q])
    BY <1>9, Begun DEF IInv
  <2>2. (Ready(op[c]) /\ ToRead(op[c]))'
    BY <1>9, <2>1 DEF Ready, ToRead, Same
  <2>3. opMu # c
    BY <1>1, <2>1 DEF LockInv
  <2>4. LockInv'
    BY <1>1, <1>5, <1>9, <2>1, <2>3 DEF Same
  <2> QED
    BY <1>1, <1>2, <1>9, <2>1, <2>2, <2>4 DEF OpInv
<1>10. ASSUME NEW c \in Callers, Request(c) PROVE LockInv' /\ OpInv'
  <2>1. /\ ~Crash /\ phase' = phase
    BY <1>10, Begun
    DEF Request, Add, Update, UpdateDisables, UpdateRefused, Delete, SetEnabled,
        SetDetectionConfig, SetScan, Import, Begin, Crash
  <2>2. CASE Begin(c, Notifying) /\ opMu' = opMu
    <3>1. Notifying \in Ops /\ Notifying.left = <<>> /\ Notifying.pc = "list"
      BY BeginTypes DEF Notifying, Idle
    <3> QED
      BY <1>9, <2>1, <2>2, <3>1
  <2>3. ASSUME NEW s \in Requests, Add(c, s) PROVE LockInv' /\ OpInv'
    <3> DEFINE o == [Idle EXCEPT !.pc = "add", !.kind = "add", !.todo = <<s>>]
    <3>1. o \in Ops
      <4>1. <<s>> \in Seq(Spec_)
        OBVIOUS
      <4> QED
        BY <4>1, BeginTypes DEF Kinds
    <3>2. o.left = <<>> /\ o.pc = "add" /\ o.kind = "add"
      BY DEF Idle
    <3>3. Begin(c, o) /\ opMu = None /\ opMu' = c
      BY <2>3 DEF Add
    <3> HIDE DEF o
    <3> QED
      BY <1>9, <2>1, <3>1, <3>2, <3>3
  <2>4. CASE SetScan(c)
    <3> DEFINE o == [Idle EXCEPT !.pc = "save", !.kind = "settings"]
    <3>1. o \in Ops /\ o.left = <<>> /\ o.pc = "save"
      BY BeginTypes DEF Idle
    <3>2. Begin(c, o) /\ opMu' = opMu
      BY <2>4 DEF SetScan
    <3> HIDE DEF o
    <3> QED
      BY <1>9, <2>1, <3>1, <3>2
  <2>5. ASSUME NEW f \in Profiles, Import(c, f) PROVE LockInv' /\ OpInv'
    <3> DEFINE o == [Idle EXCEPT !.pc = "list", !.kind = "import", !.profile = f]
    <3>1. o \in Ops /\ o.left = <<>> /\ o.pc = "list"
      BY BeginTypes DEF Idle
    <3>2. Begin(c, o) /\ opMu' = opMu
      BY <2>5 DEF Import
    <3> HIDE DEF o
    <3> QED
      BY <1>9, <2>1, <3>1, <3>2
  <2> QED
    BY <1>10, <2>2, <2>3, <2>4, <2>5
    DEF Request, Update, UpdateDisables, UpdateRefused, Delete, SetEnabled, SetDetectionConfig
\* A call takes a step.
<1>11. ASSUME NEW p \in Procs, op[p].pc # "idle",
              phase' = phase \/ (p = Main /\ phase' = "up" /\ op'[p].pc = "idle"),
              \A q \in Procs \ {p} : op'[q] = op[q],
              (Ready(op[p]) /\ ToRead(op[p]))',
              opMu' = p <=> op'[p].pc \in Changing,
              \A q \in Procs \ {p} : opMu' = q <=> opMu = q
       PROVE  LockInv' /\ OpInv'
  <2>1. LockInv'
    BY <1>4, <1>11
  <2>2. ~Crash
    <3>1. phase # "down"
      BY <1>1, <1>11 DEF LockInv
    <3>2. phase' # "down"
      BY <1>11, <3>1
    <3> QED
      BY <3>2 DEF Crash
  <2>3. \A q \in Procs \ {p} : Same(op'[q], op[q])
    BY <1>11 DEF Same
  <2> QED
    BY <1>2, <1>11, <2>1, <2>2, <2>3 DEF OpInv
\* ... which is to say that p assigns its own locals.
<1>12. ASSUME NEW p \in Procs, NEW o \in Ops, Step(p, o)
       PROVE  op'[p] = o /\ \A q \in Procs \ {p} : op'[q] = op[q]
  BY <1>1, <1>12 DEF Step
<1>13. ASSUME NEW p \in Procs, op[p].pc # "idle", phase' = phase, op'[p].left = op[p].left
       PROVE  ToRead(op[p])'
  <2>1. ~Crash
    BY <1>1, <1>13 DEF Crash, LockInv
  <2> QED
    BY <1>3, <1>13, <2>1
\* What the lock demands of each kind of step.
<1>14. ASSUME NEW p \in Procs, opMu' = opMu
       PROVE  /\ \A q \in Procs \ {p} : opMu' = q <=> opMu = q
              /\ (op[p].pc \in Changing <=> op'[p].pc \in Changing) =>
                   (opMu' = p <=> op'[p].pc \in Changing)
  BY <1>1, <1>14 DEF LockInv
<1>15. ASSUME NEW p \in Procs, opMu' = None, op[p].pc \in Changing
       PROVE  \A q \in Procs : opMu' # q /\ (q # p => opMu # q)
  BY <1>1, <1>15 DEF LockInv
<1>16. ASSUME NEW p \in Procs, Insert(p) PROVE LockInv' /\ OpInv'
  <2> DEFINE s == Head(op[p].todo)
  <2>1. /\ op[p].pc = "add" /\ opMu' = opMu /\ phase' = phase /\ op[p] \in Ops
        /\ op[p].kind \in {"add", "load", "replace", "rollback"}
        /\ op' = [op EXCEPT ![p] = IF s.enabled THEN [op[p] EXCEPT !.pc = "start"]
                                   ELSE [op[p] EXCEPT !.todo = Tail(@)]]
    BY <1>1, <1>16 DEF Insert, Adding, Step, OpInv, Ready
  <2>2. /\ s.id \in Ids /\ s \in Spec_ /\ rules'[s.id] = Fresh /\ obj'[Fresh].spec = s
        /\ Fresh \in Objects /\ ~obj'[Fresh].on /\ op[p].todo # <<>>
    BY <1>16, InsertEffect
  <2> HIDE DEF s
  <2>3. \A q \in Procs \ {p} : op'[q] = op[q]
    BY <1>1, <2>1
  <2>4. CASE s.enabled
    <3>1. op'[p] = [op[p] EXCEPT !.pc = "start"]
      BY <1>1, <2>1, <2>4
    <3> op[p] \in Ops
      BY <2>1
    <3>2. /\ op'[p].pc = "start" /\ op'[p].kind = op[p].kind /\ op'[p].todo = op[p].todo
          /\ op'[p].left = op[p].left
      BY <3>1 DEF Ops
    <3>3. Ready(op[p])'
      BY <2>1, <2>2, <2>4, <3>2, ManagerAssumption DEF Ready, s
    <3>4. ToRead(op[p])'
      BY <1>13, <2>1, <3>2
    <3> QED
      BY <1>11, <1>14, <2>1, <2>3, <3>2, <3>3, <3>4
  <2>5. CASE ~s.enabled
    <3> DEFINE rest == Tail(op[p].todo)
    <3>1. op'[p] = [op[p] EXCEPT !.todo = rest]
      BY <1>1, <2>1, <2>5
    <3> HIDE DEF rest
    <3>2. op'[p].pc = "add" /\ op'[p].kind = op[p].kind /\ op'[p].left = op[p].left
      BY <2>1, <3>1 DEF Ops
    <3>3. Ready(op[p])'
      BY <2>1, <3>2 DEF Ready
    <3>4. ToRead(op[p])'
      BY <1>13, <2>1, <3>2
    <3> QED
      BY <1>11, <1>14, <2>1, <2>3, <3>2, <3>3, <3>4
  <2> QED
    BY <2>4, <2>5
<1>17. ASSUME NEW p \in Procs, AddRefused(p) \/ ImportRefused(p) \/ Rename(p) \/ SaveFails(p)
       PROVE  LockInv' /\ OpInv'
  <2>1. op'[p] = Idle /\ \A q \in Procs \ {p} : op'[q] = op[q]
    BY <1>12, <1>17, BeginTypes DEF AddRefused, ImportRefused, Rename, SaveFails, Returns
  <2>2. op'[p].pc = "idle" /\ op'[p].left = <<>>
    BY <2>1 DEF Idle
  <2>3. (Ready(op[p]) /\ ToRead(op[p]))'
    BY <2>2 DEF Ready, ToRead
  <2>4. op[p].pc # "idle" /\ (phase' = phase \/ (p = Main /\ phase' = "up"))
    BY <1>17 DEF AddRefused, Adding, ImportRefused, Rename, SaveFails, Returns
  <2>5. CASE AddRefused(p)
    BY <1>11, <1>15, <2>1, <2>2, <2>3, <2>4, <2>5 DEF AddRefused, Adding
  <2>6. CASE ~AddRefused(p)
    <3>1. opMu' = opMu /\ op[p].pc \notin Changing
      BY <1>17, <2>6 DEF ImportRefused, Rename, SaveFails, Returns
    <3> QED
      BY <1>11, <1>14, <2>1, <2>2, <2>3, <2>4, <3>1
  <2> QED
    BY <2>5, <2>6
<1>18. ASSUME NEW p \in Procs, SpecRefused(p) \/ ListenFails(p) PROVE LockInv' /\ OpInv'
  <2>1. /\ op[p].pc \in {"add", "start"} /\ opMu' = opMu /\ phase' = phase /\ op[p] \in Ops
        /\ op[p].kind \in {"add", "load", "replace", "rollback"} /\ op[p].todo # <<>>
    BY <1>1, <1>18 DEF SpecRefused, ListenFails, Adding, OpInv, Ready
  <2>2. op'[p] = AfterFailure(op[p]) /\ \A q \in Procs \ {p} : op'[q] = op[q]
    BY <1>12, <1>18, <2>1, FailureTypes DEF SpecRefused, ListenFails
  <2>3. /\ op'[p].left = op[p].left
        /\ \/ op'[p].pc = "add" /\ op'[p].kind \in {"add", "load"}
           \/ op'[p].pc = "add" /\ op'[p].todo = <<>>
           \/ op'[p].pc = "clear" /\ op'[p].kind = "rollback"
    BY <2>1, <2>2, FailureTypes
  <2>4. Ready(op[p])'
    BY <2>3 DEF Ready
  <2>5. ToRead(op[p])'
    BY <1>13, <2>1, <2>3
  <2> QED
    BY <1>11, <1>14, <2>1, <2>2, <2>3, <2>4, <2>5
<1>19. ASSUME NEW p \in Procs, Listen(p) PROVE LockInv' /\ OpInv'
  <2>1. /\ op[p].pc = "start" /\ opMu' = opMu /\ phase' = phase /\ op[p] \in Ops
        /\ op[p].kind \in {"add", "load", "replace", "rollback"}
        /\ op' = [op EXCEPT ![p] = [op[p] EXCEPT !.pc = "add", !.todo = Tail(@)]]
    BY <1>1, <1>19 DEF Listen, Step, OpInv, Ready
  <2>2. /\ op'[p].pc = "add" /\ op'[p].kind = op[p].kind /\ op'[p].left = op[p].left
        /\ \A q \in Procs \ {p} : op'[q] = op[q]
    BY <1>1, <2>1 DEF Ops
  <2>3. Ready(op[p])'
    BY <2>1, <2>2 DEF Ready
  <2>4. ToRead(op[p])'
    BY <1>13, <2>1, <2>2
  <2> QED
    BY <1>11, <1>14, <2>1, <2>2, <2>3, <2>4
<1>20. ASSUME NEW p \in Procs, Unlock(p) PROVE LockInv' /\ OpInv'
  <2>1. /\ op[p].pc = "add" /\ opMu' = None /\ phase' = phase
        /\ op' = [op EXCEPT ![p] = AfterChange(op[p])]
    BY <1>20 DEF Unlock, Step
  <2>2. op'[p] = AfterChange(op[p]) /\ \A q \in Procs \ {p} : op'[q] = op[q]
    BY <1>1, <2>1
  <2>3. op'[p].pc \in {"save", "list"} /\ op'[p].left = <<>>
    BY <2>2 DEF AfterChange, Idle
  <2>4. (Ready(op[p]) /\ ToRead(op[p]))'
    BY <2>3 DEF Ready, ToRead
  <2> QED
    BY <1>11, <1>15, <2>1, <2>2, <2>3, <2>4
<1>21. ASSUME NEW p \in Procs, List(p) PROVE LockInv' /\ OpInv'
  <2>1. /\ op[p].pc = "list" /\ opMu' = opMu /\ phase' = phase /\ op[p] \in Ops
        /\ op' = [op EXCEPT ![p] = [op[p] EXCEPT !.pc = "read", !.left = Objs]]
        /\ UNCHANGED obj
    BY <1>1, <1>21 DEF List, Step, table
  <2>2. /\ op'[p].pc = "read" /\ op'[p].left = Objs
        /\ \A q \in Procs \ {p} : op'[q] = op[q]
    BY <1>1, <2>1 DEF Ops
  <2>3. Ready(op[p])'
    BY <2>2 DEF Ready
  <2>4. ToRead(op[p])'
    BY <2>1, <2>2, ListTypes DEF ToRead, IInv
  <2> QED
    BY <1>11, <1>14, <2>1, <2>2, <2>3, <2>4
<1>22. ASSUME NEW p \in Procs, Read(p) PROVE LockInv' /\ OpInv'
  <2>1. /\ op[p].pc = "read" /\ opMu' = opMu /\ phase' = phase /\ op[p] \in Ops
        /\ op[p].left \in Seq(Objects) /\ op[p].left # <<>> /\ UNCHANGED obj
        /\ ToRead(op[p])
    BY <1>1, <1>22 DEF Read, table, Ops, OpInv
  <2>2. op'[p] = [op[p] EXCEPT !.left = Tail(op[p].left),
                               !.read = Append(op[p].read, obj[Head(op[p].left)].spec)]
    BY <1>1, <1>22 DEF Read, Step
  <2>3. op'[p].pc = "read" /\ op'[p].left = Tail(op[p].left)
    BY <2>1, <2>2 DEF Ops
  <2>4. \A q \in Procs \ {p} : op'[q] = op[q]
    BY <1>1, <1>22 DEF Read, Step
  <2>5. Ready(op[p])'
    BY <2>3 DEF Ready
  <2>6. ToRead(op[p])'
    <3>1. /\ DOMAIN Tail(op[p].left) = 1..(Len(op[p].left) - 1)
          /\ DOMAIN op[p].left = 1..Len(op[p].left)
          /\ \A n \in 1..(Len(op[p].left) - 1) : Tail(op[p].left)[n] = op[p].left[n + 1]
      BY <2>1
    <3>2. \A n \in 1..(Len(op[p].left) - 1) : n + 1 \in DOMAIN op[p].left
      BY <2>1, <3>1
    <3> QED
      BY <2>1, <2>3, <3>1, <3>2 DEF ToRead
  <2> QED
    BY <1>11, <1>14, <2>1, <2>3, <2>4, <2>5, <2>6
<1>23. ASSUME NEW p \in Procs, ReadAll(p) PROVE LockInv' /\ OpInv'
  <2>1. /\ op[p].pc = "read" /\ opMu' = opMu /\ phase' = phase /\ op[p] \in Ops
        /\ op' = [op EXCEPT ![p] = [op[p] EXCEPT !.pc = IF op[p].kind = "import" THEN "merge"
                                                         ELSE "save"]]
    BY <1>1, <1>23 DEF ReadAll, Step
  <2>2. /\ op'[p].pc \in {"merge", "save"} /\ op'[p].left = op[p].left
        /\ \A q \in Procs \ {p} : op'[q] = op[q]
    BY <1>1, <2>1 DEF Ops
  <2>3. Ready(op[p])'
    BY <2>2 DEF Ready
  <2>4. ToRead(op[p])'
    BY <1>13, <2>1, <2>2
  <2>5. opMu' = p <=> op'[p].pc \in Changing
    BY <1>14, <2>1, <2>2
  <2>6. \A q \in Procs \ {p} : opMu' = q <=> opMu = q
    BY <1>14, <2>1
  <2>7. op[p].pc # "idle"
    BY <2>1
  <2> QED
    BY <1>11, <2>1, <2>2, <2>3, <2>4, <2>5, <2>6, <2>7
<1>24. ASSUME NEW p \in Procs, Replace(p) PROVE LockInv' /\ OpInv'
  <2>1. /\ op[p].pc = "merge" /\ opMu = None /\ opMu' = p /\ phase' = phase /\ op[p] \in Ops
        /\ op' = [op EXCEPT ![p] = [op[p] EXCEPT !.pc = "clear", !.kind = "replace",
                    !.read = <<>>, !.old = Specs, !.wanted = Merged(op[p].read, op[p].profile),
                    !.todo = Merged(op[p].read, op[p].profile)]]
    BY <1>1, <1>24 DEF Replace, Step
  <2>2. /\ op'[p].pc = "clear" /\ op'[p].kind = "replace" /\ op'[p].left = op[p].left
        /\ \A q \in Procs \ {p} : op'[q] = op[q]
    BY <1>1, <2>1 DEF Ops
  <2>3. Ready(op[p])'
    BY <2>2 DEF Ready
  <2>4. ToRead(op[p])'
    BY <1>13, <2>1, <2>2
  <2> QED
    BY <1>1, <1>11, <2>1, <2>2, <2>3, <2>4
<1>25. ASSUME NEW p \in Procs, Clear(p) PROVE LockInv' /\ OpInv'
  <2>1. /\ op[p].pc = "clear" /\ opMu' = opMu /\ phase' = phase /\ op[p] \in Ops
        /\ op[p].kind \in {"replace", "rollback"}
        /\ op' = [op EXCEPT ![p] = [op[p] EXCEPT !.pc = "add"]]
    BY <1>1, <1>25 DEF Clear, Step, OpInv, Ready
  <2>2. /\ op'[p].pc = "add" /\ op'[p].kind = op[p].kind /\ op'[p].left = op[p].left
        /\ \A q \in Procs \ {p} : op'[q] = op[q]
    BY <1>1, <2>1 DEF Ops
  <2>3. Ready(op[p])'
    BY <2>1, <2>2 DEF Ready
  <2>4. ToRead(op[p])'
    BY <1>13, <2>1, <2>2
  <2> QED
    BY <1>11, <1>14, <2>1, <2>2, <2>3, <2>4
<1>26. ASSUME NEW p \in Procs, Save(p) PROVE LockInv' /\ OpInv'
  <2>1. /\ op[p].pc = "save" /\ opMu' = opMu /\ phase' = phase /\ op[p] \in Ops
        /\ op' = [op EXCEPT ![p] = [op[p] EXCEPT !.pc = "rename", !.read = <<>>]]
    BY <1>1, <1>26 DEF Save, Step
  <2>2. /\ op'[p].pc = "rename" /\ op'[p].left = op[p].left
        /\ \A q \in Procs \ {p} : op'[q] = op[q]
    BY <1>1, <2>1 DEF Ops
  <2>3. Ready(op[p])'
    BY <2>2 DEF Ready
  <2>4. ToRead(op[p])'
    BY <1>13, <2>1, <2>2
  <2> QED
    BY <1>11, <1>14, <2>1, <2>2, <2>3, <2>4
<1>27. CASE StopAll
  BY <1>8, <1>27 DEF StopAll
<1>28. CASE UNCHANGED vars
  BY <1>8, <1>28 DEF vars
<1> QED
  BY <1>6, <1>7, <1>10, <1>16, <1>17, <1>18, <1>19, <1>20, <1>21, <1>22, <1>23, <1>24, <1>25,
     <1>26, <1>27, <1>28
  DEF Next, Proceed

-----------------------------------------------------------------------------
(* Listeners.                                                               *)

\* Only its holder moves while opMu is held, or the process ends.
LEMMA HolderMoves ==
  ASSUME IInv, [Next]_vars, NEW p \in Procs, op[p].pc \in Changing
  PROVE  Crash \/ Proceed(p) \/ (UNCHANGED table /\ Same(op'[p], op[p]))
<1>1. /\ opMu = p /\ opMu # None /\ op \in [Procs -> Ops] /\ Callers \subseteq Procs
      /\ Main \in Procs /\ phase # "down" /\ op[p].pc # "idle"
      /\ \A q \in Procs : op[q].pc \in Changing => q = p
  BY ManagerAssumption DEF IInv, LockInv, Changing, Types, Procs
<1>2. ASSUME op'[p] = op[p] PROVE Same(op'[p], op[p])
  BY <1>2 DEF Same
<1>3. ~StopAll /\ ~Boot
  BY <1>1 DEF StopAll, Boot
<1>4. ASSUME NEW c \in Callers, Request(c) PROVE UNCHANGED table /\ Same(op'[p], op[p])
  <2>1. \/ \E s \in Requests : UpdateDisables(c, s)
        \/ UpdateRefused(c) \/ SetDetectionConfig(c) \/ SetScan(c)
        \/ \E f \in Profiles : Import(c, f)
    BY <1>1, <1>4 DEF Request, Add, Update, Delete, SetEnabled
  <2>2. UNCHANGED table
    BY <1>1, <2>1 DEF UpdateDisables, UpdateRefused, SetDetectionConfig, SetScan, Import
  <2>3. \E o \in Ops : Begin(c, o)
    BY <1>1, <2>1, BeginTypes DEF UpdateDisables, UpdateRefused, SetDetectionConfig, SetScan, Import
  <2>4. op[c].pc = "idle" /\ \A q \in Procs \ {c} : Same(op'[q], op[q])
    BY <2>3, Begun DEF IInv
  <2> QED
    BY <1>1, <2>2, <2>4
<1>5. ASSUME NEW q \in Procs, q # p, Proceed(q) PROVE UNCHANGED table /\ op'[p] = op[p]
  <2>1. op[q].pc \notin Changing
    BY <1>1, <1>5
  <2>2. List(q) \/ Read(q) \/ ReadAll(q) \/ ImportRefused(q) \/ Save(q) \/ Rename(q) \/ SaveFails(q)
    BY <1>1, <1>5, <2>1
    DEF Proceed, Insert, AddRefused, SpecRefused, Adding, Listen, ListenFails, Unlock, Replace,
        Clear, Changing
  <2>3. UNCHANGED table /\ \E o : op' = [op EXCEPT ![q] = o]
    BY <2>2 DEF List, Read, ReadAll, ImportRefused, Save, Rename, SaveFails, Returns, Step
  <2> QED
    BY <1>1, <1>5, <2>3
<1>6. CASE UNCHANGED vars
  BY <1>2, <1>6 DEF vars, table
<1> QED
  BY <1>2, <1>3, <1>4, <1>5, <1>6 DEF Next

\* Every step keeps the listeners with their rules.
LEMMA ListenStep ==
  ASSUME IInv, [Next]_vars
  PROVE  ListenInv'
<1>1. /\ TableInv /\ ListenInv /\ obj \in [Objects -> Object]
      /\ rules \in [Ids -> Objects \cup {None}] /\ None \notin Objects
  BY ManagerAssumption DEF IInv, Types, Object
<1>2. phase' # "stopping" /\ ~Crash => phase # "stopping"
  <2>1. op[Main].pc # "idle" => phase = "boot"
    BY DEF IInv, LockInv
  <2>2. ASSUME NEW c \in Callers, Request(c) PROVE phase' = phase
    BY <2>2
    DEF Request, Add, Update, UpdateDisables, UpdateRefused, Delete, SetEnabled,
        SetDetectionConfig, SetScan, Import
  <2>3. ASSUME NEW p \in Procs, Proceed(p) PROVE phase' = phase \/ op[Main].pc # "idle"
    BY <2>3
    DEF Proceed, Insert, AddRefused, SpecRefused, Adding, Listen, ListenFails, Unlock, List,
        Read, ReadAll, ImportRefused, Replace, Clear, Save, Rename, SaveFails, Returns
  <2>4. Boot => phase # "stopping"
    BY DEF Boot
  <2>5. StopAll => phase' = "stopping"
    BY DEF StopAll
  <2> QED
    BY <2>1, <2>2, <2>3, <2>4, <2>5 DEF Next, vars
<1>3. opMu = None => \A p \in Procs : op[p].pc # "start"
  BY ManagerAssumption DEF IInv, LockInv, Changing
<1> DEFINE Enabled(i) == rules[i] # None /\ obj[rules[i]].spec.enabled
           Started(i) == \E p \in Procs : op[p].pc = "start" /\ Head(op[p].todo).id = i
<1>4. /\ \A o \in Objects : obj[o].on => o \in Installed /\ obj[o].spec.enabled
      /\ phase # "stopping" => \A i \in Ids : Enabled(i) => obj[rules[i]].on \/ Started(i)
  BY <1>1 DEF ListenInv
<1>5. CASE UNCHANGED table
  <2>1. ASSUME NEW i \in Ids, Started(i), ~Crash PROVE Started(i)'
    <3>1. PICK p \in Procs : op[p].pc = "start" /\ Head(op[p].todo).id = i
      BY <2>1
    <3>2. CASE Proceed(p)
      <4>1. Listen(p) \/ ListenFails(p)
        BY <3>1, <3>2
        DEF Proceed, Insert, AddRefused, SpecRefused, Adding, Unlock, List, Read, ReadAll,
            ImportRefused, Replace, Clear, Save, Rename, SaveFails
      <4>2. rules[i] \in Objects /\ obj[rules[i]].spec.enabled /\ ~obj[rules[i]].on
            /\ obj[rules[i]].spec \in Spec_
        BY <3>1, StartEffect
      <4>3. obj'[rules[i]].on \/ obj'[rules[i]].spec = [obj[rules[i]].spec EXCEPT !.enabled = FALSE]
        BY <3>1, <4>1, StartEffect
      <4> QED
        BY <1>5, <4>2, <4>3, Disabled DEF table
    <3>3. CASE Same(op'[p], op[p])
      BY <3>1, <3>3 DEF Same
    <3> QED
      BY <2>1, <3>1, <3>2, <3>3, HolderMoves DEF Changing
  <2>2. CASE Crash
    <3>1. \A i \in Ids : rules'[i] = None
      BY <2>2 DEF Crash
    <3>2. \A o \in Objects : ~obj'[o].on
      BY <2>2 DEF Crash, NoObject
    <3> QED
      BY <3>1, <3>2 DEF ListenInv
  <2>3. CASE ~Crash
    <3>1. \A o \in Objects : obj'[o].on => o \in Installed' /\ obj'[o].spec.enabled
      BY <1>4, <1>5 DEF table, Installed
    <3>2. phase' # "stopping" => \A i \in Ids : Enabled(i)' => obj'[rules'[i]].on \/ Started(i)'
      BY <1>2, <1>4, <1>5, <2>1, <2>3 DEF table
    <3> QED
      BY <3>1, <3>2 DEF ListenInv
  <2> QED
    BY <2>2, <2>3
<1>6. CASE Crash \/ StopAll
  <2>1. \A o \in Objects : ~obj'[o].on
    BY <1>6, StopAllEffect DEF Crash, NoObject
  <2>2. phase' = "stopping" \/ \A i \in Ids : rules'[i] = None
    BY <1>6 DEF Crash, StopAll
  <2> QED
    BY <2>1, <2>2 DEF ListenInv
<1>7. ASSUME NEW c \in Callers, NEW s \in Spec_, Update(c, s) \/ UpdateDisables(c, s)
      PROVE  ListenInv'
  <2> DEFINE r == rules[s.id]
  <2>1. UNCHANGED <<rules, phase>> /\ opMu = None
    BY <1>7 DEF Update, UpdateDisables
  <2>2. /\ s.id \in Ids /\ r \in Objects /\ Others(r)
        /\ obj'[r].on = obj'[r].spec.enabled
    <3>1. CASE Update(c, s)
      BY <3>1, UpdateEffect
    <3>2. CASE UpdateDisables(c, s)
      <4>1. /\ s.id \in Ids /\ r \in Objects /\ Others(r)
            /\ obj'[r].spec = [obj[r].spec EXCEPT !.enabled = FALSE] /\ ~obj'[r].on
        BY <3>2, DisablesEffect
      <4>2. obj[r].spec \in Spec_ /\ obj'[r].on \in BOOLEAN
        <5>1. r # None
          BY <1>1, <4>1
        <5>2. obj'[r] \in [spec : Spec_ \cup {None}, on : BOOLEAN]
          BY <4>1, TypesStep DEF Types
        <5> QED
          BY <4>1, <5>1, <5>2, RuleTypes
      <4>3. obj'[r].spec.enabled = FALSE
        BY <4>1, <4>2, Disabled
      <4> QED
        BY <4>1, <4>2, <4>3
    <3> QED
      BY <1>7, <3>1, <3>2
  <2> HIDE DEF r
  <2>3. \A i \in Ids : rules[i] # None => rules[i] \in Objects
    BY <1>1
  <2>4. r \in Installed
    BY <1>1, <2>2 DEF Installed, r
  <2>5. \A o \in Objects : obj'[o].on => o \in Installed' /\ obj'[o].spec.enabled
    BY <1>4, <2>1, <2>2, <2>4 DEF Others, Installed
  <2>6. phase # "stopping" => \A i \in Ids : Enabled(i)' => obj'[rules[i]].on
    BY <1>3, <1>4, <2>1, <2>2, <2>3 DEF Others
  <2> QED
    BY <2>1, <2>5, <2>6 DEF ListenInv
<1>8. ASSUME NEW c \in Callers, NEW i \in Ids, Delete(c, i) PROVE ListenInv'
  <2>1. /\ UNCHANGED phase /\ opMu = None /\ rules[i] \in Objects
        /\ obj'[rules[i]].spec = obj[rules[i]].spec /\ ~obj'[rules[i]].on /\ Others(rules[i])
        /\ rules'[i] = None /\ \A j \in Ids \ {i} : rules'[j] = rules[j]
    BY <1>8, DeleteEffect DEF Delete
  <2>2. \A j \in Ids \ {i} : rules[j] # None => rules[j] # rules[i] /\ rules[j] \in Objects
    BY <1>1, Injective
  <2>3. \A o \in Objects : obj'[o].on => o \in Installed' /\ obj'[o].spec.enabled
    <3>1. ASSUME NEW o \in Objects, obj'[o].on PROVE o \in Installed' /\ obj'[o].spec.enabled
      <4>1. o # rules[i] /\ obj'[o] = obj[o] /\ obj[o].on
        BY <2>1, <3>1 DEF Others
      <4>2. PICK j \in Ids : rules[j] = o
        BY <1>4, <4>1 DEF Installed
      <4> QED
        BY <1>1, <1>4, <2>1, <4>1, <4>2 DEF Installed
    <3> QED
      BY <3>1
  <2>4. phase # "stopping" => \A j \in Ids : Enabled(j)' => obj'[rules'[j]].on
    BY <1>3, <1>4, <2>1, <2>2 DEF Others
  <2> QED
    BY <2>1, <2>3, <2>4 DEF ListenInv
<1>9. ASSUME NEW p \in Procs, Insert(p) PROVE ListenInv'
  <2> DEFINE s == Head(op[p].todo)
  <2>1. /\ s.id \in Ids /\ Fresh \in Objects
        /\ obj'[Fresh].spec = s /\ ~obj'[Fresh].on /\ Others(Fresh)
        /\ rules[s.id] = None /\ rules'[s.id] = Fresh
        /\ \A j \in Ids \ {s.id} : rules'[j] = rules[j]
    BY <1>9, InsertEffect
  <2>2. \A j \in Ids : rules[j] # Fresh
    BY <1>9, <1>1, InsertEffect DEF Referenced, Installed
  <2>3. \A q \in Procs : op[q].pc # "start"
    <3>1. op[p].pc = "add"
      BY <1>9 DEF Insert, Adding
    <3> QED
      BY <3>1, ManagerAssumption DEF IInv, LockInv, Changing
  <2>4. phase' = phase /\ \A i \in Ids : i = s.id /\ s.enabled => Started(i)'
    <3>1. op \in [Procs -> Ops] /\ op[p] \in Ops
      BY DEF IInv, Types
    <3>2. ASSUME s.enabled PROVE op'[p] = [op[p] EXCEPT !.pc = "start"]
      BY <1>9, <3>1, <3>2 DEF Insert, Step
    <3>3. ASSUME s.enabled PROVE op'[p].pc = "start" /\ op'[p].todo = op[p].todo
      BY <3>1, <3>2, <3>3 DEF Ops
    <3> QED
      BY <1>9, <3>3 DEF Insert
  <2> HIDE DEF s
  <2>5. ASSUME NEW o \in Objects, obj'[o].on PROVE o \in Installed' /\ obj'[o].spec.enabled
    <3>1. o # Fresh /\ obj'[o] = obj[o] /\ obj[o].on
      BY <2>1, <2>5 DEF Others
    <3>2. PICK j \in Ids : rules[j] = o
      BY <1>4, <3>1 DEF Installed
    <3> QED
      BY <1>1, <1>4, <2>1, <3>1, <3>2 DEF Installed
  <2>6. phase # "stopping" => \A i \in Ids : Enabled(i)' => obj'[rules'[i]].on \/ Started(i)'
    <3>1. ASSUME phase # "stopping", NEW i \in Ids \ {s.id}, Enabled(i)' PROVE obj'[rules'[i]].on
      <4>1. rules'[i] = rules[i] /\ rules[i] # Fresh /\ rules[i] \in Objects
        BY <1>1, <2>1, <2>2, <3>1
      <4> QED
        BY <1>4, <2>1, <2>3, <3>1, <4>1 DEF Others
    <3>2. ASSUME NEW i \in Ids, i = s.id, Enabled(i)' PROVE Started(i)'
      BY <2>1, <2>4, <3>2
    <3> HIDE DEF Started, Enabled
    <3> QED
      BY <3>1, <3>2
  <2> QED
    BY <2>4, <2>5, <2>6 DEF ListenInv
<1>10. ASSUME NEW p \in Procs, Listen(p) \/ ListenFails(p) PROVE ListenInv'
  <2> DEFINE k == Head(op[p].todo).id
             r == rules[k]
  <2>1. op[p].pc = "start" /\ UNCHANGED <<rules, phase>>
    BY <1>10 DEF Listen, ListenFails
  <2>2. /\ k \in Ids /\ r \in Objects /\ Others(r) /\ obj[r].spec \in Spec_ /\ obj[r].spec.enabled
        /\ ~obj[r].on
        /\ \/ obj'[r].spec = obj[r].spec /\ obj'[r].on
           \/ obj'[r].spec = [obj[r].spec EXCEPT !.enabled = FALSE] /\ obj'[r].on = obj[r].on
    BY <1>10, <2>1, StartEffect
  <2>3. \A i \in Ids : Started(i) => i = k
    BY <2>1 DEF IInv, LockInv, Changing
  <2> HIDE DEF k
  <2>4. \/ obj'[r].on /\ obj'[r].spec.enabled
        \/ ~obj'[r].on /\ ~obj'[r].spec.enabled
    BY <2>2, Disabled
  <2>5. r \in Installed
    BY <1>1, <2>2 DEF Installed
  <2>6. \A o \in Objects : obj'[o].on => o \in Installed' /\ obj'[o].spec.enabled
    BY <1>4, <2>1, <2>2, <2>4, <2>5 DEF Others, Installed
  <2>7. phase # "stopping" => \A i \in Ids : Enabled(i)' => obj'[rules[i]].on
    <3>1. ASSUME phase # "stopping", NEW i \in Ids, Enabled(i)' PROVE obj'[rules[i]].on
      <4>1. rules[i] \in Objects
        BY <1>1, <2>1, <3>1
      <4>2. CASE i = k
        BY <2>1, <2>4, <3>1, <4>2
      <4>3. CASE i # k
        <5>1. obj'[rules[i]] = obj[rules[i]]
          BY <1>1, <2>1, <2>2, <3>1, <4>1, <4>3, Injective DEF Others
        <5> QED
          BY <1>4, <2>1, <2>3, <3>1, <4>3, <5>1
      <4> QED
        BY <4>2, <4>3
    <3> QED
      BY <3>1
  <2> QED
    BY <2>1, <2>6, <2>7 DEF ListenInv
<1>11. ASSUME NEW p \in Procs, Clear(p) PROVE ListenInv'
  BY <1>11, ClearEffect DEF ListenInv
<1> QED
  BY <1>5, <1>6, <1>7, <1>8, <1>9, <1>10, <1>11, TableSteps

-----------------------------------------------------------------------------
(* Replacements.                                                            *)

\* opMu is taken for a replacement, or for a change that is none.
LEMMA HolderEnters ==
  ASSUME IInv, [Next]_vars, NEW p \in Procs, op[p].pc \notin Changing, op'[p].pc \in Changing
  PROVE  Replace(p) \/ op'[p].kind \in {"add", "load"}
<1>1. op \in [Procs -> Ops] /\ Callers \subseteq Procs /\ Main \in Procs
  BY DEF IInv, Types, Procs
<1>2. CASE Boot
  <2>1. op'[Main] = [Idle EXCEPT !.pc = "add", !.kind = "load", !.todo = file]
        /\ \A q \in Procs \ {Main} : op'[q] = op[q]
    BY <1>1, <1>2 DEF Boot
  <2>2. op'[Main].kind = "load"
    BY <2>1 DEF Idle
  <2> QED
    BY <2>1, <2>2
<1>3. CASE Crash
  BY <1>3 DEF Crash, Idle, Changing
<1>4. ASSUME NEW c \in Callers, Request(c) PROVE op'[p].kind \in {"add", "load"}
  <2>1. ASSUME NEW o \in Ops, Begin(c, o), o.pc \in {"list", "save"} \/ o.kind = "add"
        PROVE  op'[p].kind \in {"add", "load"}
    <3>1. Same(op'[c], o) /\ \A q \in Procs \ {c} : Same(op'[q], op[q])
      BY <2>1, Begun DEF IInv
    <3> QED
      BY <2>1, <3>1 DEF Same, Changing
  <2>2. CASE Begin(c, Notifying)
    <3>1. Notifying \in Ops /\ Notifying.pc = "list"
      BY BeginTypes DEF Notifying, Idle
    <3> QED
      BY <2>1, <2>2, <3>1
  <2>3. ASSUME NEW s \in Requests, Add(c, s) PROVE op'[p].kind \in {"add", "load"}
    <3> DEFINE o == [Idle EXCEPT !.pc = "add", !.kind = "add", !.todo = <<s>>]
    <3>1. o \in Ops
      <4>1. <<s>> \in Seq(Spec_)
        BY ManagerAssumption
      <4> QED
        BY <4>1, BeginTypes DEF Kinds
    <3>2. Begin(c, o) /\ o.kind = "add"
      BY <2>3 DEF Add, Idle
    <3> HIDE DEF o
    <3> QED
      BY <2>1, <3>1, <3>2
  <2>4. CASE SetScan(c)
    <3> DEFINE o == [Idle EXCEPT !.pc = "save", !.kind = "settings"]
    <3>1. o \in Ops /\ o.pc = "save"
      BY BeginTypes DEF Idle
    <3>2. Begin(c, o)
      BY <2>4 DEF SetScan
    <3> HIDE DEF o
    <3> QED
      BY <2>1, <3>1, <3>2
  <2>5. ASSUME NEW f \in Profiles, Import(c, f) PROVE op'[p].kind \in {"add", "load"}
    <3> DEFINE o == [Idle EXCEPT !.pc = "list", !.kind = "import", !.profile = f]
    <3>1. o \in Ops /\ o.pc = "list"
      BY BeginTypes DEF Idle
    <3>2. Begin(c, o)
      BY <2>5 DEF Import
    <3> HIDE DEF o
    <3> QED
      BY <2>1, <3>1, <3>2
  <2> QED
    BY <1>4, <2>2, <2>3, <2>4, <2>5
    DEF Request, Update, UpdateDisables, UpdateRefused, Delete, SetEnabled, SetDetectionConfig
<1>5. ASSUME NEW q \in Procs, Proceed(q), ~Replace(q) PROVE FALSE
  <2>1. \E o : op' = [op EXCEPT ![q] = o]
    BY <1>5
    DEF Proceed, Insert, AddRefused, SpecRefused, Listen, ListenFails, Unlock, List, Read,
        ReadAll, ImportRefused, Clear, Save, Rename, SaveFails, Returns, Step
  <2>2. q = p /\ op[p] \in Ops
    BY <1>1, <2>1
  <2>3. List(p) \/ Read(p) \/ ReadAll(p) \/ ImportRefused(p) \/ Save(p) \/ Rename(p) \/ SaveFails(p)
    BY <1>5, <2>2
    DEF Proceed, Insert, AddRefused, SpecRefused, Adding, Listen, ListenFails, Unlock, Clear,
        Changing
  <2>4. CASE ImportRefused(p) \/ Rename(p) \/ SaveFails(p)
    <3>1. op'[p] = Idle
      BY <1>1, <2>4 DEF ImportRefused, Rename, SaveFails, Returns, Step
    <3> QED
      BY <3>1 DEF Idle, Changing
  <2>5. CASE List(p)
    <3>1. op'[p] = [op[p] EXCEPT !.pc = "read", !.left = Objs]
      BY <1>1, <2>5 DEF List, Step
    <3> QED
      BY <2>2, <3>1 DEF Ops, Changing
  <2>6. CASE Read(p)
    <3> DEFINE w == Tail(op[p].left)
               r == Append(op[p].read, obj[Head(op[p].left)].spec)
    <3>1. op'[p] = [op[p] EXCEPT !.left = w, !.read = r]
      BY <1>1, <2>6 DEF Read, Step
    <3> HIDE DEF w, r
    <3> QED
      BY <2>2, <3>1 DEF Ops, Changing
  <2>7. CASE ReadAll(p)
    <3>1. op'[p] = [op[p] EXCEPT !.pc = IF op[p].kind = "import" THEN "merge" ELSE "save"]
      BY <1>1, <2>7 DEF ReadAll, Step
    <3> QED
      BY <2>2, <3>1 DEF Ops, Changing
  <2>8. CASE Save(p)
    <3>1. op'[p] = [op[p] EXCEPT !.pc = "rename", !.read = <<>>]
      BY <1>1, <2>8 DEF Save, Step
    <3> QED
      BY <2>2, <3>1 DEF Ops, Changing
  <2> QED
    BY <2>3, <2>4, <2>5, <2>6, <2>7, <2>8
<1>6. ASSUME NEW q \in Procs, Replace(q) PROVE q = p
  BY <1>1, <1>6 DEF Replace, Step
<1>7. CASE StopAll \/ UNCHANGED vars
  BY <1>7 DEF StopAll, vars
<1> QED
  BY <1>2, <1>3, <1>4, <1>5, <1>6, <1>7 DEF Next

\* A replacement, or its rollback, comes one rule nearer its goal with every
\* step, and nothing else changes the table under it.
LEMMA ReplaceStep ==
  ASSUME IInv, [Next]_vars
  PROVE  ReplaceInv'
<1> SUFFICES ASSUME NEW p \in Procs, op'[p].pc \in Changing,
                    op'[p].kind \in {"replace", "rollback"}
             PROVE  Replacing(op[p])'
  BY DEF ReplaceInv, Replacing, Changing
<1>1. /\ op \in [Procs -> Ops] /\ op[p] \in Ops /\ op'[p] \in Ops
      /\ op[p].todo \in Seq(Spec_) /\ op[p].old \in Seq(Spec_) /\ op[p].wanted \in Seq(Spec_)
      /\ Replacing(op[p]) /\ order \in Seq(Ids) /\ Len(order) \in Nat
      /\ Len(op[p].todo) \in Nat /\ TableInv
  <2>1. op \in [Procs -> Ops] /\ op' \in [Procs -> Ops] /\ op[p] \in Ops /\ op'[p] \in Ops
    BY TypesStep DEF IInv, Types
  <2>2. /\ op[p].todo \in Seq(Spec_) /\ op[p].old \in Seq(Spec_) /\ op[p].wanted \in Seq(Spec_)
    BY <2>1 DEF Ops
  <2>3. order \in Seq(Ids) /\ TableInv /\ Replacing(op[p])
    BY DEF IInv, Types, ReplaceInv
  <2> QED
    BY <2>1, <2>2, <2>3
<1>2. CASE op[p].pc \notin Changing
  <2>1. Replace(p)
    BY <1>2, HolderEnters
  <2> DEFINE new == Merged(op[p].read, op[p].profile)
  <2>2. op'[p] = [op[p] EXCEPT !.pc = "clear", !.kind = "replace", !.read = <<>>,
                               !.old = Specs, !.wanted = new, !.todo = new]
    BY <1>1, <2>1 DEF Replace, Step
  <2> HIDE DEF new
  <2>3. op'[p].pc = "clear" /\ op'[p].kind = "replace" /\ op'[p].todo = op'[p].wanted
    BY <1>1, <2>2 DEF Ops
  <2> QED
    BY <2>3 DEF Replacing, Goal
<1>3. CASE UNCHANGED table /\ Same(op'[p], op[p])
  BY <1>1, <1>3 DEF Replacing, Goal, Installing, Same, table
<1>4. CASE Crash
  BY <1>4 DEF Crash, Idle, Changing
\* What p makes of its own locals.
<1>5. ASSUME NEW o \in Ops, Step(p, o) PROVE op'[p] = o
  BY <1>1, <1>5 DEF Step
<1>6. CASE Insert(p)
  <2> DEFINE s == Head(op[p].todo)
             rest == Tail(op[p].todo)
  <2>1. /\ op[p].todo # <<>> /\ s \in Spec_ /\ s.id \in Ids /\ Fresh \in Objects
        /\ obj'[Fresh].spec = s /\ Others(Fresh)
        /\ rules[s.id] = None /\ rules'[s.id] = Fresh
        /\ \A j \in Ids \ {s.id} : rules'[j] = rules[j]
        /\ order' = Append(order, s.id)
    BY <1>6, InsertEffect
  <2>2. \A j \in Ids : rules[j] # Fresh
    BY <1>6, ManagerAssumption, InsertEffect DEF Referenced, Installed
  <2>3. /\ s = op[p].todo[1] /\ Len(op[p].todo) # 0
        /\ rest \in Seq(Spec_) /\ Len(rest) = Len(op[p].todo) - 1
        /\ \A n \in 1..Len(rest) : rest[n] = op[p].todo[n + 1]
    BY <1>1, <2>1, HeadTail
  <2>4. op[p].pc = "add" /\ op' = [op EXCEPT ![p] = IF s.enabled
                                  THEN [op[p] EXCEPT !.pc = "start"]
                                  ELSE [op[p] EXCEPT !.todo = rest]]
    BY <1>6 DEF Insert, Adding, Step
  <2> HIDE DEF s, rest
  <2>5. /\ op'[p].kind = op[p].kind /\ op'[p].old = op[p].old /\ op'[p].wanted = op[p].wanted
        /\ \/ op'[p].pc = "start" /\ op'[p].todo = op[p].todo
           \/ op'[p].pc = "add" /\ op'[p].todo = rest
    <3>1. op'[p] = [op[p] EXCEPT !.pc = "start"] \/ op'[p] = [op[p] EXCEPT !.todo = rest]
      BY <1>1, <2>4
    <3> QED
      BY <1>1, <2>4, <3>1 DEF Ops
  <2> DEFINE g == Goal(op[p])
  <2>6. /\ g \in Seq(Spec_) /\ Len(order) + Len(op[p].todo) = Len(g)
        /\ \A n \in 1..Len(order) : obj[rules[order[n]]].spec = g[n]
        /\ \A n \in 1..Len(op[p].todo) : op[p].todo[n] = g[Len(order) + n]
    BY <1>1, <2>4, <2>5 DEF Replacing, Installing, Goal
  <2>7. Goal(op'[p]) = g
    BY <2>5 DEF Goal
  <2> HIDE DEF g
  <2>8. /\ Len(order') = Len(order) + 1 /\ order'[Len(order) + 1] = s.id
        /\ \A n \in 1..Len(order) : order'[n] = order[n] /\ order[n] \in Ids
    BY <1>1, <2>1
  <2>9. \A n \in 1..Len(order) : order[n] # s.id
    BY <1>1, <2>1 DEF TableInv
  <2>10. \A n \in 1..Len(order) : obj'[rules'[order'[n]]].spec = obj[rules[order[n]]].spec
    <3>1. ASSUME NEW n \in 1..Len(order) PROVE rules[order[n]] \in Objects
      BY <1>1, <2>8, RuleTypes DEF TableInv
    <3> QED
      BY <2>1, <2>2, <2>8, <2>9, <3>1 DEF Others
  <2>11. obj'[rules'[order'[Len(order) + 1]]].spec = g[Len(order) + 1]
    <3>1. 1 \in 1..Len(op[p].todo)
      BY <1>1, <2>3
    <3> QED
      BY <2>1, <2>3, <2>6, <2>8, <3>1
  <2>12. \A n \in 1..Len(order') : obj'[rules'[order'[n]]].spec = g[n]
    <3>1. ASSUME NEW n \in 1..Len(order') PROVE n \in 1..Len(order) \/ n = Len(order) + 1
      BY <1>1, <2>8
    <3> QED
      BY <2>6, <2>10, <2>11, <3>1
  <2>13. CASE op'[p].pc = "start" /\ op'[p].todo = op[p].todo
    <3>1. Len(order') + (Len(op'[p].todo) - 1) = Len(g)
      <4>1. Len(op'[p].todo) = Len(op[p].todo)
        BY <2>13
      <4>2. (Len(order) + 1) + (Len(op[p].todo) - 1) = Len(order) + Len(op[p].todo)
        <5>1. \A a, b \in Nat : (a + 1) + (b - 1) = a + b
          OBVIOUS
        <5>2. Len(order) \in Nat /\ Len(op[p].todo) \in Nat
          BY <1>1
        <5> QED
          BY <5>1, <5>2
      <4> QED
        BY <2>6, <2>8, <4>1, <4>2
    <3>2. \A n \in 1..Len(op'[p].todo) : op'[p].todo[n] = g[Len(order') + n - 1]
      <4>1. \A n \in 1..Len(op[p].todo) : Len(order') + n - 1 = Len(order) + n
        BY <1>1, <2>8
      <4> QED
        BY <2>6, <2>13, <4>1
    <3> QED
      BY <2>7, <2>12, <2>13, <3>1, <3>2 DEF Replacing, Installing
  <2>14. CASE op'[p].pc = "add" /\ op'[p].todo = rest
    <3>1. Len(order') + Len(op'[p].todo) = Len(g)
      BY <1>1, <2>3, <2>6, <2>8, <2>14
    <3>2. ASSUME NEW n \in 1..Len(op'[p].todo) PROVE op'[p].todo[n] = g[Len(order') + n]
      <4>1. /\ n + 1 \in 1..Len(op[p].todo) /\ n \in 1..Len(rest)
            /\ Len(order') + n = Len(order) + (n + 1)
        BY <1>1, <2>3, <2>8, <2>14, <3>2
      <4> QED
        BY <2>3, <2>6, <2>14, <4>1
    <3> QED
      BY <2>7, <2>12, <2>14, <3>1, <3>2 DEF Replacing, Installing
  <2> QED
    BY <2>5, <2>13, <2>14
<1>7. CASE Listen(p)
  <2> DEFINE rest == Tail(op[p].todo)
             r == rules[Head(op[p].todo).id]
  <2>1. op[p].pc = "start" /\ UNCHANGED <<rules, order>>
    BY <1>7 DEF Listen
  <2>2. /\ op[p].todo # <<>> /\ r \in Objects /\ Others(r) /\ obj'[r].spec = obj[r].spec
    BY <1>7, <2>1, StartEffect
  <2>3. /\ Len(op[p].todo) # 0
        /\ rest \in Seq(Spec_) /\ Len(rest) = Len(op[p].todo) - 1
        /\ \A n \in 1..Len(rest) : rest[n] = op[p].todo[n + 1]
    BY <1>1, <2>2, HeadTail
  <2>4. op'[p] = [op[p] EXCEPT !.pc = "add", !.todo = rest]
    BY <1>1, <1>7 DEF Listen, Step
  <2> HIDE DEF rest, r
  <2>5. /\ op'[p].kind = op[p].kind /\ op'[p].old = op[p].old /\ op'[p].wanted = op[p].wanted
        /\ op'[p].pc = "add" /\ op'[p].todo = rest
    BY <1>1, <2>4 DEF Ops
  <2> DEFINE g == Goal(op[p])
  <2>6. /\ g \in Seq(Spec_) /\ Len(order) + (Len(op[p].todo) - 1) = Len(g)
        /\ \A n \in 1..Len(order) : obj[rules[order[n]]].spec = g[n]
        /\ \A n \in 1..Len(op[p].todo) : op[p].todo[n] = g[Len(order) + n - 1]
    BY <1>1, <2>1, <2>5 DEF Replacing, Installing, Goal
  <2>7. Goal(op'[p]) = g
    BY <2>5 DEF Goal
  <2> HIDE DEF g
  <2>8. \A n \in 1..Len(order) : obj'[rules[order[n]]].spec = obj[rules[order[n]]].spec
    <3>1. ASSUME NEW n \in 1..Len(order) PROVE rules[order[n]] \in Objects
      BY <1>1, RuleTypes DEF TableInv
    <3> QED
      BY <2>2, <3>1 DEF Others
  <2>9. Len(order) + Len(rest) = Len(g)
    BY <1>1, <2>3, <2>6
  <2>10. ASSUME NEW n \in 1..Len(rest) PROVE rest[n] = g[Len(order) + n]
    <3>1. n + 1 \in 1..Len(op[p].todo) /\ Len(order) + (n + 1) - 1 = Len(order) + n
      BY <1>1, <2>3, <2>10
    <3> QED
      BY <2>3, <2>6, <3>1
  <2> QED
    BY <2>1, <2>5, <2>6, <2>7, <2>8, <2>9, <2>10 DEF Replacing, Installing
<1>8. CASE SpecRefused(p) \/ ListenFails(p)
  <2>1. op[p].kind \in {"add", "load", "replace", "rollback"} /\ op[p].todo # <<>>
    BY <1>8 DEF SpecRefused, ListenFails, Adding, IInv, OpInv, Ready
  <2>2. op'[p] = AfterFailure(op[p])
    BY <1>1, <1>5, <1>8, <2>1, FailureTypes DEF SpecRefused, ListenFails
  <2>3. op'[p].pc = "clear" /\ op'[p].kind = "rollback" /\ op'[p].todo = op'[p].old
    BY <1>1, <2>1, <2>2, FailureTypes
  <2> QED
    BY <2>3 DEF Replacing, Goal
<1>9. CASE Clear(p)
  <2>1. op[p].pc = "clear" /\ op'[p] = [op[p] EXCEPT !.pc = "add"] /\ order' = <<>>
    BY <1>1, <1>9 DEF Clear, Step
  <2>2. /\ op'[p].kind = op[p].kind /\ op'[p].old = op[p].old /\ op'[p].wanted = op[p].wanted
        /\ op'[p].pc = "add" /\ op'[p].todo = op[p].todo
    BY <1>1, <2>1 DEF Ops
  <2>3. op[p].todo = Goal(op[p]) /\ Goal(op'[p]) = Goal(op[p])
    BY <1>1, <2>1, <2>2 DEF Replacing, Goal
  <2>4. Len(order') = 0
    BY <2>1
  <2> QED
    BY <1>1, <2>2, <2>3, <2>4 DEF Replacing, Installing
<1>10. CASE AddRefused(p) \/ Unlock(p)
  <2>1. op'[p].pc \in {"idle", "save", "list"}
    <3>1. op'[p] = Idle \/ op'[p] = AfterChange(op[p])
      BY <1>1, <1>10 DEF AddRefused, Unlock, Step
    <3>2. Idle.pc = "idle"
      BY DEF Idle
    <3>3. AfterChange(op[p]).pc \in {"save", "list"}
      BY DEF Idle, AfterChange
    <3> QED
      BY <3>1, <3>2, <3>3
  <2> QED
    BY <2>1 DEF Changing
<1>11. ASSUME op[p].pc \in Changing, Proceed(p)
       PROVE  \/ Insert(p) \/ Listen(p) \/ SpecRefused(p) \/ ListenFails(p) \/ Clear(p)
              \/ AddRefused(p) \/ Unlock(p)
  BY <1>11
  DEF Proceed, List, Read, ReadAll, ImportRefused, Replace, Save, Rename, SaveFails, Changing
<1> QED
  BY <1>2, <1>3, <1>4, <1>6, <1>7, <1>8, <1>9, <1>10, <1>11, HolderMoves

-----------------------------------------------------------------------------
(* The theorems.                                                            *)

\* The inductive invariant holds throughout.
LEMMA Invariance == Spec => []IInv
<1>1. ASSUME Init PROVE IInv
  <2>1. /\ obj \in [Objects -> [spec : Spec_ \cup {None}, on : BOOLEAN]]
        /\ \A o \in Objects : ~obj[o].on
    BY <1>1 DEF Init, NoObject
  <2>2. rules \in [Ids -> Objects \cup {None}] /\ \A i \in Ids : rules[i] = None
    BY <1>1 DEF Init
  <2>3. order = <<>> /\ order \in Seq(Ids) /\ DOMAIN order = {}
    BY <1>1 DEF Init
  <2>4. op \in [Procs -> Ops]
    BY <1>1, BeginTypes DEF Init
  <2>5. \A p \in Procs : op[p].pc = "idle" /\ op[p].kind = None /\ op[p].left = <<>>
    BY <1>1 DEF Init, Idle
  <2>6. cfgRules \in Seq(Spec_) /\ file \in Seq(Spec_) /\ calls \in 0..MaxCalls
    BY <1>1, ManagerAssumption DEF Init
  <2>7. Types
    BY <1>1, <2>1, <2>2, <2>3, <2>4, <2>6 DEF Init, Types
  <2>8. TableInv /\ Disjoint /\ ListenInv
    BY <2>1, <2>2, <2>3 DEF TableInv, Disjoint, ListenInv
  <2>9. LockInv
    BY <1>1, <2>5, ManagerAssumption DEF Init, LockInv, Changing, Procs
  <2>10. OpInv /\ ReplaceInv
    BY <2>5 DEF OpInv, Ready, ToRead, ReplaceInv, Replacing
  <2> QED
    BY <2>7, <2>8, <2>9, <2>10 DEF IInv
<1>2. IInv /\ [Next]_vars => IInv'
  BY TypesStep, TableStep, OpsStep, ListenStep, DisjointStep, ReplaceStep DEF IInv
<1> QED
  BY <1>1, <1>2, PTL DEF Spec

\* Type correctness, and the list and the map of the rules agree whatever is
\* added, deleted, replaced and rolled back (manager.go, rules and order).
THEOREM TypeCorrect == Spec => []TypeOK
<1>1. ASSUME IInv PROVE TypeOK
  <2>1. Types /\ TableInv /\ order \in Seq(Ids) /\ DOMAIN order = 1..Len(order) /\ Len(order) \in Nat
    BY <1>1 DEF IInv, Types
  <2>2. Range(order) = {i \in Ids : rules[i] # None}
    BY <2>1 DEF TableInv, Range
  <2>3. Len(order) = Cardinality(Range(order))
    <3>1. order \in [1..Len(order) -> Range(order)]
      BY <2>1 DEF Range
    <3>2. \A n, m \in 1..Len(order) : order[n] = order[m] => n = m
      BY <2>1 DEF TableInv
    <3>3. \A i \in Range(order) : \E n \in 1..Len(order) : order[n] = i
      BY <2>1 DEF Range
    <3>4. ExistsBijection(1..Len(order), Range(order))
      BY <3>1, <3>2, <3>3 DEF ExistsBijection, Bijection, Injection, Surjection, IsInjective
    <3>5. IsFiniteSet(1..Len(order)) /\ Cardinality(1..Len(order)) = Len(order)
      BY <2>1, FS_Interval
    <3> QED
      BY <3>4, <3>5, FS_Bijection
  <2>4. \A i \in Range(order) : obj[rules[i]].spec.id = i
    BY <2>1, <2>2 DEF TableInv
  <2> QED
    BY <2>1, <2>2, <2>3, <2>4 DEF Types, TypeOK
<1> QED
  BY <1>1, Invariance, PTL

\* No two rules claim addresses that cannot be had together, on no path that
\* changes an address (manager.go, checkPortConflictLocked).
THEOREM AddressesAreDisjoint == Spec => []NoConflicts
<1>1. ASSUME IInv PROVE NoConflicts
  <2>1. \A i \in Range(order) : i \in Ids /\ rules[i] # None
    BY <1>1 DEF IInv, Types, TableInv, Range
  <2> QED
    BY <1>1, <2>1 DEF IInv, Disjoint, NoConflicts
<1> QED
  BY <1>1, Invariance, PTL

\* When no change is under way exactly the enabled rules listen, whichever
\* rules could not be started and whichever were deleted or replaced.
THEOREM EnabledRulesListen == Spec => []ListenersMatchRules
<1>1. ASSUME IInv, phase = "up", opMu = None
      PROVE  {o \in Objects : obj[o].on} = {o \in Installed : obj[o].spec.enabled}
  <2>1. \A p \in Procs : op[p].pc # "start"
    BY <1>1, ManagerAssumption DEF IInv, LockInv, Changing
  <2>2. \A o \in Installed : o \in Objects /\ \E i \in Ids : rules[i] = o /\ rules[i] # None
    BY <1>1 DEF Installed, IInv, Types
  <2> QED
    BY <1>1, <2>1, <2>2 DEF IInv, ListenInv
<1>2. IInv => ListenersMatchRules
  BY <1>1 DEF ListenersMatchRules
<1> QED
  BY <1>2, Invariance, PTL

\* An import ends with all its rules or with all the old ones, unless the
\* rollback itself fails (manager.go:395, ReplaceSpecs).
THEOREM ReplaceIsAtomic == Spec => []ReplaceAllOrNothing
<1>1. ASSUME IInv, NEW p \in Callers, Replaced(p), op[p].kind \in {"replace", "rollback"}
      PROVE  Specs = Goal(op[p])
  <2>1. /\ p \in Procs /\ op[p] \in Ops /\ order \in Seq(Ids) /\ Len(order) \in Nat
        /\ DOMAIN order = 1..Len(order) /\ Replacing(op[p]) /\ op[p].pc = "add"
        /\ Len(op[p].todo) = 0
    BY <1>1 DEF IInv, Types, ReplaceInv, Replaced, Procs
  <2>2. /\ Len(order) = Len(Goal(op[p]))
        /\ \A n \in 1..Len(order) : obj[rules[order[n]]].spec = Goal(op[p])[n]
    BY <1>1, <2>1 DEF Replacing, Installing
  <2>3. Goal(op[p]) \in Seq(Spec_)
    BY <2>1 DEF Goal, Ops
  <2>4. Goal(op[p]) = [n \in 1..Len(order) |-> Goal(op[p])[n]]
    BY <2>1, <2>2, <2>3
  <2>5. Specs = [n \in 1..Len(order) |-> Goal(op[p])[n]]
    BY <2>1, <2>2 DEF Specs
  <2> QED
    BY <2>4, <2>5
<1>2. IInv => ReplaceAllOrNothing
  BY <1>1 DEF ReplaceAllOrNothing, Goal
<1> QED
  BY <1>2, Invariance, PTL

-----------------------------------------------------------------------------
(* The configuration file: a boot leaves it alone, and a request that no    *)
(* other overlaps has saved the rules as they are when it returns.  The     *)
(* inductive invariant of that rests on the one above.                      *)

\* Requests are served once the boot is over; none of them loads.
Served == \A c \in Callers :
  op[c].pc # "idle" => phase \in {"up", "stopping"} /\ op[c].kind # "load"

\* Until the boot is over memory holds what the file does, and main adds the
\* rules of the one and saves the other.
Booting == phase = "boot" =>
  /\ cfgRules = file /\ op[Main].kind = "load"
  /\ op[Main].pc \in {"add", "start", "save", "rename"}

\* A request that no other has overlapped is the only one.
Lone == \A c \in Callers : op[c].alone =>
  op[c].pc # "idle" /\ \A d \in Callers \ {c} : op[d].pc = "idle"

\* Of the list it found it has read the first specs as they still are, and
\* has yet to read the other rules.
HasRead(o) ==
  /\ Len(o.read) + Len(o.left) = Len(order)
  /\ \A n \in 1..Len(o.read) : o.read[n] = Specs[n]
  /\ \A n \in 1..Len(o.left) : o.left[n] = Objs[Len(o.read) + n]

\* How far it is from having saved the rules.
Saving(o) ==
  /\ o.pc = "list" => o.read = <<>>
  /\ o.pc = "read" => HasRead(o)
  /\ o.pc = "save" => o.read = Specs
  /\ o.pc = "rename" => cfgRules = Specs

LoneSaves == \A c \in Callers : op[c].alone /\ op[c].kind # "settings" => Saving(op[c])

FileInv == Served /\ Booting /\ Lone /\ LoneSaves

-----------------------------------------------------------------------------
(* What the steps do to a call.                                             *)

\* A request begins: it is alone when no other is served, and no other is
\* alone any more.
LEMMA BegunAlone ==
  ASSUME Types, NEW c \in Callers, NEW o \in Ops, Begin(c, o)
  PROVE  /\ op'[c].alone <=> \A d \in Callers \ {c} : op[d].pc = "idle"
         /\ \A d \in Callers \ {c} : op'[d].alone => op[d].alone /\ op[d].pc = "idle"
         /\ op'[Main] = op[Main]
<1> DEFINE others == {d \in Callers \ {c} : op[d].pc # "idle"}
<1>1. op' = [p \in Procs |-> IF p = c THEN [o EXCEPT !.alone = (others = {})]
                              ELSE IF p \in others THEN [op[p] EXCEPT !.alone = FALSE]
                              ELSE op[p]]
  BY DEF Begin
<1>2. /\ Callers \subseteq Procs /\ Main \in Procs /\ Main \notin Callers /\ op \in [Procs -> Ops]
      /\ others \subseteq Callers
  BY ManagerAssumption DEF Procs, Types
<1>3. \A d \in others : op[d].pc # "idle"
  OBVIOUS
<1>4. \A d \in Callers \ {c} : d \notin others => op[d].pc = "idle"
  OBVIOUS
<1>5. \A r \in Ops, b \in BOOLEAN : [r EXCEPT !.alone = b].alone <=> b
  BY DEF Ops
<1>6. (others = {}) \in BOOLEAN /\ FALSE \in BOOLEAN
  OBVIOUS
<1> HIDE DEF others
<1>7. op'[c].alone <=> others = {}
  BY <1>1, <1>2, <1>5, <1>6
<1>8. others = {} <=> \A d \in Callers \ {c} : op[d].pc = "idle"
  BY <1>2, <1>3, <1>4 DEF others
<1>9. ASSUME NEW d \in Callers \ {c}, op'[d].alone PROVE op[d].alone /\ op[d].pc = "idle"
  <2>1. CASE d \in others
    <3>1. op'[d] = [op[d] EXCEPT !.alone = FALSE] /\ op[d] \in Ops
      BY <1>1, <1>2, <2>1
    <3> QED
      BY <1>5, <1>6, <1>9, <3>1
  <2>2. CASE d \notin others
    <3>1. op'[d] = op[d]
      BY <1>1, <1>2, <2>2
    <3> QED
      BY <1>4, <1>9, <2>2, <3>1
  <2> QED
    BY <2>1, <2>2
<1>10. op'[Main] = op[Main]
  BY <1>1, <1>2
<1> QED
  BY <1>7, <1>8, <1>9, <1>10

\* No request begins as main does, nor with a list that is already read; only
\* a change of settings saves at once.
Starting(o) ==
  /\ o.kind # "load"
  /\ \/ o.pc \in {"add", "list"} /\ o.read = <<>>
     \/ o.pc = "save" /\ o.kind = "settings"

LEMMA RequestBegins ==
  ASSUME IInv, NEW c \in Callers, Request(c)
  PROVE  /\ \E o \in Ops : Begin(c, o) /\ Starting(o)
         /\ UNCHANGED <<phase, cfgRules, file>>
<1>1. CASE Begin(c, Notifying)
  <2>1. Notifying \in Ops /\ Starting(Notifying)
    BY BeginTypes DEF Notifying, Idle, Starting
  <2>2. UNCHANGED <<phase, cfgRules, file>>
    BY <1>1
    DEF Request, Add, Update, UpdateDisables, UpdateRefused, Delete, SetEnabled,
        SetDetectionConfig, SetScan, Import, config
  <2> QED
    BY <1>1, <2>1, <2>2
<1>2. ASSUME NEW s \in Requests, Add(c, s)
      PROVE  /\ \E o \in Ops : Begin(c, o) /\ Starting(o)
             /\ UNCHANGED <<phase, cfgRules, file>>
  <2> DEFINE o == [Idle EXCEPT !.pc = "add", !.kind = "add", !.todo = <<s>>]
  <2>1. o \in Ops
    <3>1. <<s>> \in Seq(Spec_)
      BY ManagerAssumption
    <3> QED
      BY <3>1, BeginTypes DEF Kinds
  <2>2. Begin(c, o) /\ Starting(o) /\ UNCHANGED <<phase, cfgRules, file>>
    BY <1>2 DEF Add, Idle, Starting, config
  <2> HIDE DEF o
  <2> QED
    BY <2>1, <2>2
<1>3. ASSUME SetScan(c)
      PROVE  /\ \E o \in Ops : Begin(c, o) /\ Starting(o)
             /\ UNCHANGED <<phase, cfgRules, file>>
  <2> DEFINE o == [Idle EXCEPT !.pc = "save", !.kind = "settings"]
  <2>1. o \in Ops /\ Starting(o)
    BY BeginTypes DEF Idle, Starting
  <2>2. Begin(c, o) /\ UNCHANGED <<phase, cfgRules, file>>
    BY <1>3 DEF SetScan, config
  <2> HIDE DEF o
  <2> QED
    BY <2>1, <2>2
<1>4. ASSUME NEW f \in Profiles, Import(c, f)
      PROVE  /\ \E o \in Ops : Begin(c, o) /\ Starting(o)
             /\ UNCHANGED <<phase, cfgRules, file>>
  <2> DEFINE o == [Idle EXCEPT !.pc = "list", !.kind = "import", !.profile = f]
  <2>1. o \in Ops /\ Starting(o)
    BY BeginTypes DEF Idle, Starting
  <2>2. Begin(c, o) /\ UNCHANGED <<phase, cfgRules, file>>
    BY <1>4 DEF Import, config
  <2> HIDE DEF o
  <2> QED
    BY <2>1, <2>2
<1> QED
  BY <1>1, <1>2, <1>3, <1>4
  DEF Request, Update, UpdateDisables, UpdateRefused, Delete, SetEnabled, SetDetectionConfig

\* A step of a call neither makes it alone nor turns it into a boot.
Kept(p) ==
  /\ op'[p].alone = op[p].alone
  /\ op'[p].kind = "load" => op[p].kind = "load"

LEMMA Proceeds ==
  ASSUME IInv, NEW p \in Procs, Proceed(p)
  PROVE  /\ op[p].pc # "idle" /\ \A q \in Procs \ {p} : op'[q] = op[q]
         /\ phase' # phase => p = Main
         /\ \/ op'[p] = Idle
            \/ Kept(p) /\ op'[p].pc \in {"start", "add", "clear"}
            \/ Kept(p) /\ (Unlock(p) \/ List(p) \/ Read(p) \/ ReadAll(p) \/ Save(p))
<1> DEFINE Goes ==
       \/ op'[p] = Idle
       \/ Kept(p) /\ op'[p].pc \in {"start", "add", "clear"}
       \/ Kept(p) /\ (Unlock(p) \/ List(p) \/ Read(p) \/ ReadAll(p) \/ Save(p))
<1>1. op \in [Procs -> Ops] /\ op[p] \in Ops
  BY DEF IInv, Types
<1>2. op[p].pc # "idle"
  BY DEF Proceed, Insert, AddRefused, SpecRefused, Adding, Listen, ListenFails, Unlock, List,
         Read, ReadAll, ImportRefused, Replace, Clear, Save, Rename, SaveFails
<1>3. \E o : op' = [op EXCEPT ![p] = o]
  BY DEF Proceed, Insert, AddRefused, SpecRefused, Listen, ListenFails, Unlock, List, Read,
         ReadAll, ImportRefused, Replace, Clear, Save, Rename, SaveFails, Returns, Step
<1>4. phase' # phase => p = Main
  BY DEF Proceed, Insert, AddRefused, SpecRefused, Listen, ListenFails, Unlock, List, Read,
         ReadAll, ImportRefused, Replace, Clear, Save, Rename, SaveFails, Returns
<1>5. ASSUME AddRefused(p) \/ ImportRefused(p) \/ Rename(p) \/ SaveFails(p) PROVE Goes
  BY <1>1, <1>5 DEF AddRefused, ImportRefused, Rename, SaveFails, Returns, Step
<1>6. ASSUME Insert(p) \/ Listen(p) \/ Clear(p) PROVE Goes
  <2> DEFINE t == Tail(op[p].todo)
  <2>1. \/ op'[p] = [op[p] EXCEPT !.pc = "start"]
        \/ op[p].pc = "add" /\ op'[p] = [op[p] EXCEPT !.todo = t]
        \/ op'[p] = [op[p] EXCEPT !.pc = "add", !.todo = t]
        \/ op'[p] = [op[p] EXCEPT !.pc = "add"]
    BY <1>1, <1>6 DEF Insert, Adding, Listen, Clear, Step
  <2> HIDE DEF t
  <2> QED
    BY <1>1, <2>1 DEF Ops, Kept
<1>7. ASSUME SpecRefused(p) \/ ListenFails(p) PROVE Goes
  <2>1. op[p].kind \in {"add", "load", "replace", "rollback"} /\ op'[p] = AfterFailure(op[p])
    BY <1>1, <1>7 DEF SpecRefused, ListenFails, Adding, IInv, OpInv, Ready, Step
  <2> DEFINE t == Tail(op[p].todo)
             old == op[p].old
  <2>2. \/ op'[p] = [op[p] EXCEPT !.pc = "add", !.todo = <<>>]
        \/ op[p].kind = "load" /\ op'[p] = [op[p] EXCEPT !.pc = "add", !.todo = t]
        \/ op'[p] = [op[p] EXCEPT !.pc = "clear", !.kind = "rollback", !.todo = old]
        \/ op'[p] = [op[p] EXCEPT !.pc = "add", !.kind = "broken", !.todo = <<>>]
    BY <2>1 DEF AfterFailure
  <2> HIDE DEF t, old
  <2> QED
    BY <1>1, <2>2 DEF Ops, Kept
<1>8. ASSUME Replace(p) PROVE Goes
  <2> DEFINE new == Merged(op[p].read, op[p].profile)
  <2>1. op'[p] = [op[p] EXCEPT !.pc = "clear", !.kind = "replace", !.read = <<>>,
                               !.old = Specs, !.wanted = new, !.todo = new]
    BY <1>1, <1>8 DEF Replace, Step
  <2> HIDE DEF new
  <2> QED
    BY <1>1, <2>1 DEF Ops, Kept
<1>9. ASSUME Unlock(p) PROVE Goes
  <2>1. op'[p] = AfterChange(op[p])
    BY <1>1, <1>9 DEF Unlock, Step
  <2>2. op'[p].alone = op[p].alone /\ op'[p].kind = op[p].kind
    BY <2>1 DEF AfterChange, Idle
  <2> QED
    BY <1>9, <2>2 DEF Kept
<1>10. ASSUME List(p) \/ Read(p) \/ ReadAll(p) \/ Save(p) PROVE Goes
  <2> DEFINE w == Tail(op[p].left)
             r == Append(op[p].read, obj[Head(op[p].left)].spec)
  <2>1. \/ op'[p] = [op[p] EXCEPT !.pc = "read", !.left = Objs]
        \/ op'[p] = [op[p] EXCEPT !.left = w, !.read = r]
        \/ op'[p] = [op[p] EXCEPT !.pc = IF op[p].kind = "import" THEN "merge" ELSE "save"]
        \/ op'[p] = [op[p] EXCEPT !.pc = "rename", !.read = <<>>]
    BY <1>1, <1>10 DEF List, Read, ReadAll, Save, Step
  <2> HIDE DEF w, r
  <2>2. op'[p].alone = op[p].alone /\ op'[p].kind = op[p].kind
    BY <1>1, <2>1 DEF Ops
  <2> QED
    BY <1>10, <2>2 DEF Kept
<1>11. Goes
  BY <1>5, <1>6, <1>7, <1>8, <1>9, <1>10 DEF Proceed
<1> QED
  BY <1>1, <1>2, <1>3, <1>4, <1>11

-----------------------------------------------------------------------------
(* Every step keeps the invariant.                                          *)

\* Main proceeds through its boot, saves what it has read, and is done.
LEMMA BootProceeds ==
  ASSUME IInv, FileInv, Proceed(Main), phase = "boot"
  PROVE  Booting' /\ file' = file
<1>1. /\ op[Main].kind = "load" /\ op[Main].pc \in {"add", "start", "save", "rename"}
      /\ cfgRules = file /\ op \in [Procs -> Ops] /\ Main \in Procs /\ op[Main] \in Ops
  BY DEF FileInv, Booting, IInv, Types, Procs
<1>2. \/ Insert(Main) \/ SpecRefused(Main) \/ Listen(Main) \/ ListenFails(Main)
      \/ Unlock(Main) \/ Save(Main) \/ Rename(Main) \/ SaveFails(Main)
  BY <1>1
  DEF Proceed, AddRefused, Adding, List, Read, ReadAll, ImportRefused, Replace, Clear
<1>3. CASE Rename(Main) \/ SaveFails(Main)
  BY <1>1, <1>3 DEF Rename, SaveFails, Returns, Booting
<1>4. ASSUME ~(Rename(Main) \/ SaveFails(Main)) PROVE UNCHANGED <<phase, cfgRules, file>>
  BY <1>1, <1>2, <1>4
  DEF Insert, SpecRefused, Listen, ListenFails, Unlock, Save, table, config
<1>5. CASE Insert(Main) \/ Listen(Main) \/ Unlock(Main) \/ Save(Main)
  <2> DEFINE t == Tail(op[Main].todo)
             a == op[Main].alone
  <2>1. \/ op'[Main] = [op[Main] EXCEPT !.pc = "start"]
        \/ op[Main].pc = "add" /\ op'[Main] = [op[Main] EXCEPT !.todo = t]
        \/ op'[Main] = [op[Main] EXCEPT !.pc = "add", !.todo = t]
        \/ op'[Main] = [Idle EXCEPT !.pc = "save", !.kind = "load", !.alone = a]
        \/ op'[Main] = [op[Main] EXCEPT !.pc = "rename", !.read = <<>>]
    BY <1>1, <1>5 DEF Insert, Adding, Listen, Unlock, AfterChange, Save, Step
  <2> HIDE DEF t, a
  <2>2. op'[Main].kind = "load" /\ op'[Main].pc \in {"add", "start", "save", "rename"}
    BY <1>1, <2>1 DEF Ops, Idle
  <2>3. ~(Rename(Main) \/ SaveFails(Main))
    BY <1>5 DEF Insert, Adding, Listen, Unlock, Save, Rename, SaveFails
  <2> QED
    BY <1>1, <1>4, <2>2, <2>3 DEF Booting
<1>6. CASE SpecRefused(Main) \/ ListenFails(Main)
  <2> DEFINE t == Tail(op[Main].todo)
  <2>1. op'[Main] = [op[Main] EXCEPT !.pc = "add", !.todo = t]
    BY <1>1, <1>6 DEF SpecRefused, ListenFails, AfterFailure, Step
  <2> HIDE DEF t
  <2>2. op'[Main].kind = "load" /\ op'[Main].pc = "add"
    BY <1>1, <2>1 DEF Ops
  <2>3. ~(Rename(Main) \/ SaveFails(Main))
    BY <1>6 DEF SpecRefused, Adding, ListenFails, Rename, SaveFails
  <2> QED
    BY <1>1, <1>4, <2>2, <2>3 DEF Booting
<1> QED
  BY <1>2, <1>3, <1>5, <1>6

\* While the program boots only main works: the file is left as it was read,
\* or written anew with the same rules.
LEMMA BootingStep ==
  ASSUME IInv, FileInv, [Next]_vars
  PROVE  /\ Booting'
         /\ phase = "boot" => file' = file
<1>1. /\ op \in [Procs -> Ops] /\ Main \in Procs /\ Main \notin Callers
      /\ Procs = Callers \cup {Main} /\ Booting /\ Served
      /\ op[Main].pc # "idle" => phase = "boot"
  BY ManagerAssumption DEF FileInv, IInv, Types, LockInv, Procs
<1>2. CASE Boot
  <2>1. op'[Main] = [Idle EXCEPT !.pc = "add", !.kind = "load", !.todo = file]
    BY <1>1, <1>2 DEF Boot
  <2>2. op'[Main].kind = "load" /\ op'[Main].pc = "add"
    BY <2>1 DEF Idle
  <2> QED
    BY <1>2, <2>2 DEF Boot, Booting
<1>3. CASE Crash \/ StopAll
  BY <1>3 DEF Crash, StopAll, Booting
<1>4. ASSUME NEW c \in Callers, Request(c)
      PROVE  Booting' /\ (phase = "boot" => file' = file)
  <2>1. phase = "up" /\ phase' = phase
    BY <1>4, RequestBegins DEF Begin
  <2> QED
    BY <2>1 DEF Booting
<1>5. ASSUME NEW p \in Procs, Proceed(p)
      PROVE  Booting' /\ (phase = "boot" => file' = file)
  <2>1. CASE p = Main
    <3>1. phase = "boot"
      BY <1>1, <1>5, <2>1, Proceeds
    <3> QED
      BY <1>5, <2>1, <3>1, BootProceeds
  <2>2. CASE p # Main
    <3>1. phase # "boot" /\ phase' = phase
      BY <1>1, <1>5, <2>2, Proceeds DEF Served
    <3> QED
      BY <3>1 DEF Booting
  <2> QED
    BY <2>1, <2>2
<1>6. CASE UNCHANGED vars
  BY <1>1, <1>6 DEF vars, config, Booting
<1> QED
  BY <1>2, <1>3, <1>4, <1>5, <1>6 DEF Next

\* Requests come when the boot is over, and overlap as their history says.
LEMMA ServedStep ==
  ASSUME IInv, FileInv, [Next]_vars
  PROVE  Served' /\ Lone'
<1>1. /\ op \in [Procs -> Ops] /\ Main \in Procs /\ Main \notin Callers
      /\ Procs = Callers \cup {Main} /\ Lone /\ Served
      /\ op[Main].pc # "idle" => phase = "boot"
  BY ManagerAssumption DEF FileInv, IInv, Types, LockInv, Procs
<1>2. CASE Boot
  <2>1. \A c \in Callers : op'[c] = op[c] /\ op[c].pc = "idle"
    BY <1>1, <1>2 DEF Boot, IInv, LockInv
  <2> QED
    BY <1>1, <2>1 DEF Served, Lone
<1>3. CASE Crash
  <2>1. \A c \in Callers : op'[c].pc = "idle" /\ ~op'[c].alone
    BY <1>1, <1>3 DEF Crash, Idle
  <2> QED
    BY <2>1 DEF Served, Lone
<1>4. CASE StopAll \/ UNCHANGED vars
  BY <1>1, <1>4 DEF StopAll, vars, Served, Lone
<1>5. ASSUME NEW c \in Callers, Request(c) PROVE Served' /\ Lone'
  <2>1. PICK o \in Ops : Begin(c, o) /\ Starting(o)
    BY <1>5, RequestBegins
  <2>2. phase = "up" /\ phase' = "up"
    BY <1>5, <2>1, RequestBegins DEF Begin
  <2>3. Same(op'[c], o) /\ \A d \in Callers \ {c} : Same(op'[d], op[d])
    BY <1>1, <2>1, Begun DEF IInv
  <2>4. /\ op'[c].alone <=> \A d \in Callers \ {c} : op[d].pc = "idle"
        /\ \A d \in Callers \ {c} : op'[d].alone => op[d].alone /\ op[d].pc = "idle"
    BY <2>1, BegunAlone DEF IInv
  <2>5. Served'
    BY <1>1, <2>1, <2>2, <2>3 DEF Served, Same, Starting
  <2>6. Lone'
    BY <1>1, <2>1, <2>3, <2>4 DEF Lone, Same, Starting
  <2> QED
    BY <2>5, <2>6
<1>6. ASSUME NEW p \in Procs, Proceed(p) PROVE Served' /\ Lone'
  <2>1. op[p].pc # "idle" /\ \A q \in Procs \ {p} : op'[q] = op[q]
    BY <1>6, Proceeds
  <2>2. CASE p = Main
    <3>1. \A c \in Callers : op'[c] = op[c] /\ op[c].pc = "idle"
      BY <1>1, <2>1, <2>2 DEF Served
    <3> QED
      BY <1>1, <3>1 DEF Served, Lone
  <2>3. CASE p # Main
    <3>1. p \in Callers /\ phase' = phase /\ phase \in {"up", "stopping"} /\ op[p].kind # "load"
      BY <1>1, <1>6, <2>1, <2>3, Proceeds DEF Served
    <3>2. op'[p].pc # "idle" => op'[p].kind # "load" /\ (op'[p].alone => op[p].alone)
      BY <1>6, <3>1, Proceeds DEF Kept, Idle
    <3>3. op'[p].alone => op'[p].pc # "idle" /\ op[p].alone
      <4>1. Idle.pc = "idle" /\ ~Idle.alone
        BY DEF Idle
      <4>2. /\ Unlock(p) => op'[p].pc \in {"save", "list"}
            /\ List(p) => op'[p].pc = "read"
            /\ Read(p) => op'[p].pc = "read"
            /\ ReadAll(p) => op'[p].pc \in {"merge", "save"}
            /\ Save(p) => op'[p].pc = "rename"
        <5> DEFINE w == Tail(op[p].left)
                   r == Append(op[p].read, obj[Head(op[p].left)].spec)
        <5>1. /\ Unlock(p) => op'[p] = AfterChange(op[p])
              /\ List(p) => op'[p] = [op[p] EXCEPT !.pc = "read", !.left = Objs]
              /\ Read(p) => op[p].pc = "read" /\ op'[p] = [op[p] EXCEPT !.left = w, !.read = r]
              /\ ReadAll(p) =>
                   op'[p] = [op[p] EXCEPT !.pc = IF op[p].kind = "import" THEN "merge" ELSE "save"]
              /\ Save(p) => op'[p] = [op[p] EXCEPT !.pc = "rename", !.read = <<>>]
          BY <1>1 DEF Unlock, List, Read, ReadAll, Save, Step
        <5>2. AfterChange(op[p]).pc \in {"save", "list"}
          BY DEF AfterChange, Idle
        <5>3. op[p] \in Ops
          BY <1>1
        <5> HIDE DEF w, r
        <5> QED
          BY <5>1, <5>2, <5>3 DEF Ops
      <4> QED
        BY <1>6, <4>1, <4>2, Proceeds DEF Kept
    <3> QED
      BY <1>1, <2>1, <3>1, <3>2, <3>3 DEF Served, Lone
  <2> QED
    BY <2>2, <2>3
<1> QED
  BY <1>2, <1>3, <1>4, <1>5, <1>6 DEF Next

\* Specs is the same as long as no step changes the rules of the table.
LEMMA SpecsSame ==
  ASSUME IInv, UNCHANGED <<rules, order>>, UNCHANGED obj \/ StopAll
  PROVE  Specs' = Specs /\ Objs' = Objs
<1>1. ASSUME NEW n \in DOMAIN order
      PROVE  obj'[rules[order[n]]].spec = obj[rules[order[n]]].spec
  <2>1. order[n] \in Ids /\ rules[order[n]] # None
    BY DEF IInv, Types, TableInv
  <2>2. rules[order[n]] \in Objects
    BY <2>1, RuleTypes
  <2> QED
    BY <2>2, StopAllEffect
<1> QED
  BY <1>1 DEF Specs, Objs

\* A lone request reads the list, its rules one by one, and saves them.
LEMMA LoneProceeds ==
  ASSUME IInv, FileInv, NEW c \in Callers, Proceed(c), op[c].alone, op[c].kind # "settings",
         Unlock(c) \/ List(c) \/ Read(c) \/ ReadAll(c) \/ Save(c)
  PROVE  Saving(op[c])'
<1>1. /\ op \in [Procs -> Ops] /\ c \in Procs /\ op[c] \in Ops /\ op[c].kind # "load"
      /\ op[c].read \in Seq(Spec_) /\ op[c].left \in Seq(Objects)
      /\ Saving(op[c])
  <2>1. op \in [Procs -> Ops] /\ c \in Procs
    BY DEF IInv, Types, Procs
  <2>2. op[c].pc # "idle"
    BY <2>1, Proceeds
  <2> QED
    BY <2>1, <2>2 DEF Ops, FileInv, Served, LoneSaves
<1>2. UNCHANGED table
  BY DEF Unlock, List, Read, ReadAll, Save
<1>3. Specs' = Specs /\ Objs' = Objs /\ order' = order
  BY <1>2, SpecsSame DEF table
<1>4. /\ Specs \in Seq(Spec_) /\ Len(Specs) = Len(order)
      /\ Objs \in Seq(Objects) /\ Len(Objs) = Len(order)
      /\ \A n \in 1..Len(order) : obj[Objs[n]].spec = Specs[n]
  <2>1. Specs \in Seq(Spec_) /\ Len(Specs) = Len(order) /\ Objs \in Seq(Objects) /\ Len(Objs) = Len(order)
    BY ListTypes DEF IInv
  <2>2. \A n \in 1..Len(order) : obj[Objs[n]].spec = Specs[n]
    <3>1. order \in Seq(Ids) /\ DOMAIN order = 1..Len(order)
      BY DEF IInv, Types
    <3> QED
      BY <3>1 DEF Specs, Objs
  <2> QED
    BY <2>1, <2>2
<1>5. CASE Unlock(c)
  <2>1. op'[c] = AfterChange(op[c])
    BY <1>1, <1>5 DEF Unlock, Step
  <2>2. op'[c].pc = "list" /\ op'[c].read = <<>>
    BY <1>1, <2>1 DEF AfterChange, Idle
  <2> QED
    BY <2>2 DEF Saving
<1>6. CASE List(c)
  <2>1. op[c].pc = "list" /\ op'[c] = [op[c] EXCEPT !.pc = "read", !.left = Objs]
    BY <1>1, <1>6 DEF List, Step
  <2>2. op'[c].pc = "read" /\ op'[c].left = Objs /\ op'[c].read = <<>>
    BY <1>1, <2>1 DEF Ops, Saving
  <2>3. Len(op'[c].read) = 0
    BY <2>2
  <2>4. order \in Seq(Ids) /\ Len(order) \in Nat
    BY DEF IInv, Types
  <2>5. \A n \in 1..Len(Objs) : 0 + n = n
    BY <1>4, <2>4
  <2>6. HasRead(op[c])'
    BY <1>3, <1>4, <2>2, <2>3, <2>4, <2>5 DEF HasRead
  <2> QED
    BY <2>2, <2>6 DEF Saving
<1>7. CASE Read(c)
  <2> DEFINE w == Tail(op[c].left)
             x == obj[Head(op[c].left)].spec
             r == Append(op[c].read, x)
             k == Len(op[c].read)
             l == Len(op[c].left)
  <2>1. /\ op[c].pc = "read" /\ op[c].left # <<>>
        /\ op'[c] = [op[c] EXCEPT !.left = w, !.read = r]
    BY <1>1, <1>7 DEF Read, Step
  <2>2. /\ Head(op[c].left) = op[c].left[1] /\ l \in Nat \ {0}
        /\ Len(w) = l - 1 /\ \A n \in 1..Len(w) : w[n] = op[c].left[n + 1]
    BY <1>1, <2>1, HeadTail
  <2>3. /\ k \in Nat /\ k + l = Len(order)
        /\ \A n \in 1..k : op[c].read[n] = Specs[n]
        /\ \A n \in 1..l : op[c].left[n] = Objs[k + n]
    <3>1. HasRead(op[c])
      BY <1>1, <2>1 DEF Saving
    <3>2. k \in Nat
      BY <1>1
    <3> QED
      BY <3>1, <3>2 DEF HasRead
  <2>4. w \in Seq(Objects) /\ x = obj[op[c].left[1]].spec
    BY <1>1, <2>1, <2>2, HeadTail
  <2> HIDE DEF k, l, w, x
  <2>5. 1 \in 1..l /\ k + 1 \in 1..Len(order)
    BY <2>2, <2>3
  <2>6. x = Specs[k + 1]
    BY <1>4, <2>3, <2>4, <2>5
  <2>7. x \in Spec_
    BY <1>4, <2>5, <2>6
  <2>8. /\ r \in Seq(Spec_) /\ Len(r) = k + 1 /\ r[k + 1] = x
        /\ \A n \in 1..k : r[n] = op[c].read[n]
    BY <1>1, <2>7 DEF k
  <2> HIDE DEF r
  <2>9. op'[c].pc = "read" /\ op'[c].left = w /\ op'[c].read = r
    BY <1>1, <2>1 DEF Ops
  <2>10. Len(r) + Len(w) = Len(order)
    BY <2>2, <2>3, <2>8
  <2>11. ASSUME NEW n \in 1..Len(r) PROVE r[n] = Specs[n]
    <3>1. n \in 1..k \/ n = k + 1
      BY <2>3, <2>8
    <3> QED
      BY <2>3, <2>6, <2>8, <3>1
  <2>12. ASSUME NEW n \in 1..Len(w) PROVE w[n] = Objs[Len(r) + n]
    <3>1. n + 1 \in 1..l /\ k + (n + 1) = Len(r) + n
      BY <2>2, <2>3, <2>8
    <3>2. op[c].left[n + 1] = Objs[k + (n + 1)]
      BY <2>3, <3>1
    <3> QED
      BY <2>2, <3>1, <3>2
  <2>13. HasRead(op[c])'
    BY <1>3, <2>9, <2>10, <2>11, <2>12 DEF HasRead
  <2> QED
    BY <2>9, <2>13 DEF Saving
<1>8. CASE ReadAll(c)
  <2>1. /\ op[c].pc = "read" /\ op[c].left = <<>>
        /\ op'[c] = [op[c] EXCEPT !.pc = IF op[c].kind = "import" THEN "merge" ELSE "save"]
    BY <1>1, <1>8 DEF ReadAll, Step
  <2>2. op'[c].pc \in {"merge", "save"} /\ op'[c].read = op[c].read
    BY <1>1, <2>1 DEF Ops
  <2>3. HasRead(op[c]) /\ Len(op[c].left) = 0
    BY <1>1, <2>1 DEF Saving
  <2>4. Len(op[c].read) \in Nat /\ Len(op[c].read) + 0 = Len(order)
    BY <1>1, <2>3 DEF HasRead
  <2>5. Len(op[c].read) = Len(Specs) /\ \A n \in 1..Len(op[c].read) : op[c].read[n] = Specs[n]
    BY <1>4, <2>3, <2>4 DEF HasRead
  <2>6. op[c].read = Specs
    BY <1>1, <1>4, <2>5
  <2> QED
    BY <1>3, <2>2, <2>6 DEF Saving
<1>9. CASE Save(c)
  <2>1. op[c].pc = "save" /\ op'[c] = [op[c] EXCEPT !.pc = "rename", !.read = <<>>]
    BY <1>1, <1>9 DEF Save, Step
  <2>2. op'[c].pc = "rename"
    BY <1>1, <2>1 DEF Ops
  <2>3. cfgRules' = op[c].read
    BY <1>1, <1>9 DEF Save
  <2>4. op[c].read = Specs
    BY <1>1, <2>1 DEF Saving
  <2> QED
    BY <1>3, <2>2, <2>3, <2>4 DEF Saving
<1> QED
  BY <1>5, <1>6, <1>7, <1>8, <1>9

\* Nothing disturbs a request that no other overlaps.
LEMMA LoneSavesStep ==
  ASSUME IInv, FileInv, [Next]_vars
  PROVE  LoneSaves'
<1> SUFFICES ASSUME NEW c \in Callers, op'[c].alone, op'[c].kind # "settings"
             PROVE  Saving(op[c])'
  BY DEF LoneSaves
<1>1. /\ op \in [Procs -> Ops] /\ Main \in Procs /\ Main \notin Callers /\ c \in Procs
      /\ Procs = Callers \cup {Main} /\ Lone /\ Served /\ LoneSaves
      /\ op[Main].pc # "idle" => phase = "boot"
      /\ phase = "down" => op[c].pc = "idle"
  BY ManagerAssumption DEF FileInv, IInv, Types, LockInv, Procs
<1>2. CASE Boot
  BY <1>1, <1>2 DEF Boot, Lone
<1>3. CASE Crash
  BY <1>1, <1>3 DEF Crash, Idle
<1>4. CASE StopAll \/ UNCHANGED vars
  <2>1. op' = op /\ cfgRules' = cfgRules /\ UNCHANGED <<rules, order>> /\ (UNCHANGED obj \/ StopAll)
    BY <1>4 DEF StopAll, vars, config, table
  <2>2. Specs' = Specs /\ Objs' = Objs
    BY <2>1, SpecsSame
  <2>3. Saving(op[c])
    BY <1>1, <2>1 DEF LoneSaves
  <2> QED
    BY <2>1, <2>2, <2>3 DEF Saving, HasRead
<1>5. ASSUME NEW d \in Callers, Request(d) PROVE Saving(op[c])'
  <2>1. PICK o \in Ops : Begin(d, o) /\ Starting(o)
    BY <1>5, RequestBegins
  <2>2. CASE d = c
    <3>1. Same(op'[c], o)
      BY <2>1, <2>2, Begun DEF IInv
    <3> QED
      BY <2>1, <3>1 DEF Same, Starting, Saving
  <2>3. CASE d # c
    <3>1. op[c].alone /\ op[c].pc = "idle"
      BY <2>1, <2>3, BegunAlone DEF IInv
    <3> QED
      BY <1>1, <3>1 DEF Lone
  <2> QED
    BY <2>2, <2>3
<1>6. ASSUME NEW p \in Procs, Proceed(p) PROVE Saving(op[c])'
  <2>1. op[p].pc # "idle" /\ \A q \in Procs \ {p} : op'[q] = op[q]
    BY <1>6, Proceeds
  <2>2. p = c
    BY <1>1, <2>1 DEF Lone, Served
  <2>3. CASE op'[c] = Idle
    BY <2>3 DEF Idle
  <2>4. CASE op'[c].pc \in {"start", "add", "clear"}
    BY <2>4 DEF Saving
  <2>5. CASE Kept(c) /\ (Unlock(c) \/ List(c) \/ Read(c) \/ ReadAll(c) \/ Save(c))
    <3>1. op[c].alone /\ op[c].kind # "settings"
      <4>1. op'[c].kind = op[c].kind
        <5> DEFINE w == Tail(op[c].left)
                   r == Append(op[c].read, obj[Head(op[c].left)].spec)
        <5>1. \/ op'[c] = AfterChange(op[c])
              \/ op'[c] = [op[c] EXCEPT !.pc = "read", !.left = Objs]
              \/ op'[c] = [op[c] EXCEPT !.left = w, !.read = r]
              \/ op'[c] = [op[c] EXCEPT !.pc = IF op[c].kind = "import" THEN "merge" ELSE "save"]
              \/ op'[c] = [op[c] EXCEPT !.pc = "rename", !.read = <<>>]
          BY <1>1, <2>5 DEF Unlock, List, Read, ReadAll, Save, Step
        <5>2. AfterChange(op[c]).kind = op[c].kind
          BY DEF AfterChange, Idle
        <5>3. op[c] \in Ops
          BY <1>1
        <5> HIDE DEF w, r
        <5> QED
          BY <5>1, <5>2, <5>3 DEF Ops
      <4> QED
        BY <2>5, <4>1 DEF Kept
    <3> QED
      BY <1>6, <2>2, <2>5, <3>1, LoneProceeds
  <2> QED
    BY <1>6, <2>2, <2>3, <2>4, <2>5, Proceeds
<1> QED
  BY <1>2, <1>3, <1>4, <1>5, <1>6 DEF Next

-----------------------------------------------------------------------------
(* The theorem.                                                             *)

LEMMA FileInvariance == Spec => []FileInv
<1>1. ASSUME Init PROVE FileInv
  <2>1. \A p \in Procs : op[p].pc = "idle" /\ ~op[p].alone
    BY <1>1 DEF Init, Idle
  <2> QED
    BY <1>1, <2>1 DEF Init, FileInv, Served, Booting, Lone, LoneSaves, Procs
<1>2. IInv /\ FileInv /\ [Next]_vars => FileInv'
  BY ServedStep, BootingStep, LoneSavesStep DEF FileInv
<1> QED
  BY <1>1, <1>2, Invariance, PTL DEF Spec

\* A request that no other overlaps has saved the rules as they are when it
\* returns, and a boot leaves the file as it was, whichever rules were refused
\* or could not be started (main.go:82, manager.go:349-350).
THEOREM FileFollowsRules == Spec => FileIsFaithful
<1> DEFINE Faithful ==
       /\ \A c \in Callers :
            op[c].alone /\ op[c].kind # "settings" /\ Saved(c) => file' = Specs'
       /\ phase = "boot" => file' = file
<1>1. ASSUME IInv, FileInv, [Next]_vars, NEW c \in Callers,
             op[c].alone, op[c].kind # "settings", Saved(c)
      PROVE  file' = Specs'
  <2>1. /\ op \in [Procs -> Ops] /\ c \in Procs /\ op[c].pc = "rename" /\ op'[c].pc = "idle"
        /\ file' = cfgRules /\ phase' = phase
    BY <1>1 DEF IInv, Types, Procs, Saved
  <2>2. cfgRules = Specs
    BY <1>1, <2>1 DEF FileInv, LoneSaves, Saving
  <2>3. ASSUME NEW d \in Callers, Request(d) PROVE FALSE
    <3>1. PICK o \in Ops : Begin(d, o) /\ Starting(o)
      BY <1>1, <2>3, RequestBegins
    <3>2. op[d].pc = "idle" /\ \A q \in Procs \ {d} : Same(op'[q], op[q])
      BY <1>1, <3>1, Begun DEF IInv
    <3> QED
      BY <2>1, <3>2 DEF Same
  <2>4. ASSUME NEW p \in Procs, Proceed(p) PROVE UNCHANGED table
    <3>1. p = c
      BY <1>1, <2>1, <2>4, Proceeds
    <3> QED
      BY <2>1, <2>4, <3>1
      DEF Proceed, Insert, AddRefused, SpecRefused, Adding, Listen, ListenFails, Unlock, List,
          Read, ReadAll, ImportRefused, Replace, Clear, Save, Rename, SaveFails, Returns
  <2>5. ~Boot /\ ~Crash /\ ~StopAll /\ ~UNCHANGED vars
    BY <2>1 DEF Boot, Crash, StopAll, vars
  <2>6. UNCHANGED table
    BY <1>1, <2>3, <2>4, <2>5 DEF Next
  <2> QED
    BY <1>1, <2>1, <2>2, <2>6, SpecsSame DEF table
<1>2. IInv /\ FileInv /\ [Next]_vars => [Faithful]_vars
  BY <1>1, BootingStep DEF vars
<1> QED
  BY <1>2, Invariance, FileInvariance, PTL DEF Spec, FileIsFaithful

=============================================================================
