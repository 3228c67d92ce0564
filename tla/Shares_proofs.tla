------------------------------ MODULE Shares_proofs ------------------------------
(***************************************************************************)
(* Shares for every set of Contexts, routes and requests and any number of *)
(* registrations and edits: types, one owner, what a marker names, what a  *)
(* held route keeps, and that no delivery overwrites an accepted PUT.      *)
(***************************************************************************)
EXTENDS Shares, FiniteSetTheorems, WellFoundedInduction, TLAPS

-----------------------------------------------------------------------------
(* The registry. *)

Public(s, i) == ~s.regs[i].closed /\ ~s.regs[i].staged

\* A route is given to a public registration of it, and each of these has its route.
RecordsOK(s) ==
  \A r \in Routes : s.records[r] # 0 =>
    s.records[r] \in Regs(s) /\ s.regs[s.records[r]].route = r /\ Public(s, s.records[r])
PublicOK(s) == \A i \in Regs(s) : Public(s, i) => s.records[s.regs[i].route] = i

\* What is staged has not been used.
Unused(reg) == ~reg.active /\ ~reg.held /\ ~reg.reattaching /\ reg.checksum = NoValue
StagedOK(s) == \A i \in Regs(s) : s.regs[i].staged => Unused(s.regs[i])
StagedApart(s) == \A i, j \in Staged(s) : s.regs[i].route = s.regs[j].route => i = j

FlagsFit(reg, ids) ==
  /\ reg.active /\ reg.held => reg.reattaching
  /\ reg.closed => ~reg.active
  /\ reg.from \in {0} \cup ids /\ reg.to \in {0} \cup ids
FlagsOK(s) == \A i \in Regs(s) : FlagsFit(s.regs[i], Regs(s))

RegistryOK(s) ==
  /\ s \in Server /\ Len(s.regs) <= MaxRegs
  /\ RecordsOK(s) /\ PublicOK(s) /\ StagedOK(s) /\ StagedApart(s) /\ FlagsOK(s)

\* The highest marker of a route, which its record has or it left behind.
Top(s, r) == IF s.records[r] = 0 THEN s.floor[r] ELSE s.regs[s.records[r]].marker
Names(s, x) ==
  LET i == s.records[x.route] IN
  i # 0 /\ x.marker = s.regs[i].marker /\ s.regs[i].checksum # NoValue => x.value = s.regs[i].checksum
MarkersOK(s, sh) ==
  /\ \A r \in Routes : s.floor[r] <= Top(s, r)
  /\ \A i \in Staged(s) : s.regs[i].marker <= Top(s, s.regs[i].route)
  /\ \A x \in sh : x.marker <= Top(s, x.route) /\ Names(s, x)
  /\ \A x, y \in sh : x.route = y.route /\ x.marker = y.marker => x.value = y.value

\* Most steps change registrations that are there, and may close some.
Evolved(reg, new, ids) ==
  /\ new \in Registration /\ FlagsFit(new, ids)
  /\ new.ctx = reg.ctx /\ new.route = reg.route /\ new.staged = reg.staged
  /\ reg.closed => new.closed
  /\ reg.staged => Unused(new)
Evolves(s, t) ==
  /\ t \in Server /\ DOMAIN t.regs = DOMAIN s.regs
  /\ \A i \in Regs(s) : Evolved(s.regs[i], t.regs[i], Regs(s))
  /\ \A r \in Routes : t.records[r] =
       IF s.records[r] # 0 /\ t.regs[s.records[r]].closed THEN 0 ELSE s.records[r]

\* ... and few of them change values.
MarksKept(s, t) ==
  /\ \A i \in Regs(s) : t.regs[i].marker = s.regs[i].marker /\ t.regs[i].checksum = s.regs[i].checksum
  /\ \A r \in Routes :
       /\ s.floor[r] <= t.floor[r]
       /\ t.floor[r] <= Top(s, r)
       /\ s.records[r] # 0 /\ t.records[r] = 0 => t.floor[r] = Top(s, r)

-----------------------------------------------------------------------------
(* The invariant of the other variables. *)

\* Who keeps a route open owns the namespace, unless its Context has closed.
OwnerFits(s, o, i) ==
  IF o[s.regs[i].ctx] # "closed" THEN s.ns.owner = s.regs[i].ctx
  ELSE ~s.regs[i].active /\ ~s.regs[i].reattaching
OwnerOK(s, o) ==
  /\ \A i \in Regs(s) : Public(s, i) => OwnerFits(s, o, i)
  /\ s.ns.owner # NoOwner /\ ~s.ns.active => o[s.ns.owner] = "closed"

\* Coroutines: what they are about, and at which stages of their Context they are there.
TaskOf(t, s, i) == i \in Regs(s) /\ s.regs[i].ctx = t.ctx
TaskRefs(t, s) ==
  /\ t.do \in {"activate", "complete", "deliver", "unregister", "hold"} => TaskOf(t, s, t.reg)
  /\ t.do = "deliver" => t.value \in Values
Waited == {"unregister", "begin_close", "hold_namespace", "release"}
StagesOf == [activate |-> {"attached"}, hold |-> {"finishing"},
             unregister |-> {"attached", "undo", "unshare", "unloading"},
             begin_close |-> {"flagged"}, release |-> {"release"}, hold_namespace |-> {"holding"},
             complete |-> Stages, deliver |-> Stages]
Loops(q, do, i) == \E k \in DOMAIN q : q[k].do = do /\ q[k].reg = i
TasksOK(q, o) ==
  /\ \A k \in DOMAIN q : o[q[k].ctx] \in StagesOf[q[k].do]
  /\ \A j, k \in DOMAIN q : q[j].ctx = q[k].ctx /\ o[q[j].ctx] # "attached"
                            /\ q[j].do \in Waited /\ q[k].do \in Waited => j = k
  /\ \A j, k \in DOMAIN q : q[j].do = "activate" /\ q[k].do = "activate" /\ q[j].reg = q[k].reg => j = k
  /\ \A j \in DOMAIN q : q[j].do = "unregister" /\ o[q[j].ctx] = "attached" =>
       \E k \in DOMAIN q : j < k /\ q[k].do = "activate" /\ q[k].ctx = q[j].ctx

\* The sessions, and what a call has reserved and not attached, by its stage.
Loading == {"load", "unload", "unloading"}
SessionFits(reg, session, stage) ==
  /\ session.on => ~reg.staged /\ stage \notin {"finishing", "holding", "closed"}
  /\ reg.staged /\ ~reg.closed => stage \in Loading
PreparedFits(s, ss, q, stage, i) ==
  ~ss[i].on /\ ~s.regs[i].closed =>
    /\ stage \notin {"idle", "undone", "release", "flagged", "begun", "refusing", "flushing"}
    /\ stage \in {"attached", "unshare", "undo"} => Loops(q, "unregister", i)
    /\ stage \in Loading => s.regs[i].staged
Unattached(s, ss, c) == {i \in Regs(s) : s.regs[i].ctx = c /\ ~ss[i].on /\ ~s.regs[i].closed}
SessionsAt(s, ss, q, stage, c) ==
  /\ \A i \in Regs(s) : s.regs[i].ctx = c => /\ SessionFits(s.regs[i], ss[i], stage)
                                             /\ PreparedFits(s, ss, q, stage, i)
  /\ stage = "share" => \A i, j \in Unattached(s, ss, c) : i = j
  /\ stage = "load" => Unattached(s, ss, c) # {}
SessionsOK(s, ss, q, o) == \A c \in Contexts : SessionsAt(s, ss, q, o[c], c)

\* Until it is activated nothing has happened to a registration.
New(s, ss, q, o, i) ==
  \/ s.regs[i].staged \/ Loops(q, "activate", i)
  \/ o[s.regs[i].ctx] = "share" /\ ~ss[i].on /\ ~s.regs[i].closed
Fresh(reg, session) ==
  /\ ~reg.active /\ (reg.held => reg.reattaching)
  /\ session.disk = NoValue /\ ~session.initial
About(m, i) == m.type # "begin_close" /\ m.reg = i
Unheard(box, i) == \A c \in Contexts : \A k \in DOMAIN box[c] : ~About(box[c][k], i)
PutAt(put, i) == put.at \in {"accepted", "sent"} /\ put.reg = i
Unasked(pp, i) == \A p \in Requests : ~PutAt(pp[p], i)
\* A delivery comes after the activation.
DeliverAfter(q, i) ==
  \A j \in DOMAIN q : q[j].do = "deliver" /\ q[j].reg = i =>
    \E k \in 1..(j - 1) : q[k].do = "activate" /\ q[k].reg = i
NewAt(s, ss, q, o, box, pp, i) ==
  New(s, ss, q, o, i) =>
    /\ Fresh(s.regs[i], ss[i]) /\ Unheard(box, i) /\ Unasked(pp, i) /\ DeliverAfter(q, i)
    /\ Loops(q, "activate", i) => ss[i].on /\ ~s.regs[i].staged
NewOK == \A i \in Regs(server) : NewAt(server, sessions, loop, op, inbox, puts, i)

\* Messages and requests are about registrations that are there.
MessageFits(m, s, c) ==
  /\ m.type # "begin_close" => m.reg \in Regs(s) /\ s.regs[m.reg].ctx = c
  /\ m.type = "observed" => m.request \in Requests /\ m.value \in Values
InboxAt(msgs, s, c, stage) ==
  /\ \A k \in DOMAIN msgs : MessageFits(msgs[k], s, c)
  /\ \A k \in DOMAIN msgs : msgs[k].type = "begin_close" => stage = "refusing"
  /\ \A j, k \in DOMAIN msgs : msgs[j].type = "begin_close" /\ msgs[k].type = "begin_close" => j = k
InboxOK(box, s, o) == \A c \in Contexts : InboxAt(box[c], s, c, o[c])
PutRefs(put, s) == put.at \in {"waiting", "reading", "accepted", "sent"} => put.reg \in Regs(s)

\* The ws of an accepted PUT is its own: no session knows it, no delivery asks for it, and only the
\* message of this PUT has it.
PutFits(p, s, pp) ==
  LET i == pp[p].reg  ws == pp[p].ws IN
  PutAt(pp[p], i) =>
    /\ 0 < ws /\ ws <= s.regs[i].ws
    /\ \A q \in Requests : PutAt(pp[q], i) /\ pp[q].ws = ws => p = q
WsFree(ws, i, pp) == \A p \in Requests : PutAt(pp[p], i) => pp[p].ws # ws
KnownFits(session, i, s, pp) == session.known <= s.regs[i].ws /\ WsFree(session.known, i, pp)
DeliveryFits(t, s, pp) == t.do = "deliver" => t.ws <= s.regs[t.reg].ws /\ WsFree(t.ws, t.reg, pp)
MarkFits(m, s, pp) ==
  m.type \in {"observed", "written"} =>
    /\ m.ws <= s.regs[m.reg].ws
    /\ \A p \in Requests : PutAt(pp[p], m.reg) /\ pp[p].ws = m.ws => m.type = "observed" /\ m.request = p
WritesOK(s, ss, q, box, pp) ==
  /\ \A p \in Requests : PutFits(p, s, pp)
  /\ \A i \in Regs(s) : KnownFits(ss[i], i, s, pp)
  /\ \A k \in DOMAIN q : DeliveryFits(q[k], s, pp)
  /\ \A c \in Contexts : \A k \in DOMAIN box[c] : MarkFits(box[c][k], s, pp)

\* The inductive invariants: the first one, and what the PUTs have besides.
ShownOK(s, sh) ==
  /\ RegistryOK(s) /\ MarkersOK(s, sh)
  /\ sh \in SUBSET [route: Routes, marker: Nat, value: Values]
TasksRefer(q, s) == \A k \in DOMAIN q : TaskRefs(q[k], s)
PutsRefer(pp, s) == \A p \in Requests : PutRefs(pp[p], s)
RefsOK == TasksRefer(loop, server) /\ InboxOK(inbox, server, op) /\ PutsRefer(puts, server)
SharesInv ==
  /\ TypeOK /\ ShownOK(server, shown) /\ OwnerOK(server, op) /\ RefsOK
  /\ TasksOK(loop, op) /\ SessionsOK(server, sessions, loop, op) /\ NewOK
WritesInv == SharesInv /\ WritesOK(server, sessions, loop, inbox, puts)

-----------------------------------------------------------------------------
(* Lemmas about the registry. *)

LEMMA Typed ==
  ASSUME NEW s \in Server, NEW i \in Regs(s)
  PROVE  /\ s.regs[i] \in Registration /\ s.regs \in Seq(Registration)
         /\ i \in Nat /\ i \in 1..Len(s.regs)
BY DEF Server, Regs

LEMMA EvolvesRegistry ==
  ASSUME NEW s, RegistryOK(s), NEW t, Evolves(s, t)
  PROVE  RegistryOK(t)
<1>1. s \in Server /\ t \in Server /\ Regs(t) = Regs(s)
  BY DEF RegistryOK, Evolves, Regs
<1>2. Len(t.regs) = Len(s.regs)
  BY <1>1 DEF Server, Regs
<1>3. \A i \in Regs(s) : Evolved(s.regs[i], t.regs[i], Regs(s)) /\ s.regs[i] \in Registration
  BY <1>1, Typed DEF Evolves
<1>4. \A i \in Regs(s) : Public(t, i) => Public(s, i)
  BY <1>3 DEF Public, Evolved
<1>5. Staged(t) \subseteq Staged(s)
  BY <1>1, <1>3 DEF Staged, Evolved
<1>6. StagedApart(t)
  BY <1>3, <1>5 DEF StagedApart, RegistryOK, Evolved, Staged
<1>7. FlagsOK(t) /\ StagedOK(t)
  BY <1>1, <1>3 DEF FlagsOK, StagedOK, Evolved
<1>8. RecordsOK(t)
  BY <1>1, <1>3 DEF RecordsOK, RegistryOK, Evolves, Evolved, Public
<1>9. PublicOK(t)
  BY <1>1, <1>3, <1>4 DEF PublicOK, RegistryOK, Evolves, Evolved, Public, Registration
<1> QED BY <1>1, <1>2, <1>6, <1>7, <1>8, <1>9 DEF RegistryOK

\* What is served is named by the marker of its record.
LEMMA ServedNamed ==
  ASSUME NEW s, RegistryOK(s), NEW x \in Served(s)
  PROVE  /\ x \in [route: Routes, marker: Nat, value: Values]
         /\ s.records[x.route] # 0 /\ s.records[x.route] \in Regs(s)
         /\ x.marker = Top(s, x.route) /\ Names(s, x)
         /\ x.value = s.regs[s.records[x.route]].checksum
<1>1. PICK i \in {j \in Recorded(s) : Serving(s, j) /\ s.regs[j].checksum # NoValue} :
        x = [route |-> s.regs[i].route, marker |-> s.regs[i].marker, value |-> s.regs[i].checksum]
  BY DEF Served
<1>2. i \in Regs(s) /\ s.regs[i] \in Registration /\ s.records[x.route] = i /\ i # 0
  BY <1>1, Typed DEF RegistryOK, Recorded
<1>3. x \in [route: Routes, marker: Nat, value: Values]
  BY <1>1, <1>2 DEF Registration
<1> QED BY <1>1, <1>2, <1>3 DEF Top, Names

LEMMA TopNat ==
  ASSUME NEW s, RegistryOK(s), NEW r \in Routes
  PROVE  Top(s, r) \in Nat /\ s.floor[r] \in Nat
BY Typed DEF RegistryOK, RecordsOK, Top, Server, Registration

\* The marker of a route stays.
LEMMA EvolvesTop ==
  ASSUME NEW s, RegistryOK(s), NEW t, Evolves(s, t), MarksKept(s, t), NEW r \in Routes
  PROVE  Top(t, r) = Top(s, r) /\ t.floor[r] <= Top(t, r)
<1>0. /\ Top(s, r) \in Nat /\ s.floor[r] \in Nat /\ Top(t, r) \in Nat /\ t.floor[r] \in Nat
      /\ s.floor[r] <= t.floor[r] /\ t.floor[r] <= Top(s, r)
      /\ s.records[r] # 0 /\ t.records[r] = 0 => t.floor[r] = Top(s, r)
  <2>1. /\ s.floor[r] <= t.floor[r] /\ t.floor[r] <= Top(s, r)
        /\ s.records[r] # 0 /\ t.records[r] = 0 => t.floor[r] = Top(s, r)
    BY DEF MarksKept
  <2>2. Top(s, r) \in Nat /\ s.floor[r] \in Nat
    BY TopNat
  <2>3. Top(t, r) \in Nat /\ t.floor[r] \in Nat
    BY EvolvesRegistry, TopNat
  <2> QED BY <2>1, <2>2, <2>3
<1>1. CASE s.records[r] = 0
  <2>1. t.records[r] = 0
    BY <1>1 DEF Evolves
  <2>2. Top(s, r) = s.floor[r] /\ Top(t, r) = t.floor[r]
    BY <1>1, <2>1 DEF Top
  <2> QED BY <1>0, <2>2
<1>2. CASE s.records[r] # 0 /\ t.records[r] = 0
  <2>1. Top(t, r) = t.floor[r]
    BY <1>2 DEF Top
  <2> QED BY <1>0, <1>2, <2>1
<1>3. CASE t.records[r] # 0
  <2>1. t.records[r] = s.records[r] /\ s.records[r] \in Regs(s)
    BY <1>3 DEF Evolves, RegistryOK, RecordsOK
  <2>2. Top(t, r) = Top(s, r)
    BY <1>3, <2>1 DEF Top, MarksKept
  <2> QED BY <1>0, <2>2
<1> QED BY <1>1, <1>2, <1>3

LEMMA MarksStep ==
  ASSUME NEW s, RegistryOK(s), NEW sh \in SUBSET [route: Routes, marker: Nat, value: Values],
         MarkersOK(s, sh), NEW t, Evolves(s, t), MarksKept(s, t)
  PROVE  MarkersOK(t, sh \cup Served(t))
<1>1. RegistryOK(t) /\ Regs(t) = Regs(s)
  BY EvolvesRegistry DEF Evolves, Regs
<1>2. \A r \in Routes : Top(t, r) = Top(s, r) /\ t.floor[r] <= Top(t, r)
  BY EvolvesTop
<1>3. ASSUME NEW x \in sh
      PROVE  x.marker <= Top(t, x.route) /\ Names(t, x)
  <2>1. x.route \in Routes /\ x.marker <= Top(s, x.route) /\ Names(s, x)
    BY DEF MarkersOK
  <2>2. CASE t.records[x.route] = 0
    BY <1>2, <2>1, <2>2 DEF Names
  <2>3. CASE t.records[x.route] # 0
    <3>1. t.records[x.route] = s.records[x.route] /\ s.records[x.route] \in Regs(s)
      BY <2>1, <2>3 DEF Evolves, RegistryOK, RecordsOK
    <3> QED BY <1>2, <2>1, <3>1 DEF Names, MarksKept
  <2> QED BY <2>2, <2>3
<1>4. ASSUME NEW x \in Served(t)
      PROVE  x.route \in Routes /\ x.marker <= Top(t, x.route) /\ x.marker = Top(t, x.route) /\ Names(t, x)
  BY <1>1, ServedNamed, TopNat
<1>5. ASSUME NEW x \in Served(t), NEW y \in sh \cup Served(t), x.route = y.route, x.marker = y.marker
      PROVE  x.value = y.value
  <2>1. /\ t.records[x.route] # 0 /\ t.records[x.route] \in Regs(t) /\ x.marker = Top(t, x.route)
        /\ x.value = t.regs[t.records[x.route]].checksum /\ x.value \in Values
    BY <1>1, ServedNamed
  <2>2. Names(t, y)
    BY <1>3, <1>4
  <2>3. CASE y \in Served(t)
    BY <1>1, <1>5, <2>1, <2>3, ServedNamed
  <2>4. CASE y \in sh
    <3>1. t.regs[t.records[x.route]].checksum # NoValue
      <4>1. PICK i \in {j \in Recorded(t) : Serving(t, j) /\ t.regs[j].checksum # NoValue} :
              x = [route |-> t.regs[i].route, marker |-> t.regs[i].marker, value |-> t.regs[i].checksum]
        BY DEF Served
      <4> QED BY <2>1, <4>1
    <3> QED BY <1>5, <2>1, <2>2, <3>1 DEF Names, Top
  <2> QED BY <2>3, <2>4
<1>6. \A x, y \in sh \cup Served(t) : x.route = y.route /\ x.marker = y.marker => x.value = y.value
  BY <1>5 DEF MarkersOK
<1>7. \A i \in Staged(t) : t.regs[i].marker <= Top(t, t.regs[i].route)
  <2> SUFFICES ASSUME NEW i \in Staged(t) PROVE t.regs[i].marker <= Top(t, t.regs[i].route)
    OBVIOUS
  <2>1. i \in Regs(s) /\ Evolved(s.regs[i], t.regs[i], Regs(s)) /\ s.regs[i] \in Registration
    BY <1>1, Typed DEF Staged, Evolves, RegistryOK
  <2>2. i \in Staged(s) /\ s.regs[i].route = t.regs[i].route /\ s.regs[i].route \in Routes
    BY <2>1 DEF Staged, Evolved, Registration
  <2> QED BY <1>2, <2>1, <2>2 DEF MarkersOK, MarksKept
<1> QED BY <1>2, <1>3, <1>4, <1>6, <1>7 DEF MarkersOK

-----------------------------------------------------------------------------
(* Maxima and minima. *)

LEMMA LeastOf ==
  ASSUME NEW S \in SUBSET Nat, S # {}
  PROVE  \E x \in S : \A y \in S : x <= y
<1> DEFINE R == OpToRel(<, Nat)
<1>1. IsWellFoundedOn(R, Nat)
  BY NatLessThanWellFounded
<1>2. \A x, y \in Nat : y < x => <<y, x>> \in R
  BY DEF OpToRel
<1> HIDE DEF R
<1>3. PICK x \in S : \A y \in S : ~ (<<y, x>> \in R)
  BY <1>1, WFMin
<1>4. ASSUME NEW y \in S PROVE x <= y
  <2>1. x \in Nat /\ y \in Nat
    OBVIOUS
  <2>2. ~ (y < x)
    BY <1>2, <1>3, <2>1
  <2> QED BY <2>1, <2>2
<1> QED BY <1>4

LEMMA MinOf ==
  ASSUME NEW S \in SUBSET Nat, S # {}
  PROVE  Min(S) \in S /\ \A y \in S : Min(S) <= y
BY LeastOf DEF Min

LEMMA MaxOf ==
  ASSUME NEW S \in SUBSET Nat, S # {}, IsFiniteSet(S)
  PROVE  Max(S) \in S /\ \A y \in S : y <= Max(S)
<1> DEFINE above(x) == {y \in S : x < y}
           T == {Cardinality(above(x)) : x \in S}
<1>1. \A x \in S : IsFiniteSet(above(x)) /\ Cardinality(above(x)) \in Nat
  BY FS_Subset, FS_CardinalityType
<1>2. T \in SUBSET Nat /\ T # {}
  BY <1>1
<1>3. PICK n \in T : \A m \in T : n <= m
  <2> HIDE DEF T
  <2> QED BY <1>2, LeastOf
<1>4. PICK x \in S : \A z \in S : Cardinality(above(x)) <= Cardinality(above(z))
  BY <1>3
<1>5. ASSUME NEW y \in S, x < y PROVE FALSE
  <2>0. x \in Nat /\ y \in Nat
    OBVIOUS
  <2>1. y \in above(x)
    BY <1>5
  <2>2. above(y) \subseteq above(x) \ {y}
    <3> SUFFICES ASSUME NEW z \in above(y) PROVE z \in S /\ x < z /\ z # y
      OBVIOUS
    <3>1. z \in S /\ y < z /\ z \in Nat
      OBVIOUS
    <3> QED BY <1>5, <2>0, <3>1
  <2>3. IsFiniteSet(above(x)) /\ Cardinality(above(x)) \in Nat /\ Cardinality(above(y)) \in Nat
    BY <1>1
  <2>4. Cardinality(above(x)) <= Cardinality(above(y))
    BY <1>4
  <2> HIDE DEF above
  <2>5. /\ IsFiniteSet(above(x) \ {y})
        /\ Cardinality(above(x) \ {y}) = Cardinality(above(x)) - 1
    BY <2>1, <2>3, FS_RemoveElement
  <2>6. Cardinality(above(y)) <= Cardinality(above(x) \ {y})
    BY <2>2, <2>5, FS_Subset
  <2> QED BY <2>3, <2>4, <2>5, <2>6
<1>6. \A y \in S : y <= x
  <2> SUFFICES ASSUME NEW y \in S PROVE y <= x
    OBVIOUS
  <2>1. x \in Nat /\ y \in Nat /\ ~(x < y)
    BY <1>5
  <2> QED BY <2>1
<1>7. \A y \in S : x >= y
  <2> SUFFICES ASSUME NEW y \in S PROVE x >= y
    OBVIOUS
  <2>1. x \in Nat /\ y \in Nat /\ y <= x
    BY <1>6
  <2> QED BY <2>1
<1>8. Max(S) \in S /\ \A y \in S : Max(S) >= y
  BY <1>7 DEF Max
<1>9. ASSUME NEW y \in S PROVE y <= Max(S)
  <2>1. y \in Nat /\ Max(S) \in Nat /\ Max(S) >= y
    BY <1>8
  <2> QED BY <2>1
<1> QED BY <1>8, <1>9

-----------------------------------------------------------------------------
(* Steps that are calm: they use no registration anew, and change no value. *)

CalmReg(reg, new, ids) ==
  /\ new \in Registration /\ new.from \in {0} \cup ids /\ new.to \in {0} \cup ids
  /\ new.ctx = reg.ctx /\ new.route = reg.route /\ new.staged = reg.staged
  /\ new.checksum = reg.checksum /\ new.marker = reg.marker /\ new.ws = reg.ws
  /\ reg.closed => new.closed
  /\ new.closed => reg.closed \/ ~new.active
  /\ new.active => reg.active
  /\ new.reattaching => reg.reattaching
  /\ new.held => reg.held
  /\ (reg.held => reg.reattaching) => (new.held => new.reattaching)
OwnerKept(s, t) ==
  \/ t.ns.owner = s.ns.owner /\ t.ns.active = s.ns.active
  \/ t.ns.owner = NoOwner /\ \A i \in Regs(t) : ~Public(t, i)
RecordsKept(s, t) ==
  \A r \in Routes : t.records[r] =
    IF s.records[r] # 0 /\ t.regs[s.records[r]].closed THEN 0 ELSE s.records[r]
Calm(s, t) ==
  /\ t \in Server /\ DOMAIN t.regs = DOMAIN s.regs
  /\ \A i \in Regs(s) : CalmReg(s.regs[i], t.regs[i], Regs(s))
  /\ RecordsKept(s, t) /\ OwnerKept(s, t) /\ MarksKept(s, t)

LEMMA CalmEvolves ==
  ASSUME NEW s, RegistryOK(s), NEW t, Calm(s, t)
  PROVE  Evolves(s, t) /\ MarksKept(s, t)
<1>1. ASSUME NEW i \in Regs(s) PROVE Evolved(s.regs[i], t.regs[i], Regs(s))
  <2>1. FlagsFit(s.regs[i], Regs(s)) /\ s.regs[i] \in Registration
    BY Typed DEF RegistryOK, FlagsOK
  <2>2. s.regs[i].staged => Unused(s.regs[i])
    BY DEF RegistryOK, StagedOK
  <2>3. CalmReg(s.regs[i], t.regs[i], Regs(s))
    BY DEF Calm
  <2>4. FlagsFit(t.regs[i], Regs(s))
    BY <2>1, <2>3 DEF FlagsFit, CalmReg
  <2>5. s.regs[i].staged => Unused(t.regs[i])
    BY <2>2, <2>3 DEF Unused, CalmReg
  <2> QED BY <2>3, <2>4, <2>5 DEF Evolved, CalmReg
<1> QED BY <1>1 DEF Calm, Evolves, RecordsKept

LEMMA CalmTrans ==
  ASSUME NEW s, RegistryOK(s), NEW t, Calm(s, t), NEW u, Calm(t, u)
  PROVE  Calm(s, u)
<1>0. RegistryOK(t) /\ Evolves(s, t) /\ MarksKept(s, t) /\ Regs(t) = Regs(s)
  BY CalmEvolves, EvolvesRegistry DEF Calm, Regs
<1>1. \A i \in Regs(s) : CalmReg(s.regs[i], t.regs[i], Regs(s)) /\ CalmReg(t.regs[i], u.regs[i], Regs(s))
  BY <1>0 DEF Calm
<1>2. \A i \in Regs(s) : CalmReg(s.regs[i], u.regs[i], Regs(s))
  BY <1>1 DEF CalmReg
<1>3. RecordsKept(s, u)
  <2> SUFFICES ASSUME NEW r \in Routes
               PROVE  u.records[r] = IF s.records[r] # 0 /\ u.regs[s.records[r]].closed THEN 0 ELSE s.records[r]
    BY DEF RecordsKept
  <2>1. /\ t.records[r] = IF s.records[r] # 0 /\ t.regs[s.records[r]].closed THEN 0 ELSE s.records[r]
        /\ u.records[r] = IF t.records[r] # 0 /\ u.regs[t.records[r]].closed THEN 0 ELSE t.records[r]
    BY DEF Calm, RecordsKept
  <2>2. s.records[r] # 0 => s.records[r] \in Regs(s)
    BY DEF RegistryOK, RecordsOK
  <2>3. s.records[r] # 0 /\ t.regs[s.records[r]].closed => u.regs[s.records[r]].closed
    BY <1>1, <2>2 DEF CalmReg
  <2> QED BY <2>1, <2>3
<1>4. OwnerKept(s, u)
  <2>1. Regs(u) = Regs(s)
    BY <1>0 DEF Calm, Regs
  <2>2. \A i \in Regs(s) : Public(u, i) => Public(t, i)
    BY <1>1 DEF CalmReg, Public
  <2> QED BY <1>0, <2>1, <2>2 DEF Calm, OwnerKept
<1>5. MarksKept(s, u)
  <2>1. \A i \in Regs(s) : u.regs[i].marker = s.regs[i].marker /\ u.regs[i].checksum = s.regs[i].checksum
    BY <1>1 DEF CalmReg
  <2>2. ASSUME NEW r \in Routes
        PROVE  /\ s.floor[r] <= u.floor[r] /\ u.floor[r] <= Top(s, r)
               /\ s.records[r] # 0 /\ u.records[r] = 0 => u.floor[r] = Top(s, r)
    <3>1. /\ s.floor[r] <= t.floor[r] /\ t.floor[r] <= Top(s, r)
          /\ s.records[r] # 0 /\ t.records[r] = 0 => t.floor[r] = Top(s, r)
          /\ t.floor[r] <= u.floor[r] /\ u.floor[r] <= Top(t, r)
          /\ t.records[r] # 0 /\ u.records[r] = 0 => u.floor[r] = Top(t, r)
      BY DEF Calm, MarksKept
    <3>2. Top(t, r) = Top(s, r)
      BY <1>0, EvolvesTop
    <3>3. s.floor[r] \in Nat /\ t.floor[r] \in Nat /\ u.floor[r] \in Nat /\ Top(s, r) \in Nat
      <4>1. s \in Server /\ t \in Server /\ u \in Server
        BY DEF Calm, RegistryOK
      <4> QED BY <4>1, TopNat DEF Server
    <3>4. s.floor[r] <= u.floor[r] /\ u.floor[r] <= Top(s, r)
      BY <3>1, <3>2, <3>3
    <3>5. ASSUME s.records[r] # 0, u.records[r] = 0 PROVE u.floor[r] = Top(s, r)
      <4>1. CASE t.records[r] = 0
        <5>1. t.floor[r] = Top(s, r)
          BY <3>1, <3>5, <4>1
        <5>2. t.floor[r] <= u.floor[r] /\ u.floor[r] <= Top(s, r)
          BY <3>1, <3>4
        <5> QED BY <3>3, <5>1, <5>2
      <4>2. CASE t.records[r] # 0
        BY <3>1, <3>2, <3>5, <4>2
      <4> QED BY <4>1, <4>2
    <3> QED BY <3>4, <3>5
  <2> QED BY <2>1, <2>2 DEF MarksKept
<1> QED BY <1>0, <1>2, <1>3, <1>4, <1>5 DEF Calm, Regs

LEMMA CalmSame ==
  ASSUME NEW s, RegistryOK(s), NEW sh, MarkersOK(s, sh)
  PROVE  Calm(s, s)
<1>1. ASSUME NEW i \in Regs(s) PROVE CalmReg(s.regs[i], s.regs[i], Regs(s))
  BY Typed DEF CalmReg, RegistryOK, FlagsOK, FlagsFit
<1>2. RecordsKept(s, s)
  BY DEF RecordsKept, RegistryOK, RecordsOK, Public
<1>3. MarksKept(s, s)
  <2>1. \A r \in Routes : s.floor[r] \in Nat /\ s.floor[r] <= s.floor[r] /\ s.floor[r] <= Top(s, r)
    BY TopNat DEF MarkersOK
  <2> QED BY <2>1 DEF MarksKept
<1> QED BY <1>1, <1>2, <1>3 DEF Calm, OwnerKept, RegistryOK

\* Changes of registrations leave a sequence of them.
LEMMA MappedSeq ==
  ASSUME NEW S, NEW q \in Seq(S), NEW f \in [DOMAIN q -> S]
  PROVE  f \in Seq(S) /\ DOMAIN f = DOMAIN q /\ Len(f) = Len(q)
OBVIOUS

LEMMA MapCalm ==
  ASSUME NEW s, RegistryOK(s), NEW sh, MarkersOK(s, sh), NEW t, t \in Server,
         t.records = s.records, t.floor = s.floor, DOMAIN t.regs = DOMAIN s.regs,
         \A i \in Regs(s) : CalmReg(s.regs[i], t.regs[i], Regs(s)) /\ t.regs[i].closed = s.regs[i].closed,
         OwnerKept(s, t)
  PROVE  Calm(s, t)
<1>1. Calm(s, s)
  BY CalmSame
<1>2. RecordsKept(s, t)
  BY <1>1 DEF Calm, RecordsKept, RegistryOK, RecordsOK
<1>3. MarksKept(s, t)
  BY <1>1 DEF Calm, MarksKept, CalmReg
<1> QED BY <1>2, <1>3 DEF Calm

LEMMA ResolveCalm ==
  ASSUME NEW s, RegistryOK(s), NEW sh, MarkersOK(s, sh), NEW I, NEW to \in {0} \cup Regs(s)
  PROVE  Calm(s, Resolve(s, I, to)) /\ Resolve(s, I, to).ns = s.ns
<1> DEFINE done(reg) == IF reg.future # "pending" THEN reg ELSE [reg EXCEPT !.future = "done", !.to = to]
           f == [i \in DOMAIN s.regs |-> IF i \in I THEN done(s.regs[i]) ELSE s.regs[i]]
           t == Resolve(s, I, to)
<1>0. s \in Server /\ Regs(s) = DOMAIN s.regs /\ s.regs \in Seq(Registration) /\ Regs(s) \subseteq Ids
  BY SharesAssumption DEF RegistryOK, Server, Regs, Ids
<1>1. \A i \in Regs(s) : CalmReg(s.regs[i], s.regs[i], Regs(s)) /\ s.regs[i] \in Registration
  BY CalmSame, Typed, <1>0 DEF Calm
<1>2. ASSUME NEW i \in Regs(s)
      PROVE  /\ CalmReg(s.regs[i], f[i], Regs(s)) /\ f[i].closed = s.regs[i].closed
             /\ f[i] \in Registration
  <2>1. s.regs[i] \in Registration /\ to \in {0} \cup Ids
    BY <1>0, <1>1
  <2>2. done(s.regs[i]) \in Registration
    BY <2>1 DEF Registration
  <2>3. CalmReg(s.regs[i], done(s.regs[i]), Regs(s)) /\ done(s.regs[i]).closed = s.regs[i].closed
    BY <1>1, <2>1, <2>2 DEF CalmReg, Registration
  <2> QED BY <1>0, <1>1, <2>2, <2>3
<1>3. f \in [DOMAIN s.regs -> Registration]
  BY <1>0, <1>2
<1>4. t = [s EXCEPT !.regs = f]
  BY DEF Resolve, Changed
<1> HIDE DEF f, t
<1>5. f \in Seq(Registration) /\ DOMAIN f = DOMAIN s.regs
  BY <1>0, <1>3, MappedSeq
<1>6. t \in Server /\ t.regs = f /\ t.ns = s.ns /\ t.records = s.records /\ t.floor = s.floor
  BY <1>0, <1>4, <1>5 DEF Server
<1>7. Calm(s, t)
  BY <1>2, <1>5, <1>6, MapCalm DEF OwnerKept
<1> QED BY <1>6, <1>7 DEF t

\* Withdrawal, of registrations of any server.
Withdrawn(s, I, t) ==
  /\ t \in Server /\ t.ns = s.ns /\ DOMAIN t.regs = DOMAIN s.regs
  /\ \A i \in Regs(s) : t.regs[i] = IF i \in I /\ ~s.regs[i].closed
                                    THEN [s.regs[i] EXCEPT !.closed = TRUE, !.active = FALSE] ELSE s.regs[i]
  /\ \A r \in Routes : t.records[r] =
       IF s.records[r] \in I /\ ~s.regs[s.records[r]].closed THEN 0 ELSE s.records[r]
  /\ \A r \in Routes : s.floor[r] <= t.floor[r]
  /\ \A i \in I : ~s.regs[i].closed => s.regs[i].marker <= t.floor[s.regs[i].route]
  /\ \A r \in Routes : t.floor[r] = s.floor[r]
       \/ \E i \in I : ~s.regs[i].closed /\ s.regs[i].route = r /\ t.floor[r] = s.regs[i].marker

LEMMA WithdrawAllEffect ==
  ASSUME NEW s \in Server, NEW I \in SUBSET Regs(s)
  PROVE  Withdrawn(s, I, WithdrawAll(s, I))
<1> DEFINE open == {i \in I : ~s.regs[i].closed}
           of(r) == {j \in open : s.regs[j].route = r}
           left(r) == {s.regs[i].marker : i \in of(r)}
           gone(reg) == [reg EXCEPT !.closed = TRUE, !.active = FALSE]
           f == [i \in DOMAIN s.regs |-> IF i \in open THEN gone(s.regs[i]) ELSE s.regs[i]]
           g == [r \in Routes |-> IF s.records[r] \in open THEN 0 ELSE s.records[r]]
           h == [r \in Routes |-> Max({s.floor[r]} \cup left(r))]
           t == WithdrawAll(s, I)
<1>0. /\ s.regs \in Seq(Registration) /\ Regs(s) = DOMAIN s.regs /\ DOMAIN s.regs = 1..Len(s.regs)
      /\ s.floor \in [Routes -> Nat] /\ s.records \in [Routes -> {0} \cup Ids] /\ Len(s.regs) \in Nat
      /\ \A i \in Regs(s) : s.regs[i] \in Registration
  BY Typed DEF Server, Regs
<1>1. t = [s EXCEPT !.regs = f, !.records = g, !.floor = h]
  BY DEF WithdrawAll, Changed
<1>2. f \in [DOMAIN s.regs -> Registration]
  <2>1. \A reg \in Registration : gone(reg) \in Registration
    BY DEF Registration
  <2> QED BY <1>0, <2>1
<1>3. f \in Seq(Registration) /\ DOMAIN f = DOMAIN s.regs
  <2> HIDE DEF f
  <2> QED BY <1>0, <1>2, MappedSeq
<1>4. g \in [Routes -> {0} \cup Ids]
  BY <1>0
<1>5. ASSUME NEW r \in Routes
      PROVE  Max({s.floor[r]} \cup left(r)) \in {s.floor[r]} \cup left(r)
             /\ \A y \in {s.floor[r]} \cup left(r) : y <= Max({s.floor[r]} \cup left(r))
  <2>1. left(r) \in SUBSET Nat
    BY <1>0 DEF Registration
  <2>2. IsFiniteSet(left(r))
    <3>1. IsFiniteSet(of(r))
      <4>1. IsFiniteSet(1..Len(s.regs))
        <5>1. 1 \in Int /\ Len(s.regs) \in Int
          BY <1>0
        <5> QED BY <5>1, FS_Interval
      <4>2. of(r) \in SUBSET (1..Len(s.regs))
        BY <1>0
      <4> HIDE DEF of
      <4> QED BY <4>1, <4>2, FS_Subset
    <3> DEFINE m == [i \in of(r) |-> s.regs[i].marker]
    <3>2. m \in Surjection(of(r), left(r))
      BY DEF Surjection
    <3> HIDE DEF m, of, left
    <3> QED BY <3>1, <3>2, FS_Surjection
  <2>3. s.floor[r] \in Nat
    BY <1>0
  <2> DEFINE S == {s.floor[r]} \cup left(r)
  <2> HIDE DEF left
  <2>4. S \in SUBSET Nat /\ S # {}
    BY <2>1, <2>3
  <2>5. IsFiniteSet(S)
    BY <2>2, FS_Union, FS_Singleton
  <2> HIDE DEF S
  <2>6. Max(S) \in S /\ \A y \in S : y <= Max(S)
    BY <2>4, <2>5, MaxOf
  <2> QED BY <2>6 DEF S
<1>6. h \in [Routes -> Nat]
  <2>1. \A r \in Routes : left(r) \subseteq Nat /\ s.floor[r] \in Nat
    BY <1>0 DEF Registration
  <2>2. \A r \in Routes : Max({s.floor[r]} \cup left(r)) \in Nat
    <3> HIDE DEF left
    <3> QED BY <1>5, <2>1
  <2> HIDE DEF left
  <2> QED BY <2>2
<1>7. /\ t \in Server /\ t.ns = s.ns /\ t.regs = f /\ t.records = g /\ t.floor = h
  <2> HIDE DEF f, g, h, t
  <2> QED BY <1>1, <1>3, <1>4, <1>6 DEF Server
<1>8. \A r \in Routes : s.floor[r] <= h[r] /\ (h[r] = s.floor[r] \/ h[r] \in left(r))
  BY <1>5
<1>9. \A i \in open : s.regs[i].marker <= h[s.regs[i].route] /\ s.regs[i].route \in Routes
  <2> SUFFICES ASSUME NEW i \in open
               PROVE  s.regs[i].marker <= h[s.regs[i].route] /\ s.regs[i].route \in Routes
    OBVIOUS
  <2>1. s.regs[i].route \in Routes /\ s.regs[i].marker \in left(s.regs[i].route)
    BY <1>0 DEF Registration
  <2> HIDE DEF left
  <2> QED BY <1>5, <2>1
<1>10. \A i \in Regs(s) : t.regs[i] = IF i \in I /\ ~s.regs[i].closed
                                    THEN [s.regs[i] EXCEPT !.closed = TRUE, !.active = FALSE] ELSE s.regs[i]
  <2>1. t.regs = f
    BY <1>7
  <2> HIDE DEF t
  <2> QED BY <1>0, <2>1
<1>11. \A r \in Routes : t.records[r] =
       IF s.records[r] \in I /\ ~s.regs[s.records[r]].closed THEN 0 ELSE s.records[r]
  <2>1. t.records = g
    BY <1>7
  <2> HIDE DEF t
  <2> QED BY <2>1
<1>12. \A r \in Routes : t.floor[r] = s.floor[r]
       \/ \E i \in I : ~s.regs[i].closed /\ s.regs[i].route = r /\ t.floor[r] = s.regs[i].marker
  <2> SUFFICES ASSUME NEW r \in Routes
               PROVE  t.floor[r] = s.floor[r]
                 \/ \E i \in I : ~s.regs[i].closed /\ s.regs[i].route = r /\ t.floor[r] = s.regs[i].marker
    OBVIOUS
  <2> HIDE DEF h, t
  <2>1. t.floor[r] = s.floor[r] \/ t.floor[r] \in left(r)
    BY <1>7, <1>8
  <2> QED BY <2>1
<1>13. DOMAIN t.regs = DOMAIN s.regs
  <2> HIDE DEF f, t
  <2> QED BY <1>3, <1>7
<1>14. /\ \A r \in Routes : s.floor[r] <= t.floor[r]
       /\ \A i \in I : ~s.regs[i].closed => s.regs[i].marker <= t.floor[s.regs[i].route]
  <2> HIDE DEF h, t
  <2> QED BY <1>7, <1>8, <1>9
<1> HIDE DEF t
<1> QED BY <1>7, <1>10, <1>11, <1>12, <1>13, <1>14 DEF Withdrawn, t

LEMMA CalmStep ==
  ASSUME NEW s, NEW sh, ShownOK(s, sh), NEW t, Calm(s, t)
  PROVE  ShownOK(t, sh \cup Served(t))
<1>1. RegistryOK(t) /\ MarkersOK(t, sh \cup Served(t))
  BY CalmEvolves, EvolvesRegistry, MarksStep DEF ShownOK
<1>2. \A x \in Served(t) : x \in [route: Routes, marker: Nat, value: Values]
  BY <1>1, ServedNamed
<1> QED BY <1>1, <1>2 DEF ShownOK

LEMMA CalmNamespace ==
  ASSUME NEW s, NEW t, Calm(s, t), NEW u, u \in Server, OwnerKept(s, u),
         u.regs = t.regs, u.records = t.records, u.floor = t.floor
  PROVE  Calm(s, u)
BY DEF Calm, RecordsKept, MarksKept

LEMMA WithdrawAllCalm ==
  ASSUME NEW s, NEW sh, ShownOK(s, sh), NEW I \in SUBSET Regs(s)
  PROVE  Calm(s, WithdrawAll(s, I)) /\ WithdrawAll(s, I).ns = s.ns
<1> DEFINE t == WithdrawAll(s, I)
<1>0. s \in Server /\ RegistryOK(s) /\ MarkersOK(s, sh)
  BY DEF ShownOK, RegistryOK
<1>1. Withdrawn(s, I, t)
  BY <1>0, WithdrawAllEffect
<1> HIDE DEF t
<1>2. ASSUME NEW i \in Regs(s) PROVE CalmReg(s.regs[i], t.regs[i], Regs(s))
  <2>1. CalmReg(s.regs[i], s.regs[i], Regs(s)) /\ s.regs[i] \in Registration
    BY <1>0, CalmSame, Typed DEF Calm
  <2>2. CalmReg(s.regs[i], [s.regs[i] EXCEPT !.closed = TRUE, !.active = FALSE], Regs(s))
    BY <2>1 DEF CalmReg, Registration
  <2> QED BY <1>1, <2>1, <2>2 DEF Withdrawn
<1>3. \A r \in Routes : s.records[r] # 0 =>
        /\ s.records[r] \in Regs(s) /\ s.regs[s.records[r]].route = r /\ ~s.regs[s.records[r]].closed
  BY <1>0 DEF RegistryOK, RecordsOK, Public
<1>4. \A r \in Routes : s.records[r] \in I => s.records[r] # 0
  BY <1>0 DEF Server, Regs
<1>5. \A i \in Regs(s) : ~s.regs[i].closed /\ i \in I => t.regs[i].closed
  <2> SUFFICES ASSUME NEW i \in Regs(s), ~s.regs[i].closed, i \in I PROVE t.regs[i].closed
    OBVIOUS
  <2>1. t.regs[i] = [s.regs[i] EXCEPT !.closed = TRUE, !.active = FALSE] /\ s.regs[i] \in Registration
    BY <1>0, <1>1, Typed DEF Withdrawn
  <2> QED BY <2>1 DEF Registration
<1>6. RecordsKept(s, t)
  <2> SUFFICES ASSUME NEW r \in Routes
               PROVE  t.records[r] = IF s.records[r] # 0 /\ t.regs[s.records[r]].closed THEN 0 ELSE s.records[r]
    BY DEF RecordsKept
  <2>1. t.records[r] = IF s.records[r] \in I /\ ~s.regs[s.records[r]].closed THEN 0 ELSE s.records[r]
    BY <1>1 DEF Withdrawn
  <2>2. CASE s.records[r] = 0
    BY <1>4, <2>1, <2>2
  <2>3. CASE s.records[r] # 0 /\ s.records[r] \in I
    BY <1>3, <1>5, <2>1, <2>3
  <2>4. CASE s.records[r] # 0 /\ s.records[r] \notin I
    <3>1. t.regs[s.records[r]] = s.regs[s.records[r]] /\ ~s.regs[s.records[r]].closed
      BY <1>1, <1>3, <2>4 DEF Withdrawn
    <3> QED BY <2>1, <2>4, <3>1
  <2> QED BY <2>2, <2>3, <2>4
<1>7. ASSUME NEW r \in Routes
      PROVE  /\ s.floor[r] <= t.floor[r] /\ t.floor[r] <= Top(s, r)
             /\ s.records[r] # 0 /\ t.records[r] = 0 => t.floor[r] = Top(s, r)
  <2>1. s.floor[r] <= t.floor[r]
    BY <1>1 DEF Withdrawn
  <2>2. t.floor[r] <= Top(s, r)
    <3>1. CASE t.floor[r] = s.floor[r]
      BY <1>0, <3>1 DEF MarkersOK
    <3>2. ASSUME NEW i \in I, ~s.regs[i].closed, s.regs[i].route = r, t.floor[r] = s.regs[i].marker
          PROVE  t.floor[r] <= Top(s, r)
      <4>1. CASE s.regs[i].staged
        BY <1>0, <3>2, <4>1 DEF MarkersOK, Staged
      <4>2. CASE ~s.regs[i].staged
        <5>1. s.records[r] = i /\ i # 0
          BY <1>0, <3>2, <4>2, Typed DEF RegistryOK, PublicOK, Public
        <5>2. Top(s, r) = t.floor[r] /\ Top(s, r) \in Nat
          BY <1>0, <3>2, <5>1, TopNat DEF Top
        <5> QED BY <5>2
      <4> QED BY <4>1, <4>2
    <3> QED BY <1>1, <3>1, <3>2 DEF Withdrawn
  <2>3. ASSUME s.records[r] # 0, t.records[r] = 0 PROVE t.floor[r] = Top(s, r)
    <3>1. s.records[r] \in I /\ ~s.regs[s.records[r]].closed /\ s.regs[s.records[r]].route = r
      BY <1>1, <1>3, <2>3 DEF Withdrawn
    <3>2. Top(s, r) <= t.floor[r]
      BY <1>1, <2>3, <3>1 DEF Top, Withdrawn
    <3>3. Top(s, r) \in Nat /\ t.floor[r] \in Nat
      BY <1>0, <1>1, TopNat DEF Withdrawn, Server
    <3> QED BY <2>2, <3>2, <3>3
  <2> QED BY <2>1, <2>2, <2>3
<1>8. MarksKept(s, t)
  <2>1. \A i \in Regs(s) : t.regs[i].marker = s.regs[i].marker /\ t.regs[i].checksum = s.regs[i].checksum
    BY <1>2 DEF CalmReg
  <2> QED BY <1>7, <2>1 DEF MarksKept
<1>9. Calm(s, t)
  BY <1>1, <1>2, <1>6, <1>8 DEF Calm, Withdrawn, OwnerKept
<1> QED BY <1>1, <1>9 DEF t, Withdrawn

\* Nothing is public when there is no record.
LEMMA NoRecords ==
  ASSUME NEW t, RegistryOK(t), Recorded(t) = {}
  PROVE  \A i \in Regs(t) : ~Public(t, i)
BY DEF RegistryOK, PublicOK, Recorded

LEMMA WithdrawCalm ==
  ASSUME NEW s, NEW sh, ShownOK(s, sh), NEW i \in Regs(s)
  PROVE  Calm(s, Withdraw(s, i))
<1> DEFINE t == WithdrawAll(s, {i})
           u == [t EXCEPT !.ns = NoNamespace]
<1>1. Calm(s, t)
  BY WithdrawAllCalm
<1>2. Withdraw(s, i) = t \/ (Recorded(t) = {} /\ Withdraw(s, i) = u)
  BY DEF Withdraw
<1> HIDE DEF t
<1>3. ASSUME Recorded(t) = {} PROVE Calm(s, u)
  <2>1. RegistryOK(t)
    BY <1>1, CalmEvolves, EvolvesRegistry DEF ShownOK
  <2>2. \A j \in Regs(t) : ~Public(t, j)
    BY <1>3, <2>1, NoRecords
  <2>3. u \in Server /\ u.regs = t.regs /\ u.records = t.records /\ u.floor = t.floor /\ u.ns.owner = NoOwner
    BY <1>1 DEF Calm, Server, NoNamespace, Namespace
  <2>4. OwnerKept(s, u)
    BY <2>2, <2>3 DEF OwnerKept, Public, Regs
  <2> HIDE DEF u
  <2> QED BY <1>1, <2>3, <2>4, CalmNamespace
<1> QED BY <1>1, <1>2, <1>3

LEMMA CompletedCalm ==
  ASSUME NEW s, NEW sh, ShownOK(s, sh), NEW i \in Regs(s)
  PROVE  Calm(s, Completed(s, i))
<1> DEFINE t == Resolve(s, {s.regs[i].from}, i)
           u == [t EXCEPT !.regs[i].held = FALSE, !.regs[i].reattaching = FALSE,
                          !.regs[i].due = 0, !.regs[i].from = 0]
           new == [t.regs[i] EXCEPT !.held = FALSE, !.reattaching = FALSE, !.due = 0, !.from = 0]
<1>1. RegistryOK(s) /\ MarkersOK(s, sh) /\ Calm(s, s)
  BY CalmSame DEF ShownOK
<1>2. Completed(s, i) = s \/ Completed(s, i) = u
  BY DEF Completed
<1>3. Calm(s, t) /\ t.ns = s.ns
  BY <1>1, ResolveCalm
<1> HIDE DEF t
<1>4. ShownOK(t, sh \cup Served(t)) /\ Regs(t) = Regs(s)
  BY <1>3, CalmStep DEF Calm, Regs
<1>5. Calm(t, t)
  BY <1>4, CalmSame DEF ShownOK
<1>6. t \in Server /\ t.regs[i] \in Registration /\ CalmReg(t.regs[i], t.regs[i], Regs(s))
      /\ t.regs \in Seq(Registration) /\ i \in DOMAIN t.regs
  BY <1>4, <1>5, Typed DEF Calm, Regs
<1>7. new \in Registration
  BY <1>6 DEF Registration
<1>8. CalmReg(t.regs[i], new, Regs(s)) /\ new.closed = t.regs[i].closed
  BY <1>6, <1>7 DEF CalmReg, Registration
<1>9. u = [t EXCEPT !.regs = [t.regs EXCEPT ![i] = new]]
  <2>1. u.regs = [t.regs EXCEPT ![i] = new]
    BY <1>6 DEF Server, Registration
  <2> QED BY <1>6, <2>1 DEF Server
<1> HIDE DEF u, new
<1>10. [t.regs EXCEPT ![i] = new] \in Seq(Registration)
  BY <1>6, <1>7
<1>11. /\ u \in Server /\ u.ns = t.ns /\ u.records = t.records /\ u.floor = t.floor
       /\ u.regs = [t.regs EXCEPT ![i] = new]
  BY <1>6, <1>9, <1>10 DEF Server
<1>12. \A j \in Regs(t) : CalmReg(t.regs[j], u.regs[j], Regs(t)) /\ u.regs[j].closed = t.regs[j].closed
  BY <1>4, <1>5, <1>8, <1>11 DEF Calm, Regs
<1>13. Calm(t, u)
  <2>1. DOMAIN u.regs = DOMAIN t.regs /\ OwnerKept(t, u)
    BY <1>11 DEF OwnerKept
  <2> QED BY <1>4, <1>11, <1>12, <2>1, MapCalm DEF ShownOK
<1>14. Calm(s, u)
  BY <1>1, <1>3, <1>13, CalmTrans
<1> QED BY <1>1, <1>2, <1>14

-----------------------------------------------------------------------------
(* The calm steps of the server. *)

LEMMA HeadTask ==
  ASSUME SharesInv, loop # <<>>
  PROVE  /\ Task1 \in Task /\ TaskRefs(Task1, server) /\ 1 \in DOMAIN loop /\ Task1 = loop[1]
         /\ op[Task1.ctx] \in StagesOf[Task1.do] /\ Task1.ctx \in Contexts
<1>1. loop \in Seq(Task) /\ 1 \in DOMAIN loop /\ Head(loop) = loop[1] /\ loop[1] \in Task
  BY DEF SharesInv, TypeOK
<1>2. loop[1].ctx \in Contexts
  BY <1>1 DEF Task
<1> QED BY <1>1, <1>2 DEF SharesInv, RefsOK, TasksRefer, TasksOK, Task1

LEMMA ExpectingReg ==
  ASSUME NEW ids, NEW reg \in Registration, CalmReg(reg, reg, ids)
  PROVE  /\ Expecting(reg) \in Registration /\ CalmReg(reg, Expecting(reg), ids)
         /\ Expecting(reg).closed = reg.closed
BY DEF Expecting, Registration, CalmReg

\* The registrations at I are expected.
LEMMA ExpectingCalm ==
  ASSUME NEW s, NEW sh, ShownOK(s, sh), NEW I, NEW ns \in Namespace,
         ns.owner = s.ns.owner, ns.active = s.ns.active,
         NEW t, t = [s EXCEPT !.ns = ns, !.regs = Changed(s.regs, I, Expecting)]
  PROVE  Calm(s, t)
<1> DEFINE f == [i \in DOMAIN s.regs |-> IF i \in I THEN Expecting(s.regs[i]) ELSE s.regs[i]]
<1>1. /\ RegistryOK(s) /\ MarkersOK(s, sh) /\ s \in Server /\ Calm(s, s)
      /\ Regs(s) = DOMAIN s.regs /\ s.regs \in Seq(Registration)
  BY CalmSame DEF ShownOK, RegistryOK, Server, Regs
<1>2. ASSUME NEW i \in Regs(s)
      PROVE  f[i] \in Registration /\ CalmReg(s.regs[i], f[i], Regs(s)) /\ f[i].closed = s.regs[i].closed
  <2>1. s.regs[i] \in Registration /\ CalmReg(s.regs[i], s.regs[i], Regs(s))
    BY <1>1, Typed DEF Calm
  <2> QED BY <1>1, <2>1, ExpectingReg
<1>3. f \in [DOMAIN s.regs -> Registration]
  BY <1>1, <1>2
<1>4. t = [s EXCEPT !.ns = ns, !.regs = f]
  BY DEF Changed
<1> HIDE DEF f
<1>5. f \in Seq(Registration) /\ DOMAIN f = DOMAIN s.regs
  BY <1>1, <1>3, MappedSeq
<1>6. t \in Server /\ t.regs = f /\ t.ns = ns /\ t.records = s.records /\ t.floor = s.floor
  BY <1>1, <1>4, <1>5 DEF Server
<1>7. OwnerKept(s, t)
  BY <1>6 DEF OwnerKept
<1>8. \A i \in Regs(s) : CalmReg(s.regs[i], t.regs[i], Regs(s)) /\ t.regs[i].closed = s.regs[i].closed
  BY <1>2, <1>6
<1> QED BY <1>1, <1>5, <1>6, <1>7, <1>8, MapCalm

LEMMA CompleteCalm ==
  ASSUME SharesInv, CompleteReattach
  PROVE  Calm(server, server') /\ shown' = shown \cup Served(server')
<1>1. Task1.reg \in Regs(server)
  BY HeadTask DEF CompleteReattach, Executes, TaskRefs, TaskOf, Task1
<1> QED BY <1>1, CompletedCalm DEF CompleteReattach, Becomes, SharesInv

LEMMA UnregisterCalm ==
  ASSUME SharesInv, Unregister
  PROVE  Calm(server, server') /\ shown' = shown \cup Served(server')
<1>1. Task1.reg \in Regs(server)
  BY HeadTask DEF Unregister, Executes, TaskRefs, TaskOf, Task1
<1> QED BY <1>1, WithdrawCalm DEF Unregister, Becomes, SharesInv

LEMMA SameCalm ==
  ASSUME SharesInv
  PROVE  Calm(server, server) /\ RegistryOK(server) /\ server \in Server /\ ShownOK(server, shown)
BY CalmSame DEF SharesInv, ShownOK, RegistryOK

LEMMA BeginCloseCalm ==
  ASSUME SharesInv, BeginCloseNamespace
  PROVE  Calm(server, server') /\ shown' = shown \cup Served(server')
<1> DEFINE c == Task1.ctx
           t == [server EXCEPT !.ns.closing = TRUE, !.regs = Changed(server.regs, Own(server, c), Expecting)]
           ns == [server.ns EXCEPT !.closing = TRUE]
<1>1. (server' = server \/ server' = t) /\ shown' = shown \cup Served(server')
  BY DEF BeginCloseNamespace, Becomes
<1>2. ns \in Namespace /\ ns.owner = server.ns.owner /\ ns.active = server.ns.active
  BY SameCalm DEF Server, Namespace
<1>3. t = [server EXCEPT !.ns = ns, !.regs = Changed(server.regs, Own(server, c), Expecting)]
  BY SameCalm DEF Server
<1> HIDE DEF t, ns
<1>4. Calm(server, t)
  BY <1>2, <1>3, SameCalm, ExpectingCalm
<1> QED BY <1>1, <1>4, SameCalm

LEMMA CloseNamespaceCalm ==
  ASSUME SharesInv, CloseNamespace
  PROVE  Calm(server, server') /\ shown' = shown \cup Served(server')
<1> DEFINE c == Task1.ctx
           mine == {i \in Staged(server) : server.regs[i].ctx = c}
           all == Recorded(server) \cup mine
           s == Resolve(server, all, 0)
           t == WithdrawAll(s, all)
           u == [t EXCEPT !.ns = NoNamespace]
<1>1. (server' = server \/ server' = u) /\ shown' = shown \cup Served(server')
  BY DEF CloseNamespace, Becomes
<1>2. all \in SUBSET Regs(server)
  BY DEF Recorded, Staged
<1> HIDE DEF all
<1>3. Calm(server, s)
  BY SameCalm, ResolveCalm DEF ShownOK
<1> HIDE DEF s
<1>4. ShownOK(s, shown \cup Served(s)) /\ Regs(s) = Regs(server) /\ Calm(s, s)
  BY <1>3, SameCalm, CalmStep, CalmSame DEF Calm, Regs, ShownOK
<1>5. Withdrawn(s, all, t) /\ Calm(s, t)
  BY <1>2, <1>4, WithdrawAllEffect, WithdrawAllCalm DEF Calm
<1> HIDE DEF t
<1>6. Calm(server, t) /\ RegistryOK(t)
  BY <1>3, <1>4, <1>5, SameCalm, CalmTrans, CalmEvolves, EvolvesRegistry DEF ShownOK
<1>7. Regs(t) = Regs(server)
  BY <1>6 DEF Calm, Regs
<1>8. \A i \in Regs(t) : ~Public(t, i)
  <2> SUFFICES ASSUME NEW i \in Regs(t), Public(t, i) PROVE FALSE
    OBVIOUS
  <2>1. Public(server, i) /\ ~s.regs[i].closed
    BY <1>3, <1>4, <1>5, <1>6, <1>7 DEF Calm, CalmReg, Public
  <2>2. i \in all
    BY <1>7, <2>1, SameCalm DEF all, Recorded, RegistryOK, PublicOK
  <2>3. t.regs[i] = [s.regs[i] EXCEPT !.closed = TRUE, !.active = FALSE]
    BY <1>4, <1>5, <1>7, <2>1, <2>2, ZenonT(40) DEF Withdrawn
  <2>4. s.regs[i] \in Registration
    BY <1>4, <1>7, Typed DEF Calm
  <2> QED BY <2>3, <2>4 DEF Public, Registration
<1>9. u \in Server /\ u.regs = t.regs /\ u.records = t.records /\ u.floor = t.floor /\ u.ns.owner = NoOwner
  BY <1>6 DEF Calm, Server, NoNamespace, Namespace
<1>10. OwnerKept(server, u)
  BY <1>8, <1>9 DEF OwnerKept, Public, Regs
<1>11. Calm(server, u)
  <2> HIDE DEF u
  <2> QED BY <1>6, <1>9, <1>10, CalmNamespace
<1> QED BY <1>1, <1>11, SameCalm

LEMMA ExpireCalm ==
  ASSUME SharesInv, ExpireHolds
  PROVE  Calm(server, server') /\ shown' = shown \cup Served(server')
<1> DEFINE ns == server.ns
           over == {i \in Recorded(server) : LET reg == server.regs[i] IN
                      reg.held /\ reg.due # 0 /\ reg.due <= passed}
           t == Resolve(server, over, 0)
           s == WithdrawAll(t, over)
           due == IF ns.due <= passed THEN 0 ELSE ns.due
           dues == {s.regs[i].due : i \in {j \in Recorded(s) : s.regs[j].held}}
                     \cup (IF ns.active THEN {} ELSE {due})
           left == dues \ {0}
           later == [ns EXCEPT !.due = due, !.task = left # {},
                               !.wake = IF left = {} THEN 0 ELSE Min(left)]
           u == [s EXCEPT !.ns = NoNamespace]
           w == [s EXCEPT !.ns = [@ EXCEPT !.due = due, !.task = left # {},
                                           !.wake = IF left = {} THEN 0 ELSE Min(left)]]
<1>1. /\ server' = (IF ~ns.active /\ due = 0 /\ Recorded(s) = {} THEN u ELSE w)
      /\ shown' = shown \cup Served(server')
  BY DEF ExpireHolds, Becomes
<1>2. over \in SUBSET Regs(server)
  BY DEF Recorded
<1> HIDE DEF over
<1>3. Calm(server, t) /\ t.ns = server.ns
  BY SameCalm, ResolveCalm DEF ShownOK
<1> HIDE DEF t
<1>4. ShownOK(t, shown \cup Served(t)) /\ Regs(t) = Regs(server)
  BY <1>3, SameCalm, CalmStep DEF Calm, Regs
<1>5. Calm(t, s) /\ s.ns = t.ns
  BY <1>2, <1>4, WithdrawAllCalm
<1> HIDE DEF s
<1>6. Calm(server, s) /\ RegistryOK(s) /\ s \in Server /\ s.ns = ns /\ ns \in Namespace
  BY <1>3, <1>4, <1>5, SameCalm, CalmTrans, CalmEvolves, EvolvesRegistry DEF ShownOK, RegistryOK, Server
<1>7. left \in SUBSET Nat
  <2>1. \A i \in Recorded(s) : s.regs[i].due \in Nat
    BY <1>6, Typed DEF Recorded, Registration
  <2>2. due \in Nat
    BY <1>6 DEF Namespace
  <2> QED BY <2>1, <2>2
<1>8. left # {} => Min(left) \in Nat
  <2> HIDE DEF left
  <2> QED BY <1>7, MinOf
<1>9. later \in Namespace /\ later.owner = ns.owner /\ later.active = ns.active
  <2>1. due \in Nat
    BY <1>6 DEF Namespace
  <2> HIDE DEF due, left, ns
  <2> QED BY <1>6, <1>8, <2>1 DEF Namespace
<1>10. Calm(server, w)
  <2>1. w = [s EXCEPT !.ns = later]
    BY <1>6
  <2> HIDE DEF w, later, ns
  <2>2. w \in Server /\ w.regs = s.regs /\ w.records = s.records /\ w.floor = s.floor /\ w.ns = later
    BY <1>6, <1>9, <2>1 DEF Server
  <2>3. OwnerKept(server, w)
    BY <1>9, <2>2 DEF OwnerKept, ns
  <2> QED BY <1>6, <2>2, <2>3, CalmNamespace
<1>11. ASSUME Recorded(s) = {} PROVE Calm(server, u)
  <2>1. \A j \in Regs(s) : ~Public(s, j)
    BY <1>6, <1>11, NoRecords
  <2>2. u \in Server /\ u.regs = s.regs /\ u.records = s.records /\ u.floor = s.floor /\ u.ns.owner = NoOwner
    BY <1>6 DEF Server, NoNamespace, Namespace
  <2>3. OwnerKept(server, u)
    BY <2>1, <2>2 DEF OwnerKept, Public, Regs
  <2> HIDE DEF u
  <2> QED BY <1>6, <2>2, <2>3, CalmNamespace
<1> HIDE DEF u, w, ns, due
<1> QED BY <1>1, <1>10, <1>11

\* A PUT that has to wait makes its registration expected.
LEMMA EnterCalm ==
  ASSUME SharesInv, NEW p, NEW i \in Regs(server), NEW marker, Enter(p, i, marker)
  PROVE  Calm(server, server') /\ shown' = shown \cup Served(server')
<1> DEFINE t == [server EXCEPT !.regs[i] = Expecting(@)]
<1>1. (server' = server \/ server' = t) /\ shown' = shown \cup Served(server')
  BY DEF Enter, Becomes
<1>2. server \in Server /\ server.ns \in Namespace /\ Regs(server) = DOMAIN server.regs
  BY SameCalm DEF Server, Regs
<1>3. t = [server EXCEPT !.ns = server.ns, !.regs = Changed(server.regs, {i}, Expecting)]
  BY <1>2 DEF Server, Changed
<1> HIDE DEF t
<1>4. Calm(server, t)
  BY <1>2, <1>3, SameCalm, ExpectingCalm
<1> QED BY <1>1, <1>4, SameCalm

LEMMA ArriveCalm ==
  ASSUME SharesInv, NEW p, NEW r \in Routes, Arrive(p, r)
  PROVE  Calm(server, server') /\ shown' = shown \cup Served(server')
<1>1. server.records[r] \in Regs(server)
  BY SameCalm DEF Arrive, RegistryOK, RecordsOK
<1> QED BY <1>1, EnterCalm DEF Arrive

LEMMA ResumeCalm ==
  ASSUME SharesInv, NEW p \in Requests, Resume(p)
  PROVE  Calm(server, server') /\ shown' \in {shown, shown \cup Served(server')}
<1> DEFINE i == server.regs[puts[p].reg].to
<1>1. puts[p].reg \in Regs(server)
  BY DEF Resume, SharesInv, RefsOK, PutsRefer, PutRefs
<1>2. CASE i = 0
  BY <1>2, SameCalm DEF Resume, registry
<1>3. CASE i # 0
  <2>1. i \in Regs(server)
    BY <1>1, <1>3, SameCalm DEF RegistryOK, FlagsOK, FlagsFit
  <2>2. Enter(p, i, puts[p].marker)
    BY <1>3 DEF Resume
  <2> QED BY <2>1, <2>2, EnterCalm
<1> QED BY <1>2, <1>3

-----------------------------------------------------------------------------
(* The steps of the server that use a registration anew. *)

\* What was served is shown.
LEMMA ServedShown ==
  ASSUME NEW s, NEW sh, ShownOK(s, sh)
  PROVE  ShownOK(s, sh \cup Served(s))
BY CalmSame, CalmStep DEF ShownOK

SameReg(reg, new) ==
  /\ new \in Registration
  /\ new.ctx = reg.ctx /\ new.route = reg.route /\ new.staged = reg.staged /\ new.closed = reg.closed
  /\ new.checksum = reg.checksum /\ new.marker = reg.marker /\ new.ws = reg.ws
  /\ new.from = reg.from /\ new.to = reg.to
SameMap(s, t) ==
  /\ t \in Server /\ t.records = s.records /\ t.floor = s.floor /\ DOMAIN t.regs = DOMAIN s.regs
  /\ \A i \in Regs(s) : SameReg(s.regs[i], t.regs[i])
Usable(new) ==
  /\ new.active /\ new.held => new.reattaching
  /\ new.closed => ~new.active
  /\ new.staged => ~new.active /\ ~new.held /\ ~new.reattaching

LEMMA SameStep ==
  ASSUME NEW s, NEW sh, ShownOK(s, sh), NEW t, SameMap(s, t), \A i \in Regs(s) : Usable(t.regs[i])
  PROVE  ShownOK(t, sh \cup Served(t))
<1>1. RegistryOK(s) /\ MarkersOK(s, sh) /\ Calm(s, s)
  BY CalmSame DEF ShownOK
<1>2. ASSUME NEW i \in Regs(s) PROVE Evolved(s.regs[i], t.regs[i], Regs(s))
  <2>1. SameReg(s.regs[i], t.regs[i]) /\ Usable(t.regs[i])
    BY DEF SameMap
  <2>2. FlagsFit(s.regs[i], Regs(s))
    BY <1>1 DEF RegistryOK, FlagsOK
  <2>3. FlagsFit(t.regs[i], Regs(s))
    BY <2>1, <2>2 DEF FlagsFit, SameReg, Usable
  <2>4. s.regs[i].staged => Unused(t.regs[i])
    BY <1>1, <2>1 DEF RegistryOK, StagedOK, Unused, SameReg, Usable
  <2> QED BY <2>1, <2>3, <2>4 DEF Evolved, SameReg
<1>3. \A r \in Routes : t.records[r] =
       IF s.records[r] # 0 /\ t.regs[s.records[r]].closed THEN 0 ELSE s.records[r]
  BY <1>1 DEF SameMap, SameReg, RegistryOK, RecordsOK, Public
<1>4. Evolves(s, t)
  BY <1>2, <1>3 DEF Evolves, SameMap
<1>5. MarksKept(s, t)
  BY <1>1 DEF Calm, MarksKept, SameMap, SameReg
<1>6. RegistryOK(t) /\ MarkersOK(t, sh \cup Served(t))
  BY <1>1, <1>4, <1>5, EvolvesRegistry, MarksStep DEF ShownOK
<1>7. MarkersOK(t, sh)
  BY <1>6 DEF MarkersOK
<1> QED BY <1>6, <1>7, ServedShown DEF ShownOK

\* Changing the registration i ...
WithReg(s, i, new) == [s EXCEPT !.regs = [s.regs EXCEPT ![i] = new]]
LEMMA PutReg ==
  ASSUME NEW s \in Server, NEW i \in Regs(s), NEW new \in Registration
  PROVE  LET t == WithReg(s, i, new) IN
         /\ t \in Server /\ t.ns = s.ns /\ t.records = s.records /\ t.floor = s.floor
         /\ DOMAIN t.regs = DOMAIN s.regs /\ Len(t.regs) = Len(s.regs)
         /\ t.regs[i] = new /\ \A j \in Regs(s) : j # i => t.regs[j] = s.regs[j]
<1> DEFINE t == WithReg(s, i, new)
<1>1. s.regs \in Seq(Registration) /\ i \in DOMAIN s.regs
  BY Typed DEF Regs
<1>2. [s.regs EXCEPT ![i] = new] \in Seq(Registration)
  BY <1>1
<1>3. /\ t.regs = [s.regs EXCEPT ![i] = new]
      /\ t \in Server /\ t.ns = s.ns /\ t.records = s.records /\ t.floor = s.floor
  BY <1>2 DEF Server, WithReg
<1> HIDE DEF t
<1>4. /\ DOMAIN t.regs = DOMAIN s.regs /\ Len(t.regs) = Len(s.regs)
      /\ t.regs[i] = new /\ \A j \in Regs(s) : j # i => t.regs[j] = s.regs[j]
  BY <1>1, <1>3 DEF Regs
<1> QED BY <1>3, <1>4 DEF t

LEMMA SameRegSelf ==
  ASSUME NEW s \in Server, NEW i \in Regs(s)
  PROVE  SameReg(s.regs[i], s.regs[i])
BY Typed DEF SameReg

LEMMA UsableNow ==
  ASSUME NEW s, RegistryOK(s), NEW i \in Regs(s)
  PROVE  Usable(s.regs[i])
BY DEF RegistryOK, FlagsOK, FlagsFit, StagedOK, Unused, Usable

\* A registration is activated, when nothing has happened to it ...
Activated(s, i) == [s EXCEPT !.regs[i].active = TRUE]
LEMMA ActivatedStep ==
  ASSUME NEW s, NEW sh, ShownOK(s, sh), NEW i \in Regs(s),
         ~s.regs[i].closed, ~s.regs[i].staged, s.regs[i].held => s.regs[i].reattaching
  PROVE  /\ SameMap(s, Activated(s, i)) /\ ShownOK(Activated(s, i), sh \cup Served(Activated(s, i)))
         /\ Activated(s, i).ns = s.ns
         /\ \A j \in Regs(s) : j # i => Activated(s, i).regs[j] = s.regs[j]
<1> DEFINE new == [s.regs[i] EXCEPT !.active = TRUE]
           t == Activated(s, i)
<1>1. RegistryOK(s) /\ s \in Server /\ s.regs[i] \in Registration
  BY Typed DEF ShownOK, RegistryOK
<1>2. t = WithReg(s, i, new)
  <2>1. t.regs = [s.regs EXCEPT ![i] = new]
    BY <1>1 DEF Activated, Server
  <2> QED BY <1>1, <2>1 DEF Activated, Server, WithReg
<1>3. new \in Registration /\ SameReg(s.regs[i], new) /\ Usable(new)
  <2>1. new \in Registration
    BY <1>1 DEF Registration
  <2> QED BY <1>1, <2>1 DEF SameReg, Usable, Registration
<1> HIDE DEF new, t
<1>4. /\ t \in Server /\ t.ns = s.ns /\ t.records = s.records /\ t.floor = s.floor
      /\ DOMAIN t.regs = DOMAIN s.regs
      /\ t.regs[i] = new /\ \A j \in Regs(s) : j # i => t.regs[j] = s.regs[j]
  BY <1>1, <1>2, <1>3, PutReg
<1>5. \A j \in Regs(s) : SameReg(s.regs[j], t.regs[j]) /\ Usable(t.regs[j])
  BY <1>1, <1>3, <1>4, SameRegSelf, UsableNow
<1>6. SameMap(s, t)
  BY <1>4, <1>5 DEF SameMap
<1> QED BY <1>4, <1>5, <1>6, SameStep DEF t, new

\* ... or held, when it is not staged.
LEMMA HoldingReg ==
  ASSUME NEW reg \in Registration, ~reg.staged, NEW due \in Nat
  PROVE  LET new == [Holding(reg) EXCEPT !.due = due] IN
         /\ SameReg(reg, new) /\ Usable(new) /\ ~new.active /\ ~new.reattaching
         /\ SameReg(reg, Holding(reg)) /\ Usable(Holding(reg))
         /\ ~Holding(reg).active /\ ~Holding(reg).reattaching
<1> DEFINE e == Expecting(reg)
           h == [e EXCEPT !.active = FALSE, !.held = TRUE, !.reattaching = FALSE]
           n == [h EXCEPT !.due = due]
<1>1. e \in Registration /\ SameReg(reg, e)
  BY DEF Expecting, Registration, SameReg
<1> HIDE DEF e
<1>2. h \in Registration /\ SameReg(reg, h) /\ ~h.active /\ ~h.reattaching
  BY <1>1 DEF Registration, SameReg
<1>3. h = Holding(reg)
  BY DEF Holding, e
<1> HIDE DEF h
<1>4. n \in Registration /\ SameReg(reg, n) /\ ~n.active /\ ~n.reattaching
  BY <1>2 DEF Registration, SameReg
<1> HIDE DEF n
<1>5. Usable(n) /\ Usable(h)
  BY <1>2, <1>4 DEF Usable, SameReg
<1> QED BY <1>2, <1>3, <1>4, <1>5 DEF n

HeldOne(s, i) == [s EXCEPT !.regs[i] = Holding(@)]
LEMMA HoldingStep ==
  ASSUME NEW s, NEW sh, ShownOK(s, sh), NEW i \in Regs(s), ~s.regs[i].staged
  PROVE  LET t == HeldOne(s, i) IN
         /\ SameMap(s, t) /\ ShownOK(t, sh \cup Served(t)) /\ t.ns = s.ns
         /\ \A j \in Regs(s) : j # i => t.regs[j] = s.regs[j]
         /\ ~t.regs[i].active /\ ~t.regs[i].reattaching
<1> DEFINE new == Holding(s.regs[i])
           t == HeldOne(s, i)
<1>1. RegistryOK(s) /\ s \in Server /\ s.regs[i] \in Registration /\ 0 \in Nat
  BY Typed DEF ShownOK, RegistryOK
<1>2. t = WithReg(s, i, new)
  <2>1. t.regs = [s.regs EXCEPT ![i] = new]
    BY <1>1 DEF HeldOne, Server
  <2> QED BY <1>1, <2>1 DEF HeldOne, Server, WithReg
<1>3. SameReg(s.regs[i], new) /\ Usable(new) /\ ~new.active /\ ~new.reattaching
  BY <1>1, HoldingReg
<1> HIDE DEF new, t
<1>4. /\ t \in Server /\ t.ns = s.ns /\ t.records = s.records /\ t.floor = s.floor
      /\ DOMAIN t.regs = DOMAIN s.regs
      /\ t.regs[i] = new /\ \A j \in Regs(s) : j # i => t.regs[j] = s.regs[j]
  <2>1. new \in Registration
    BY <1>3 DEF SameReg
  <2> QED BY <1>1, <1>2, <2>1, PutReg
<1>5. \A j \in Regs(s) : SameReg(s.regs[j], t.regs[j]) /\ Usable(t.regs[j])
  BY <1>1, <1>3, <1>4, SameRegSelf, UsableNow
<1>6. SameMap(s, t)
  BY <1>4, <1>5 DEF SameMap
<1>7. ShownOK(t, sh \cup Served(t))
  BY <1>5, <1>6, SameStep
<1> QED BY <1>3, <1>4, <1>6, <1>7 DEF t

\* All that c has is held.
HeldAll(s, t, c) ==
  /\ SameMap(s, t) /\ t.ns.owner = s.ns.owner /\ ~t.ns.active
  /\ \A i \in Regs(s) : IF i \in Own(s, c) THEN ~t.regs[i].active /\ ~t.regs[i].reattaching
                                           ELSE t.regs[i] = s.regs[i]
LEMMA HoldEffect ==
  ASSUME SharesInv, Hold, server.ns.owner = Task1.ctx
  PROVE  HeldAll(server, server', Task1.ctx) /\ ShownOK(server', shown')
<1> DEFINE c == Task1.ctx
           until(reg) == [Holding(reg) EXCEPT !.due = holds + 1]
           ns == HeldNamespace(server.ns, holds + 1)
           f == [i \in DOMAIN server.regs |-> IF i \in Own(server, c) THEN until(server.regs[i]) ELSE server.regs[i]]
<1>1. /\ server \in Server /\ server.regs \in Seq(Registration) /\ Regs(server) = DOMAIN server.regs
      /\ holds + 1 \in Nat /\ RegistryOK(server)
  BY SameCalm DEF Server, Regs, SharesInv, TypeOK
<1>2. server' = [server EXCEPT !.ns = ns, !.regs = f] /\ shown' = shown \cup Served(server')
  <2>1. /\ server' = [server EXCEPT !.ns = ns, !.regs = Changed(server.regs, Own(server, c), until)]
        /\ shown' = shown \cup Served(server')
    BY DEF Hold, Becomes
  <2>2. Changed(server.regs, Own(server, c), until) = f
    BY DEF Changed
  <2> HIDE DEF f, ns, until
  <2> QED BY <2>1, <2>2
<1>3. ns \in Namespace /\ ns.owner = server.ns.owner /\ ~ns.active
  <2>1. server.ns \in Namespace
    BY <1>1 DEF Server
  <2> QED BY <1>1, <2>1 DEF HeldNamespace, Namespace
<1>4. ASSUME NEW i \in Regs(server)
      PROVE  /\ SameReg(server.regs[i], f[i]) /\ Usable(f[i])
             /\ i \in Own(server, c) => ~f[i].active /\ ~f[i].reattaching
             /\ i \notin Own(server, c) => f[i] = server.regs[i]
  <2>1. server.regs[i] \in Registration
    BY <1>1, Typed
  <2>2. CASE i \in Own(server, c)
    <3>1. ~server.regs[i].staged
      <4>1. server.regs[i].route \in Routes /\ i # 0
        BY <1>1, <2>1, Typed DEF Registration
      <4>2. server.records[server.regs[i].route] = i
        BY <2>2 DEF Own, Recorded
      <4> QED BY <1>1, <4>1, <4>2 DEF RegistryOK, RecordsOK, Public
    <3> QED BY <1>1, <2>1, <2>2, <3>1, HoldingReg
  <2>3. CASE i \notin Own(server, c)
    BY <1>1, <2>1, <2>3, SameRegSelf, UsableNow
  <2> QED BY <2>2, <2>3
<1>5. f \in [DOMAIN server.regs -> Registration]
  BY <1>1, <1>4 DEF SameReg
<1> HIDE DEF f, ns
<1>6. f \in Seq(Registration) /\ DOMAIN f = DOMAIN server.regs
  BY <1>1, <1>5, MappedSeq
<1>7. /\ server' \in Server /\ server'.regs = f /\ server'.ns = ns
      /\ server'.records = server.records /\ server'.floor = server.floor
  BY <1>1, <1>2, <1>3, <1>6 DEF Server
<1>8. SameMap(server, server')
  BY <1>4, <1>6, <1>7 DEF SameMap
<1>9. HeldAll(server, server', c)
  BY <1>3, <1>4, <1>7, <1>8 DEF HeldAll
<1>10. ShownOK(server', shown \cup Served(server'))
  <2>1. \A i \in Regs(server) : Usable(server'.regs[i])
    BY <1>4, <1>7
  <2> QED BY <1>8, <2>1, SameCalm, SameStep
<1> QED BY <1>2, <1>9, <1>10

\* A value is installed: its marker is above all that were there.
Installed(s, i, t) ==
  /\ t \in Server /\ t.ns = s.ns /\ t.records = s.records /\ DOMAIN t.regs = DOMAIN s.regs
  /\ \A j \in Regs(s) : j # i => t.regs[j] = s.regs[j]
  /\ LET reg == s.regs[i]  new == t.regs[i] IN
     /\ new \in Registration /\ new.ws = reg.ws + 1
     /\ new.ctx = reg.ctx /\ new.route = reg.route /\ new.staged = reg.staged /\ new.closed = reg.closed
     /\ new.active = reg.active /\ new.held = reg.held /\ new.reattaching = reg.reattaching
     /\ new.from = reg.from /\ new.to = reg.to
     /\ IF new.checksum = reg.checksum THEN new.marker = reg.marker /\ t.floor = s.floor
        ELSE new.marker = reg.marker + 1 /\ t.floor = [s.floor EXCEPT ![reg.route] = reg.marker + 1]
LEMMA InstallEffect ==
  ASSUME NEW s \in Server, NEW i \in Regs(s), NEW value \in Values
  PROVE  Installed(s, i, Install(s, i, value)) /\ Install(s, i, value).regs[i].checksum = value
<1> DEFINE reg == s.regs[i]
           marker == IF value = reg.checksum THEN reg.marker ELSE reg.marker + 1
           floor == IF value = reg.checksum THEN s.floor ELSE [s.floor EXCEPT ![reg.route] = marker]
           new == [reg EXCEPT !.checksum = value, !.marker = marker, !.ws = @ + 1]
           t == Install(s, i, value)
           u == WithReg(s, i, new)
<1>0. /\ reg \in Registration /\ reg.marker \in Nat /\ reg.ws \in Nat /\ reg.route \in Routes
      /\ s.floor \in [Routes -> Nat] /\ i \in DOMAIN s.regs /\ marker \in Nat
  <2>1. reg \in Registration /\ s.floor \in [Routes -> Nat] /\ i \in DOMAIN s.regs
    BY Typed DEF Server, Regs
  <2>2. reg.marker \in Nat /\ reg.ws \in Nat /\ reg.route \in Routes
    BY <2>1 DEF Registration
  <2> QED BY <2>1, <2>2
<1>1. t = [u EXCEPT !.floor = floor]
  <2>1. t.regs = [s.regs EXCEPT ![i] = new]
    BY <1>0 DEF Install, Server, Registration
  <2>2. t.floor = floor /\ t.ns = s.ns /\ t.records = s.records
    BY <1>0 DEF Install, Server
  <2> HIDE DEF new, floor
  <2> QED BY <2>1, <2>2 DEF Install, Server, WithReg
<1>2. new \in Registration
  <2>1. reg.ws + 1 \in Nat /\ value \in Values \cup {NoValue}
    BY <1>0
  <2> HIDE DEF marker
  <2> QED BY <1>0, <2>1 DEF Registration
<1>3. /\ new.ws = reg.ws + 1 /\ new.checksum = value /\ new.marker = marker
      /\ new.ctx = reg.ctx /\ new.route = reg.route /\ new.staged = reg.staged /\ new.closed = reg.closed
      /\ new.active = reg.active /\ new.held = reg.held /\ new.reattaching = reg.reattaching
      /\ new.from = reg.from /\ new.to = reg.to
  BY <1>0 DEF Registration
<1> HIDE DEF new, u
<1>4. /\ u \in Server /\ u.ns = s.ns /\ u.records = s.records
      /\ DOMAIN u.regs = DOMAIN s.regs
      /\ u.regs[i] = new /\ \A j \in Regs(s) : j # i => u.regs[j] = s.regs[j]
  BY <1>2, PutReg DEF u
<1>5. floor \in [Routes -> Nat]
  BY <1>0
<1>6. t \in Server /\ t.ns = u.ns /\ t.records = u.records /\ t.regs = u.regs /\ t.floor = floor
  <2> HIDE DEF floor, t
  <2> QED BY <1>1, <1>4, <1>5 DEF Server
<1> HIDE DEF t
<1>7. IF new.checksum = reg.checksum THEN new.marker = reg.marker /\ t.floor = s.floor
      ELSE new.marker = reg.marker + 1 /\ t.floor = [s.floor EXCEPT ![reg.route] = reg.marker + 1]
  BY <1>3, <1>6
<1>8. Installed(s, i, t) /\ t.regs[i].checksum = value
  BY <1>2, <1>3, <1>4, <1>6, <1>7 DEF Installed
<1> QED BY <1>8 DEF t

LEMMA InstalledStep ==
  ASSUME NEW s, NEW sh, ShownOK(s, sh), NEW i \in Regs(s), s.regs[i].active,
         NEW t, Installed(s, i, t)
  PROVE  ShownOK(t, sh \cup Served(t))
<1> DEFINE reg == s.regs[i]
           new == t.regs[i]
           q == reg.route
<1>1. /\ RegistryOK(s) /\ MarkersOK(s, sh) /\ s \in Server /\ t \in Server /\ Regs(t) = Regs(s)
      /\ reg \in Registration /\ new \in Registration /\ q \in Routes /\ i # 0
      /\ reg.marker \in Nat /\ new.marker \in Nat /\ Calm(s, s)
  <2>1. RegistryOK(s) /\ MarkersOK(s, sh) /\ s \in Server /\ t \in Server /\ Regs(t) = Regs(s)
    BY DEF ShownOK, RegistryOK, Installed, Regs
  <2>2. reg \in Registration /\ new \in Registration /\ i # 0
    BY <2>1, Typed
  <2> QED BY <2>1, <2>2, CalmSame DEF Registration
<1>2. ~reg.closed /\ ~reg.staged /\ FlagsFit(reg, Regs(s))
  BY <1>1 DEF RegistryOK, FlagsOK, FlagsFit, StagedOK, Unused
<1>3. s.records[q] = i
  BY <1>1, <1>2 DEF RegistryOK, PublicOK, Public
<1>4. \A j \in Regs(s) : Evolved(s.regs[j], t.regs[j], Regs(s))
  <2> SUFFICES ASSUME NEW j \in Regs(s) PROVE Evolved(s.regs[j], t.regs[j], Regs(s))
    OBVIOUS
  <2>1. CASE j # i
    <3>1. t.regs[j] = s.regs[j] /\ s.regs[j] \in Registration
      BY <1>1, <2>1, Typed DEF Installed
    <3>2. FlagsFit(s.regs[j], Regs(s)) /\ (s.regs[j].staged => Unused(s.regs[j]))
      BY <1>1 DEF RegistryOK, FlagsOK, StagedOK
    <3> QED BY <3>1, <3>2 DEF Evolved
  <2>2. CASE j = i
    BY <1>1, <1>2, <2>2 DEF Evolved, FlagsFit, Installed
  <2> QED BY <2>1, <2>2
<1>5. \A r \in Routes : t.records[r] =
       IF s.records[r] # 0 /\ t.regs[s.records[r]].closed THEN 0 ELSE s.records[r]
  <2> SUFFICES ASSUME NEW r \in Routes, s.records[r] # 0 PROVE ~t.regs[s.records[r]].closed
    BY DEF Installed
  <2>1. s.records[r] \in Regs(s) /\ ~s.regs[s.records[r]].closed
    BY <1>1 DEF RegistryOK, RecordsOK, Public
  <2> QED BY <2>1 DEF Installed
<1>6. Evolves(s, t) /\ RegistryOK(t)
  <2>1. Evolves(s, t)
    BY <1>1, <1>4, <1>5 DEF Evolves, Installed
  <2> QED BY <1>1, <2>1, EvolvesRegistry
<1>7. CASE new.checksum = reg.checksum
  <2>1. new.marker = reg.marker /\ t.floor = s.floor
    BY <1>7 DEF Installed
  <2>2. MarksKept(s, t)
    <3>1. \A j \in Regs(s) : t.regs[j].marker = s.regs[j].marker /\ t.regs[j].checksum = s.regs[j].checksum
      BY <1>7, <2>1 DEF Installed
    <3>2. t.records = s.records
      BY DEF Installed
    <3> QED BY <1>1, <2>1, <3>1, <3>2 DEF Calm, MarksKept
  <2>3. MarkersOK(t, sh \cup Served(t)) /\ RegistryOK(t)
    BY <1>1, <1>6, <2>2, MarksStep DEF ShownOK
  <2>4. ShownOK(t, sh)
    BY <2>3 DEF MarkersOK, ShownOK
  <2> QED BY <2>4, ServedShown
<1>8. CASE new.checksum # reg.checksum
  <2>1. new.marker = reg.marker + 1 /\ t.floor = [s.floor EXCEPT ![q] = reg.marker + 1]
    BY <1>8 DEF Installed
  <2>2. Top(s, q) = reg.marker /\ Top(t, q) = reg.marker + 1
    BY <1>3, <1>1, <2>1 DEF Top, Installed
  <2>3. \A r \in Routes : r # q => Top(t, r) = Top(s, r)
    <3> SUFFICES ASSUME NEW r \in Routes, r # q PROVE Top(t, r) = Top(s, r)
      OBVIOUS
    <3>1. t.records[r] = s.records[r] /\ t.floor[r] = s.floor[r]
      BY <1>1, <2>1 DEF Installed, Server
    <3>2. s.records[r] # 0 => s.records[r] \in Regs(s) /\ s.regs[s.records[r]].route = r
      BY <1>1 DEF RegistryOK, RecordsOK
    <3> QED BY <3>1, <3>2 DEF Top, Installed
  <2>4. \A r \in Routes : Top(s, r) \in Nat /\ Top(t, r) \in Nat /\ Top(s, r) <= Top(t, r)
    <3> SUFFICES ASSUME NEW r \in Routes PROVE Top(s, r) \in Nat /\ Top(t, r) \in Nat /\ Top(s, r) <= Top(t, r)
      OBVIOUS
    <3>1. Top(s, r) \in Nat
      BY <1>1, TopNat
    <3>2. CASE r = q
      BY <1>1, <2>2, <3>2
    <3>3. CASE r # q
      BY <2>3, <3>1, <3>3
    <3> QED BY <3>1, <3>2, <3>3
  <2>5. \A r \in Routes : t.floor[r] <= Top(t, r)
    <3> SUFFICES ASSUME NEW r \in Routes PROVE t.floor[r] <= Top(t, r)
      OBVIOUS
    <3>1. CASE r = q
      <4>1. t.floor[r] = reg.marker + 1
        BY <1>1, <2>1, <3>1 DEF Server
      <4> QED BY <1>1, <2>2, <3>1, <4>1
    <3>2. CASE r # q
      <4>1. t.floor[r] = s.floor[r]
        BY <1>1, <2>1, <3>2 DEF Server
      <4> QED BY <1>1, <2>3, <3>2, <4>1 DEF MarkersOK
    <3> QED BY <3>1, <3>2
  <2>6. \A j \in Staged(t) : t.regs[j].marker <= Top(t, t.regs[j].route)
    <3> SUFFICES ASSUME NEW j \in Staged(t) PROVE t.regs[j].marker <= Top(t, t.regs[j].route)
      OBVIOUS
    <3>1. j \in Regs(s) /\ j # i
      BY <1>1, <1>2 DEF Staged, Installed
    <3>2. t.regs[j] = s.regs[j] /\ j \in Staged(s) /\ s.regs[j] \in Registration
      BY <1>1, <3>1, Typed DEF Installed, Staged
    <3>3. s.regs[j].marker <= Top(s, s.regs[j].route) /\ s.regs[j].route \in Routes /\ s.regs[j].marker \in Nat
      BY <1>1, <3>2 DEF MarkersOK, Registration
    <3>4. /\ Top(s, s.regs[j].route) \in Nat /\ Top(t, s.regs[j].route) \in Nat
          /\ Top(s, s.regs[j].route) <= Top(t, s.regs[j].route)
      BY <2>4, <3>3
    <3> QED BY <3>2, <3>3, <3>4
  <2>7. ASSUME NEW x \in sh PROVE x.marker <= Top(t, x.route) /\ Names(t, x)
    <3>1. x.route \in Routes /\ x.marker \in Nat /\ x.marker <= Top(s, x.route) /\ Names(s, x)
      BY <1>1 DEF MarkersOK, ShownOK
    <3>2. Top(s, x.route) \in Nat /\ Top(t, x.route) \in Nat /\ Top(s, x.route) <= Top(t, x.route)
      BY <2>4, <3>1
    <3>3. x.marker <= Top(t, x.route)
      BY <3>1, <3>2
    <3>4. CASE x.route = q
      <4>1. x.marker # new.marker
        BY <1>1, <2>1, <2>2, <3>1, <3>4
      <4>2. t.records[q] = i
        BY <1>3 DEF Installed
      <4> QED BY <3>3, <3>4, <4>1, <4>2 DEF Names
    <3>5. CASE x.route # q
      <4>1. t.records[x.route] = s.records[x.route]
        BY DEF Installed
      <4>2. s.records[x.route] # 0 => s.records[x.route] \in Regs(s) /\ s.regs[s.records[x.route]].route = x.route
        BY <1>1, <3>1 DEF RegistryOK, RecordsOK
      <4>3. s.records[x.route] # 0 => t.regs[s.records[x.route]] = s.regs[s.records[x.route]]
        BY <3>5, <4>2 DEF Installed
      <4> QED BY <3>1, <3>3, <4>1, <4>3 DEF Names
    <3> QED BY <3>4, <3>5
  <2>8. MarkersOK(t, sh)
    BY <1>1, <2>5, <2>6, <2>7 DEF MarkersOK
  <2>9. ShownOK(t, sh)
    BY <1>6, <2>8 DEF ShownOK
  <2> QED BY <2>9, ServedShown
<1> QED BY <1>7, <1>8

-----------------------------------------------------------------------------
(* Reservations. *)

\* Somebody who may takes the namespace over, or nobody.
OwnerPassed(s, t, c) ==
  \/ t.ns.owner = s.ns.owner /\ t.ns.active = s.ns.active
  \/ t.ns.owner = c /\ t.ns.active /\ (s.ns.owner = NoOwner \/ ~s.ns.active)
TakenOver(s, t, c) ==
  /\ t \in Server /\ t.regs = s.regs /\ t.records = s.records /\ t.floor = s.floor
  /\ IF CanTakeOver(s, c) THEN t.ns.owner = c /\ t.ns.active ELSE t.ns = s.ns
LEMMA TakeOverEffect ==
  ASSUME NEW s \in Server, NEW c \in Contexts
  PROVE  TakenOver(s, TakeOver(s, c), c)
<1>1. CASE CanTakeOver(s, c)
  <2> DEFINE ns == [s.ns EXCEPT !.owner = c, !.active = TRUE, !.closing = FALSE, !.due = 0]
  <2>1. ns \in Namespace /\ ns.owner = c /\ ns.active
    BY DEF Server, Namespace
  <2>2. TakeOver(s, c) = [s EXCEPT !.ns = ns]
    BY <1>1 DEF TakeOver, Server
  <2> HIDE DEF ns
  <2> QED BY <1>1, <2>1, <2>2 DEF TakenOver, Server
<1>2. CASE ~CanTakeOver(s, c)
  BY <1>2 DEF TakeOver, TakenOver
<1> QED BY <1>1, <1>2

\* What a route's next registration is like, and what becomes of the others.
FreshReg(new, c) ==
  /\ new \in Registration /\ new.ctx = c /\ ~new.active /\ ~new.closed
  /\ new.held => new.reattaching
StagedOpen(s, t) == \A i \in Staged(s) : ~t.regs[i].closed
Reserved(s, t, c, r, staged) ==
  LET n == Len(s.regs) + 1 IN
  /\ DOMAIN t.regs = Regs(s) \cup {n} /\ Len(t.regs) = n /\ OwnerPassed(s, t, c)
  /\ \A i \in Regs(s) : CalmReg(s.regs[i], t.regs[i], Regs(t))
  /\ FreshReg(t.regs[n], c) /\ t.regs[n].route = r /\ t.regs[n].staged = staged
  /\ t.regs[n].ws = 0 /\ StagedOpen(s, t)

\* The server with another registration.
NewReg(c, r, staged, marker) ==
  [ctx |-> c, route |-> r, staged |-> staged, active |-> FALSE, closed |-> FALSE,
   held |-> FALSE, reattaching |-> FALSE, due |-> 0, checksum |-> NoValue,
   marker |-> marker, ws |-> 0, from |-> 0, future |-> "none", to |-> 0]
Claimed(s, c, staged) ==
  IF s.ns.owner # NoOwner THEN s.ns
  ELSE [NoNamespace EXCEPT !.owner = c, !.active = TRUE, !.claim = staged]
WithNew(s, c, r, staged) ==
  [s EXCEPT !.ns = Claimed(s, c, staged), !.regs = Append(@, NewReg(c, r, staged, s.floor[r]))]

Noted(s, t, c, r, new) ==
  LET n == Len(s.regs) + 1 IN
  /\ t \in Server /\ t.records = s.records /\ t.floor = s.floor
  /\ DOMAIN t.regs = Regs(s) \cup {n} /\ Len(t.regs) = n
  /\ Regs(s) = 1..Len(s.regs) /\ Len(s.regs) \in Nat
  /\ \A i \in Regs(s) : t.regs[i] = s.regs[i]
  /\ t.regs[n] = new
  /\ OwnerPassed(s, t, c) /\ (s.ns.owner # NoOwner => t.ns = s.ns)
  /\ (s.ns.owner = NoOwner => t.ns.owner = c)
LEMMA WithNewEffect ==
  ASSUME NEW s \in Server, NEW c \in Contexts, NEW r \in Routes, NEW staged \in BOOLEAN
  PROVE  Noted(s, WithNew(s, c, r, staged), c, r, NewReg(c, r, staged, s.floor[r]))
<1> DEFINE n == Len(s.regs) + 1
           new == NewReg(c, r, staged, s.floor[r])
           ns == Claimed(s, c, staged)
           t == WithNew(s, c, r, staged)
<1>1. s.floor[r] \in Nat /\ s.regs \in Seq(Registration) /\ s.ns \in Namespace
  BY DEF Server
<1>2. new \in Registration
  BY <1>1 DEF NewReg, Registration
<1>3. /\ ns \in Namespace /\ (s.ns.owner # NoOwner => ns = s.ns)
      /\ s.ns.owner = NoOwner => ns.owner = c /\ ns.active
  BY <1>1 DEF Claimed, NoNamespace, Namespace
<1> HIDE DEF new, ns
<1>4. /\ Append(s.regs, new) \in Seq(Registration) /\ Len(Append(s.regs, new)) = n
      /\ DOMAIN Append(s.regs, new) = Regs(s) \cup {n}
      /\ \A i \in Regs(s) : Append(s.regs, new)[i] = s.regs[i]
      /\ Append(s.regs, new)[n] = new
      /\ Regs(s) = 1..Len(s.regs) /\ Len(s.regs) \in Nat
  BY <1>1, <1>2 DEF Regs
<1>5. t = [s EXCEPT !.ns = ns, !.regs = Append(s.regs, new)]
  BY DEF WithNew, ns, new
<1> HIDE DEF t
<1>6. /\ t \in Server /\ t.records = s.records /\ t.floor = s.floor
      /\ t.ns = ns /\ t.regs = Append(s.regs, new)
  BY <1>3, <1>4, <1>5 DEF Server
<1>7. OwnerPassed(s, t, c)
  BY <1>3, <1>6 DEF OwnerPassed
<1> HIDE DEF n
<1>8. Noted(s, t, c, r, new)
  BY <1>3, <1>4, <1>6, <1>7 DEF Noted, n
<1> QED BY <1>8 DEF t, new

\* A staged reservation is noted, and no more.
LEMMA ReserveStaged ==
  ASSUME NEW s, NEW sh, ShownOK(s, sh), Len(s.regs) < MaxRegs,
         NEW c \in Contexts, NEW r \in Routes, \A i \in Staged(s) : s.regs[i].route # r,
         NEW staged \in BOOLEAN, staged, NEW t, t = Reserve(s, c, r, staged)
  PROVE  Reserved(s, t, c, r, staged) /\ ShownOK(t, sh \cup Served(t))
<1> DEFINE n == Len(s.regs) + 1
           new == NewReg(c, r, staged, s.floor[r])
<1>1. /\ RegistryOK(s) /\ MarkersOK(s, sh) /\ s \in Server /\ Calm(s, s)
      /\ s.floor[r] \in Nat
  BY CalmSame DEF ShownOK, RegistryOK, Server
<1>2. t = WithNew(s, c, r, staged)
  BY DEF Reserve, ReserveFrom, WithNew, NewReg, Claimed
<1>3. /\ t \in Server /\ t.records = s.records /\ t.floor = s.floor
      /\ DOMAIN t.regs = Regs(s) \cup {n} /\ Len(t.regs) = n
      /\ Regs(s) = 1..Len(s.regs) /\ Len(s.regs) \in Nat
      /\ \A i \in Regs(s) : t.regs[i] = s.regs[i]
      /\ t.regs[n] = new /\ OwnerPassed(s, t, c)
  <2>1. Noted(s, t, c, r, new)
    <3>1. s \in Server
      BY <1>1
    <3> QED BY <1>2, <3>1, WithNewEffect
  <2> HIDE DEF new
  <2> QED BY <2>1 DEF Noted
<1>4. n \notin Regs(s) /\ n # 0 /\ n <= MaxRegs /\ Regs(t) = Regs(s) \cup {n} /\ 0 \notin Regs(s)
  <2>1. n \in Nat /\ MaxRegs \in Nat /\ Len(s.regs) < n /\ n # 0 /\ n <= MaxRegs
    BY <1>3, SharesAssumption
  <2>2. n \notin Regs(s) /\ 0 \notin Regs(s)
    BY <1>3
  <2>3. Regs(t) = Regs(s) \cup {n}
    BY <1>3 DEF Regs
  <2> QED BY <2>1, <2>2, <2>3
<1>5. /\ new.ctx = c /\ new.route = r /\ new.staged /\ Unused(new) /\ ~new.closed /\ new.ws = 0
      /\ new.marker = s.floor[r] /\ new.from = 0 /\ new.to = 0 /\ new \in Registration
  <2>1. new \in Registration
    BY <1>1 DEF NewReg, Registration
  <2>2. Unused(new)
    BY DEF NewReg, Unused
  <2> QED BY <2>1, <2>2 DEF NewReg
<1> HIDE DEF new, n
<1>6. ASSUME NEW i \in Regs(s) PROVE CalmReg(s.regs[i], t.regs[i], Regs(t))
  <2>1. CalmReg(s.regs[i], s.regs[i], Regs(s))
    BY <1>1 DEF Calm
  <2> QED BY <1>3, <1>4, <2>1 DEF CalmReg
<1>7. Reserved(s, t, c, r, staged)
  <2>1. StagedOpen(s, t)
    BY <1>3 DEF StagedOpen, Staged
  <2> QED BY <1>3, <1>5, <1>6, <2>1 DEF Reserved, FreshReg, Unused, n
<1>8. RecordsOK(t) /\ PublicOK(t)
  <2>1. RecordsOK(t)
    <3> SUFFICES ASSUME NEW q \in Routes, t.records[q] # 0
                 PROVE  /\ t.records[q] \in Regs(t) /\ t.regs[t.records[q]].route = q
                        /\ Public(t, t.records[q])
      BY DEF RecordsOK
    <3>1. /\ s.records[q] \in Regs(s) /\ s.regs[s.records[q]].route = q /\ Public(s, s.records[q])
          /\ t.records[q] = s.records[q]
      BY <1>1, <1>3 DEF RegistryOK, RecordsOK
    <3>2. t.regs[s.records[q]] = s.regs[s.records[q]]
      BY <1>3, <3>1
    <3> QED BY <1>4, <3>1, <3>2 DEF Public
  <2>2. PublicOK(t)
    BY <1>1, <1>3, <1>4, <1>5, ZenonT(40) DEF RegistryOK, PublicOK, Public
  <2> QED BY <2>1, <2>2
<1>9. StagedOK(t) /\ FlagsOK(t)
  <2>1. StagedOK(t)
    BY <1>1, <1>3, <1>4, <1>5 DEF RegistryOK, StagedOK
  <2>2. ASSUME NEW i \in Regs(t) PROVE FlagsFit(t.regs[i], Regs(t))
    <3>1. CASE i = n
      BY <1>3, <1>5, <3>1 DEF FlagsFit, Unused
    <3>2. CASE i \in Regs(s)
      <4>1. FlagsFit(s.regs[i], Regs(s)) /\ t.regs[i] = s.regs[i]
        BY <1>1, <1>3, <3>2 DEF RegistryOK, FlagsOK
      <4> QED BY <1>4, <4>1 DEF FlagsFit
    <3> QED BY <1>4, <3>1, <3>2
  <2> QED BY <2>1, <2>2 DEF FlagsOK
<1>10. Staged(t) = Staged(s) \cup {n}
  <2>1. \A i \in Regs(s) : t.regs[i] = s.regs[i]
    BY <1>3
  <2>2. t.regs[n].staged /\ ~t.regs[n].closed
    BY <1>3, <1>5
  <2> QED BY <1>4, <2>1, <2>2 DEF Staged
<1>11. StagedApart(t)
  <2> SUFFICES ASSUME NEW i \in Staged(t), NEW j \in Staged(t), t.regs[i].route = t.regs[j].route
               PROVE  i = j
    BY DEF StagedApart
  <2>1. t.regs[n].route = r /\ \A k \in Staged(s) : t.regs[k] = s.regs[k] /\ s.regs[k].route # r
    BY <1>3, <1>5 DEF Staged
  <2>2. CASE i \in Staged(s) /\ j \in Staged(s)
    BY <1>1, <2>1, <2>2 DEF RegistryOK, StagedApart
  <2> QED BY <1>10, <2>1, <2>2
<1>12. RegistryOK(t)
  BY <1>3, <1>4, <1>8, <1>9, <1>11 DEF RegistryOK
<1>13. \A q \in Routes : Top(t, q) = Top(s, q)
  BY <1>1, <1>3 DEF Top, RegistryOK, RecordsOK
<1>14. \A x \in sh : Names(t, x)
  <2> SUFFICES ASSUME NEW x \in sh PROVE Names(t, x)
    OBVIOUS
  <2>1. x.route \in Routes /\ Names(s, x)
    BY <1>1 DEF MarkersOK, ShownOK
  <2>2. t.records[x.route] # 0 => t.regs[s.records[x.route]] = s.regs[s.records[x.route]]
    BY <1>1, <1>3, <2>1 DEF RegistryOK, RecordsOK
  <2> QED BY <1>3, <2>1, <2>2 DEF Names
<1>15. MarkersOK(t, sh)
  <2>1. \A q \in Routes : t.floor[q] <= Top(t, q)
    BY <1>1, <1>3, <1>13 DEF MarkersOK
  <2>2. \A i \in Staged(t) : t.regs[i].marker <= Top(t, t.regs[i].route)
    <3> SUFFICES ASSUME NEW i \in Staged(t) PROVE t.regs[i].marker <= Top(t, t.regs[i].route)
      OBVIOUS
    <3>1. CASE i = n
      BY <1>1, <1>3, <1>5, <1>13, <3>1, ZenonT(40) DEF MarkersOK
    <3>2. CASE i \in Staged(s)
      <4>1. t.regs[i] = s.regs[i] /\ s.regs[i] \in Registration
        BY <1>1, <1>3, <3>2, Typed DEF Staged
      <4>2. s.regs[i].route \in Routes
        BY <4>1 DEF Registration
      <4> QED BY <1>1, <1>13, <3>2, <4>1, <4>2 DEF MarkersOK
    <3> QED BY <1>10, <3>1, <3>2
  <2>3. \A x \in sh : x.marker <= Top(t, x.route)
    BY <1>1, <1>13 DEF MarkersOK, ShownOK
  <2>4. \A x, y \in sh : x.route = y.route /\ x.marker = y.marker => x.value = y.value
    BY <1>1 DEF MarkersOK
  <2> QED BY <1>14, <2>1, <2>2, <2>3, <2>4 DEF MarkersOK
<1>16. ShownOK(t, sh)
  BY <1>12, <1>15 DEF ShownOK
<1> QED BY <1>7, <1>16, ServedShown

\* A registration adopts what the held record of its route has.
LEMMA HeldIs ==
  ASSUME NEW s, NEW r
  PROVE  /\ \A i \in Held(s, r) : i \in Regs(s) /\ i = s.records[r] /\ s.regs[i].route = r /\ s.regs[i].held
         /\ s.records[r] \in Regs(s) /\ s.regs[s.records[r]].route = r /\ s.regs[s.records[r]].held
              => s.records[r] \in Held(s, r)
BY DEF Held, Recorded

Adopts(s, reg, new) ==
  LET h == s.records[reg.route] IN
  /\ new \in Registration
  /\ new.ctx = reg.ctx /\ new.route = reg.route /\ new.staged = reg.staged /\ new.active = reg.active
  /\ new.closed = reg.closed /\ new.ws = reg.ws /\ new.to = reg.to
  /\ IF h \in Regs(s) /\ s.regs[h].route = reg.route /\ s.regs[h].held
     THEN /\ new.checksum = s.regs[h].checksum /\ new.marker = Larger(reg.marker, s.regs[h].marker)
          /\ new.held /\ new.reattaching /\ new.from = h
     ELSE new = reg
LEMMA AdoptedEffect ==
  ASSUME NEW s \in Server, Len(s.regs) <= MaxRegs, NEW reg \in Registration
  PROVE  Adopts(s, reg, Adopted(s, reg))
<1> DEFINE r == reg.route
           h == s.records[r]
<1>1. CASE h \in Regs(s) /\ s.regs[h].route = r /\ s.regs[h].held
  <2> DEFINE new == [reg EXCEPT !.checksum = s.regs[h].checksum, !.marker = Larger(@, s.regs[h].marker),
                                !.held = TRUE, !.reattaching = TRUE, !.from = h]
  <2>1. Held(s, r) # {}
    BY <1>1, HeldIs
  <2>2. Adopted(s, reg) = new
    BY <2>1 DEF Adopted
  <2>3. /\ s.regs[h].checksum \in Values \cup {NoValue} /\ s.regs[h].marker \in Nat
        /\ h \in {0} \cup Ids /\ reg.marker \in Nat
    <3>1. s.regs[h] \in Registration /\ h \in 1..Len(s.regs) /\ s.regs \in Seq(Registration)
      BY <1>1, Typed
    <3>2. h \in Ids
      BY <3>1, SharesAssumption DEF Ids
    <3> QED BY <3>1, <3>2 DEF Registration
  <2>4. Larger(reg.marker, s.regs[h].marker) \in Nat
    BY <2>3 DEF Larger
  <2>5. new \in Registration
    <3> HIDE DEF Larger, h
    <3> QED BY <2>3, <2>4 DEF Registration
  <2>6. /\ new.ctx = reg.ctx /\ new.route = r /\ new.staged = reg.staged /\ new.active = reg.active
        /\ new.closed = reg.closed /\ new.ws = reg.ws /\ new.to = reg.to
        /\ new.checksum = s.regs[h].checksum /\ new.marker = Larger(reg.marker, s.regs[h].marker)
        /\ new.held /\ new.reattaching /\ new.from = h
    BY DEF Registration
  <2> HIDE DEF new
  <2> QED BY <1>1, <2>2, <2>5, <2>6 DEF Adopts
<1>2. CASE ~(h \in Regs(s) /\ s.regs[h].route = r /\ s.regs[h].held)
  <2>1. Held(s, r) = {}
    BY <1>2, HeldIs
  <2>2. Adopted(s, reg) = reg
    BY <2>1 DEF Adopted
  <2> QED BY <1>2, <2>2 DEF Adopts
<1> QED BY <1>1, <1>2

\* A reservation that is not staged takes the place of what is held.
LEMMA ReservePublic ==
  ASSUME NEW s, NEW sh, ShownOK(s, sh), Len(s.regs) < MaxRegs,
         NEW c \in Contexts, NEW r \in Routes, NoConflict(s, c, r, {}, {}),
         NEW staged \in BOOLEAN, ~staged, NEW v, v = Reserve(s, c, r, staged)
  PROVE  Reserved(s, v, c, r, staged) /\ ShownOK(v, sh \cup Served(v)) /\ v.ns.owner = c
<1> DEFINE n == Len(s.regs) + 1
           new == NewReg(c, r, staged, s.floor[r])
           t == WithNew(s, c, r, staged)
           u == WithdrawAll(t, Held(t, r))
           w == TakeOver(u, c)
           h == s.records[r]
<1>1. /\ RegistryOK(s) /\ MarkersOK(s, sh) /\ s \in Server /\ Calm(s, s)
      /\ s.floor[r] \in Nat /\ h \in {0} \cup Ids
  BY CalmSame DEF ShownOK, RegistryOK, Server
<1>2. v = [w EXCEPT !.regs[n] = Adopted(t, @), !.records[r] = n]
  BY DEF Reserve, ReserveFrom, WithNew, NewReg, Claimed
<1>3. Noted(s, t, c, r, new)
  BY <1>1, WithNewEffect
<1>4. /\ new.ctx = c /\ new.route = r /\ ~new.staged /\ Unused(new) /\ ~new.closed /\ new.ws = 0
      /\ new.marker = s.floor[r] /\ new.from = 0 /\ new.to = 0 /\ new \in Registration
  <2>1. new \in Registration
    BY <1>1 DEF NewReg, Registration
  <2>2. Unused(new)
    BY DEF NewReg, Unused
  <2> QED BY <2>1, <2>2 DEF NewReg
<1> HIDE DEF new, t
<1>5. /\ t \in Server /\ t.records = s.records /\ t.floor = s.floor
      /\ DOMAIN t.regs = Regs(s) \cup {n} /\ Regs(t) = Regs(s) \cup {n} /\ Len(t.regs) = n
      /\ \A i \in Regs(s) : t.regs[i] = s.regs[i]
      /\ t.regs[n] = new
      /\ OwnerPassed(s, t, c) /\ (s.ns.owner # NoOwner => t.ns = s.ns)
      /\ (s.ns.owner = NoOwner => t.ns.owner = c)
  BY <1>3 DEF Noted, Regs
<1>6. n \notin Regs(s) /\ n \in Nat /\ n # 0 /\ n <= MaxRegs /\ 0 \notin Regs(s) /\ n \in Ids
  <2>1. Regs(s) = 1..Len(s.regs) /\ Len(s.regs) \in Nat
    BY <1>3 DEF Noted
  <2>2. n \in Nat /\ MaxRegs \in Nat /\ Len(s.regs) < n /\ n # 0 /\ n <= MaxRegs
    BY <2>1, SharesAssumption
  <2> QED BY <2>1, <2>2 DEF Ids
<1> HIDE DEF n
<1>7. h # 0 => h \in Regs(s) /\ s.regs[h].route = r /\ Public(s, h) /\ s.regs[h].held /\ t.regs[h] = s.regs[h]
  <2>1. h # 0 => h \in Regs(s) /\ s.regs[h].route = r /\ Public(s, h)
    BY <1>1 DEF RegistryOK, RecordsOK
  <2>2. h # 0 => s.regs[h].held
    BY DEF NoConflict
  <2> QED BY <1>5, <2>1, <2>2
<1>8. Held(t, r) = {h} \ {0} /\ Held(t, r) \in SUBSET Regs(t)
  <2>1. \A i \in Held(t, r) : i \in Regs(t) /\ i = h
    BY <1>5, HeldIs
  <2>2. h # 0 => h \in Held(t, r)
    BY <1>5, <1>7, HeldIs
  <2>3. 0 \notin Regs(t)
    BY <1>5, <1>6
  <2> QED BY <2>1, <2>2, <2>3
<1>9. Withdrawn(t, Held(t, r), u)
  BY <1>5, <1>8, WithdrawAllEffect
<1> HIDE DEF u
<1>10. /\ u \in Server /\ u.ns = t.ns
       /\ \A q \in Routes : t.records[q] \notin Held(t, r) => u.records[q] = t.records[q]
       /\ \A q \in Routes : u.floor[q] = t.floor[q]
             \/ \E i \in Held(t, r) : t.regs[i].route = q /\ u.floor[q] = t.regs[i].marker
  <2>1. u \in Server /\ u.ns = t.ns
    BY <1>9 DEF Withdrawn
  <2>2. \A q \in Routes : t.records[q] \notin Held(t, r) => u.records[q] = t.records[q]
    BY <1>9 DEF Withdrawn
  <2>3. \A q \in Routes : u.floor[q] = t.floor[q]
          \/ \E i \in Held(t, r) : ~t.regs[i].closed /\ t.regs[i].route = q /\ u.floor[q] = t.regs[i].marker
    BY <1>9 DEF Withdrawn
  <2> QED BY <2>1, <2>2, <2>3
<1>11. TakenOver(u, w, c)
  BY <1>10, TakeOverEffect
<1> HIDE DEF w
<1>12. w \in Server /\ w.regs = u.regs /\ w.records = u.records /\ w.floor = u.floor
  BY <1>11 DEF TakenOver
<1>13. /\ DOMAIN u.regs = Regs(t)
       /\ \A i \in Regs(s) : i # h => u.regs[i] = s.regs[i]
       /\ h # 0 => u.regs[h] = [s.regs[h] EXCEPT !.closed = TRUE, !.active = FALSE]
       /\ u.regs[n] = new
       /\ \A q \in Routes : q # r => u.records[q] = s.records[q]
  <2>1. DOMAIN u.regs = Regs(t)
    BY <1>5, <1>9 DEF Withdrawn, Regs
  <2>2. \A i \in Regs(t) : i # h => u.regs[i] = t.regs[i]
    BY <1>8, <1>9 DEF Withdrawn
  <2>3. n # h
    BY <1>6, <1>7
  <2>4. h # 0 => u.regs[h] = [s.regs[h] EXCEPT !.closed = TRUE, !.active = FALSE]
    <3> SUFFICES ASSUME h # 0 PROVE u.regs[h] = [s.regs[h] EXCEPT !.closed = TRUE, !.active = FALSE]
      OBVIOUS
    <3>1. h \in Regs(t) /\ h \in Held(t, r) /\ ~t.regs[h].closed /\ t.regs[h] = s.regs[h]
      BY <1>5, <1>7, <1>8 DEF Public
    <3>2. u.regs[h] = [t.regs[h] EXCEPT !.closed = TRUE, !.active = FALSE]
      BY <1>9, <3>1, ZenonT(40) DEF Withdrawn
    <3> QED BY <3>1, <3>2
  <2>5. ASSUME NEW q \in Routes, q # r PROVE u.records[q] = s.records[q]
    <3>1. s.records[q] \notin Held(t, r)
      BY <1>1, <1>7, <1>8, <2>5 DEF RegistryOK, RecordsOK
    <3> QED BY <1>5, <1>10, <2>5, <3>1
  <2> QED BY <1>5, <2>1, <2>2, <2>3, <2>4, <2>5
<1> DEFINE own == Adopted(t, new)
<1>14. Adopts(t, new, own)
  BY <1>4, <1>5, <1>6, AdoptedEffect
<1>15. /\ own \in Registration /\ own.ctx = c /\ own.route = r /\ ~own.staged /\ ~own.active /\ ~own.closed
       /\ own.ws = 0 /\ own.to = 0
       /\ h # 0 => /\ own.checksum = s.regs[h].checksum /\ own.marker = Larger(s.floor[r], s.regs[h].marker)
                   /\ own.held /\ own.reattaching /\ own.from = h
       /\ h = 0 => own = new
  <2>1. h # 0 => h \in Regs(t) /\ t.regs[h].route = r /\ t.regs[h].held
    BY <1>5, <1>7
  <2>2. h = 0 => h \notin Regs(t)
    BY <1>5, <1>6
  <2> QED BY <1>4, <1>5, <1>7, <1>14, <2>1, <2>2 DEF Adopts, Unused
<1> HIDE DEF own
<1>16. /\ v \in Server /\ v.ns = w.ns /\ v.floor = w.floor
       /\ v.regs = [w.regs EXCEPT ![n] = own] /\ v.records = [w.records EXCEPT ![r] = n]
  <2>1. w.regs[n] = new
    BY <1>12, <1>13
  <2>2. v = [w EXCEPT !.regs = [w.regs EXCEPT ![n] = own], !.records = [w.records EXCEPT ![r] = n]]
    BY <1>2, <1>12, <2>1 DEF own, Server
  <2>3. w.regs \in Seq(Registration) /\ w.records \in [Routes -> {0} \cup Ids]
    BY <1>12 DEF Server
  <2>4. [w.regs EXCEPT ![n] = own] \in Seq(Registration)
    <3>1. n \in DOMAIN w.regs
      BY <1>5, <1>12, <1>13
    <3> QED BY <1>15, <2>3, <3>1
  <2>5. [w.records EXCEPT ![r] = n] \in [Routes -> {0} \cup Ids]
    BY <1>6, <2>3
  <2> QED BY <1>12, <2>2, <2>4, <2>5 DEF Server
<1>17. /\ DOMAIN v.regs = Regs(t) /\ Regs(v) = Regs(t) /\ Len(v.regs) = n
       /\ \A i \in Regs(s) : i # h => v.regs[i] = s.regs[i]
       /\ h # 0 => v.regs[h] = [s.regs[h] EXCEPT !.closed = TRUE, !.active = FALSE]
       /\ v.regs[n] = own /\ v.records[r] = n
       /\ \A q \in Routes : q # r => v.records[q] = s.records[q]
  <2>1. DOMAIN v.regs = Regs(t) /\ Regs(v) = Regs(t)
    BY <1>12, <1>13, <1>16 DEF Regs
  <2>2. Len(v.regs) = n
    <3>1. v.regs \in Seq(Registration) /\ t.regs \in Seq(Registration) /\ DOMAIN v.regs = DOMAIN t.regs
      BY <1>5, <1>16, <2>1 DEF Server, Regs
    <3> QED BY <1>5, <3>1
  <2>3. n \in DOMAIN w.regs /\ n \notin Regs(s) /\ n # h
    BY <1>5, <1>6, <1>7, <1>12, <1>13
  <2>4. v.regs[n] = own /\ \A i \in Regs(s) : v.regs[i] = w.regs[i]
    BY <1>5, <1>12, <1>13, <1>16, <2>3
  <2>5. v.records[r] = n /\ \A q \in Routes : q # r => v.records[q] = w.records[q]
    BY <1>12, <1>16 DEF Server
  <2> QED BY <1>7, <1>12, <1>13, <2>1, <2>2, <2>4, <2>5
<1>18. ASSUME NEW i \in Regs(s) PROVE CalmReg(s.regs[i], v.regs[i], Regs(v))
  <2>1. CalmReg(s.regs[i], s.regs[i], Regs(s)) /\ s.regs[i] \in Registration
    BY <1>1, Typed DEF Calm
  <2>2. Regs(s) \subseteq Regs(v)
    BY <1>5, <1>17
  <2>3. CASE i # h
    BY <1>17, <2>1, <2>2, <2>3 DEF CalmReg
  <2>4. CASE i = h
    <3>1. v.regs[i] = [s.regs[i] EXCEPT !.closed = TRUE, !.active = FALSE]
      BY <1>6, <1>17, <2>4
    <3> QED BY <2>1, <2>2, <3>1 DEF CalmReg, Registration
  <2> QED BY <2>3, <2>4
<1>19. OwnerPassed(s, v, c) /\ v.ns.owner = c
  <2>1. CASE s.ns.owner = NoOwner
    <3>1. t.ns.owner = c /\ ~CanTakeOver(u, c)
      BY <1>5, <1>10, <2>1 DEF CanTakeOver
    <3> QED BY <1>5, <1>10, <1>11, <1>16, <3>1 DEF TakenOver, OwnerPassed
  <2>2. CASE s.ns.owner # NoOwner
    <3>1. w.ns = s.ns \/ (CanTakeOver(u, c) /\ w.ns.owner = c /\ w.ns.active)
      BY <1>5, <1>10, <1>11, <2>2 DEF TakenOver
    <3>2. CanTakeOver(u, c) <=> CanTakeOver(s, c)
      BY <1>5, <1>10, <2>2 DEF CanTakeOver
    <3>3. s.ns.owner = c \/ CanTakeOver(s, c)
      BY <2>2 DEF NoConflict
    <3> QED BY <1>11, <1>10, <1>16, <3>1, <3>2, <3>3 DEF TakenOver, OwnerPassed, CanTakeOver
  <2> QED BY <2>1, <2>2
<1>20. Reserved(s, v, c, r, staged)
  <2>1. own.staged = staged
    BY <1>15 DEF Registration
  <2>2. own.held => own.reattaching
    BY <1>4, <1>15 DEF Unused
  <2>3. FreshReg(own, c)
    BY <1>15, <2>2 DEF FreshReg
  <2>4. DOMAIN v.regs = Regs(s) \cup {n}
    BY <1>5, <1>17
  <2>5. StagedOpen(s, v)
    <3> SUFFICES ASSUME NEW i \in Staged(s) PROVE ~v.regs[i].closed
      BY DEF StagedOpen
    <3>1. i \in Regs(s) /\ i # h /\ ~s.regs[i].closed
      BY <1>6, <1>7 DEF Staged, Public
    <3> QED BY <1>17, <3>1
  <2> QED BY <1>15, <1>17, <1>18, <1>19, <2>1, <2>3, <2>4, <2>5 DEF Reserved, n
<1>21. h # 0 => v.regs[h].closed
  BY <1>7, <1>17, Typed, <1>1 DEF Registration
<1>22. RecordsOK(v)
  <2> SUFFICES ASSUME NEW q \in Routes, v.records[q] # 0
               PROVE  v.records[q] \in Regs(v) /\ v.regs[v.records[q]].route = q /\ Public(v, v.records[q])
    BY DEF RecordsOK
  <2>1. CASE q = r
    BY <1>5, <1>15, <1>17, <2>1 DEF Public
  <2>2. CASE q # r
    <3>1. /\ s.records[q] \in Regs(s) /\ s.regs[s.records[q]].route = q /\ Public(s, s.records[q])
          /\ v.records[q] = s.records[q]
      BY <1>1, <1>17, <2>2 DEF RegistryOK, RecordsOK
    <3>2. s.records[q] # h
      BY <1>7, <2>2, <3>1, <1>6
    <3> QED BY <1>5, <1>17, <3>1, <3>2 DEF Public
  <2> QED BY <2>1, <2>2
<1>23. PublicOK(v)
  <2> SUFFICES ASSUME NEW i \in Regs(v), Public(v, i) PROVE v.records[v.regs[i].route] = i
    BY DEF PublicOK
  <2>1. CASE i = n
    BY <1>15, <1>17, <2>1
  <2>2. CASE i \in Regs(s)
    <3>1. i # h
      BY <1>6, <1>21, <2>2 DEF Public
    <3>2. v.regs[i] = s.regs[i] /\ Public(s, i) /\ s.regs[i].route \in Routes
      BY <1>1, <1>17, <2>2, <3>1, Typed DEF Public, Registration
    <3>3. s.records[s.regs[i].route] = i
      BY <1>1, <2>2, <3>2 DEF RegistryOK, PublicOK
    <3> QED BY <1>17, <3>1, <3>2, <3>3
  <2> QED BY <1>5, <1>17, <2>1, <2>2
<1>24. StagedOK(v) /\ FlagsOK(v)
  <2> SUFFICES ASSUME NEW i \in Regs(v)
               PROVE  (v.regs[i].staged => Unused(v.regs[i])) /\ FlagsFit(v.regs[i], Regs(v))
    BY DEF StagedOK, FlagsOK
  <2>1. CASE i = n
    <3>1. own.from \in {0} \cup Regs(v)
      BY <1>4, <1>5, <1>7, <1>15, <1>17
    <3> QED BY <1>15, <1>17, <2>1, <3>1 DEF FlagsFit
  <2>2. CASE i \in Regs(s)
    <3>1. CalmReg(s.regs[i], v.regs[i], Regs(v))
      BY <1>18, <2>2
    <3>2. FlagsFit(s.regs[i], Regs(s)) /\ (s.regs[i].staged => Unused(s.regs[i]))
      BY <1>1, <2>2 DEF RegistryOK, FlagsOK, StagedOK
    <3> QED BY <3>1, <3>2 DEF CalmReg, FlagsFit, Unused
  <2> QED BY <1>5, <1>17, <2>1, <2>2
<1>25. Staged(v) \subseteq Staged(s) /\ \A i \in Staged(v) : v.regs[i].route = s.regs[i].route /\ v.regs[i].marker = s.regs[i].marker
  <2> SUFFICES ASSUME NEW i \in Staged(v)
               PROVE  i \in Staged(s) /\ v.regs[i].route = s.regs[i].route /\ v.regs[i].marker = s.regs[i].marker
    OBVIOUS
  <2>1. i # n
    BY <1>15, <1>17 DEF Staged
  <2>2. i \in Regs(s)
    BY <1>5, <1>17, <2>1 DEF Staged
  <2> QED BY <1>18, <2>2 DEF CalmReg, Staged
<1>26. StagedApart(v)
  BY <1>1, <1>25 DEF StagedApart, RegistryOK
<1>27. RegistryOK(v)
  BY <1>6, <1>16, <1>17, <1>22, <1>23, <1>24, <1>26 DEF RegistryOK
<1>28. own.marker = Top(s, r) /\ Top(s, r) \in Nat
  <2>1. Top(s, r) \in Nat /\ s.floor[r] <= Top(s, r)
    BY <1>1, TopNat DEF MarkersOK
  <2>2. CASE h = 0
    BY <1>4, <1>15, <2>1, <2>2 DEF Top
  <2>3. CASE h # 0
    <3>1. Top(s, r) = s.regs[h].marker
      BY <2>3 DEF Top
    <3> QED BY <1>1, <1>15, <2>1, <2>3, <3>1 DEF Larger
  <2> QED BY <2>2, <2>3
<1>29. \A q \in Routes : Top(v, q) = Top(s, q) /\ v.floor[q] <= Top(v, q)
  <2> SUFFICES ASSUME NEW q \in Routes PROVE Top(v, q) = Top(s, q) /\ v.floor[q] <= Top(v, q)
    OBVIOUS
  <2>1. \/ v.floor[q] = s.floor[q]
        \/ h # 0 /\ s.regs[h].route = q /\ v.floor[q] = s.regs[h].marker
    <3>1. v.floor[q] = t.floor[q]
            \/ \E i \in Held(t, r) : t.regs[i].route = q /\ v.floor[q] = t.regs[i].marker
      BY <1>10, <1>12, <1>16
    <3>2. ASSUME NEW i \in Held(t, r), t.regs[i].route = q, v.floor[q] = t.regs[i].marker
          PROVE  h # 0 /\ s.regs[h].route = q /\ v.floor[q] = s.regs[h].marker
      <4>1. i = h /\ h # 0
        BY <1>8
      <4> QED BY <1>7, <3>2, <4>1
    <3>3. t.floor[q] = s.floor[q]
      BY <1>5
    <3> QED BY <3>1, <3>2, <3>3
  <2>2. s.floor[q] <= Top(s, q)
    BY <1>1 DEF MarkersOK
  <2>3. CASE q = r
    <3>1. Top(v, q) = Top(s, q)
      BY <1>6, <1>17, <1>28, <2>3 DEF Top
    <3>2. h # 0 => s.regs[h].marker <= Top(s, r)
      BY <1>28 DEF Top
    <3> QED BY <2>1, <2>2, <2>3, <3>1, <3>2
  <2>4. CASE q # r
    <3>1. v.floor[q] = s.floor[q] /\ v.records[q] = s.records[q]
      BY <1>7, <1>17, <2>1, <2>4
    <3>2. s.records[q] # 0 => s.records[q] \in Regs(s) /\ s.records[q] # h
      BY <1>1, <1>7, <2>4 DEF RegistryOK, RecordsOK
    <3>3. Top(v, q) = Top(s, q)
      BY <1>17, <3>1, <3>2 DEF Top
    <3> QED BY <2>2, <3>1, <3>3
  <2> QED BY <2>3, <2>4
<1>30. ASSUME NEW x \in sh PROVE x.marker <= Top(v, x.route) /\ Names(v, x)
  <2>1. x.route \in Routes /\ x.marker <= Top(s, x.route) /\ Names(s, x)
    BY <1>1 DEF MarkersOK, ShownOK
  <2>2. CASE x.route = r
    <3>1. CASE h = 0
      <4>1. v.regs[n].checksum = NoValue
        BY <1>4, <1>15, <1>17, <3>1 DEF Unused
      <4> QED BY <1>17, <1>29, <2>1, <2>2, <4>1 DEF Names
    <3>2. CASE h # 0
      <4>1. Top(s, r) = s.regs[h].marker /\ v.regs[n].marker = s.regs[h].marker /\ v.regs[n].checksum = s.regs[h].checksum
        BY <1>15, <1>17, <1>28, <3>2 DEF Top
      <4> QED BY <1>17, <1>29, <2>1, <2>2, <3>2, <4>1 DEF Names
    <3> QED BY <3>1, <3>2
  <2>3. CASE x.route # r
    <3>1. v.records[x.route] = s.records[x.route]
      BY <1>17, <2>1, <2>3
    <3>2. s.records[x.route] # 0 => s.records[x.route] \in Regs(s) /\ s.records[x.route] # h
      BY <1>1, <1>7, <2>1, <2>3 DEF RegistryOK, RecordsOK
    <3>3. s.records[x.route] # 0 => v.regs[s.records[x.route]] = s.regs[s.records[x.route]]
      BY <1>17, <3>2
    <3> QED BY <1>29, <2>1, <3>1, <3>3 DEF Names
  <2> QED BY <2>2, <2>3
<1>31. \A i \in Staged(v) : v.regs[i].marker <= Top(v, v.regs[i].route)
  <2> SUFFICES ASSUME NEW i \in Staged(v) PROVE v.regs[i].marker <= Top(v, v.regs[i].route)
    OBVIOUS
  <2>1. i \in Staged(s) /\ v.regs[i].route = s.regs[i].route /\ v.regs[i].marker = s.regs[i].marker
    BY <1>25
  <2>2. s.regs[i].route \in Routes
    BY <1>1, <2>1, Typed DEF Staged, Registration
  <2> QED BY <1>1, <1>29, <2>1, <2>2 DEF MarkersOK
<1>32. ShownOK(v, sh)
  <2>1. \A x, y \in sh : x.route = y.route /\ x.marker = y.marker => x.value = y.value
    BY <1>1 DEF MarkersOK
  <2> QED BY <1>27, <1>29, <1>30, <1>31, <2>1 DEF MarkersOK, ShownOK
<1> QED BY <1>19, <1>20, <1>32, ServedShown

\* Staged reservations are published, in the place of the records of their routes.
Committed(s, v, c, I) ==
  /\ DOMAIN v.regs = Regs(s) /\ OwnerPassed(s, v, c) /\ (I # {} => v.ns.owner = c)
  /\ \A i \in Regs(s) \ I : CalmReg(s.regs[i], v.regs[i], Regs(v))
  /\ \A i \in I : /\ FreshReg(v.regs[i], c) /\ ~v.regs[i].staged
                  /\ v.regs[i].route = s.regs[i].route /\ v.regs[i].ws = s.regs[i].ws
  /\ StagedOpen(s, v)

LEMMA PublishedEffect ==
  ASSUME NEW s \in Server, Len(s.regs) <= MaxRegs, NEW reg \in Registration,
         s.records[reg.route] \in {0} \cup Regs(s)
  PROVE  LET new == Published(s, reg)  own == Adopted(s, reg)  h == s.records[reg.route] IN
         /\ new \in Registration /\ own.marker \in Nat
         /\ new.ctx = own.ctx /\ new.route = own.route /\ ~new.staged /\ new.active = own.active
         /\ new.closed = own.closed /\ new.held = own.held /\ new.reattaching = own.reattaching
         /\ new.ws = own.ws /\ new.to = own.to /\ new.from = own.from /\ new.checksum = own.checksum
         /\ new.marker = Larger(own.marker, IF h = 0 THEN s.floor[reg.route]
                                            ELSE Larger(s.floor[reg.route], s.regs[h].marker))
<1> DEFINE own == Adopted(s, reg)
           h == s.records[reg.route]
           passedOn == IF h = 0 THEN s.floor[reg.route] ELSE Larger(s.floor[reg.route], s.regs[h].marker)
           m == Larger(own.marker, passedOn)
           new == [own EXCEPT !.marker = m, !.staged = FALSE]
<1>1. own \in Registration
  BY AdoptedEffect DEF Adopts
<1>2. reg.route \in Routes /\ own.marker \in Nat
  BY <1>1 DEF Registration
<1>3. passedOn \in Nat
  <2>1. s.floor[reg.route] \in Nat
    BY <1>2 DEF Server
  <2>2. h # 0 => s.regs[h].marker \in Nat
    BY Typed DEF Registration
  <2> QED BY <2>1, <2>2 DEF Larger
<1>4. Published(s, reg) = new
  <2>1. Published(s, reg) = [own EXCEPT !.marker = Larger(@, passedOn), !.staged = FALSE]
    BY DEF Published
  <2> HIDE DEF own, passedOn
  <2> QED BY <1>1, <2>1 DEF Registration
<1>5. m \in Nat
  BY <1>2, <1>3 DEF Larger
<1> HIDE DEF own, m
<1>6. new \in Registration
  BY <1>1, <1>5 DEF Registration
<1>7. /\ new.ctx = own.ctx /\ new.route = own.route /\ ~new.staged /\ new.active = own.active
      /\ new.closed = own.closed /\ new.held = own.held /\ new.reattaching = own.reattaching
      /\ new.ws = own.ws /\ new.to = own.to /\ new.from = own.from /\ new.checksum = own.checksum
      /\ new.marker = m
  BY <1>1 DEF Registration
<1> QED BY <1>2, <1>4, <1>6, <1>7 DEF own, m

LEMMA CommitStep ==
  ASSUME NEW s, NEW sh, ShownOK(s, sh), NEW c \in Contexts, NEW I \in SUBSET Staged(s),
         \A i \in I : s.regs[i].ctx = c, s.ns.owner # NoOwner,
         NEW replaces, \A i \in I : NoConflict(s, c, s.regs[i].route, replaces, I),
         NEW v, v = Commit(s, c, I)
  PROVE  Committed(s, v, c, I) /\ ShownOK(v, sh \cup Served(v))
<1> DEFINE t == TakeOver(s, c)
           old == Replaced(s, I)
           published(reg) == Published(t, reg)
           f == [i \in DOMAIN s.regs |-> IF i \in I THEN published(s.regs[i]) ELSE s.regs[i]]
           first(r) == CHOOSE i \in I : s.regs[i].route = r
           given(r) == \E i \in I : s.regs[i].route = r
           g == [r \in Routes |-> IF given(r) THEN first(r) ELSE s.records[r]]
           new == [t EXCEPT !.ns.claim = @ /\ I = {}, !.regs = f, !.records = g]
<1>1. /\ RegistryOK(s) /\ MarkersOK(s, sh) /\ s \in Server /\ Calm(s, s) /\ Len(s.regs) <= MaxRegs
      /\ Regs(s) = DOMAIN s.regs /\ s.regs \in Seq(Registration) /\ 0 \notin Regs(s) /\ Regs(s) \subseteq Ids
  BY CalmSame, SharesAssumption DEF ShownOK, RegistryOK, Server, Regs, Ids
<1>2. TakenOver(s, t, c)
  BY <1>1, TakeOverEffect
<1> HIDE DEF t
<1>3. t \in Server /\ t.regs = s.regs /\ t.records = s.records /\ t.floor = s.floor /\ Regs(t) = Regs(s)
  BY <1>2 DEF TakenOver, Regs
<1>4. \A i \in I : /\ i \in Regs(s) /\ s.regs[i] \in Registration /\ s.regs[i].route \in Routes
                   /\ s.regs[i].staged /\ ~s.regs[i].closed /\ Unused(s.regs[i])
  <2> SUFFICES ASSUME NEW i \in I
               PROVE  /\ i \in Regs(s) /\ s.regs[i] \in Registration /\ s.regs[i].route \in Routes
                      /\ s.regs[i].staged /\ ~s.regs[i].closed /\ Unused(s.regs[i])
    OBVIOUS
  <2>1. i \in Regs(s) /\ s.regs[i].staged /\ ~s.regs[i].closed
    BY DEF Staged
  <2>2. s.regs[i] \in Registration /\ Unused(s.regs[i])
    BY <1>1, <2>1, Typed DEF RegistryOK, StagedOK
  <2> QED BY <2>1, <2>2 DEF Registration
<1>5. \A i, j \in I : s.regs[i].route = s.regs[j].route => i = j
  BY <1>1 DEF RegistryOK, StagedApart
<1>6. \A r \in Routes : s.records[r] # 0 =>
        /\ s.records[r] \in Regs(s) /\ s.regs[s.records[r]].route = r /\ s.records[r] \notin I
        /\ ~s.regs[s.records[r]].closed /\ ~s.regs[s.records[r]].staged
  BY <1>1, <1>4 DEF RegistryOK, RecordsOK, Public
\* What is published.
<1>7. ASSUME NEW i \in I
      PROVE  LET reg == s.regs[i]  pub == published(reg)  h == s.records[reg.route] IN
             /\ pub \in Registration /\ pub.ctx = c /\ pub.route = reg.route /\ ~pub.staged
             /\ ~pub.active /\ ~pub.closed /\ pub.ws = reg.ws /\ (pub.held => pub.reattaching)
             /\ pub.from \in {0} \cup Regs(s) /\ pub.to \in {0} \cup Regs(s)
             /\ pub.marker = Top(s, reg.route)
             /\ pub.checksum = NoValue \/ (h # 0 /\ pub.checksum = s.regs[h].checksum)
  <2> DEFINE reg == s.regs[i]
             own == Adopted(t, reg)
             pub == published(reg)
             h == s.records[reg.route]
  <2>1. /\ reg \in Registration /\ reg.route \in Routes /\ ~reg.closed /\ Unused(reg) /\ reg.ctx = c
        /\ h \in {0} \cup Regs(s)
    BY <1>4, <1>6
  <2>2. reg.to \in {0} \cup Regs(s)
    BY <1>1, <1>4 DEF RegistryOK, FlagsOK, FlagsFit
  <2>9. reg.from \in {0} \cup Regs(s)
    BY <1>1, <1>4 DEF RegistryOK, FlagsOK, FlagsFit
  <2>3. Adopts(t, reg, own)
    BY <1>1, <1>3, <2>1, AdoptedEffect
  <2>4. /\ pub \in Registration /\ own.marker \in Nat
        /\ pub.ctx = own.ctx /\ pub.route = own.route /\ ~pub.staged /\ pub.active = own.active
        /\ pub.closed = own.closed /\ pub.held = own.held /\ pub.reattaching = own.reattaching
        /\ pub.ws = own.ws /\ pub.to = own.to /\ pub.from = own.from /\ pub.checksum = own.checksum
        /\ pub.marker = Larger(own.marker, IF h = 0 THEN s.floor[reg.route]
                                           ELSE Larger(s.floor[reg.route], s.regs[h].marker))
    BY <1>1, <1>3, <2>1, PublishedEffect
  <2> HIDE DEF own, pub
  <2>5. /\ own.ctx = reg.ctx /\ own.route = reg.route /\ own.active = reg.active /\ own.closed = reg.closed
        /\ own.ws = reg.ws /\ own.to = reg.to
        /\ \/ own.checksum = s.regs[h].checksum /\ own.marker = Larger(reg.marker, s.regs[h].marker)
              /\ own.held /\ own.reattaching /\ own.from = h /\ h \in Regs(s)
           \/ own = reg
    BY <1>3, <2>3 DEF Adopts
  <2>6. reg.marker \in Nat /\ reg.marker <= Top(s, reg.route) /\ Top(s, reg.route) \in Nat
    BY <1>1, <2>1, TopNat DEF MarkersOK, Registration
  <2>7. s.floor[reg.route] \in Nat /\ s.floor[reg.route] <= Top(s, reg.route)
    BY <1>1, <2>1, TopNat DEF MarkersOK
  <2>8. pub.marker = Top(s, reg.route)
    <3>1. CASE h = 0
      <4>1. Top(s, reg.route) = s.floor[reg.route]
        BY <3>1 DEF Top
      <4>2. own = reg
        BY <1>1, <2>5, <3>1
      <4>3. pub.marker = Larger(reg.marker, s.floor[reg.route])
        BY <2>4, <3>1, <4>2
      <4> QED BY <2>6, <2>7, <4>1, <4>3 DEF Larger
    <3>2. CASE h # 0
      <4>1. Top(s, reg.route) = s.regs[h].marker
        BY <3>2 DEF Top
      <4>2. pub.marker = Larger(own.marker, Larger(s.floor[reg.route], s.regs[h].marker))
        BY <2>4, <3>2
      <4>3. own.marker = reg.marker \/ own.marker = Larger(reg.marker, s.regs[h].marker)
        BY <2>5
      <4> HIDE DEF reg, h
      <4> QED BY <2>6, <2>7, <4>1, <4>2, <4>3 DEF Larger
    <3> QED BY <3>1, <3>2
  <2>10. pub.held => pub.reattaching
    BY <2>1, <2>4, <2>5 DEF Unused
  <2>11. pub.checksum = NoValue \/ (h # 0 /\ pub.checksum = s.regs[h].checksum)
    BY <1>1, <2>1, <2>4, <2>5 DEF Unused
  <2>12. /\ pub.ctx = c /\ pub.route = reg.route /\ ~pub.active /\ ~pub.closed /\ pub.ws = reg.ws
         /\ pub.from \in {0} \cup Regs(s) /\ pub.to \in {0} \cup Regs(s)
    BY <2>1, <2>2, <2>9, <2>4, <2>5 DEF Unused
  <2> QED BY <2>4, <2>8, <2>10, <2>11, <2>12 DEF pub
<1> HIDE DEF published
\* The server before the withdrawal.
<1>8. f \in Seq(Registration) /\ DOMAIN f = DOMAIN s.regs /\ Len(f) = Len(s.regs)
  <2>1. f \in [DOMAIN s.regs -> Registration]
    BY <1>1, <1>7, Typed
  <2> HIDE DEF f
  <2> QED BY <1>1, <2>1, MappedSeq
<1>9. g \in [Routes -> {0} \cup Ids] /\ \A r \in Routes : given(r) => g[r] \in I /\ s.regs[g[r]].route = r
  <2>1. \A r \in Routes : given(r) => first(r) \in I /\ s.regs[first(r)].route = r
    OBVIOUS
  <2> HIDE DEF first, given
  <2> QED BY <1>1, <1>4, <2>1 DEF Server
<1>10. v = WithdrawAll(new, old)
  <2> DEFINE named(q, w) == [r \in Routes |-> IF \E i \in I : q[i].route = r
                                              THEN CHOOSE i \in I : q[i].route = r ELSE w[r]]
             filled(q) == [i \in DOMAIN q |-> IF i \in I THEN published(q[i]) ELSE q[i]]
             whole(q, w) ==
               WithdrawAll([t EXCEPT !.ns.claim = @ /\ I = {}, !.regs = filled(q),
                                     !.records = named(q, w)], old)
  <2>1. v = whole(t.regs, t.records)
    BY DEF Commit, CommitWithdrawing, Changed, t, published
  <2>2. whole(t.regs, t.records) = whole(s.regs, s.records)
    <3> HIDE DEF whole, t
    <3> QED BY <1>3
  <2>3. whole(s.regs, s.records) = WithdrawAll(new, old)
    BY DEF Changed
  <2> QED BY <2>1, <2>2, <2>3
<1>11. /\ new \in Server /\ new.regs = f /\ new.records = g /\ new.floor = s.floor /\ Regs(new) = Regs(s)
       /\ new.ns.owner = t.ns.owner /\ new.ns.active = t.ns.active
  <2> DEFINE ns == [t.ns EXCEPT !.claim = @ /\ I = {}]
  <2>1. ns \in Namespace /\ ns.owner = t.ns.owner /\ ns.active = t.ns.active
    BY <1>3 DEF Server, Namespace
  <2>2. new = [t EXCEPT !.ns = ns, !.regs = f, !.records = g]
    BY <1>3 DEF Server
  <2> HIDE DEF ns, f, g, new
  <2> QED BY <1>1, <1>3, <1>8, <1>9, <2>1, <2>2 DEF Server, Regs
<1>12. \A j \in old : /\ j \in Regs(s) /\ j \notin I /\ ~s.regs[j].closed /\ s.records[s.regs[j].route] = j
                      /\ given(s.regs[j].route)
  <2> SUFFICES ASSUME NEW j \in old
               PROVE  /\ j \in Regs(s) /\ j \notin I /\ ~s.regs[j].closed /\ s.records[s.regs[j].route] = j
                      /\ given(s.regs[j].route)
    OBVIOUS
  <2>1. PICK i \in I : j = s.records[s.regs[i].route] /\ j # 0
    BY DEF Replaced
  <2> QED BY <1>4, <1>6, <2>1
<1>13. \A i \in I : LET h == s.records[s.regs[i].route] IN h # 0 => h \in old
  BY DEF Replaced
<1> HIDE DEF old, new
<1>14. Withdrawn(new, old, v)
  BY <1>10, <1>11, <1>12, WithdrawAllEffect
<1>15. /\ v \in Server /\ v.ns = new.ns /\ DOMAIN v.regs = Regs(s) /\ Regs(v) = Regs(s)
  BY <1>1, <1>8, <1>11, <1>14 DEF Withdrawn, Regs
<1>16. Len(v.regs) = Len(s.regs)
  <2>1. v.regs \in Seq(Registration) /\ DOMAIN v.regs = DOMAIN s.regs
    BY <1>1, <1>15 DEF Server
  <2> QED BY <1>1, <2>1
<1>17. \A i \in Regs(s) : f[i] = IF i \in I THEN published(s.regs[i]) ELSE s.regs[i]
  BY <1>1
<1>18. \A r \in Routes : g[r] = IF given(r) THEN g[r] ELSE s.records[r]
  OBVIOUS
<1> HIDE DEF f, g
<1>19. \A i \in I : v.regs[i] = published(s.regs[i])
  <2> SUFFICES ASSUME NEW i \in I PROVE v.regs[i] = published(s.regs[i])
    OBVIOUS
  <2>1. i \in Regs(s) /\ i \in Regs(new) /\ i \notin old /\ new.regs[i] = published(s.regs[i])
    BY <1>4, <1>11, <1>12, <1>17
  <2>2. v.regs[i] = IF i \in old /\ ~new.regs[i].closed
                    THEN [new.regs[i] EXCEPT !.closed = TRUE, !.active = FALSE] ELSE new.regs[i]
    BY <1>14, <2>1 DEF Withdrawn
  <2> QED BY <2>1, <2>2
<1>20. \A i \in Regs(s) \ I : v.regs[i] =
         IF i \in old THEN [s.regs[i] EXCEPT !.closed = TRUE, !.active = FALSE] ELSE s.regs[i]
  <2> SUFFICES ASSUME NEW i \in Regs(s) \ I
               PROVE  v.regs[i] = IF i \in old THEN [s.regs[i] EXCEPT !.closed = TRUE, !.active = FALSE] ELSE s.regs[i]
    OBVIOUS
  <2>1. new.regs[i] = s.regs[i] /\ i \in Regs(new)
    BY <1>11, <1>17
  <2>2. v.regs[i] = IF i \in old /\ ~new.regs[i].closed
                    THEN [new.regs[i] EXCEPT !.closed = TRUE, !.active = FALSE] ELSE new.regs[i]
    BY <1>14, <2>1 DEF Withdrawn
  <2> QED BY <1>12, <2>1, <2>2
<1>21. \A r \in Routes : v.records[r] = g[r]
  <2> SUFFICES ASSUME NEW r \in Routes PROVE g[r] \notin old
    BY <1>11, <1>14 DEF Withdrawn
  <2>1. CASE given(r)
    BY <1>9, <1>12, <2>1
  <2>2. CASE ~given(r)
    <3>1. g[r] = s.records[r]
      BY <1>18, <2>2
    <3>2. CASE s.records[r] = 0
      BY <1>1, <1>12, <3>1, <3>2
    <3>3. CASE s.records[r] # 0
      BY <1>6, <1>12, <2>2, <3>1, <3>3
    <3> QED BY <3>2, <3>3
  <2> QED BY <2>1, <2>2
<1>22. \A r \in Routes : \/ v.floor[r] = s.floor[r]
                         \/ s.records[r] # 0 /\ v.floor[r] = s.regs[s.records[r]].marker
  <2> SUFFICES ASSUME NEW r \in Routes, v.floor[r] # s.floor[r]
               PROVE  s.records[r] # 0 /\ v.floor[r] = s.regs[s.records[r]].marker
    OBVIOUS
  <2>3. v.floor[r] = new.floor[r] \/
          \E i \in old : ~new.regs[i].closed /\ new.regs[i].route = r /\ v.floor[r] = new.regs[i].marker
    BY <1>14 DEF Withdrawn
  <2>1. PICK i \in old : new.regs[i].route = r /\ v.floor[r] = new.regs[i].marker
    BY <1>11, <2>3
  <2>2. new.regs[i] = s.regs[i]
    BY <1>11, <1>12, <1>17
  <2> QED BY <1>1, <1>12, <2>1, <2>2
\* What was there.
<1>23. ASSUME NEW i \in Regs(s) \ I PROVE CalmReg(s.regs[i], v.regs[i], Regs(v))
  <2>1. CalmReg(s.regs[i], s.regs[i], Regs(s)) /\ s.regs[i] \in Registration
    BY <1>1, Typed DEF Calm
  <2>2. CalmReg(s.regs[i], [s.regs[i] EXCEPT !.closed = TRUE, !.active = FALSE], Regs(s))
    BY <2>1 DEF CalmReg, Registration
  <2> QED BY <1>15, <1>20, <2>1, <2>2
<1>24. OwnerPassed(s, v, c) /\ (I # {} => v.ns.owner = c)
  <2>1. v.ns.owner = t.ns.owner /\ v.ns.active = t.ns.active
    BY <1>11, <1>15
  <2>2. OwnerPassed(s, v, c)
    BY <1>2, <2>1 DEF TakenOver, OwnerPassed, CanTakeOver
  <2>3. ASSUME I # {} PROVE v.ns.owner = c
    <3>1. PICK i \in I : NoConflict(s, c, s.regs[i].route, replaces, I)
      BY <2>3
    <3>2. s.ns.owner = c \/ CanTakeOver(s, c)
      BY <3>1 DEF NoConflict
    <3> QED BY <1>2, <2>1, <3>2 DEF TakenOver, CanTakeOver
  <2> QED BY <2>2, <2>3
<1>25. Committed(s, v, c, I)
  <2>1. \A i \in I : /\ FreshReg(v.regs[i], c) /\ ~v.regs[i].staged
                     /\ v.regs[i].route = s.regs[i].route /\ v.regs[i].ws = s.regs[i].ws
    BY <1>7, <1>19 DEF FreshReg
  <2>2. StagedOpen(s, v)
    <3> SUFFICES ASSUME NEW i \in Staged(s) PROVE ~v.regs[i].closed
      BY DEF StagedOpen
    <3>1. i \in Regs(s) /\ ~s.regs[i].closed /\ s.regs[i].staged
      BY DEF Staged
    <3>2. i \notin old
      <4>1. s.regs[i].route \in Routes
        BY <1>1, <3>1, Typed DEF Registration
      <4> QED BY <1>1, <1>6, <1>12, <3>1, <4>1
    <3>3. CASE i \in I
      BY <1>7, <1>19, <3>3
    <3>4. CASE i \notin I
      BY <1>20, <3>1, <3>2, <3>4
    <3> QED BY <3>3, <3>4
  <2> QED BY <1>15, <1>23, <1>24, <2>1, <2>2 DEF Committed
\* The registry.
<1>26. \A i \in I : v.records[s.regs[i].route] = i
  BY <1>4, <1>5, <1>9, <1>21
<1>27. \A r \in Routes : ~given(r) => v.records[r] = s.records[r]
  BY <1>18, <1>21
<1>28. ASSUME NEW r \in Routes, v.records[r] # 0
       PROVE  v.records[r] \in Regs(v) /\ v.regs[v.records[r]].route = r /\ Public(v, v.records[r])
  <2>1. CASE given(r)
    <3>1. PICK i \in I : s.regs[i].route = r
      BY <2>1
    <3>2. v.records[r] = i
      BY <1>26, <3>1
    <3> QED BY <1>4, <1>7, <1>15, <1>19, <3>1, <3>2 DEF Public
  <2>2. CASE ~given(r)
    <3>1. v.records[r] = s.records[r] /\ s.records[r] \in Regs(s) \ I /\ s.records[r] \notin old
      BY <1>6, <1>12, <1>27, <1>28, <2>2
    <3>2. v.regs[s.records[r]] = s.regs[s.records[r]]
      BY <1>20, <3>1
    <3> QED BY <1>6, <1>15, <1>28, <3>1, <3>2 DEF Public
  <2> QED BY <2>1, <2>2
<1>29. ASSUME NEW i \in Regs(v), Public(v, i) PROVE v.records[v.regs[i].route] = i
  <2>1. CASE i \in I
    BY <1>7, <1>19, <1>26, <2>1
  <2>2. CASE i \notin I
    <3>1. i \in Regs(s) \ I /\ s.regs[i] \in Registration
      BY <1>1, <1>15, <2>2, Typed
    <3>2. i \notin old
      BY <1>20, <1>29, <3>1 DEF Public, Registration
    <3>3. v.regs[i] = s.regs[i] /\ Public(s, i)
      BY <1>20, <1>29, <3>1, <3>2 DEF Public
    <3>4. s.regs[i].route \in Routes /\ s.records[s.regs[i].route] = i /\ i # 0
      BY <1>1, <3>1, <3>3 DEF RegistryOK, PublicOK, Registration
    <3>5. ~given(s.regs[i].route)
      BY <1>13, <3>2, <3>4
    <3> QED BY <1>27, <3>3, <3>4, <3>5
  <2> QED BY <2>1, <2>2
<1>30. ASSUME NEW i \in Regs(v)
       PROVE  (v.regs[i].staged => Unused(v.regs[i])) /\ FlagsFit(v.regs[i], Regs(v))
  <2>1. CASE i \in I
    BY <1>7, <1>15, <1>19, <2>1 DEF FlagsFit
  <2>2. CASE i \notin I
    <3>1. CalmReg(s.regs[i], v.regs[i], Regs(v)) /\ i \in Regs(s)
      BY <1>15, <1>23, <2>2
    <3>2. FlagsFit(s.regs[i], Regs(s)) /\ (s.regs[i].staged => Unused(s.regs[i]))
      BY <1>1, <3>1 DEF RegistryOK, FlagsOK, StagedOK
    <3> QED BY <3>1, <3>2 DEF CalmReg, FlagsFit, Unused
  <2> QED BY <2>1, <2>2
<1>31. \A i \in Staged(v) : i \in Staged(s) /\ v.regs[i].route = s.regs[i].route /\ v.regs[i].marker = s.regs[i].marker
  <2> SUFFICES ASSUME NEW i \in Staged(v)
               PROVE  i \in Staged(s) /\ v.regs[i].route = s.regs[i].route /\ v.regs[i].marker = s.regs[i].marker
    OBVIOUS
  <2>1. i \notin I
    BY <1>7, <1>19 DEF Staged
  <2>2. i \in Regs(s)
    BY <1>15 DEF Staged
  <2> QED BY <1>23, <2>1, <2>2 DEF CalmReg, Staged
<1>32. RegistryOK(v)
  <2>1. StagedApart(v)
    BY <1>1, <1>31 DEF StagedApart, RegistryOK
  <2>2. RecordsOK(v) /\ PublicOK(v)
    BY <1>28, <1>29 DEF RecordsOK, PublicOK
  <2>3. StagedOK(v) /\ FlagsOK(v)
    BY <1>30 DEF StagedOK, FlagsOK
  <2> QED BY <1>1, <1>15, <1>16, <2>1, <2>2, <2>3 DEF RegistryOK
\* The markers.
<1>33. ASSUME NEW r \in Routes PROVE Top(v, r) = Top(s, r) /\ v.floor[r] <= Top(v, r)
  <2>1. s.floor[r] <= Top(s, r) /\ Top(s, r) \in Nat
    BY <1>1, TopNat DEF MarkersOK
  <2>2. v.floor[r] <= Top(s, r)
    <3>1. CASE v.floor[r] = s.floor[r]
      BY <2>1, <3>1
    <3>2. CASE s.records[r] # 0 /\ v.floor[r] = s.regs[s.records[r]].marker
      <4>1. Top(s, r) = v.floor[r]
        BY <3>2 DEF Top
      <4> QED BY <2>1, <4>1
    <3> QED BY <1>22, <3>1, <3>2
  <2>3. CASE given(r)
    <3>1. PICK i \in I : s.regs[i].route = r
      BY <2>3
    <3>2. v.records[r] = i /\ i # 0 /\ v.regs[i].marker = Top(s, r)
      BY <1>1, <1>4, <1>7, <1>19, <1>26, <3>1
    <3> QED BY <2>2, <3>2 DEF Top
  <2>4. CASE ~given(r)
    <3>1. CASE s.records[r] = 0
      <4>1. v.floor[r] = s.floor[r] /\ v.records[r] = 0
        BY <1>22, <1>27, <2>4, <3>1
      <4> QED BY <2>1, <3>1, <4>1 DEF Top
    <3>2. CASE s.records[r] # 0
      <4>1. v.records[r] = s.records[r] /\ s.records[r] \in Regs(s) \ I
        BY <1>6, <1>27, <2>4, <3>2
      <4>2. v.regs[s.records[r]].marker = s.regs[s.records[r]].marker
        BY <1>23, <4>1 DEF CalmReg
      <4> QED BY <2>2, <3>2, <4>1, <4>2 DEF Top
    <3> QED BY <3>1, <3>2
  <2> QED BY <2>3, <2>4
<1>34. ASSUME NEW x \in sh PROVE x.marker <= Top(v, x.route) /\ Names(v, x)
  <2>1. x.route \in Routes /\ x.marker <= Top(s, x.route) /\ Names(s, x)
    BY <1>1 DEF MarkersOK, ShownOK
  <2>2. CASE given(x.route)
    <3>1. PICK i \in I : s.regs[i].route = x.route
      BY <2>2
    <3>2. /\ v.records[x.route] = i /\ v.regs[i].marker = Top(s, x.route)
          /\ \/ v.regs[i].checksum = NoValue
             \/ s.records[x.route] # 0 /\ v.regs[i].checksum = s.regs[s.records[x.route]].checksum
      BY <1>7, <1>19, <1>26, <3>1
    <3> QED BY <1>33, <2>1, <3>2 DEF Names, Top
  <2>3. CASE ~given(x.route)
    <3>1. v.records[x.route] = s.records[x.route]
      BY <1>27, <2>1, <2>3
    <3>2. s.records[x.route] # 0 => CalmReg(s.regs[s.records[x.route]], v.regs[s.records[x.route]], Regs(v))
      BY <1>6, <1>23, <2>1
    <3> QED BY <1>33, <2>1, <3>1, <3>2 DEF Names, CalmReg
  <2> QED BY <2>2, <2>3
<1>35. \A i \in Staged(v) : v.regs[i].marker <= Top(v, v.regs[i].route)
  <2> SUFFICES ASSUME NEW i \in Staged(v) PROVE v.regs[i].marker <= Top(v, v.regs[i].route)
    OBVIOUS
  <2>1. i \in Staged(s) /\ v.regs[i].route = s.regs[i].route /\ v.regs[i].marker = s.regs[i].marker
    BY <1>31
  <2>2. s.regs[i].route \in Routes
    BY <1>1, <2>1, Typed DEF Staged, Registration
  <2> QED BY <1>1, <1>33, <2>1, <2>2 DEF MarkersOK
<1>36. ShownOK(v, sh)
  <2>1. \A x, y \in sh : x.route = y.route /\ x.marker = y.marker => x.value = y.value
    BY <1>1 DEF MarkersOK
  <2> QED BY <1>32, <1>33, <1>34, <1>35, <2>1 DEF MarkersOK, ShownOK
<1> QED BY <1>25, <1>36, ServedShown

-----------------------------------------------------------------------------
(* What the other variables say of registrations stays true. *)

Follows(s, t) == Regs(s) \subseteq Regs(t) /\ \A i \in Regs(s) : t.regs[i].ctx = s.regs[i].ctx

LEMMA FollowsRefers ==
  ASSUME NEW s, NEW t, Follows(s, t), NEW q, NEW box, NEW o, NEW pp
  PROVE  /\ TasksRefer(q, s) => TasksRefer(q, t)
         /\ InboxOK(box, s, o) => InboxOK(box, t, o)
         /\ PutsRefer(pp, s) => PutsRefer(pp, t)
<1>1. TasksRefer(q, s) => TasksRefer(q, t)
  BY DEF Follows, TasksRefer, TaskRefs, TaskOf
<1>2. InboxOK(box, s, o) => InboxOK(box, t, o)
  BY DEF Follows, InboxOK, InboxAt, MessageFits
<1>3. PutsRefer(pp, s) => PutsRefer(pp, t)
  BY DEF Follows, PutsRefer, PutRefs
<1> QED BY <1>1, <1>2, <1>3

-----------------------------------------------------------------------------
(* The coroutines. *)

LEMMA PopSeq ==
  ASSUME NEW S, NEW q \in Seq(S), q # <<>>
  PROVE  /\ Tail(q) \in Seq(S) /\ 1 \in DOMAIN q /\ Head(q) = q[1] /\ q[1] \in S
         /\ \A k \in DOMAIN Tail(q) : k \in Nat /\ k + 1 \in DOMAIN q /\ Tail(q)[k] = q[k + 1]
         /\ \A k \in DOMAIN q : k # 1 => k \in Nat /\ k - 1 \in DOMAIN Tail(q) /\ Tail(q)[k - 1] = q[k]
OBVIOUS

LEMMA JoinSeq ==
  ASSUME NEW S, NEW q \in Seq(S), NEW w \in Seq(S)
  PROVE  /\ q \o w \in Seq(S) /\ Len(q) \in Nat
         /\ \A k \in DOMAIN q : k \in DOMAIN (q \o w) /\ (q \o w)[k] = q[k] /\ k \in Nat /\ k <= Len(q)
         /\ \A k \in DOMAIN w : /\ k + Len(q) \in DOMAIN (q \o w) /\ (q \o w)[k + Len(q)] = w[k]
                                /\ k \in Nat /\ 0 < k
         /\ \A k \in DOMAIN (q \o w) : k \in DOMAIN q \/ (k - Len(q) \in DOMAIN w /\ k \in Nat)
OBVIOUS

LEMMA TaskAt ==
  ASSUME NEW q \in Seq(Task), NEW k \in DOMAIN q
  PROVE  q[k] \in Task /\ q[k].ctx \in Contexts
<1>1. q[k] \in Task
  OBVIOUS
<1> QED BY <1>1 DEF Task

Quiet == {"complete", "deliver"}
Free(q, c) == \A k \in DOMAIN q : q[k].ctx = c => q[k].do \in Quiet

LEMMA FreeAt ==
  ASSUME NEW q \in Seq(Task), NEW o, TasksOK(q, o), NEW c,
         o[c] \notin {"attached", "finishing", "undo", "unshare", "unloading", "flagged", "release", "holding"}
  PROVE  Free(q, c)
<1> SUFFICES ASSUME NEW k \in DOMAIN q, q[k].ctx = c PROVE q[k].do \in Quiet
  BY DEF Free
<1>1. o[c] \in StagesOf[q[k].do] /\ q[k] \in Task
  BY DEF TasksOK
<1> QED BY <1>1 DEF StagesOf, Task, Quiet

LEMMA TasksFree ==
  ASSUME NEW q \in Seq(Task), NEW o \in [Contexts -> Stages], TasksOK(q, o), NEW c \in Contexts,
         NEW stage \in Stages, Free(q, c), NEW o2, o2 = [o EXCEPT ![c] = stage]
  PROVE  TasksOK(q, o2)
<1>0. \A k \in DOMAIN q : q[k] \in Task /\ q[k].ctx \in Contexts
  BY TaskAt
<1>1. \A k \in DOMAIN q : q[k].ctx # c => o2[q[k].ctx] = o[q[k].ctx]
  BY <1>0
<1>2. ASSUME NEW k \in DOMAIN q PROVE o2[q[k].ctx] \in StagesOf[q[k].do]
  <2>1. CASE q[k].ctx = c
    BY <2>1 DEF Free, Quiet, StagesOf
  <2>2. CASE q[k].ctx # c
    BY <1>1, <2>2 DEF TasksOK
  <2> QED BY <2>1, <2>2
<1>3. \A k \in DOMAIN q : q[k].do \in Waited \cup {"activate"} => o2[q[k].ctx] = o[q[k].ctx]
  BY <1>1 DEF Free, Quiet, Waited
<1> QED BY <1>2, <1>3 DEF TasksOK, Waited

LEMMA TasksPop ==
  ASSUME NEW q \in Seq(Task), q # <<>>, NEW o, TasksOK(q, o)
  PROVE  /\ TasksOK(Tail(q), o)
         /\ q[1].do \in Waited /\ o[q[1].ctx] # "attached" => Free(Tail(q), q[1].ctx)
<1> DEFINE w == Tail(q)
<1>1. /\ w \in Seq(Task) /\ 1 \in DOMAIN q
      /\ \A k \in DOMAIN w : k \in Nat /\ k + 1 \in DOMAIN q /\ w[k] = q[k + 1]
      /\ \A k \in DOMAIN q : k # 1 => k \in Nat /\ k - 1 \in DOMAIN w /\ w[k - 1] = q[k]
      /\ \A k \in DOMAIN q : q[k] \in Task /\ k \in Nat
  BY PopSeq
<1> HIDE DEF w
<1>2. \A k \in DOMAIN w : o[w[k].ctx] \in StagesOf[w[k].do]
  BY <1>1 DEF TasksOK
<1>3. ASSUME NEW j \in DOMAIN w, NEW k \in DOMAIN w
      PROVE  /\ (w[j].ctx = w[k].ctx /\ o[w[j].ctx] # "attached" /\ w[j].do \in Waited /\ w[k].do \in Waited => j = k)
             /\ (w[j].do = "activate" /\ w[k].do = "activate" /\ w[j].reg = w[k].reg => j = k)
  <2>1. /\ j \in Nat /\ k \in Nat /\ j + 1 \in DOMAIN q /\ k + 1 \in DOMAIN q
        /\ w[j] = q[j + 1] /\ w[k] = q[k + 1] /\ (j + 1 = k + 1 => j = k)
    BY <1>1
  <2> QED BY <2>1 DEF TasksOK
<1>4. ASSUME NEW j \in DOMAIN w, w[j].do = "unregister", o[w[j].ctx] = "attached"
      PROVE  \E k \in DOMAIN w : j < k /\ w[k].do = "activate" /\ w[k].ctx = w[j].ctx
  <2>1. j \in Nat /\ j + 1 \in DOMAIN q /\ w[j] = q[j + 1]
    BY <1>1
  <2>2. PICK k \in DOMAIN q : j + 1 < k /\ q[k].do = "activate" /\ q[k].ctx = q[j + 1].ctx
    BY <1>4, <2>1 DEF TasksOK
  <2>3. k \in Nat /\ k # 1 /\ j < k - 1
    BY <1>1, <2>1, <2>2
  <2>4. k - 1 \in DOMAIN w /\ w[k - 1] = q[k]
    BY <1>1, <2>2, <2>3
  <2> QED BY <2>1, <2>2, <2>3, <2>4
<1>5. ASSUME q[1].do \in Waited, o[q[1].ctx] # "attached" PROVE Free(w, q[1].ctx)
  <2> SUFFICES ASSUME NEW k \in DOMAIN w, w[k].ctx = q[1].ctx PROVE w[k].do \in Quiet
    BY DEF Free
  <2>1. w[k] = q[k + 1] /\ k + 1 \in DOMAIN q /\ k + 1 # 1 /\ q[k + 1] \in Task
    BY <1>1
  <2>2. q[k + 1].do \notin Waited
    BY <1>1, <1>5, <2>1 DEF TasksOK
  <2>3. o[q[1].ctx] \in StagesOf[q[1].do] /\ o[q[1].ctx] \in StagesOf[q[k + 1].do]
    BY <1>1, <2>1 DEF TasksOK
  <2> QED BY <1>5, <2>1, <2>2, <2>3, SMTT(20) DEF StagesOf, Waited, Quiet, Task
<1> QED BY <1>2, <1>3, <1>4, <1>5 DEF TasksOK, w

\* The call that waits for a coroutine goes on.
AfterStage(o, c) == IF o[c] \in DOMAIN After THEN [o EXCEPT ![c] = After[o[c]]] ELSE o
LEMMA TasksAwait ==
  ASSUME NEW q \in Seq(Task), q # <<>>, NEW o \in [Contexts -> Stages], TasksOK(q, o), q[1].do \in Waited
  PROVE  /\ TasksOK(Tail(q), AfterStage(o, q[1].ctx)) /\ AfterStage(o, q[1].ctx) \in [Contexts -> Stages]
         /\ Tail(q) \in Seq(Task)
<1> DEFINE c == q[1].ctx
<1>1. Tail(q) \in Seq(Task) /\ q[1] \in Task /\ c \in Contexts
  BY PopSeq, TaskAt
<1>2. TasksOK(Tail(q), o) /\ (o[c] # "attached" => Free(Tail(q), c))
  BY TasksPop
<1>3. CASE o[c] \in DOMAIN After
  <2>1. After[o[c]] \in Stages /\ o[c] # "attached" /\ AfterStage(o, c) = [o EXCEPT ![c] = After[o[c]]]
    BY <1>3 DEF After, Stages, AfterStage
  <2>2. [o EXCEPT ![c] = After[o[c]]] \in [Contexts -> Stages]
    BY <2>1
  <2> QED BY <1>1, <1>2, <2>1, <2>2, TasksFree
<1>4. CASE o[c] \notin DOMAIN After
  BY <1>1, <1>2, <1>4 DEF AfterStage
<1> QED BY <1>3, <1>4

\* Coroutines that are submitted are of other Contexts than those which are there, or may come at any time.
Apart(q, w) ==
  \A j \in DOMAIN q, k \in DOMAIN w : q[j].ctx = w[k].ctx => q[j].do \in Quiet \/ w[k].do \in Quiet

LEMMA TasksJoin ==
  ASSUME NEW s, NEW q \in Seq(Task), NEW w \in Seq(Task), NEW o, TasksOK(q, o), TasksOK(w, o),
         Apart(q, w), TasksRefer(q, s), TasksRefer(w, s)
  PROVE  TasksOK(q \o w, o)
<1> DEFINE all == q \o w
           n == Len(q)
<1>1. /\ all \in Seq(Task) /\ n \in Nat
      /\ \A k \in DOMAIN q : k \in DOMAIN all /\ all[k] = q[k] /\ k \in Nat /\ k <= n
      /\ \A k \in DOMAIN w : k + n \in DOMAIN all /\ all[k + n] = w[k] /\ k \in Nat /\ 0 < k
      /\ \A k \in DOMAIN all : k \in DOMAIN q \/ (k - n \in DOMAIN w /\ k \in Nat)
  BY JoinSeq
<1> HIDE DEF all, n
<1>2. \A k \in DOMAIN all : k \notin DOMAIN q => k \in Nat /\ k - n \in DOMAIN w /\ all[k] = w[k - n]
  <2> SUFFICES ASSUME NEW k \in DOMAIN all, k \notin DOMAIN q
               PROVE  k \in Nat /\ k - n \in DOMAIN w /\ all[k] = w[k - n]
    OBVIOUS
  <2>1. k \in Nat /\ k - n \in DOMAIN w /\ (k - n) + n = k
    BY <1>1
  <2>2. all[(k - n) + n] = w[k - n]
    BY <1>1, <2>1
  <2> QED BY <2>1, <2>2
<1>3. \A k \in DOMAIN all : o[all[k].ctx] \in StagesOf[all[k].do]
  BY <1>1, <1>2 DEF TasksOK
<1>4. ASSUME NEW j \in DOMAIN q, NEW k \in DOMAIN w
      PROVE  /\ ~(q[j].ctx = w[k].ctx /\ q[j].do \in Waited /\ w[k].do \in Waited)
             /\ ~(q[j].do = "activate" /\ w[k].do = "activate" /\ q[j].reg = w[k].reg)
  BY DEF Apart, TasksRefer, TaskRefs, TaskOf, Quiet, Waited
<1>5. ASSUME NEW j \in DOMAIN all, NEW k \in DOMAIN all, all[j].ctx = all[k].ctx,
             o[all[j].ctx] # "attached", all[j].do \in Waited, all[k].do \in Waited
      PROVE  j = k
  <2>1. CASE j \in DOMAIN q /\ k \in DOMAIN q
    BY <1>1, <1>5, <2>1 DEF TasksOK
  <2>2. CASE j \notin DOMAIN q /\ k \notin DOMAIN q
    <3>1. j - n = k - n /\ j \in Nat /\ k \in Nat
      BY <1>2, <1>5, <2>2 DEF TasksOK
    <3> QED BY <1>1, <3>1
  <2>3. CASE ~(j \in DOMAIN q <=> k \in DOMAIN q)
    BY <1>1, <1>2, <1>4, <1>5, <2>3
  <2> QED BY <2>1, <2>2, <2>3
<1>6. ASSUME NEW j \in DOMAIN all, NEW k \in DOMAIN all,
             all[j].do = "activate", all[k].do = "activate", all[j].reg = all[k].reg
      PROVE  j = k
  <2>1. CASE j \in DOMAIN q /\ k \in DOMAIN q
    BY <1>1, <1>6, <2>1 DEF TasksOK
  <2>2. CASE j \notin DOMAIN q /\ k \notin DOMAIN q
    <3>1. j - n = k - n /\ j \in Nat /\ k \in Nat
      BY <1>2, <1>6, <2>2 DEF TasksOK
    <3> QED BY <1>1, <3>1
  <2>3. CASE ~(j \in DOMAIN q <=> k \in DOMAIN q)
    BY <1>1, <1>2, <1>4, <1>6, <2>3
  <2> QED BY <2>1, <2>2, <2>3
<1>7. ASSUME NEW j \in DOMAIN all, all[j].do = "unregister", o[all[j].ctx] = "attached"
      PROVE  \E k \in DOMAIN all : j < k /\ all[k].do = "activate" /\ all[k].ctx = all[j].ctx
  <2>1. CASE j \in DOMAIN q
    <3>1. all[j] = q[j]
      BY <1>1, <2>1
    <3>2. PICK k \in DOMAIN q : j < k /\ q[k].do = "activate" /\ q[k].ctx = q[j].ctx
      BY <1>7, <2>1, <3>1 DEF TasksOK
    <3>3. k \in DOMAIN all /\ all[k] = q[k]
      BY <1>1
    <3> QED BY <3>1, <3>2, <3>3
  <2>2. CASE j \notin DOMAIN q
    <3>1. all[j] = w[j - n] /\ j - n \in DOMAIN w /\ j \in Nat
      BY <1>2, <2>2
    <3>2. PICK k \in DOMAIN w : j - n < k /\ w[k].do = "activate" /\ w[k].ctx = w[j - n].ctx
      BY <1>7, <3>1 DEF TasksOK
    <3>3. k + n \in DOMAIN all /\ all[k + n] = w[k] /\ k \in Nat
      BY <1>1
    <3>4. j < k + n
      BY <1>1, <3>1, <3>2, <3>3
    <3> QED BY <3>1, <3>2, <3>3, <3>4
  <2> QED BY <2>1, <2>2
<1> QED BY <1>3, <1>5, <1>6, <1>7 DEF TasksOK, all

LEMMA ReferJoin ==
  ASSUME NEW s, NEW q \in Seq(Task), NEW w \in Seq(Task), TasksRefer(q, s), TasksRefer(w, s)
  PROVE  TasksRefer(q \o w, s) /\ q \o w \in Seq(Task)
<1>1. /\ q \o w \in Seq(Task)
      /\ \A k \in DOMAIN (q \o w) : (\E j \in DOMAIN q : (q \o w)[k] = q[j])
                                      \/ \E j \in DOMAIN w : (q \o w)[k] = w[j]
  OBVIOUS
<1> QED BY <1>1 DEF TasksRefer

LEMMA ReferPop ==
  ASSUME NEW s, NEW q \in Seq(Task), q # <<>>, TasksRefer(q, s)
  PROVE  TasksRefer(Tail(q), s)
BY PopSeq DEF TasksRefer

\* Coroutines that may come at any time.
LEMMA QuietTasks ==
  ASSUME NEW w \in Seq(Task), \A k \in DOMAIN w : w[k].do \in Quiet, NEW o \in [Contexts -> Stages], NEW q
  PROVE  TasksOK(w, o) /\ Apart(q, w)
<1>1. \A k \in DOMAIN w : o[w[k].ctx] \in StagesOf[w[k].do]
  <2> SUFFICES ASSUME NEW k \in DOMAIN w PROVE o[w[k].ctx] \in StagesOf[w[k].do]
    OBVIOUS
  <2>1. o[w[k].ctx] \in Stages
    BY TaskAt
  <2>2. StagesOf[w[k].do] = Stages
    BY DEF Quiet, StagesOf
  <2> QED BY <2>1, <2>2
<1> QED BY <1>1 DEF TasksOK, Apart, Quiet, Waited

\* What a set of registrations needs is submitted in some order.
EachOf(w, do, c, I) ==
  /\ w \in Seq(Task)
  /\ \A k \in DOMAIN w : w[k].do = do /\ w[k].ctx = c /\ w[k].reg \in I
  /\ \A i \in I : \E k \in DOMAIN w : w[k].reg = i
  /\ \A j, k \in DOMAIN w : w[j].reg = w[k].reg => j = k

LEMMA EachTasks ==
  ASSUME NEW c \in Contexts, NEW I \in SUBSET Ids,
         NEW do \in {"activate", "unregister", "hold"}
  PROVE  EachOf(Each(do, c, I), do, c, I)
<1> DEFINE f == SetToSeq(I)
           n == Cardinality(I)
           w == [k \in DOMAIN f |-> Todo(do, c, f[k])]
<1>1. IsFiniteSet(I)
  <2>1. MaxRegs \in Int /\ 1 \in Int
    BY SharesAssumption
  <2>2. IsFiniteSet(1..MaxRegs)
    BY <2>1, FS_Interval
  <2> QED BY <2>2, FS_Subset DEF Ids
<1>2. n \in Nat /\ \E g \in [1..n -> I] : g \in Bijection(1..n, I)
  <2>1. n \in Nat /\ ExistsBijection(1..n, I)
    BY <1>1, FS_CardinalityType
  <2> QED BY <2>1 DEF ExistsBijection, Bijection, Injection
<1>3. \E g \in [1..n -> I] : IsInjective(g)
  BY <1>2 DEF Bijection, Injection, IsInjective
<1>4. f \in [1..n -> I] /\ IsInjective(f)
  BY <1>3 DEF SetToSeq
<1>5. \A i \in I : \E k \in 1..n : f[k] = i
  <2>1. f \in Injection(1..n, I)
    BY <1>4 DEF Injection, IsInjective
  <2>2. IsFiniteSet(1..n) /\ Cardinality(1..n) = n
    <3>1. 1 \in Int /\ n \in Int
      BY <1>2
    <3>2. Cardinality(1..n) = IF 1 > n THEN 0 ELSE n - 1 + 1
      BY <3>1, FS_Interval
    <3> QED BY <1>2, <3>1, <3>2, FS_Interval
  <2> HIDE DEF f, n
  <2>3. f \in Surjection(1..n, I)
    BY <1>1, <2>1, <2>2, FS_Injection DEF n
  <2> QED BY <2>3 DEF Surjection
<1> HIDE DEF f, n
<1>6. DOMAIN w = 1..n /\ \A k \in 1..n : w[k] = Todo(do, c, f[k])
  BY <1>4
<1>7. \A k \in 1..n : w[k] \in Task /\ w[k].do = do /\ w[k].ctx = c /\ w[k].reg = f[k] /\ f[k] \in I
  BY <1>4, <1>6 DEF Todo, Task
<1>8. w \in Seq(Task)
  <2>1. w \in [1..n -> Task]
    BY <1>6, <1>7
  <2> HIDE DEF w
  <2> QED BY <1>2, <2>1
<1>9. Each(do, c, I) = w
  BY DEF Each, f
<1> HIDE DEF w
<1> QED BY <1>4, <1>5, <1>6, <1>7, <1>8, <1>9 DEF EachOf, IsInjective

-----------------------------------------------------------------------------
(* The owner of the namespace. *)

SameClosed(o, o2) == \A c \in Contexts : o2[c] = "closed" <=> o[c] = "closed"
\* A public registration was there, or is its owner's.
Follower(s, t, o, i) ==
  \/ /\ i \in Regs(s) /\ Public(s, i) /\ t.regs[i].ctx = s.regs[i].ctx
     /\ t.regs[i].active => s.regs[i].active
     /\ t.regs[i].reattaching => s.regs[i].reattaching
  \/ t.ns.owner = t.regs[i].ctx /\ o[t.regs[i].ctx] # "closed"

LEMMA OwnerStep ==
  ASSUME NEW s \in Server, NEW o, NEW o2, OwnerOK(s, o), SameClosed(o, o2), NEW t \in Server,
         OwnerKept(s, t) \/ \E c \in Contexts : OwnerPassed(s, t, c) /\ o[c] # "closed",
         \A i \in Regs(t) : Public(t, i) => Follower(s, t, o, i)
  PROVE  OwnerOK(t, o2)
<1>1. \A i \in Regs(s) : s.regs[i].ctx \in Contexts
  BY Typed DEF Registration
<1>2. \A i \in Regs(t) : t.regs[i].ctx \in Contexts
  BY Typed DEF Registration
<1>3. s.ns.owner \in Contexts \cup {NoOwner} /\ t.ns.owner \in Contexts \cup {NoOwner} /\ NoOwner \notin Contexts
  BY SharesAssumption DEF Server, Namespace
<1>4. CASE t.ns.owner = s.ns.owner /\ t.ns.active = s.ns.active
  <2>1. \A i \in Regs(t) : Public(t, i) => OwnerFits(t, o2, i)
    BY <1>1, <1>2, <1>4 DEF OwnerOK, OwnerFits, Follower, SameClosed
  <2>2. t.ns.owner # NoOwner /\ ~t.ns.active => o2[t.ns.owner] = "closed"
    BY <1>3, <1>4 DEF OwnerOK, SameClosed
  <2> QED BY <2>1, <2>2 DEF OwnerOK
<1>5. CASE t.ns.owner = NoOwner /\ \A i \in Regs(t) : ~Public(t, i)
  BY <1>5 DEF OwnerOK
<1>6. ASSUME NEW c \in Contexts, t.ns.owner = c, t.ns.active, s.ns.owner = NoOwner \/ ~s.ns.active, o[c] # "closed"
      PROVE  OwnerOK(t, o2)
  <2>1. ASSUME NEW i \in Regs(t), Public(t, i) PROVE OwnerFits(t, o2, i)
    <3>1. CASE t.ns.owner = t.regs[i].ctx /\ o[t.regs[i].ctx] # "closed"
      BY <1>2, <3>1 DEF OwnerFits, SameClosed
    <3>2. CASE /\ i \in Regs(s) /\ Public(s, i) /\ t.regs[i].ctx = s.regs[i].ctx
               /\ t.regs[i].active => s.regs[i].active
               /\ t.regs[i].reattaching => s.regs[i].reattaching
      <4>1. o[s.regs[i].ctx] = "closed"
        BY <1>1, <1>3, <1>6, <3>2 DEF OwnerOK, OwnerFits
      <4> QED BY <1>1, <3>2, <4>1 DEF OwnerOK, OwnerFits, SameClosed
    <3> QED BY <2>1, <3>1, <3>2 DEF Follower
  <2> QED BY <1>6, <2>1 DEF OwnerOK
<1> QED BY <1>4, <1>5, <1>6 DEF OwnerKept, OwnerPassed

LEMMA OwnerCalm ==
  ASSUME NEW s \in Server, NEW o, NEW o2, OwnerOK(s, o), SameClosed(o, o2), NEW t, Calm(s, t)
  PROVE  OwnerOK(t, o2)
<1>1. \A i \in Regs(t) : Public(t, i) => Follower(s, t, o, i)
  BY DEF Calm, CalmReg, Public, Follower, Regs
<1> QED BY <1>1, OwnerStep DEF Calm

-----------------------------------------------------------------------------
(* The sessions. *)

Settled == {"idle", "undone", "release", "flagged", "begun", "refusing", "flushing"}
Ended == {"finishing", "holding", "closed"}

\* The registrations of d are the same, but for some that are closed.
SessionsFollow(s, t, ss, ss2, q, q2, d) ==
  \A i \in Regs(t) : t.regs[i].ctx = d =>
    /\ i \in Regs(s) /\ s.regs[i].ctx = d /\ (t.regs[i].staged <=> s.regs[i].staged)
    /\ s.regs[i].closed => t.regs[i].closed
    /\ ss2[i].on <=> ss[i].on
    /\ Loops(q, "unregister", i) => Loops(q2, "unregister", i) \/ t.regs[i].closed
StagedStay(s, t, d) ==
  \A i \in Staged(s) : s.regs[i].ctx = d => i \in Regs(t) /\ t.regs[i].ctx = d /\ ~t.regs[i].closed

LEMMA SessionsKept ==
  ASSUME NEW s, NEW t, NEW ss, NEW ss2, NEW q, NEW q2, NEW stage, NEW d,
         SessionsAt(s, ss, q, stage, d), SessionsFollow(s, t, ss, ss2, q, q2, d),
         stage = "load" => StagedStay(s, t, d)
  PROVE  SessionsAt(t, ss2, q2, stage, d)
<1>1. ASSUME NEW i \in Regs(t), t.regs[i].ctx = d
      PROVE  SessionFits(t.regs[i], ss2[i], stage) /\ PreparedFits(t, ss2, q2, stage, i)
  BY <1>1 DEF SessionsAt, SessionsFollow, SessionFits, PreparedFits
<1>2. Unattached(t, ss2, d) \subseteq Unattached(s, ss, d)
  BY DEF SessionsFollow, Unattached
<1>3. ASSUME stage = "load" PROVE Unattached(t, ss2, d) # {}
  <2>1. PICK i \in Unattached(s, ss, d) : TRUE
    BY <1>3 DEF SessionsAt
  <2>2. i \in Staged(s) /\ s.regs[i].ctx = d /\ ~ss[i].on
    BY <1>3, <2>1 DEF SessionsAt, PreparedFits, Unattached, Staged, Loading
  <2>3. i \in Regs(t) /\ t.regs[i].ctx = d /\ ~t.regs[i].closed
    BY <1>3, <2>2 DEF StagedStay
  <2> QED BY <2>2, <2>3 DEF SessionsFollow, Unattached
<1> QED BY <1>1, <1>2, <1>3 DEF SessionsAt

LEMMA SessionsMove ==
  ASSUME NEW s, NEW t, NEW ss, NEW ss2, NEW q, NEW q2, NEW stage, NEW stage2, NEW d,
         SessionsAt(s, ss, q, stage, d), SessionsFollow(s, t, ss, ss2, q, q2, d), stage2 # "load",
         \/ stage \in Settled /\ stage2 \in Settled
         \/ stage \in Ended /\ stage2 \in Ended
         \/ stage \in Loading /\ stage2 \in Loading
  PROVE  SessionsAt(t, ss2, q2, stage2, d)
<1>1. ASSUME NEW i \in Regs(t), t.regs[i].ctx = d
      PROVE  SessionFits(t.regs[i], ss2[i], stage2) /\ PreparedFits(t, ss2, q2, stage2, i)
  <2>1. /\ i \in Regs(s) /\ s.regs[i].ctx = d /\ (t.regs[i].staged <=> s.regs[i].staged)
        /\ s.regs[i].closed => t.regs[i].closed
        /\ ss2[i].on <=> ss[i].on
    BY <1>1 DEF SessionsFollow
  <2>2. SessionFits(s.regs[i], ss[i], stage) /\ PreparedFits(s, ss, q, stage, i)
    BY <2>1 DEF SessionsAt
  <2>3. SessionFits(t.regs[i], ss2[i], stage2)
    BY <2>1, <2>2 DEF SessionFits, Settled, Ended, Loading
  <2>4. PreparedFits(t, ss2, q2, stage2, i)
    BY <2>1, <2>2 DEF PreparedFits, Settled, Ended, Loading
  <2> QED BY <2>3, <2>4
<1> QED BY <1>1 DEF SessionsAt, Settled, Ended, Loading

\* What was being undone, attached or removed is.
LEMMA SessionsDone ==
  ASSUME NEW s, NEW t, NEW ss, NEW ss2, NEW q, NEW q2, NEW stage, NEW stage2, NEW d,
         SessionsAt(s, ss, q, stage, d), SessionsFollow(s, t, ss, ss2, q, q2, d),
         stage \notin Ended, stage2 \in Settled,
         \A i \in Regs(t) : t.regs[i].ctx = d => ss2[i].on \/ t.regs[i].closed
  PROVE  SessionsAt(t, ss2, q2, stage2, d)
<1>1. ASSUME NEW i \in Regs(t), t.regs[i].ctx = d
      PROVE  SessionFits(t.regs[i], ss2[i], stage2) /\ PreparedFits(t, ss2, q2, stage2, i)
  <2>1. /\ i \in Regs(s) /\ s.regs[i].ctx = d /\ (t.regs[i].staged <=> s.regs[i].staged)
        /\ s.regs[i].closed => t.regs[i].closed
        /\ ss2[i].on <=> ss[i].on
    BY <1>1 DEF SessionsFollow
  <2>2. SessionFits(s.regs[i], ss[i], stage) /\ (ss2[i].on \/ t.regs[i].closed)
    BY <1>1, <2>1 DEF SessionsAt
  <2> QED BY <2>1, <2>2 DEF SessionFits, PreparedFits, Settled
<1> QED BY <1>1 DEF SessionsAt, Settled

-----------------------------------------------------------------------------
(* The messages, and what is under way for a registration. *)

LEMMA InboxMoves ==
  ASSUME NEW box, NEW s, NEW o, NEW o2, InboxOK(box, s, o),
         \A c \in Contexts : o2[c] = o[c] \/ o[c] # "refusing"
  PROVE  InboxOK(box, s, o2)
BY DEF InboxOK, InboxAt

\* A message is taken, or sent.
Taken(box, c) == [box EXCEPT ![c] = Tail(@)]
Sent(box, c, m) == [box EXCEPT ![c] = Append(@, m)]
LEMMA InboxPop ==
  ASSUME NEW box \in [Contexts -> Seq(Message)], NEW s, NEW o, InboxOK(box, s, o),
         NEW c \in Contexts, box[c] # <<>>, NEW box2, box2 = Taken(box, c)
  PROVE  /\ InboxOK(box2, s, o) /\ box2 \in [Contexts -> Seq(Message)]
         /\ MessageFits(Head(box[c]), s, c) /\ Head(box[c]) \in Message
         /\ \A i : Unheard(box, i) => Unheard(box2, i)
         /\ \A i : About(Head(box[c]), i) => ~Unheard(box, i)
         /\ Head(box[c]).type = "begin_close" => o[c] = "refusing" /\ \A k \in DOMAIN box2[c] : box2[c][k].type # "begin_close"
<1> DEFINE m == Head(box[c])
           w == Tail(box[c])
<1>1. /\ w \in Seq(Message) /\ 1 \in DOMAIN box[c] /\ m = box[c][1] /\ m \in Message
      /\ \A k \in DOMAIN w : k \in Nat /\ k + 1 \in DOMAIN box[c] /\ w[k] = box[c][k + 1]
  BY PopSeq
<1> HIDE DEF m, w
<1>2. box2 \in [Contexts -> Seq(Message)] /\ box2[c] = w /\ \A d \in Contexts : d # c => box2[d] = box[d]
  BY <1>1 DEF w, Taken, Sent
<1>3. InboxAt(box[c], s, c, o[c])
  BY DEF InboxOK
<1>4. ASSUME NEW j \in DOMAIN w, NEW k \in DOMAIN w, w[j].type = "begin_close", w[k].type = "begin_close"
      PROVE  j = k
  <2>1. j \in Nat /\ k \in Nat /\ j + 1 = k + 1
    BY <1>1, <1>3, <1>4 DEF InboxAt
  <2> QED BY <2>1
<1>5. InboxAt(w, s, c, o[c])
  BY <1>1, <1>3, <1>4 DEF InboxAt
<1>6. InboxOK(box2, s, o)
  BY <1>2, <1>5 DEF InboxOK
<1>7. ASSUME NEW i, Unheard(box, i) PROVE Unheard(box2, i)
  BY <1>1, <1>2, <1>7, ZenonT(40) DEF Unheard
<1>8. ASSUME m.type = "begin_close", NEW k \in DOMAIN w PROVE w[k].type # "begin_close"
  <2>1. k \in Nat /\ k + 1 \in DOMAIN box[c] /\ w[k] = box[c][k + 1] /\ k + 1 # 1
    BY <1>1, <1>8
  <2> QED BY <1>1, <1>3, <1>8, <2>1 DEF InboxAt
<1>9. MessageFits(m, s, c) /\ (m.type = "begin_close" => o[c] = "refusing")
  BY <1>1, <1>3 DEF InboxAt
<1>10. \A i : About(m, i) => ~Unheard(box, i)
  BY <1>1 DEF Unheard
<1> QED BY <1>1, <1>2, <1>6, <1>7, <1>8, <1>9, <1>10 DEF m

LEMMA AppendSeq ==
  ASSUME NEW S, NEW q \in Seq(S), NEW x \in S
  PROVE  /\ Append(q, x) \in Seq(S) /\ Len(q) + 1 \notin DOMAIN q
         /\ \A k \in DOMAIN Append(q, x) : \/ k \in DOMAIN q /\ Append(q, x)[k] = q[k]
                                           \/ k = Len(q) + 1 /\ Append(q, x)[k] = x
OBVIOUS

LEMMA InboxAppend ==
  ASSUME NEW box \in [Contexts -> Seq(Message)], NEW s, NEW o, InboxOK(box, s, o),
         NEW c \in Contexts, NEW m \in Message, MessageFits(m, s, c),
         NEW box2, box2 = Sent(box, c, m),
         m.type = "begin_close" => o[c] = "refusing" /\ \A k \in DOMAIN box[c] : box[c][k].type # "begin_close"
  PROVE  /\ InboxOK(box2, s, o) /\ box2 \in [Contexts -> Seq(Message)]
         /\ \A i : Unheard(box, i) /\ ~About(m, i) => Unheard(box2, i)
<1> DEFINE w == Append(box[c], m)
<1>1. /\ w \in Seq(Message)
      /\ Len(box[c]) + 1 \notin DOMAIN box[c]
      /\ \A k \in DOMAIN w : (k \in DOMAIN box[c] /\ w[k] = box[c][k]) \/ (k = Len(box[c]) + 1 /\ w[k] = m)
  BY AppendSeq
<1> HIDE DEF w
<1>2. box2 \in [Contexts -> Seq(Message)] /\ box2[c] = w /\ \A d \in Contexts : d # c => box2[d] = box[d]
  BY <1>1 DEF w, Taken, Sent
<1>3. InboxAt(box[c], s, c, o[c])
  BY DEF InboxOK
<1>4. InboxAt(w, s, c, o[c])
  <2>1. \A k \in DOMAIN w : MessageFits(w[k], s, c) /\ (w[k].type = "begin_close" => o[c] = "refusing")
    BY <1>1, <1>3 DEF InboxAt
  <2>2. ASSUME NEW j \in DOMAIN w, NEW k \in DOMAIN w, w[j].type = "begin_close", w[k].type = "begin_close"
        PROVE  j = k
    <3>1. CASE m.type = "begin_close"
      BY <1>1, <2>2, <3>1
    <3>2. CASE m.type # "begin_close"
      BY <1>1, <1>3, <2>2, <3>2 DEF InboxAt
    <3> QED BY <3>1, <3>2
  <2> QED BY <2>1, <2>2 DEF InboxAt
<1>5. InboxOK(box2, s, o)
  BY <1>2, <1>4 DEF InboxOK
<1>6. ASSUME NEW i, Unheard(box, i), ~About(m, i) PROVE Unheard(box2, i)
  <2>1. ASSUME NEW d \in Contexts, NEW k \in DOMAIN box2[d] PROVE ~About(box2[d][k], i)
    <3>1. CASE d = c
      <4>1. k \in DOMAIN w /\ box2[d][k] = w[k]
        BY <1>2, <2>1, <3>1
      <4>2. (k \in DOMAIN box[c] /\ w[k] = box[c][k]) \/ w[k] = m
        BY <1>1, <4>1
      <4> QED BY <1>6, <4>1, <4>2 DEF Unheard
    <3>2. CASE d # c
      BY <1>2, <1>6, <2>1, <3>2 DEF Unheard
    <3> QED BY <3>1, <3>2
  <2> QED BY <2>1 DEF Unheard
<1> QED BY <1>2, <1>5, <1>6

LEMMA LoopsPop ==
  ASSUME NEW q \in Seq(Task), q # <<>>, NEW i
  PROVE  /\ \A do : Loops(Tail(q), do, i) => Loops(q, do, i)
         /\ \A do : Loops(q, do, i) => Loops(Tail(q), do, i) \/ (q[1].do = do /\ q[1].reg = i)
         /\ DeliverAfter(q, i) /\ ~(q[1].do = "activate" /\ q[1].reg = i) => DeliverAfter(Tail(q), i)
         /\ DeliverAfter(q, i) => ~(q[1].do = "deliver" /\ q[1].reg = i)
<1> DEFINE w == Tail(q)
<1>1. /\ w \in Seq(Task) /\ 1 \in DOMAIN q
      /\ \A k \in DOMAIN w : k \in Nat /\ k + 1 \in DOMAIN q /\ w[k] = q[k + 1]
      /\ \A k \in DOMAIN q : k # 1 => k \in Nat /\ k - 1 \in DOMAIN w /\ w[k - 1] = q[k]
      /\ \A k \in DOMAIN q : k \in Nat
  BY PopSeq
<1> HIDE DEF w
<1>2. \A do : Loops(w, do, i) => Loops(q, do, i)
  BY <1>1 DEF Loops
<1>3. \A do : Loops(q, do, i) => Loops(w, do, i) \/ (q[1].do = do /\ q[1].reg = i)
  BY <1>1 DEF Loops
<1>4. ASSUME DeliverAfter(q, i), ~(q[1].do = "activate" /\ q[1].reg = i) PROVE DeliverAfter(w, i)
  <2> SUFFICES ASSUME NEW j \in DOMAIN w, w[j].do = "deliver", w[j].reg = i
               PROVE  \E k \in 1..(j - 1) : w[k].do = "activate" /\ w[k].reg = i
    BY DEF DeliverAfter
  <2>1. j \in Nat /\ j + 1 \in DOMAIN q /\ w[j] = q[j + 1]
    BY <1>1
  <2>2. PICK k \in 1..((j + 1) - 1) : q[k].do = "activate" /\ q[k].reg = i
    BY <1>4, <2>1 DEF DeliverAfter
  <2>3. k # 1 /\ k - 1 \in 1..(j - 1)
    BY <1>4, <2>1, <2>2
  <2>4. k \in DOMAIN q
    BY <2>1, <2>2
  <2>5. w[k - 1] = q[k]
    BY <1>1, <2>3, <2>4
  <2> QED BY <2>2, <2>3, <2>5
<1>5. DeliverAfter(q, i) => ~(q[1].do = "deliver" /\ q[1].reg = i)
  BY <1>1 DEF DeliverAfter
<1> QED BY <1>2, <1>3, <1>4, <1>5 DEF w

LEMMA LoopsJoin ==
  ASSUME NEW q \in Seq(Task), NEW w \in Seq(Task), NEW i
  PROVE  /\ \A do : Loops(q \o w, do, i) <=> Loops(q, do, i) \/ Loops(w, do, i)
         /\ DeliverAfter(q, i) /\ (Loops(w, "deliver", i) => Loops(q, "activate", i)) => DeliverAfter(q \o w, i)
<1> DEFINE all == q \o w
           n == Len(q)
<1>1. /\ all \in Seq(Task) /\ n \in Nat
      /\ \A k \in DOMAIN q : k \in DOMAIN all /\ all[k] = q[k] /\ k \in Nat /\ k <= n
      /\ \A k \in DOMAIN w : k + n \in DOMAIN all /\ all[k + n] = w[k] /\ k \in Nat /\ 0 < k
      /\ \A k \in DOMAIN all : k \in DOMAIN q \/ (k - n \in DOMAIN w /\ k \in Nat)
  BY JoinSeq
<1>2. DOMAIN q = 1..n
  OBVIOUS
<1> HIDE DEF all, n
<1>3. \A k \in DOMAIN all : k \notin DOMAIN q => k \in Nat /\ k - n \in DOMAIN w /\ all[k] = w[k - n]
  <2> SUFFICES ASSUME NEW k \in DOMAIN all, k \notin DOMAIN q
               PROVE  k \in Nat /\ k - n \in DOMAIN w /\ all[k] = w[k - n]
    OBVIOUS
  <2>1. k \in Nat /\ k - n \in DOMAIN w /\ (k - n) + n = k
    BY <1>1
  <2>2. all[(k - n) + n] = w[k - n]
    BY <1>1, <2>1
  <2> QED BY <2>1, <2>2
<1>4. ASSUME NEW do PROVE Loops(all, do, i) <=> Loops(q, do, i) \/ Loops(w, do, i)
  <2>1. Loops(all, do, i) => Loops(q, do, i) \/ Loops(w, do, i)
    BY <1>1, <1>3 DEF Loops
  <2>2. Loops(q, do, i) => Loops(all, do, i)
    BY <1>1 DEF Loops
  <2>3. Loops(w, do, i) => Loops(all, do, i)
    BY <1>1 DEF Loops
  <2> QED BY <2>1, <2>2, <2>3
<1>5. ASSUME DeliverAfter(q, i), Loops(w, "deliver", i) => Loops(q, "activate", i) PROVE DeliverAfter(all, i)
  <2> SUFFICES ASSUME NEW j \in DOMAIN all, all[j].do = "deliver", all[j].reg = i
               PROVE  \E k \in 1..(j - 1) : all[k].do = "activate" /\ all[k].reg = i
    BY DEF DeliverAfter
  <2>1. CASE j \in DOMAIN q
    <3>1. PICK k \in 1..(j - 1) : q[k].do = "activate" /\ q[k].reg = i
      BY <1>1, <1>5, <2>1 DEF DeliverAfter
    <3>2. k \in DOMAIN q
      BY <1>1, <1>2, <2>1
    <3> QED BY <1>1, <3>1, <3>2
  <2>2. CASE j \notin DOMAIN q
    <3>1. Loops(w, "deliver", i)
      BY <1>3, <2>2 DEF Loops
    <3>2. PICK k \in DOMAIN q : q[k].do = "activate" /\ q[k].reg = i
      BY <1>5, <3>1 DEF Loops
    <3>3. j \in Nat /\ j - n \in DOMAIN w /\ 0 < j - n
      BY <1>1, <1>3, <2>2
    <3>4. k \in 1..(j - 1)
      BY <1>1, <1>2, <3>2, <3>3
    <3> QED BY <1>1, <3>2, <3>4
  <2> QED BY <2>1, <2>2
<1> QED BY <1>4, <1>5 DEF all

-----------------------------------------------------------------------------
(* The coroutines keep the invariant. *)

Kept(s, t) ==
  /\ Regs(t) = Regs(s)
  /\ \A i \in Regs(s) : /\ t.regs[i].ctx = s.regs[i].ctx
                        /\ t.regs[i].staged <=> s.regs[i].staged
                        /\ s.regs[i].closed => t.regs[i].closed
StaysFresh(reg, new) ==
  ~reg.active /\ (reg.held => reg.reattaching) => ~new.active /\ (new.held => new.reattaching)

LEMMA KeptFollows ==
  ASSUME NEW s, NEW t, Kept(s, t)
  PROVE  Follows(s, t)
BY DEF Kept, Follows

LEMMA CalmKept ==
  ASSUME NEW s, NEW t, Calm(s, t)
  PROVE  Kept(s, t) /\ \A i \in Regs(s) : StaysFresh(s.regs[i], t.regs[i])
BY DEF Calm, CalmReg, Kept, StaysFresh, Regs

\* There is one session for each registration.
LEMMA SessionsLen ==
  ASSUME TypeOK, NEW t \in Server, Regs(t) = Regs(server)
  PROVE  Len(t.regs) = Len(server.regs) /\ Len(sessions) = Len(t.regs) /\ DOMAIN sessions = Regs(t)
         /\ \A i \in Regs(t) : sessions[i] \in Session
<1>1. /\ t.regs \in Seq(Registration) /\ server.regs \in Seq(Registration)
      /\ sessions \in Seq(Session) /\ Len(sessions) = Len(server.regs)
  BY DEF TypeOK, Server
<1>2. Len(t.regs) = Len(server.regs)
  BY <1>1 DEF Regs
<1>3. DOMAIN sessions = Regs(t)
  BY <1>1, <1>2 DEF Regs
<1> QED BY <1>1, <1>2, <1>3

LEMMA CoroutineStep ==
  ASSUME SharesInv, loop # <<>>, loop' = Tail(loop), sessions' = sessions, puts' = puts, cell' = cell,
         edits' = edits, passed' = passed, holds' \in Nat, passed <= holds',
         op' = op \/ (Task1.do \in Waited /\ op' = AfterStage(op, Task1.ctx)),
         Kept(server, server'), ShownOK(server', shown'), OwnerOK(server', op'),
         inbox' \in [Contexts -> Seq(Message)], InboxOK(inbox', server', op),
         \A i \in Regs(server) : ~(Task1.do = "deliver" /\ Task1.reg = i) =>
           (Unheard(inbox, i) => Unheard(inbox', i)),
         \A i \in Regs(server) : New(server, sessions, loop, op, i) /\ ~(Task1.do = "activate" /\ Task1.reg = i) =>
           StaysFresh(server.regs[i], server'.regs[i]),
         \A c \in Contexts : op[c] = "load" => StagedStay(server, server', c),
         Task1.do = "unregister" => server'.regs[Task1.reg].closed
  PROVE  SharesInv'
<1> DEFINE c == Task1.ctx
           w == Tail(loop)
<1>1. /\ TypeOK /\ loop \in Seq(Task) /\ op \in [Contexts -> Stages] /\ TasksOK(loop, op)
      /\ TasksRefer(loop, server) /\ Task1 = loop[1] /\ c \in Contexts /\ 1 \in DOMAIN loop
      /\ Task1 \in Task /\ op[c] \in StagesOf[Task1.do] /\ TaskRefs(Task1, server)
      /\ SessionsOK(server, sessions, loop, op) /\ NewOK /\ PutsRefer(puts, server)
  BY HeadTask DEF SharesInv, TypeOK, RefsOK
<1>2. w \in Seq(Task) /\ TasksOK(w, op) /\ TasksRefer(w, server')
  BY <1>1, PopSeq, TasksPop, ReferPop, KeptFollows, FollowsRefers
<1>3. TasksOK(w, op') /\ op' \in [Contexts -> Stages]
  BY <1>1, <1>2, TasksAwait
<1>4. server' \in Server /\ Len(server'.regs) <= MaxRegs /\ Regs(server') = Regs(server)
      /\ shown' \subseteq [route: Routes, marker: Nat, value: Values]
  BY DEF ShownOK, RegistryOK, Kept
<1>5. TypeOK'
  <2>1. passed' \in 0..holds'
    BY DEF SharesInv, TypeOK
  <2>2. sessions' \in Seq(Session) /\ Len(sessions') = Len(server'.regs)
    BY <1>1, <1>4, SessionsLen DEF TypeOK
  <2>3. puts' \in [Requests -> Handler] /\ cell' \in [Contexts -> [Routes -> Values]] /\ edits' \in 0..Len(Drafts)
    BY <1>1 DEF TypeOK
  <2> QED BY <1>2, <1>3, <1>4, <2>1, <2>2, <2>3 DEF TypeOK
\* Who is acting
<1>6. \A d \in Contexts : op'[d] = op[d]
        \/ (d = c /\ op[c] \in DOMAIN After /\ op'[c] = After[op[c]] /\ Task1.do \in Waited /\ Free(w, c))
  <2>1. \A do : do \in Waited /\ op[c] \in DOMAIN After => op[c] # "attached"
    BY DEF After
  <2> QED BY <1>1, <2>1, TasksPop DEF AfterStage
<1>7. RefsOK'
  <2>1. InboxOK(inbox', server', op')
    <3>1. \A d \in Contexts : op'[d] = op[d] \/ op[d] # "refusing"
      BY <1>6 DEF After
    <3> QED BY <3>1, InboxMoves
  <2>2. PutsRefer(puts', server')
    BY <1>1, KeptFollows, FollowsRefers
  <2> QED BY <1>2, <2>1, <2>2 DEF RefsOK
<1>8. ASSUME NEW i \in Regs(server), Loops(loop, "unregister", i)
      PROVE  Loops(w, "unregister", i) \/ server'.regs[i].closed
  BY <1>1, <1>8, LoopsPop
<1>9. SessionsOK(server', sessions', loop', op')
  <2> SUFFICES ASSUME NEW d \in Contexts PROVE SessionsAt(server', sessions, w, op'[d], d)
    BY DEF SessionsOK
  <2>1. SessionsFollow(server, server', sessions, sessions, loop, w, d)
    BY <1>4, <1>8 DEF SessionsFollow, Kept
  <2>2. SessionsAt(server, sessions, loop, op[d], d)
    BY <1>1 DEF SessionsOK
  <2>3. CASE op'[d] = op[d]
    <3>1. op[d] = "load" => StagedStay(server, server', d)
      OBVIOUS
    <3> QED BY <2>1, <2>2, <2>3, <3>1, SessionsKept
  <2>4. CASE d = c /\ op[c] \in DOMAIN After /\ op'[c] = After[op[c]] /\ Task1.do \in Waited /\ Free(w, c)
    <3>1. CASE op[c] \in {"undo", "unshare"}
      <4>1. op'[c] \in Settled /\ op[c] \notin Ended
        BY <2>4, <3>1 DEF After, Settled, Ended
      <4>2. ASSUME NEW i \in Regs(server'), server'.regs[i].ctx = d, ~sessions[i].on, ~server'.regs[i].closed
            PROVE  FALSE
        <5>1. /\ i \in Regs(server) /\ server.regs[i].ctx = c
              /\ ~server.regs[i].closed
          BY <2>4, <4>2 DEF Kept
        <5>2. Loops(loop, "unregister", i)
          BY <2>2, <2>4, <3>1, <4>2, <5>1 DEF SessionsAt, PreparedFits
        <5>3. Loops(w, "unregister", i)
          BY <1>8, <4>2, <5>1, <5>2
        <5>4. PICK k \in DOMAIN w : w[k].do = "unregister" /\ w[k].reg = i
          BY <5>3 DEF Loops
        <5>5. w[k].ctx = server'.regs[i].ctx
          BY <1>2, <5>4 DEF TasksRefer, TaskRefs, TaskOf
        <5> QED BY <2>4, <4>2, <5>4, <5>5 DEF Free, Quiet
      <4> QED BY <2>1, <2>2, <2>4, <4>1, <4>2, SessionsDone
    <3>2. CASE op[c] \notin {"undo", "unshare"}
      <4>1. /\ op'[c] # "load"
            /\ \/ op[c] \in Settled /\ op'[c] \in Settled
               \/ op[c] \in Ended /\ op'[c] \in Ended
               \/ op[c] \in Loading /\ op'[c] \in Loading
        BY <2>4, <3>2 DEF After, Settled, Ended, Loading
      <4> QED BY <2>1, <2>2, <2>4, <4>1, SessionsMove
    <3> QED BY <3>1, <3>2
  <2> QED BY <1>6, <2>3, <2>4
<1>10. NewOK'
  <2> SUFFICES ASSUME NEW i \in Regs(server), New(server', sessions, w, op', i)
               PROVE  /\ Fresh(server'.regs[i], sessions[i]) /\ Unheard(inbox', i) /\ Unasked(puts, i)
                      /\ DeliverAfter(w, i)
                      /\ Loops(w, "activate", i) => sessions[i].on /\ ~server'.regs[i].staged
    BY <1>4 DEF NewOK, NewAt
  <2>1. /\ server'.regs[i].ctx = server.regs[i].ctx /\ (server'.regs[i].staged <=> server.regs[i].staged)
        /\ server.regs[i].closed => server'.regs[i].closed
    BY DEF Kept
  <2>2. Loops(w, "activate", i) => Loops(loop, "activate", i)
    BY <1>1, LoopsPop
  <2>3. server.regs[i].ctx \in Contexts
    BY <1>1, Typed DEF TypeOK, Registration
  <2>4. op'[server.regs[i].ctx] = "share" => op[server.regs[i].ctx] = "share"
    <3>1. op[c] \in DOMAIN After => After[op[c]] # "share"
      BY DEF After
    <3> QED BY <1>6, <2>3, <3>1
  <2>5. New(server, sessions, loop, op, i)
    BY <2>1, <2>2, <2>4 DEF New
  <2>6. /\ Fresh(server.regs[i], sessions[i]) /\ Unheard(inbox, i) /\ Unasked(puts, i) /\ DeliverAfter(loop, i)
        /\ Loops(loop, "activate", i) => sessions[i].on /\ ~server.regs[i].staged
    BY <1>1, <2>5 DEF NewOK, NewAt
  <2>7. ~(Task1.do = "activate" /\ Task1.reg = i)
    <3> SUFFICES ASSUME Task1.do = "activate", Task1.reg = i PROVE FALSE
      OBVIOUS
    <3>1. server.regs[i].ctx = c /\ op[c] = "attached" /\ op' = op
      BY <1>1 DEF TaskRefs, TaskOf, StagesOf, Waited
    <3>2. Loops(loop, "activate", i)
      BY <1>1 DEF Loops
    <3>3. Loops(w, "activate", i)
      BY <2>1, <2>6, <3>1, <3>2 DEF New
    <3>4. PICK k \in DOMAIN w : w[k].do = "activate" /\ w[k].reg = i
      BY <3>3 DEF Loops
    <3>5. k \in Nat /\ k + 1 \in DOMAIN loop /\ loop[k + 1] = w[k] /\ k + 1 # 1
      <4>1. k \in Nat /\ k + 1 \in DOMAIN loop /\ w[k] = loop[k + 1] /\ k \in DOMAIN w /\ w \in Seq(Task)
        BY <1>1, PopSeq
      <4> HIDE DEF w
      <4>2. k # 0
        BY <4>1
      <4> QED BY <4>1, <4>2
    <3> QED BY <1>1, <3>4, <3>5 DEF TasksOK
  <2>8. DeliverAfter(w, i) /\ ~(Task1.do = "deliver" /\ Task1.reg = i)
    BY <1>1, <2>6, <2>7, LoopsPop
  <2>9. Fresh(server'.regs[i], sessions[i])
    BY <2>5, <2>6, <2>7 DEF Fresh, StaysFresh
  <2>10. Unheard(inbox', i)
    BY <2>6, <2>8
  <2> QED BY <2>1, <2>2, <2>6, <2>8, <2>9, <2>10
<1> QED BY <1>3, <1>5, <1>7, <1>9, <1>10 DEF SharesInv

-----------------------------------------------------------------------------
(* Which registrations the coroutines close. *)

ClosesIn(s, t, I) == \A i \in Regs(s) : t.regs[i].closed => s.regs[i].closed \/ i \in I

LEMMA WithdrawnCloses ==
  ASSUME NEW s \in Server, NEW I, NEW t, Withdrawn(s, I, t)
  PROVE  ClosesIn(s, t, I) /\ \A i \in Regs(s) : i \in I => t.regs[i].closed
<1> SUFFICES ASSUME NEW i \in Regs(s)
             PROVE  (t.regs[i].closed => s.regs[i].closed \/ i \in I) /\ (i \in I => t.regs[i].closed)
  BY DEF ClosesIn
<1>1. t.regs[i] = IF i \in I /\ ~s.regs[i].closed
                  THEN [s.regs[i] EXCEPT !.closed = TRUE, !.active = FALSE] ELSE s.regs[i]
  BY DEF Withdrawn
<1>2. s.regs[i] \in Registration
  BY Typed
<1> QED BY <1>1, <1>2 DEF Registration

LEMMA ResolveCloses ==
  ASSUME NEW s \in Server, NEW I, NEW to
  PROVE  ClosesIn(s, Resolve(s, I, to), {})
<1> SUFFICES ASSUME NEW i \in Regs(s), Resolve(s, I, to).regs[i].closed PROVE s.regs[i].closed
  BY DEF ClosesIn
<1>1. s.regs[i] \in Registration
  BY Typed
<1>2. Resolve(s, I, to).regs[i] \in {s.regs[i], [s.regs[i] EXCEPT !.future = "done", !.to = to]}
  BY DEF Resolve, Changed, Regs, Server
<1> QED BY <1>1, <1>2 DEF Registration

LEMMA CompletedCloses ==
  ASSUME NEW s \in Server, NEW i \in Regs(s)
  PROVE  ClosesIn(s, Completed(s, i), {})
<1> SUFFICES ASSUME NEW j \in Regs(s), Completed(s, i).regs[j].closed PROVE s.regs[j].closed
  BY DEF ClosesIn
<1> DEFINE I == {s.regs[i].from}
           t == Resolve(s, I, i)
           f == [k \in DOMAIN s.regs |-> IF k \in I
                   THEN (IF s.regs[k].future # "pending" THEN s.regs[k]
                         ELSE [s.regs[k] EXCEPT !.future = "done", !.to = i])
                   ELSE s.regs[k]]
           u == [t EXCEPT !.regs[i].held = FALSE, !.regs[i].reattaching = FALSE,
                          !.regs[i].due = 0, !.regs[i].from = 0]
<1>1. s.regs[j] \in Registration /\ j \in DOMAIN f /\ i \in DOMAIN f
  BY Typed DEF Regs
<1>2. t = [s EXCEPT !.regs = f]
  BY DEF Resolve, Changed
<1>3. t.regs = f
  BY <1>2 DEF Server
<1>4. t.regs[j] \in {s.regs[j], [s.regs[j] EXCEPT !.future = "done", !.to = i]}
  BY <1>1, <1>3
<1>5. Completed(s, i) = s \/ Completed(s, i) = u
  BY DEF Completed
<1>6. u.regs[j] \in {t.regs[j], [t.regs[j] EXCEPT !.held = FALSE, !.reattaching = FALSE, !.due = 0, !.from = 0]}
  <2> HIDE DEF f
  <2>1. "regs" \in DOMAIN t /\ j \in DOMAIN t.regs /\ i \in DOMAIN t.regs
    BY <1>1, <1>2, <1>3 DEF Server
  <2> HIDE DEF t
  <2> QED BY <2>1
<1> HIDE DEF u, t, f
<1>7. DOMAIN t.regs[j] = DOMAIN s.regs[j] /\ t.regs[j].closed = s.regs[j].closed /\ "closed" \in DOMAIN s.regs[j]
  BY <1>1, <1>4 DEF Registration
<1>8. u.regs[j].closed = t.regs[j].closed
  BY <1>6, <1>7
<1> QED BY <1>5, <1>7, <1>8

LEMMA UnregisterCloses ==
  ASSUME SharesInv, Unregister
  PROVE  ClosesIn(server, server', {Task1.reg}) /\ server'.regs[Task1.reg].closed
<1> DEFINE i == Task1.reg
           t == WithdrawAll(server, {i})
<1>1. i \in Regs(server) /\ server \in Server
  BY HeadTask, SameCalm DEF Unregister, Executes, TaskRefs, TaskOf, Task1
<1>2. Withdrawn(server, {i}, t)
  BY <1>1, WithdrawAllEffect
<1> HIDE DEF t
<1>3. ClosesIn(server, t, {i}) /\ t.regs[i].closed
  BY <1>1, <1>2, WithdrawnCloses
<1>4. server' = t \/ server' = [t EXCEPT !.ns = NoNamespace]
  BY DEF Unregister, Becomes, Withdraw, t
<1>5. server'.regs = t.regs
  BY <1>2, <1>4, ZenonT(40) DEF Withdrawn, Server
<1> QED BY <1>3, <1>5 DEF ClosesIn

LEMMA BeginCloses ==
  ASSUME SharesInv, BeginCloseNamespace
  PROVE  ClosesIn(server, server', {})
<1> SUFFICES ASSUME NEW i \in Regs(server), server'.regs[i].closed PROVE server.regs[i].closed
  BY DEF ClosesIn
<1>1. server.regs[i] \in Registration
  BY SameCalm, Typed
<1>2. server'.regs[i] \in {server.regs[i], Expecting(server.regs[i])}
  BY SameCalm DEF BeginCloseNamespace, Becomes, Changed, Regs, Server
<1> QED BY <1>1, <1>2 DEF Expecting, Registration

LEMMA CloseNamespaceCloses ==
  ASSUME SharesInv, CloseNamespace
  PROVE  ClosesIn(server, server', Recorded(server) \cup {i \in Staged(server) : server.regs[i].ctx = Task1.ctx})
<1> DEFINE all == Recorded(server) \cup {i \in Staged(server) : server.regs[i].ctx = Task1.ctx}
           s == Resolve(server, all, 0)
           t == WithdrawAll(s, all)
<1>1. server' = server \/ server' = [t EXCEPT !.ns = NoNamespace]
  BY DEF CloseNamespace, Becomes
<1>2. all \in SUBSET Regs(server)
  BY DEF Recorded, Staged
<1> HIDE DEF all
<1>3. Calm(server, s) /\ ClosesIn(server, s, {})
  BY SameCalm, ResolveCalm, ResolveCloses DEF ShownOK
<1>4. s \in Server /\ Regs(s) = Regs(server)
  BY <1>3 DEF Calm, Regs
<1> HIDE DEF s
<1>5. Withdrawn(s, all, t)
  BY <1>2, <1>4, WithdrawAllEffect
<1> HIDE DEF t
<1>6. ClosesIn(s, t, all)
  BY <1>4, <1>5, WithdrawnCloses
<1>7. ClosesIn(server, t, all)
  BY <1>3, <1>4, <1>6 DEF ClosesIn
<1>8. server'.regs = server.regs \/ server'.regs = t.regs
  BY <1>1, <1>5 DEF Withdrawn, Server
<1>9. ClosesIn(server, server', all)
  BY <1>7, <1>8 DEF ClosesIn
<1> QED BY <1>9 DEF all

LEMMA ExpireCloses ==
  ASSUME SharesInv, ExpireHolds
  PROVE  ClosesIn(server, server', Recorded(server))
<1> DEFINE over == {i \in Recorded(server) : LET reg == server.regs[i] IN
                      reg.held /\ reg.due # 0 /\ reg.due <= passed}
           s == Resolve(server, over, 0)
           t == WithdrawAll(s, over)
<1>1. server'.regs = t.regs
  <2>0. over \in SUBSET Regs(server)
    BY DEF Recorded
  <2> HIDE DEF over
  <2>1. t \in Server
    <3>1. Calm(server, s)
      BY SameCalm, ResolveCalm DEF ShownOK
    <3> HIDE DEF s
    <3>2. s \in Server /\ Regs(s) = Regs(server)
      BY <3>1 DEF Calm, Regs
    <3> QED BY <2>0, <3>2, WithdrawAllEffect DEF Withdrawn
  <2> USE DEF over
  <2>2. \E ns : server' = [t EXCEPT !.ns = ns]
    BY DEF ExpireHolds, Becomes
  <2> HIDE DEF t
  <2> QED BY <2>1, <2>2 DEF Server
<1>2. over \in SUBSET Regs(server) /\ over \subseteq Recorded(server)
  BY DEF Recorded
<1> HIDE DEF over
<1>3. Calm(server, s) /\ ClosesIn(server, s, {})
  BY SameCalm, ResolveCalm, ResolveCloses DEF ShownOK
<1>4. s \in Server /\ Regs(s) = Regs(server)
  BY <1>3 DEF Calm, Regs
<1> HIDE DEF s
<1>5. Withdrawn(s, over, t)
  BY <1>2, <1>4, WithdrawAllEffect
<1> HIDE DEF t
<1>6. ClosesIn(s, t, over)
  BY <1>4, <1>5, WithdrawnCloses
<1> QED BY <1>1, <1>2, <1>3, <1>4, <1>6 DEF ClosesIn

\* What is staged is not recorded.
LEMMA StagedUnrecorded ==
  ASSUME NEW s, RegistryOK(s), NEW i \in Staged(s)
  PROVE  i \in Regs(s) /\ i \notin Recorded(s)
<1>1. i \in Regs(s) /\ s.regs[i].staged /\ s.regs[i] \in Registration /\ i # 0
  BY Typed DEF Staged, RegistryOK
<1>2. s.regs[i].route \in Routes
  BY <1>1 DEF Registration
<1> QED BY <1>1, <1>2 DEF RegistryOK, RecordsOK, Public, Recorded

LEMMA StagedStays ==
  ASSUME NEW s, NEW t, Kept(s, t), NEW I, ClosesIn(s, t, I), NEW d,
         \A i \in Staged(s) : s.regs[i].ctx = d => i \notin I
  PROVE  StagedStay(s, t, d)
BY DEF StagedStay, Staged, Kept, ClosesIn

-----------------------------------------------------------------------------
(* The coroutines, one by one. *)

LEMMA AwaitedSame ==
  ASSUME SharesInv, loop # <<>>, Task1.do \in Waited, Task1.do # "hold_namespace"
  PROVE  SameClosed(op, AfterStage(op, Task1.ctx))
<1>1. /\ op \in [Contexts -> Stages] /\ Task1.ctx \in Contexts
      /\ op[Task1.ctx] \in StagesOf[Task1.do]
  BY HeadTask DEF SharesInv, TypeOK
<1>2. op[Task1.ctx] \notin {"holding", "closed"}
  BY <1>1 DEF StagesOf, Waited
<1>3. op[Task1.ctx] \in DOMAIN After => After[op[Task1.ctx]] # "closed"
  BY <1>2 DEF After
<1> QED BY <1>1, <1>2, <1>3 DEF SameClosed, AfterStage

LEMMA DonePops ==
  ASSUME SharesInv, loop # <<>>, Done(<<>>)
  PROVE  loop' = Tail(loop)
<1>1. loop \in Seq(Task)
  BY DEF SharesInv, TypeOK
<1>2. Tail(loop) \in Seq(Task)
  BY <1>1, PopSeq
<1> QED BY <1>2 DEF Done

\* Those that leave owners, values and messages alone.
LEMMA CalmCoroutine ==
  ASSUME SharesInv, loop # <<>>, Done(<<>>), UNCHANGED <<passed, holds, puts, sessions, inbox, cell, edits>>,
         op' = op \/ (Task1.do \in Waited /\ op' = AfterStage(op, Task1.ctx)), Task1.do # "hold_namespace",
         Calm(server, server'), shown' = shown \cup Served(server'),
         \A c \in Contexts : op[c] = "load" => StagedStay(server, server', c),
         Task1.do = "unregister" => server'.regs[Task1.reg].closed
  PROVE  SharesInv'
<1>1. SameClosed(op, op')
  BY AwaitedSame DEF SameClosed
<1>2. OwnerOK(server', op') /\ ShownOK(server', shown')
  BY <1>1, SameCalm, OwnerCalm, CalmStep DEF SharesInv
<1>3. Kept(server, server') /\ \A i \in Regs(server) : StaysFresh(server.regs[i], server'.regs[i])
  BY CalmKept
<1>4. inbox' \in [Contexts -> Seq(Message)] /\ InboxOK(inbox', server', op)
  BY <1>3, KeptFollows, FollowsRefers DEF SharesInv, TypeOK, RefsOK
<1>5. holds' \in Nat /\ passed <= holds'
  BY DEF SharesInv, TypeOK
<1>6. loop' = Tail(loop)
  BY DonePops
<1> QED BY <1>2, <1>3, <1>4, <1>5, <1>6, CoroutineStep

LEMMA CompleteReattachStep == SharesInv /\ CompleteReattach => SharesInv'
<1> SUFFICES ASSUME SharesInv, CompleteReattach PROVE SharesInv'
  OBVIOUS
<1>1. /\ loop # <<>> /\ Done(<<>>) /\ UNCHANGED <<passed, holds, puts, sessions, inbox, cell, edits>>
      /\ op' = op /\ Task1.do = "complete" /\ server' = Completed(server, Task1.reg)
  BY DEF CompleteReattach, Executes, Becomes, Task1, users
<1>2. Calm(server, server') /\ shown' = shown \cup Served(server')
  BY CompleteCalm
<1>3. Task1.reg \in Regs(server)
  BY <1>1, HeadTask DEF TaskRefs, TaskOf
<1>4. ClosesIn(server, server', {})
  BY <1>1, <1>3, SameCalm, CompletedCloses
<1>5. \A c \in Contexts : StagedStay(server, server', c)
  BY <1>2, <1>4, CalmKept, StagedStays
<1> QED BY <1>1, <1>2, <1>5, CalmCoroutine

LEMMA UnregisterStep == SharesInv /\ Unregister => SharesInv'
<1> SUFFICES ASSUME SharesInv, Unregister PROVE SharesInv'
  OBVIOUS
<1>1. /\ loop # <<>> /\ Done(<<>>) /\ UNCHANGED <<passed, holds, puts, sessions, inbox, cell, edits>>
      /\ Task1.do = "unregister"
  BY DEF Unregister, Executes, Task1
<1>2. Calm(server, server') /\ shown' = shown \cup Served(server')
  BY UnregisterCalm
<1>3. op' = AfterStage(op, Task1.ctx) /\ Task1.do \in Waited
  BY <1>1 DEF Unregister, Awaited, AfterStage, Enters, Waited
<1>4. ClosesIn(server, server', {Task1.reg}) /\ server'.regs[Task1.reg].closed
  BY UnregisterCloses
<1>5. ASSUME NEW c \in Contexts, op[c] = "load" PROVE StagedStay(server, server', c)
  <2>1. server.regs[Task1.reg].ctx = Task1.ctx /\ op[Task1.ctx] # "load"
    BY <1>1, HeadTask DEF TaskRefs, TaskOf, StagesOf
  <2> QED BY <1>2, <1>4, <1>5, <2>1, CalmKept, StagedStays
<1> QED BY <1>1, <1>2, <1>3, <1>4, <1>5, CalmCoroutine

LEMMA BeginCloseNamespaceStep == SharesInv /\ BeginCloseNamespace => SharesInv'
<1> SUFFICES ASSUME SharesInv, BeginCloseNamespace PROVE SharesInv'
  OBVIOUS
<1>1. /\ loop # <<>> /\ Done(<<>>) /\ UNCHANGED <<passed, holds, puts, sessions, inbox, cell, edits>>
      /\ Task1.do = "begin_close"
  BY DEF BeginCloseNamespace, Executes, Task1
<1>2. Calm(server, server') /\ shown' = shown \cup Served(server')
  BY BeginCloseCalm
<1>3. op' = AfterStage(op, Task1.ctx) /\ Task1.do \in Waited
  BY <1>1 DEF BeginCloseNamespace, Awaited, AfterStage, Enters, Waited
<1>4. ClosesIn(server, server', {})
  BY BeginCloses
<1>5. \A c \in Contexts : StagedStay(server, server', c)
  BY <1>2, <1>4, CalmKept, StagedStays
<1> QED BY <1>1, <1>2, <1>3, <1>5, CalmCoroutine

LEMMA CloseNamespaceStep == SharesInv /\ CloseNamespace => SharesInv'
<1> SUFFICES ASSUME SharesInv, CloseNamespace PROVE SharesInv'
  OBVIOUS
<1> DEFINE all == Recorded(server) \cup {i \in Staged(server) : server.regs[i].ctx = Task1.ctx}
<1>1. /\ loop # <<>> /\ Done(<<>>) /\ UNCHANGED <<passed, holds, puts, sessions, inbox, cell, edits>>
      /\ Task1.do = "release"
  BY DEF CloseNamespace, Executes, Task1
<1>2. Calm(server, server') /\ shown' = shown \cup Served(server')
  BY CloseNamespaceCalm
<1>3. op' = AfterStage(op, Task1.ctx) /\ Task1.do \in Waited
  BY <1>1 DEF CloseNamespace, Awaited, AfterStage, Enters, Waited
<1>4. ClosesIn(server, server', all)
  BY CloseNamespaceCloses
<1>5. ASSUME NEW c \in Contexts, op[c] = "load" PROVE StagedStay(server, server', c)
  <2>1. op[Task1.ctx] # "load"
    BY <1>1, HeadTask DEF StagesOf
  <2>2. \A i \in Staged(server) : server.regs[i].ctx = c => i \notin all
    BY <1>5, <2>1, SameCalm, StagedUnrecorded
  <2> HIDE DEF all
  <2> QED BY <1>2, <1>4, <2>2, CalmKept, StagedStays
<1> QED BY <1>1, <1>2, <1>3, <1>5, CalmCoroutine

\* Only a Context that shares or loads has new registrations.
LEMMA NotNew ==
  ASSUME SharesInv, NEW i \in Regs(server), op[server.regs[i].ctx] \notin Loading \cup {"share", "attached"}
  PROVE  server.regs[i].closed \/ (~server.regs[i].staged /\ ~New(server, sessions, loop, op, i))
<1>1. TasksRefer(loop, server) /\ TasksOK(loop, op) /\ server.regs[i].ctx \in Contexts
  BY SameCalm, Typed DEF SharesInv, RefsOK, Registration
<1>2. ~Loops(loop, "activate", i)
  <2> SUFFICES ASSUME NEW k \in DOMAIN loop, loop[k].do = "activate", loop[k].reg = i PROVE FALSE
    BY DEF Loops
  <2>1. loop[k].ctx = server.regs[i].ctx /\ op[loop[k].ctx] \in StagesOf[loop[k].do]
    BY <1>1 DEF TasksRefer, TaskRefs, TaskOf, TasksOK
  <2> QED BY <2>1 DEF StagesOf
<1>3. server.regs[i].staged /\ ~server.regs[i].closed => op[server.regs[i].ctx] \in Loading
  BY <1>1 DEF SharesInv, SessionsOK, SessionsAt, SessionFits
<1> QED BY <1>2, <1>3 DEF New

LEMMA InboxStays ==
  ASSUME SharesInv, UNCHANGED <<passed, holds, inbox>>, Kept(server, server')
  PROVE  /\ inbox' \in [Contexts -> Seq(Message)] /\ InboxOK(inbox', server', op)
         /\ holds' \in Nat /\ passed <= holds'
<1>1. InboxOK(inbox, server, op) /\ inbox \in [Contexts -> Seq(Message)]
  BY DEF SharesInv, TypeOK, RefsOK
<1>2. InboxOK(inbox, server', op)
  BY <1>1, KeptFollows, FollowsRefers
<1>3. holds \in Nat /\ passed <= holds
  BY DEF SharesInv, TypeOK
<1> QED BY <1>1, <1>2, <1>3

LEMMA ActivateStep == SharesInv /\ Activate => SharesInv'
<1> SUFFICES ASSUME SharesInv, Activate PROVE SharesInv'
  OBVIOUS
<1> DEFINE i == Task1.reg
<1>1. /\ loop # <<>> /\ Done(<<>>) /\ UNCHANGED <<passed, holds, puts, sessions, inbox, cell, edits, op>>
      /\ Task1.do = "activate"
  BY DEF Activate, Executes, Task1, users
<1>2. /\ i \in Regs(server) /\ server.regs[i].ctx = Task1.ctx /\ op[Task1.ctx] = "attached"
      /\ 1 \in DOMAIN loop /\ Task1 = loop[1]
  BY <1>1, HeadTask DEF TaskRefs, TaskOf, StagesOf
<1>3. Loops(loop, "activate", i)
  BY <1>1, <1>2 DEF Loops
<1>4. Fresh(server.regs[i], sessions[i]) /\ ~server.regs[i].staged
  BY <1>2, <1>3 DEF SharesInv, NewOK, NewAt, New
<1>5. server' = (IF server.regs[i].closed THEN server ELSE Activated(server, i))
      /\ shown' = shown \cup Served(server')
  BY <1>4 DEF Activate, Becomes, Activated, Fresh
<1>6. server \in Server /\ ShownOK(server, shown) /\ loop' = Tail(loop) /\ OwnerOK(server, op)
  BY <1>1, SameCalm, DonePops DEF SharesInv
<1>7. CASE server.regs[i].closed
  <2>1. Calm(server, server') /\ ClosesIn(server, server', {})
    BY <1>5, <1>7, SameCalm DEF ClosesIn
  <2>2. \A c \in Contexts : StagedStay(server, server', c)
    BY <2>1, CalmKept, StagedStays
  <2> QED BY <1>1, <1>5, <2>1, <2>2, CalmCoroutine
<1>8. CASE ~server.regs[i].closed
  <2>1. /\ SameMap(server, server') /\ ShownOK(server', shown') /\ server'.ns = server.ns
        /\ \A j \in Regs(server) : j # i => server'.regs[j] = server.regs[j]
    <3>1. server.regs[i].held => server.regs[i].reattaching
      BY <1>4 DEF Fresh
    <3>2. server' = Activated(server, i)
      BY <1>5, <1>8
    <3> HIDE DEF i
    <3>3. /\ SameMap(server, Activated(server, i)) /\ Activated(server, i).ns = server.ns
          /\ ShownOK(Activated(server, i), shown \cup Served(Activated(server, i)))
          /\ \A j \in Regs(server) : j # i => Activated(server, i).regs[j] = server.regs[j]
      BY <1>2, <1>4, <1>6, <1>8, <3>1, ActivatedStep
    <3> QED BY <1>5, <3>2, <3>3
  <2>2. Kept(server, server') /\ ClosesIn(server, server', {}) /\ Regs(server') = Regs(server)
    BY <2>1 DEF SameMap, SameReg, Kept, Regs, ClosesIn
  <2>3. OwnerOK(server', op')
    <3>1. ASSUME NEW j \in Regs(server'), Public(server', j) PROVE Follower(server, server', op, j)
      <4>1. Public(server, j) /\ j \in Regs(server) /\ server'.regs[j].ctx = server.regs[j].ctx
        BY <2>1, <2>2, <3>1 DEF SameMap, SameReg, Public
      <4>2. CASE j = i
        BY <1>2, <1>6, <2>1, <4>1, <4>2 DEF OwnerOK, OwnerFits, Follower
      <4>3. CASE j # i
        BY <2>1, <4>1, <4>3 DEF Follower
      <4> QED BY <4>2, <4>3
    <3>2. OwnerKept(server, server') /\ SameClosed(op, op') /\ server' \in Server
      BY <1>1, <2>1 DEF OwnerKept, SameClosed, SameMap
    <3> QED BY <1>6, <3>1, <3>2, OwnerStep
  <2>4. \A c \in Contexts : StagedStay(server, server', c)
    BY <2>2, StagedStays
  <2>5. inbox' \in [Contexts -> Seq(Message)] /\ InboxOK(inbox', server', op) /\ holds' \in Nat /\ passed <= holds'
    BY <1>1, <2>2, InboxStays
  <2>6. \A j \in Regs(server) : j # i => StaysFresh(server.regs[j], server'.regs[j])
    BY <2>1 DEF StaysFresh
  <2> QED BY <1>1, <1>6, <2>1, <2>2, <2>3, <2>4, <2>5, <2>6, CoroutineStep
<1> QED BY <1>7, <1>8

LEMMA HoldRegistrationStep == SharesInv /\ HoldRegistration => SharesInv'
<1> SUFFICES ASSUME SharesInv, HoldRegistration PROVE SharesInv'
  OBVIOUS
<1> DEFINE i == Task1.reg
<1>1. /\ loop # <<>> /\ Done(<<>>) /\ UNCHANGED <<passed, holds, puts, sessions, inbox, cell, edits, op>>
      /\ Task1.do = "hold"
  BY DEF HoldRegistration, Executes, Task1, users
<1>2. i \in Regs(server) /\ server.regs[i].ctx = Task1.ctx /\ op[Task1.ctx] = "finishing"
  BY <1>1, HeadTask DEF TaskRefs, TaskOf, StagesOf
<1>3. server' = (IF server.regs[i].closed THEN server ELSE HeldOne(server, i))
      /\ shown' = shown \cup Served(server')
  BY DEF HoldRegistration, Becomes, HeldOne
<1>4. server \in Server /\ ShownOK(server, shown) /\ loop' = Tail(loop) /\ OwnerOK(server, op)
  BY <1>1, SameCalm, DonePops DEF SharesInv
<1>5. CASE server.regs[i].closed
  <2>1. Calm(server, server') /\ ClosesIn(server, server', {})
    BY <1>3, <1>5, SameCalm DEF ClosesIn
  <2>2. \A c \in Contexts : StagedStay(server, server', c)
    BY <2>1, CalmKept, StagedStays
  <2> QED BY <1>1, <1>3, <2>1, <2>2, CalmCoroutine
<1>6. CASE ~server.regs[i].closed
  <2>1. ~server.regs[i].staged /\ ~New(server, sessions, loop, op, i)
    BY <1>2, <1>6, NotNew DEF Loading
  <2>2. /\ SameMap(server, server') /\ ShownOK(server', shown') /\ server'.ns = server.ns
        /\ \A j \in Regs(server) : j # i => server'.regs[j] = server.regs[j]
        /\ ~server'.regs[i].active /\ ~server'.regs[i].reattaching
    BY <1>2, <1>3, <1>4, <1>6, <2>1, HoldingStep
  <2>3. Kept(server, server') /\ ClosesIn(server, server', {}) /\ Regs(server') = Regs(server)
    BY <2>2 DEF SameMap, SameReg, Kept, Regs, ClosesIn
  <2>4. OwnerOK(server', op')
    <3>1. \A j \in Regs(server') : Public(server', j) => Follower(server, server', op, j)
      BY <2>2, <2>3 DEF SameMap, SameReg, Public, Follower
    <3>2. OwnerKept(server, server') /\ SameClosed(op, op') /\ server' \in Server
      BY <1>1, <2>2 DEF OwnerKept, SameClosed, SameMap
    <3> QED BY <1>4, <3>1, <3>2, OwnerStep
  <2>5. \A c \in Contexts : StagedStay(server, server', c)
    BY <2>3, StagedStays
  <2>6. inbox' \in [Contexts -> Seq(Message)] /\ InboxOK(inbox', server', op) /\ holds' \in Nat /\ passed <= holds'
    BY <1>1, <2>3, InboxStays
  <2>7. \A j \in Regs(server) : New(server, sessions, loop, op, j) => StaysFresh(server.regs[j], server'.regs[j])
    BY <2>1, <2>2 DEF StaysFresh
  <2> QED BY <1>1, <1>4, <2>2, <2>3, <2>4, <2>5, <2>6, <2>7, CoroutineStep
<1> QED BY <1>5, <1>6

LEMMA HoldStep == SharesInv /\ Hold => SharesInv'
<1> SUFFICES ASSUME SharesInv, Hold PROVE SharesInv'
  OBVIOUS
<1> DEFINE c == Task1.ctx
<1>1. /\ loop # <<>> /\ Done(<<>>) /\ UNCHANGED <<passed, puts, sessions, inbox, cell, edits>>
      /\ Task1.do = "hold_namespace"
  BY DEF Hold, Executes, Task1
<1>2. op[c] = "holding" /\ c \in Contexts /\ op \in [Contexts -> Stages]
  BY <1>1, HeadTask DEF StagesOf, SharesInv, TypeOK
<1>3. op' = AfterStage(op, c) /\ Task1.do \in Waited
  BY <1>1 DEF Hold, Awaited, AfterStage, Enters, Waited
<1>4. op'[c] = "closed" /\ \A d \in Contexts : d # c => op'[d] = op[d]
  BY <1>2, <1>3 DEF AfterStage, After
<1>5. server \in Server /\ ShownOK(server, shown) /\ loop' = Tail(loop) /\ OwnerOK(server, op)
      /\ holds \in Nat /\ passed \in 0..holds
  BY <1>1, SameCalm, DonePops DEF SharesInv, TypeOK
<1>6. \A i \in Regs(server) : server.regs[i].ctx \in Contexts
  BY <1>5, Typed DEF Registration
<1>7. CASE server.ns.owner # c
  <2>1. server' = server /\ shown' = shown /\ holds' = holds
    BY <1>7 DEF Hold, registry
  <2>2. Calm(server, server') /\ ClosesIn(server, server', {})
    BY <2>1, SameCalm DEF ClosesIn
  <2>3. Kept(server, server') /\ \A d \in Contexts : StagedStay(server, server', d)
    BY <2>2, CalmKept, StagedStays
  <2>4. OwnerOK(server', op')
    <3>1. server.ns.owner \in Contexts \cup {NoOwner}
      BY <1>5 DEF Server, Namespace
    <3>2. ASSUME NEW i \in Regs(server), Public(server, i) PROVE OwnerFits(server, op', i)
      <4>1. OwnerFits(server, op, i)
        BY <1>5, <3>2 DEF OwnerOK
      <4> QED BY <1>2, <1>4, <1>6, <1>7, <4>1 DEF OwnerFits
    <3>3. server.ns.owner # NoOwner /\ ~server.ns.active => op'[server.ns.owner] = "closed"
      BY <1>4, <1>5, <1>7, <3>1 DEF OwnerOK
    <3> QED BY <2>1, <3>2, <3>3 DEF OwnerOK
  <2>5. inbox' \in [Contexts -> Seq(Message)] /\ InboxOK(inbox', server', op) /\ holds' \in Nat /\ passed <= holds'
    BY <1>1, <2>1, <2>3, InboxStays
  <2>6. \A j \in Regs(server) : StaysFresh(server.regs[j], server'.regs[j])
    BY <2>1 DEF StaysFresh
  <2> QED BY <1>1, <1>3, <1>5, <2>1, <2>3, <2>4, <2>5, <2>6, CoroutineStep
<1>8. CASE server.ns.owner = c
  <2>1. HeldAll(server, server', c) /\ ShownOK(server', shown')
    BY <1>8, HoldEffect
  <2>2. /\ SameMap(server, server') /\ server'.ns.owner = server.ns.owner
        /\ \A i \in Regs(server) : IF i \in Own(server, c) THEN ~server'.regs[i].active /\ ~server'.regs[i].reattaching
                                                           ELSE server'.regs[i] = server.regs[i]
    BY <2>1 DEF HeldAll
  <2>3. Kept(server, server') /\ ClosesIn(server, server', {}) /\ Regs(server') = Regs(server)
    BY <2>2 DEF SameMap, SameReg, Kept, Regs, ClosesIn
  <2>4. \A d \in Contexts : StagedStay(server, server', d)
    BY <2>3, StagedStays
  <2>5. ASSUME NEW i \in Regs(server), server.regs[i].ctx = c, Public(server, i)
        PROVE  i \in Own(server, c)
    BY <1>5, <2>5 DEF ShownOK, RegistryOK, PublicOK, Public, Own, Recorded
  <2>6. ASSUME NEW i \in Own(server, c)
        PROVE  ~New(server, sessions, loop, op, i) /\ server.regs[i].ctx = c
    <3>1. i \in Regs(server) /\ server.regs[i].ctx = c /\ ~server.regs[i].closed
      BY DEF Own, Recorded
    <3> QED BY <1>2, <3>1, NotNew DEF Loading
  <2>7. OwnerOK(server', op')
    <3>1. ASSUME NEW i \in Regs(server'), Public(server', i) PROVE OwnerFits(server', op', i)
      <4>1. i \in Regs(server) /\ Public(server, i) /\ server'.regs[i].ctx = server.regs[i].ctx
        BY <2>2, <2>3, <3>1 DEF SameMap, SameReg, Public
      <4>2. CASE server.regs[i].ctx = c
        BY <1>4, <2>2, <2>5, <4>1, <4>2 DEF OwnerFits
      <4>3. CASE server.regs[i].ctx # c
        <5>1. OwnerFits(server, op, i) /\ i \notin Own(server, c)
          BY <1>5, <2>6, <4>1, <4>3 DEF OwnerOK
        <5> QED BY <1>4, <1>6, <2>2, <4>1, <4>3, <5>1 DEF OwnerFits
      <4> QED BY <4>2, <4>3
    <3>2. server'.ns.owner # NoOwner /\ ~server'.ns.active => op'[server'.ns.owner] = "closed"
      BY <1>4, <1>8, <2>2
    <3> QED BY <3>1, <3>2 DEF OwnerOK
  <2>8. holds' = holds + 1
    BY <1>8 DEF Hold
  <2>9. inbox' \in [Contexts -> Seq(Message)] /\ InboxOK(inbox', server', op) /\ holds' \in Nat /\ passed <= holds'
    <3>1. InboxOK(inbox, server, op) /\ inbox \in [Contexts -> Seq(Message)]
      BY DEF SharesInv, TypeOK, RefsOK
    <3>2. InboxOK(inbox, server', op)
      BY <2>3, <3>1, KeptFollows, FollowsRefers
    <3> QED BY <1>1, <1>5, <2>8, <3>1, <3>2
  <2>10. \A j \in Regs(server) : New(server, sessions, loop, op, j) => StaysFresh(server.regs[j], server'.regs[j])
    BY <2>2, <2>6 DEF StaysFresh
  <2> QED BY <1>1, <1>3, <1>5, <2>1, <2>3, <2>4, <2>7, <2>9, <2>10, CoroutineStep
<1> QED BY <1>7, <1>8

LEMMA DeliverStep == SharesInv /\ Deliver => SharesInv'
<1> SUFFICES ASSUME SharesInv, Deliver PROVE SharesInv'
  OBVIOUS
<1> DEFINE i == Task1.reg
           c == server.regs[i].ctx
<1>1. /\ loop # <<>> /\ Done(<<>>) /\ UNCHANGED <<passed, holds, puts, sessions, cell, edits, op>>
      /\ Task1.do = "deliver"
  BY DEF Deliver, Executes, Task1, users
<1>2. i \in Regs(server) /\ Task1.value \in Values /\ 1 \in DOMAIN loop /\ Task1 = loop[1]
  BY <1>1, HeadTask DEF TaskRefs, TaskOf
<1>3. server \in Server /\ ShownOK(server, shown) /\ loop' = Tail(loop) /\ OwnerOK(server, op)
      /\ server.regs[i] \in Registration /\ c \in Contexts /\ RegistryOK(server)
  BY <1>1, <1>2, SameCalm, DonePops, Typed DEF SharesInv, Registration
<1>4. PICK type \in {"error", "conflict", "written"} :
        inbox' = [inbox EXCEPT ![c] = Append(@,
                   [type |-> type, reg |-> i, value |-> server'.regs[i].checksum,
                    ws |-> server'.regs[i].ws, request |-> NoOwner])]
  BY DEF Deliver, Becomes
<1>5. /\ server' = server \/ (server.regs[i].active /\ server' = Install(server, i, Task1.value))
      /\ shown' = shown \cup Served(server')
  BY DEF Deliver, Becomes
<1>6. /\ ShownOK(server', shown') /\ server' \in Server /\ Kept(server, server')
      /\ ClosesIn(server, server', {}) /\ OwnerKept(server, server')
      /\ \A j \in Regs(server) : j # i => StaysFresh(server.regs[j], server'.regs[j])
      /\ \A j \in Regs(server) : Public(server', j) => Follower(server, server', op, j)
  <2>1. CASE server' = server
    <3>1. ShownOK(server', shown') /\ Calm(server, server')
      BY <1>3, <1>5, <2>1, SameCalm, ServedShown
    <3> QED BY <1>3, <2>1, <3>1, CalmKept DEF ClosesIn, OwnerKept, Follower
  <2>2. CASE server.regs[i].active /\ server' = Install(server, i, Task1.value)
    <3>1. Installed(server, i, server')
      BY <1>2, <1>3, <2>2, InstallEffect
    <3>2. ShownOK(server', shown')
      BY <1>2, <1>3, <1>5, <2>2, <3>1, InstalledStep
    <3>3. /\ server' \in Server /\ server'.ns = server.ns /\ DOMAIN server'.regs = DOMAIN server.regs
          /\ \A j \in Regs(server) : j # i => server'.regs[j] = server.regs[j]
          /\ LET reg == server.regs[i]  new == server'.regs[i] IN
             /\ new.ctx = reg.ctx /\ new.staged = reg.staged /\ new.closed = reg.closed
             /\ new.active = reg.active /\ new.held = reg.held /\ new.reattaching = reg.reattaching
      BY <3>1 DEF Installed
    <3>4. Kept(server, server') /\ ClosesIn(server, server', {}) /\ OwnerKept(server, server')
      BY <1>2, <3>3 DEF Kept, ClosesIn, OwnerKept, Regs
    <3>5. \A j \in Regs(server) : StaysFresh(server.regs[j], server'.regs[j])
      BY <1>2, <3>3 DEF StaysFresh
    <3>6. \A j \in Regs(server) : Public(server', j) => Follower(server, server', op, j)
      BY <1>2, <3>3 DEF Public, Follower
    <3> QED BY <3>2, <3>3, <3>4, <3>5, <3>6
  <2> QED BY <1>5, <2>1, <2>2
<1>7. Regs(server') = Regs(server)
  BY <1>6 DEF Kept
<1>8. OwnerOK(server', op')
  <2>1. SameClosed(op, op')
    BY <1>1 DEF SameClosed
  <2> QED BY <1>3, <1>6, <1>7, <2>1, OwnerStep
<1>9. \A d \in Contexts : StagedStay(server, server', d)
  BY <1>6, StagedStays
<1> DEFINE m == [type |-> type, reg |-> i, value |-> server'.regs[i].checksum,
                 ws |-> server'.regs[i].ws, request |-> NoOwner]
<1>10. m \in Message /\ MessageFits(m, server', c) /\ m.type # "begin_close" /\ m.reg = i
  <2>1. server'.regs[i] \in Registration /\ server'.regs[i].ctx = c /\ i \in Regs(server')
    BY <1>2, <1>6, <1>7, Typed DEF Kept
  <2>2. server'.regs[i].checksum \in Values \cup {NoValue} /\ server'.regs[i].ws \in Nat /\ i \in {0} \cup Ids
    <3>1. i \in {0} \cup Ids
      BY <1>1, HeadTask DEF Task
    <3> HIDE DEF i
    <3> QED BY <2>1, <3>1 DEF Registration
  <2>3. m \in Message
    BY <2>2 DEF Message
  <2> QED BY <2>1, <2>3 DEF MessageFits
<1>11. inbox' = Sent(inbox, c, m)
  BY <1>4 DEF Sent
<1> HIDE DEF m
<1>12. inbox \in [Contexts -> Seq(Message)] /\ InboxOK(inbox, server', op)
  BY <1>6, KeptFollows, FollowsRefers DEF SharesInv, TypeOK, RefsOK
<1>13. /\ InboxOK(inbox', server', op) /\ inbox' \in [Contexts -> Seq(Message)]
       /\ \A j : Unheard(inbox, j) /\ ~About(m, j) => Unheard(inbox', j)
  <2> HIDE DEF c, i
  <2>1. m.type = "begin_close" => op[c] = "refusing" /\ \A k \in DOMAIN inbox[c] : inbox[c][k].type # "begin_close"
    BY <1>10
  <2>2. m \in Message /\ c \in Contexts /\ MessageFits(m, server', c)
    BY <1>3, <1>10
  <2> QED BY <1>11, <1>12, <2>1, <2>2, InboxAppend
<1>14. \A j \in Regs(server) : ~(Task1.do = "deliver" /\ Task1.reg = j) => (Unheard(inbox, j) => Unheard(inbox', j))
  BY <1>1, <1>10, <1>13 DEF About
<1>15. ~New(server, sessions, loop, op, i)
  <2>1. ~DeliverAfter(loop, i)
    BY <1>1, <1>2, LoopsPop DEF SharesInv, TypeOK
  <2> QED BY <1>2, <2>1 DEF SharesInv, NewOK, NewAt
<1>16. holds' \in Nat /\ passed <= holds'
  BY <1>1 DEF SharesInv, TypeOK
<1> QED BY <1>1, <1>3, <1>6, <1>8, <1>9, <1>13, <1>14, <1>15, <1>16, CoroutineStep

-----------------------------------------------------------------------------
(* A call of a Context goes on: a step of c to another stage, which submits w. *)

Others(s, t, c) ==
  \A i \in Regs(t) : t.regs[i].ctx # c =>
    /\ i \in Regs(s) /\ t.regs[i].ctx = s.regs[i].ctx /\ (t.regs[i].staged <=> s.regs[i].staged)
    /\ s.regs[i].closed => t.regs[i].closed
    /\ StaysFresh(s.regs[i], t.regs[i])
SessionsOf(ss, ss2, s, t, c) ==
  /\ ss2 \in Seq(Session) /\ Len(ss2) = Len(t.regs)
  /\ \A i \in Regs(s) : s.regs[i].ctx # c => ss2[i] = ss[i]

LEMMA ActorStep ==
  ASSUME SharesInv, NEW c \in Contexts, NEW stage \in Stages, op' = [op EXCEPT ![c] = stage], Free(loop, c),
         NEW w \in Seq(Task), loop' = loop \o w, \A k \in DOMAIN w : w[k].ctx = c,
         TasksRefer(w, server'), TasksOK(w, op'),
         UNCHANGED <<passed, holds, puts, cell, edits>>,
         ShownOK(server', shown'), OwnerOK(server', op'), Follows(server, server'), Others(server, server', c),
         \A d \in Contexts : d # c /\ op[d] = "load" => StagedStay(server, server', d),
         SessionsOf(sessions, sessions', server, server', c),
         inbox' \in [Contexts -> Seq(Message)], InboxOK(inbox', server', op'),
         \A i : Unheard(inbox, i) => Unheard(inbox', i),
         SessionsAt(server', sessions', loop', stage, c),
         \A i \in Regs(server') : server'.regs[i].ctx = c =>
           NewAt(server', sessions', loop', op', inbox', puts', i)
  PROVE  SharesInv'
<1>1. /\ TypeOK /\ loop \in Seq(Task) /\ op \in [Contexts -> Stages] /\ TasksOK(loop, op)
      /\ TasksRefer(loop, server) /\ SessionsOK(server, sessions, loop, op) /\ NewOK /\ PutsRefer(puts, server)
  BY DEF SharesInv, TypeOK, RefsOK
<1>2. op' \in [Contexts -> Stages] /\ op'[c] = stage /\ \A d \in Contexts : d # c => op'[d] = op[d]
  BY <1>1
<1>3. TasksRefer(loop, server') /\ PutsRefer(puts, server')
  BY <1>1, FollowsRefers
<1>4. TasksRefer(loop', server') /\ loop' \in Seq(Task)
  BY <1>1, <1>3, ReferJoin
<1>5. TasksOK(loop', op')
  <2>1. TasksOK(loop, op')
    BY <1>1, TasksFree
  <2>2. Apart(loop, w)
    BY DEF Apart, Free
  <2> QED BY <1>1, <1>3, <2>1, <2>2, TasksJoin
<1>6. TypeOK'
  <2>1. server' \in Server /\ Len(server'.regs) <= MaxRegs /\ shown' \subseteq [route: Routes, marker: Nat, value: Values]
    BY DEF ShownOK, RegistryOK
  <2> QED BY <1>1, <1>2, <1>4, <2>1 DEF TypeOK, SessionsOf
<1>7. RefsOK'
  BY <1>3, <1>4 DEF RefsOK
<1>8. \A i \in Regs(server') : server'.regs[i].ctx \in Contexts
  <2>1. server' \in Server
    BY DEF ShownOK, RegistryOK
  <2> QED BY <2>1, Typed DEF Registration
<1>9. ASSUME NEW i \in Regs(server'), server'.regs[i].ctx # c, NEW do \in {"activate", "unregister", "deliver"}
      PROVE  Loops(loop', do, i) <=> Loops(loop, do, i)
  <2>1. ~Loops(w, do, i)
    BY <1>9 DEF Loops, TasksRefer, TaskRefs, TaskOf
  <2> QED BY <1>1, <2>1, LoopsJoin
<1>10. SessionsOK(server', sessions', loop', op')
  <2> SUFFICES ASSUME NEW d \in Contexts, d # c PROVE SessionsAt(server', sessions', loop', op'[d], d)
    BY <1>2 DEF SessionsOK
  <2>1. SessionsAt(server, sessions, loop, op[d], d) /\ op'[d] = op[d]
    BY <1>1, <1>2 DEF SessionsOK
  <2>2. SessionsFollow(server, server', sessions, sessions', loop, loop', d)
    BY <1>9 DEF SessionsFollow, Others, SessionsOf
  <2> QED BY <2>1, <2>2, SessionsKept
<1>11. NewOK'
  <2> SUFFICES ASSUME NEW i \in Regs(server'), server'.regs[i].ctx # c
               PROVE  NewAt(server', sessions', loop', op', inbox', puts', i)
    BY DEF NewOK
  <2>1. /\ i \in Regs(server) /\ server'.regs[i].ctx = server.regs[i].ctx
        /\ (server'.regs[i].staged <=> server.regs[i].staged)
        /\ server.regs[i].closed => server'.regs[i].closed
        /\ StaysFresh(server.regs[i], server'.regs[i])
    BY DEF Others
  <2>2. op'[server'.regs[i].ctx] = op[server.regs[i].ctx] /\ sessions'[i] = sessions[i]
    BY <1>2, <1>8, <2>1 DEF SessionsOf
  <2>3. New(server', sessions', loop', op', i) => New(server, sessions, loop, op, i)
    BY <1>9, <2>1, <2>2 DEF New
  <2>4. NewAt(server, sessions, loop, op, inbox, puts, i)
    BY <1>1, <2>1 DEF NewOK
  <2>5. DeliverAfter(loop, i) => DeliverAfter(loop', i)
    <3>1. ~Loops(w, "deliver", i)
      BY <2>1 DEF Loops, TasksRefer, TaskRefs, TaskOf
    <3> QED BY <1>1, <3>1, LoopsJoin
  <2>6. Fresh(server.regs[i], sessions[i]) => Fresh(server'.regs[i], sessions'[i])
    BY <2>1, <2>2 DEF Fresh, StaysFresh
  <2> QED BY <1>9, <2>1, <2>2, <2>3, <2>4, <2>5, <2>6 DEF NewAt
<1> QED BY <1>5, <1>6, <1>7, <1>10, <1>11 DEF SharesInv

\* What is submitted: one coroutine for each registration of a set, or one for the Context.
LEMMA OneTask ==
  ASSUME NEW c \in Contexts, NEW i \in {0} \cup Ids,
         NEW do \in {"unregister", "begin_close", "hold_namespace", "release", "deliver", "complete"}
  PROVE  EachOf(<<Todo(do, c, i)>>, do, c, {i})
<1>1. Todo(do, c, i) \in Task
  BY DEF Todo, Task
<1>2. Todo(do, c, i).do = do /\ Todo(do, c, i).ctx = c /\ Todo(do, c, i).reg = i
  BY DEF Todo
<1> DEFINE t == Todo(do, c, i)
<1> HIDE DEF t
<1>3. <<t>> \in Seq(Task) /\ DOMAIN <<t>> = {1} /\ <<t>>[1] = t
  BY <1>1 DEF t
<1> QED BY <1>2, <1>3 DEF EachOf, t

MayStart(do, c, I, o, s) ==
  /\ do \in {"activate", "unregister", "hold", "begin_close", "hold_namespace", "release"}
  /\ o[c] \in StagesOf[do]
  /\ do \in Waited => o[c] # "attached" /\ \A i, j \in I : i = j
  /\ do \in {"activate", "unregister", "hold"} => \A i \in I : i \in Regs(s) /\ s.regs[i].ctx = c
LEMMA EachOK ==
  ASSUME NEW w, NEW do, NEW c, NEW I, EachOf(w, do, c, I), NEW o, NEW s, MayStart(do, c, I, o, s)
  PROVE  TasksOK(w, o) /\ TasksRefer(w, s) /\ w \in Seq(Task)
<1>1. /\ w \in Seq(Task)
      /\ \A k \in DOMAIN w : w[k].do = do /\ w[k].ctx = c /\ w[k].reg \in I
      /\ \A j, k \in DOMAIN w : w[j].reg = w[k].reg => j = k
  BY DEF EachOf
<1>2. TasksRefer(w, s)
  BY <1>1 DEF TasksRefer, TaskRefs, TaskOf, MayStart
<1>3. TasksOK(w, o)
  BY <1>1 DEF TasksOK, Waited, MayStart
<1> QED BY <1>1, <1>2, <1>3

LEMMA NoTasks ==
  ASSUME NEW o, NEW s
  PROVE  TasksOK(<<>>, o) /\ TasksRefer(<<>>, s) /\ <<>> \in Seq(Task)
BY DEF TasksOK, TasksRefer

\* The server stays as it is, and nothing is activated.
LEMMA PlainStep ==
  ASSUME SharesInv, NEW c \in Contexts, NEW stage \in Stages, stage \notin {"closed", "share"}, op[c] # "closed",
         op' = [op EXCEPT ![c] = stage], Free(loop, c),
         NEW w, loop' = loop \o w, \A k \in DOMAIN w : w[k].ctx = c /\ w[k].do \notin {"activate", "deliver"},
         w \in Seq(Task), TasksRefer(w, server), TasksOK(w, op'),
         UNCHANGED <<server, shown, passed, holds, puts, cell, edits>>,
         SessionsOf(sessions, sessions', server, server, c),
         \A i \in Regs(server) : sessions'[i] = sessions[i] \/ sessions'[i] = NoSession,
         inbox' \in [Contexts -> Seq(Message)], InboxOK(inbox', server, op'),
         \A i : Unheard(inbox, i) => Unheard(inbox', i),
         SessionsAt(server, sessions', loop', stage, c)
  PROVE  SharesInv'
<1>1. /\ server \in Server /\ ShownOK(server, shown) /\ OwnerOK(server, op) /\ Calm(server, server)
      /\ op \in [Contexts -> Stages] /\ loop \in Seq(Task) /\ TasksRefer(loop, server) /\ NewOK
  BY SameCalm DEF SharesInv, TypeOK, RefsOK
<1>2. OwnerOK(server, op')
  <2>1. SameClosed(op, op')
    BY <1>1 DEF SameClosed
  <2> QED BY <1>1, <2>1, OwnerCalm
<1>3. Follows(server, server) /\ Others(server, server, c) /\ Kept(server, server)
  BY DEF Follows, Others, StaysFresh, Kept
<1>4. \A d \in Contexts : StagedStay(server, server, d)
  BY DEF StagedStay, Staged
<1>5. ASSUME NEW i \in Regs(server), server.regs[i].ctx = c
      PROVE  NewAt(server, sessions', loop', op', inbox', puts', i)
  <2>1. ~Loops(loop, "activate", i) /\ ~Loops(loop', "activate", i)
    <3>1. ~Loops(w, "activate", i)
      BY DEF Loops
    <3>3. Loops(loop', "activate", i) <=> Loops(loop, "activate", i) \/ Loops(w, "activate", i)
      BY <1>1, LoopsJoin
    <3>2. ~Loops(loop, "activate", i)
      BY <1>1, <1>5 DEF Loops, Free, TasksRefer, TaskRefs, TaskOf, Quiet
    <3> QED BY <3>1, <3>2, <3>3
  <2>2. SUFFICES ASSUME New(server, sessions', loop', op', i)
                 PROVE  /\ Fresh(server.regs[i], sessions'[i]) /\ Unheard(inbox', i) /\ Unasked(puts', i)
                        /\ DeliverAfter(loop', i)
    BY <2>1 DEF NewAt
  <2>3. server.regs[i].staged
    BY <1>1, <1>5, <2>1, <2>2 DEF New
  <2>4. Fresh(server.regs[i], sessions[i]) /\ Unheard(inbox, i) /\ Unasked(puts, i) /\ DeliverAfter(loop, i)
    BY <1>1, <2>3 DEF NewOK, NewAt, New
  <2>5. Fresh(server.regs[i], sessions'[i])
    BY <2>4 DEF Fresh, NoSession
  <2>6. ~Loops(w, "deliver", i)
    BY DEF Loops
  <2> QED BY <1>1, <2>4, <2>5, <2>6, LoopsJoin
<1> QED BY <1>1, <1>2, <1>3, <1>4, <1>5, ActorStep

LEMMA SameSessions ==
  ASSUME SharesInv, NEW c
  PROVE  SessionsOf(sessions, sessions, server, server, c)
BY DEF SharesInv, TypeOK, SessionsOf

-----------------------------------------------------------------------------
(* The steps of the calls that leave the server as it is. *)

\* Every session and registration is as it was; coroutines are only added.
LEMMA SameFollow ==
  ASSUME SharesInv, NEW w \in Seq(Task), loop' = loop \o w, NEW c
  PROVE  SessionsFollow(server, server, sessions, sessions, loop, loop', c)
<1>1. loop \in Seq(Task)
  BY DEF SharesInv, TypeOK
<1> QED BY <1>1, LoopsJoin DEF SessionsFollow

\* A call that changes neither sessions nor messages.
LEMMA CallStep ==
  ASSUME SharesInv, NEW c \in Contexts, NEW stage \in Stages, stage \notin {"closed", "share"}, op[c] # "closed",
         op[c] # "refusing", op' = [op EXCEPT ![c] = stage], Free(loop, c),
         NEW w, loop' = loop \o w, \A k \in DOMAIN w : w[k].ctx = c /\ w[k].do \notin {"activate", "deliver"},
         w \in Seq(Task), TasksRefer(w, server), TasksOK(w, op'),
         UNCHANGED <<server, shown, passed, holds, puts, cell, edits, sessions, inbox>>,
         SessionsAt(server, sessions, loop', stage, c)
  PROVE  SharesInv'
<1>1. op \in [Contexts -> Stages] /\ InboxOK(inbox, server, op) /\ inbox \in [Contexts -> Seq(Message)]
  BY DEF SharesInv, TypeOK, RefsOK
<1>2. InboxOK(inbox, server, op')
  <2>1. \A d \in Contexts : op'[d] = op[d] \/ op[d] # "refusing"
    BY <1>1
  <2> QED BY <1>1, <2>1, InboxMoves
<1>3. SessionsOf(sessions, sessions, server, server, c)
  BY SameSessions
<1> QED BY <1>1, <1>2, <1>3, PlainStep

\* ... and whose stage is one of the same kind.
LEMMA MoveStep ==
  ASSUME SharesInv, NEW c \in Contexts, NEW stage \in Stages, stage # "closed", op[c] # "closed",
         op[c] # "refusing", op' = [op EXCEPT ![c] = stage], Free(loop, c),
         NEW w, loop' = loop \o w, \A k \in DOMAIN w : w[k].ctx = c /\ w[k].do \notin {"activate", "deliver"},
         w \in Seq(Task), TasksRefer(w, server), TasksOK(w, op'),
         UNCHANGED <<server, shown, passed, holds, puts, cell, edits, sessions, inbox>>,
         \/ op[c] \in Settled /\ stage \in Settled
         \/ op[c] \in Ended /\ stage \in Ended
         \/ op[c] \in Loading /\ stage \in Loading \ {"load"}
  PROVE  SharesInv'
<1>1. SessionsFollow(server, server, sessions, sessions, loop, loop', c) /\ SessionsAt(server, sessions, loop, op[c], c)
  BY SameFollow DEF SharesInv, SessionsOK
<1>2. stage \notin {"load", "share"}
  BY DEF Settled, Ended, Loading
<1>3. SessionsAt(server, sessions, loop', stage, c)
  BY <1>1, <1>2, SessionsMove
<1> QED BY <1>2, <1>3, CallStep

\* The coroutines of a Context are there at the stages at which it waits for them.
LEMMA FreeNow ==
  ASSUME SharesInv, NEW c,
         op[c] \notin {"attached", "finishing", "undo", "unshare", "unloading", "flagged", "release", "holding"}
  PROVE  Free(loop, c)
BY FreeAt DEF SharesInv, TypeOK

LEMMA OneCall ==
  ASSUME SharesInv, NEW c \in Contexts, NEW stage \in Stages, stage \notin {"closed", "attached"}, op[c] # "closed",
         op[c] # "refusing", op' = [op EXCEPT ![c] = stage], Free(loop, c),
         NEW do \in {"begin_close", "hold_namespace", "release"}, stage \in StagesOf[do],
         Submit(<<Todo(do, c, 0)>>),
         UNCHANGED <<server, shown, passed, holds, puts, cell, edits, sessions, inbox>>,
         (op[c] \in Settled /\ stage \in Settled) \/ (op[c] \in Ended /\ stage \in Ended)
  PROVE  SharesInv'
<1> DEFINE w == <<Todo(do, c, 0)>>
<1>1. loop' = loop \o w /\ op'[c] = stage
  BY DEF Submit, SharesInv, TypeOK
<1>2. EachOf(w, do, c, {0})
  BY OneTask
<1> HIDE DEF w
<1>3. TasksOK(w, op') /\ TasksRefer(w, server) /\ w \in Seq(Task)
  <2>1. do \in {"activate", "unregister", "hold", "begin_close", "hold_namespace", "release"}
        /\ do \notin {"activate", "unregister", "hold"}
    OBVIOUS
  <2> DEFINE I == {0}
  <2>2. op'[c] \in StagesOf[do] /\ op'[c] # "attached" /\ \A i, j \in I : i = j
    BY <1>1
  <2>3. EachOf(w, do, c, I)
    BY <1>2
  <2> HIDE DEF I
  <2>4. MayStart(do, c, I, op', server)
    BY <2>1, <2>2 DEF MayStart
  <2> QED BY <2>3, <2>4, EachOK
<1>4. \A k \in DOMAIN w : w[k].ctx = c /\ w[k].do \notin {"activate", "deliver"}
  BY <1>2 DEF EachOf
<1> QED BY <1>1, <1>3, <1>4, MoveStep

LEMMA ReleaseStep ==
  ASSUME NEW c \in Contexts
  PROVE  SharesInv /\ Release(c) => SharesInv'
<1> SUFFICES ASSUME SharesInv, Release(c) PROVE SharesInv'
  OBVIOUS
<1>1. /\ op[c] = "undone" /\ op' = [op EXCEPT ![c] = "release"] /\ Submit(<<Todo("release", c, 0)>>)
      /\ UNCHANGED <<server, shown, passed, holds, puts, cell, edits, sessions, inbox>>
  BY DEF Release, Enters, registry
<1>2. Free(loop, c)
  BY <1>1, FreeNow
<1> QED BY <1>1, <1>2, OneCall DEF Stages, StagesOf, Settled

LEMMA CloseStep ==
  ASSUME NEW c \in Contexts
  PROVE  SharesInv /\ Close(c) => SharesInv'
<1> SUFFICES ASSUME SharesInv, Close(c) PROVE SharesInv'
  OBVIOUS
<1>1. /\ op[c] = "idle" /\ op' = [op EXCEPT ![c] = "flagged"] /\ Submit(<<Todo("begin_close", c, 0)>>)
      /\ UNCHANGED <<server, shown, passed, holds, puts, cell, edits, sessions, inbox>>
  BY DEF Close, Enters, registry
<1>2. Free(loop, c)
  BY <1>1, FreeNow
<1> QED BY <1>1, <1>2, OneCall DEF Stages, StagesOf, Settled

LEMMA HoldNamespaceStep ==
  ASSUME NEW c \in Contexts
  PROVE  SharesInv /\ HoldNamespace(c) => SharesInv'
<1> SUFFICES ASSUME SharesInv, HoldNamespace(c) PROVE SharesInv'
  OBVIOUS
<1>1. /\ op[c] = "finishing" /\ op' = [op EXCEPT ![c] = "holding"] /\ Submit(<<Todo("hold_namespace", c, 0)>>)
      /\ \A k \in DOMAIN loop : loop[k].do # "hold" \/ loop[k].ctx # c
      /\ UNCHANGED <<server, shown, passed, holds, puts, cell, edits, sessions, inbox>>
  BY DEF HoldNamespace, Enters, registry
<1>2. Free(loop, c)
  <2> SUFFICES ASSUME NEW k \in DOMAIN loop, loop[k].ctx = c PROVE loop[k].do \in Quiet
    BY DEF Free
  <2>1. loop[k] \in Task /\ "finishing" \in StagesOf[loop[k].do] /\ loop[k].do # "hold"
    BY <1>1, TaskAt DEF SharesInv, TypeOK, TasksOK
  <2> QED BY <2>1 DEF Task, StagesOf, Quiet
<1> QED BY <1>1, <1>2, OneCall DEF Stages, StagesOf, Ended

LEMMA LoadFailsStep ==
  ASSUME NEW c \in Contexts
  PROVE  SharesInv /\ LoadFails(c) => SharesInv'
<1> SUFFICES ASSUME SharesInv, LoadFails(c) PROVE SharesInv'
  OBVIOUS
<1>1. /\ op[c] = "load" /\ op' = [op EXCEPT ![c] = "unload"] /\ loop' = loop
      /\ UNCHANGED <<server, shown, passed, holds, puts, cell, edits, sessions, inbox>>
  BY DEF LoadFails, Enters, registry
<1>2. Free(loop, c)
  BY <1>1, FreeNow
<1> DEFINE w == <<>>
<1>3. loop' = loop \o w /\ DOMAIN w = {}
  BY <1>1 DEF SharesInv, TypeOK
<1>4. TasksOK(w, op') /\ TasksRefer(w, server) /\ w \in Seq(Task)
  BY NoTasks
<1> HIDE DEF w
<1>5. "unload" \in Stages /\ op[c] \in Loading /\ "unload" \in Loading \ {"load"}
  BY <1>1 DEF Stages, Loading
<1>6. \A k \in DOMAIN w : w[k].ctx = c /\ w[k].do \notin {"activate", "deliver"}
  BY <1>3
<1> QED BY <1>1, <1>2, <1>3, <1>4, <1>5, <1>6, MoveStep

LEMMA RegsIds ==
  ASSUME SharesInv
  PROVE  Regs(server) \subseteq Ids
<1> SUFFICES ASSUME NEW i \in Regs(server) PROVE i \in Ids
  OBVIOUS
<1>1. server \in Server /\ Len(server.regs) <= MaxRegs /\ server.regs \in Seq(Registration)
  BY SameCalm, Typed DEF RegistryOK
<1>2. i \in 1..Len(server.regs) /\ Len(server.regs) \in Nat
  BY <1>1, Typed
<1> QED BY <1>1, <1>2, SharesAssumption DEF Ids

LEMMA AttachFailsStep ==
  ASSUME NEW c \in Contexts
  PROVE  SharesInv /\ AttachFails(c) => SharesInv'
<1> SUFFICES ASSUME SharesInv, AttachFails(c) PROVE SharesInv'
  OBVIOUS
<1> DEFINE w == Each("unregister", c, Prepared(c))
<1>1. /\ op[c] = "share" /\ op' = [op EXCEPT ![c] = "undo"] /\ loop' = loop \o w
      /\ UNCHANGED <<server, shown, passed, holds, puts, cell, edits, sessions, inbox>>
  BY DEF AttachFails, Enters, registry, Submit
<1>2. Free(loop, c) /\ op \in [Contexts -> Stages] /\ op'[c] = "undo" /\ loop \in Seq(Task)
  BY <1>1, FreeNow DEF SharesInv, TypeOK
<1>3. /\ Prepared(c) \in SUBSET Regs(server) /\ Prepared(c) \in SUBSET Ids
      /\ \A i \in Prepared(c) : server.regs[i].ctx = c
      /\ Prepared(c) = Unattached(server, sessions, c)
  BY RegsIds DEF Prepared, Of, Unattached
<1>4. EachOf(w, "unregister", c, Prepared(c))
  BY <1>3, EachTasks
<1>5. SessionsAt(server, sessions, loop, "share", c)
  BY <1>1 DEF SharesInv, SessionsOK
<1>6. \A i, j \in Prepared(c) : i = j
  BY <1>3, <1>5 DEF SessionsAt
<1> HIDE DEF w
<1>7. TasksOK(w, op') /\ TasksRefer(w, server) /\ w \in Seq(Task)
  <2>1. MayStart("unregister", c, Prepared(c), op', server)
    BY <1>2, <1>3, <1>6 DEF MayStart, StagesOf
  <2> QED BY <1>4, <2>1, EachOK
<1>8. \A k \in DOMAIN w : w[k].ctx = c /\ w[k].do \notin {"activate", "deliver"}
  BY <1>4 DEF EachOf
<1>9. SessionsAt(server, sessions, loop', "undo", c)
  <2>1. ASSUME NEW i \in Regs(server), server.regs[i].ctx = c
        PROVE  SessionFits(server.regs[i], sessions[i], "undo")
    BY <1>5, <2>1 DEF SessionsAt, SessionFits, Loading
  <2>2. ASSUME NEW i \in Prepared(c) PROVE Loops(loop', "unregister", i)
    <3>1. Loops(w, "unregister", i)
      BY <1>4 DEF EachOf, Loops
    <3> QED BY <1>1, <1>2, <1>7, <3>1, LoopsJoin
  <2>3. ASSUME NEW i \in Regs(server), server.regs[i].ctx = c
        PROVE  PreparedFits(server, sessions, loop', "undo", i)
    BY <1>3, <2>2, <2>3 DEF PreparedFits, Unattached, Loading
  <2> QED BY <2>1, <2>3 DEF SessionsAt
<1> QED BY <1>1, <1>2, <1>7, <1>8, <1>9, CallStep DEF Stages

\* ... that submits nothing.
LEMMA SilentStep ==
  ASSUME SharesInv, NEW c \in Contexts, NEW stage \in Stages, stage \notin {"closed", "share"}, op[c] # "closed",
         op' = [op EXCEPT ![c] = stage], Free(loop, c),
         UNCHANGED <<loop, server, shown, passed, holds, puts, cell, edits>>,
         SessionsOf(sessions, sessions', server, server, c),
         \A i \in Regs(server) : sessions'[i] = sessions[i] \/ sessions'[i] = NoSession,
         inbox' \in [Contexts -> Seq(Message)], InboxOK(inbox', server, op'),
         \A i : Unheard(inbox, i) => Unheard(inbox', i),
         SessionsAt(server, sessions', loop, stage, c)
  PROVE  SharesInv'
<1> DEFINE w == <<>>
<1>1. loop' = loop \o w /\ DOMAIN w = {}
  BY DEF SharesInv, TypeOK
<1>2. TasksOK(w, op') /\ TasksRefer(w, server) /\ w \in Seq(Task)
  BY NoTasks
<1> HIDE DEF w
<1>3. \A k \in DOMAIN w : w[k].ctx = c /\ w[k].do \notin {"activate", "deliver"}
  BY <1>1
<1>4. SessionsAt(server, sessions', loop', stage, c)
  OBVIOUS
<1> QED BY <1>1, <1>2, <1>3, <1>4, PlainStep

LEMMA RefuseStep ==
  ASSUME NEW c \in Contexts
  PROVE  SharesInv /\ Refuse(c) => SharesInv'
<1> SUFFICES ASSUME SharesInv, Refuse(c) PROVE SharesInv'
  OBVIOUS
<1> DEFINE m == [type |-> "begin_close", reg |-> 0, value |-> NoValue, ws |-> 0, request |-> NoOwner]
<1>1. /\ op[c] = "begun" /\ op' = [op EXCEPT ![c] = "refusing"] /\ inbox' = Sent(inbox, c, m)
      /\ UNCHANGED <<loop, server, shown, passed, holds, puts, cell, edits, sessions>>
  BY DEF Refuse, Enters, registry, Sent
<1>2. Free(loop, c)
  BY <1>1, FreeNow
<1>3. m \in Message /\ MessageFits(m, server, c) /\ m.type = "begin_close" /\ \A i : ~About(m, i)
  BY DEF Message, MessageFits, About
<1> HIDE DEF m
<1>4. op \in [Contexts -> Stages] /\ InboxOK(inbox, server, op) /\ inbox \in [Contexts -> Seq(Message)]
  BY DEF SharesInv, TypeOK, RefsOK
<1>5. InboxOK(inbox, server, op')
  <2>1. \A d \in Contexts : op'[d] = op[d] \/ op[d] # "refusing"
    BY <1>1, <1>4
  <2> QED BY <1>4, <2>1, InboxMoves
<1>6. op'[c] = "refusing" /\ \A k \in DOMAIN inbox[c] : inbox[c][k].type # "begin_close"
  BY <1>1, <1>4 DEF InboxOK, InboxAt
<1>7. /\ InboxOK(inbox', server, op') /\ inbox' \in [Contexts -> Seq(Message)]
      /\ \A i : Unheard(inbox, i) => Unheard(inbox', i)
  BY <1>1, <1>3, <1>4, <1>5, <1>6, InboxAppend
<1>8. SessionsAt(server, sessions, loop, "refusing", c)
  <2>1. SessionsAt(server, sessions, loop, "begun", c)
    BY <1>1 DEF SharesInv, SessionsOK
  <2>2. SessionsFollow(server, server, sessions, sessions, loop, loop, c)
    BY DEF SessionsFollow
  <2> QED BY <2>1, <2>2, SessionsMove DEF Settled
<1> QED BY <1>1, <1>2, <1>7, <1>8, SameSessions, SilentStep DEF Stages

LEMMA BeginCloseStep ==
  ASSUME NEW c \in Contexts
  PROVE  SharesInv /\ BeginClose(c) => SharesInv'
<1> SUFFICES ASSUME SharesInv, BeginClose(c) PROVE SharesInv'
  OBVIOUS
<1>1. /\ inbox[c] # <<>> /\ Head(inbox[c]).type = "begin_close" /\ inbox' = Taken(inbox, c)
      /\ op' = [op EXCEPT ![c] = "flushing"]
      /\ UNCHANGED <<loop, server, shown, passed, holds, puts, cell, edits, sessions>>
  BY DEF BeginClose, HeadIs, Pop, Enters, registry, Taken
<1>2. op \in [Contexts -> Stages] /\ InboxOK(inbox, server, op) /\ inbox \in [Contexts -> Seq(Message)]
  BY DEF SharesInv, TypeOK, RefsOK
<1>3. /\ InboxOK(inbox', server, op) /\ inbox' \in [Contexts -> Seq(Message)]
      /\ \A i : Unheard(inbox, i) => Unheard(inbox', i)
      /\ op[c] = "refusing" /\ \A k \in DOMAIN inbox'[c] : inbox'[c][k].type # "begin_close"
  BY <1>1, <1>2, InboxPop
<1>4. Free(loop, c)
  BY <1>3, FreeNow
<1>5. InboxOK(inbox', server, op')
  <2>1. ASSUME NEW d \in Contexts, d # c PROVE InboxAt(inbox'[d], server, d, op'[d])
    BY <1>1, <1>2, <1>3, <2>1 DEF InboxOK
  <2>2. InboxAt(inbox'[c], server, c, op'[c])
    BY <1>3 DEF InboxOK, InboxAt
  <2> QED BY <2>1, <2>2 DEF InboxOK
<1>6. SessionsAt(server, sessions, loop, "flushing", c)
  <2>1. SessionsAt(server, sessions, loop, "refusing", c)
    BY <1>3 DEF SharesInv, SessionsOK
  <2>2. SessionsFollow(server, server, sessions, sessions, loop, loop, c)
    BY DEF SessionsFollow
  <2> QED BY <2>1, <2>2, SessionsMove DEF Settled
<1> QED BY <1>1, <1>3, <1>4, <1>5, <1>6, SameSessions, SilentStep DEF Stages

\* All sessions are there when the call returns: what it replaced was unregistered before.
LEMMA ReturnStep ==
  ASSUME NEW c \in Contexts
  PROVE  SharesInv /\ Return(c) => SharesInv'
<1> SUFFICES ASSUME SharesInv, Return(c) PROVE SharesInv'
  OBVIOUS
<1>1. /\ op[c] = "attached" /\ op' = [op EXCEPT ![c] = "idle"] /\ \A i \in Attached(c) : sessions[i].initial
      /\ UNCHANGED <<loop, server, shown, passed, holds, puts, cell, edits, sessions, inbox>>
  BY DEF Return, Enters, registry
<1>2. /\ loop \in Seq(Task) /\ TasksRefer(loop, server) /\ TasksOK(loop, op) /\ NewOK
      /\ op \in [Contexts -> Stages] /\ InboxOK(inbox, server, op) /\ inbox \in [Contexts -> Seq(Message)]
  BY DEF SharesInv, TypeOK, RefsOK
<1>3. ASSUME NEW k \in DOMAIN loop, loop[k].ctx = c PROVE loop[k].do # "activate"
  <2> SUFFICES ASSUME loop[k].do = "activate" PROVE FALSE
    OBVIOUS
  <2> DEFINE i == loop[k].reg
  <2>1. i \in Regs(server) /\ server.regs[i].ctx = c /\ Loops(loop, "activate", i)
    BY <1>2, <1>3 DEF TasksRefer, TaskRefs, TaskOf, Loops
  <2>2. ~sessions[i].initial /\ sessions[i].on
    BY <1>2, <2>1 DEF NewOK, NewAt, New, Fresh
  <2> QED BY <1>1, <2>1, <2>2 DEF Attached, Of
<1>4. Free(loop, c)
  <2> SUFFICES ASSUME NEW k \in DOMAIN loop, loop[k].ctx = c PROVE loop[k].do \in Quiet
    BY DEF Free
  <2>1. loop[k] \in Task /\ "attached" \in StagesOf[loop[k].do]
    BY <1>1, <1>2, TaskAt DEF TasksOK
  <2>2. loop[k].do # "unregister"
    BY <1>1, <1>2, <1>3 DEF TasksOK
  <2> QED BY <1>3, <2>1, <2>2 DEF Task, StagesOf, Quiet
<1>5. SessionsAt(server, sessions, loop, "idle", c)
  <2>1. SessionsAt(server, sessions, loop, "attached", c)
    BY <1>1 DEF SharesInv, SessionsOK
  <2>2. SessionsFollow(server, server, sessions, sessions, loop, loop, c)
    BY DEF SessionsFollow
  <2>3. ASSUME NEW i \in Regs(server), server.regs[i].ctx = c PROVE sessions[i].on \/ server.regs[i].closed
    <3> SUFFICES ASSUME ~sessions[i].on, ~server.regs[i].closed PROVE FALSE
      OBVIOUS
    <3>1. PICK k \in DOMAIN loop : loop[k].do = "unregister" /\ loop[k].reg = i
      BY <2>1, <2>3 DEF SessionsAt, PreparedFits, Loops
    <3>2. loop[k].ctx = c
      BY <1>2, <2>3, <3>1 DEF TasksRefer, TaskRefs, TaskOf
    <3> QED BY <1>4, <3>1, <3>2 DEF Free, Quiet
  <2> QED BY <2>1, <2>2, <2>3, SessionsDone DEF Settled, Ended
<1>6. InboxOK(inbox, server, op')
  <2>1. \A d \in Contexts : op'[d] = op[d] \/ op[d] # "refusing"
    BY <1>1, <1>2
  <2> QED BY <1>2, <2>1, InboxMoves
<1> QED BY <1>1, <1>2, <1>4, <1>5, <1>6, SameSessions, SilentStep DEF Stages

LEMMA UnloadStep ==
  ASSUME NEW c \in Contexts
  PROVE  SharesInv /\ Unload(c) => SharesInv'
<1> SUFFICES ASSUME SharesInv, Unload(c) PROVE SharesInv'
  OBVIOUS
<1>1. op[c] = "unload" /\ UNCHANGED <<server, shown, passed, holds, puts, cell, edits, sessions, inbox>>
  BY DEF Unload, registry
<1>2. /\ Free(loop, c) /\ loop \in Seq(Task) /\ op \in [Contexts -> Stages]
      /\ SessionsAt(server, sessions, loop, "unload", c)
      /\ InboxOK(inbox, server, op) /\ inbox \in [Contexts -> Seq(Message)]
  BY <1>1, FreeNow DEF SharesInv, TypeOK, SessionsOK, RefsOK
<1>3. CASE Prepared(c) = {}
  <2>1. op' = [op EXCEPT ![c] = "idle"] /\ loop' = loop
    BY <1>3 DEF Unload, Enters
  <2>2. SessionsAt(server, sessions, loop, "idle", c)
    <3>1. SessionsFollow(server, server, sessions, sessions, loop, loop, c)
      BY DEF SessionsFollow
    <3>2. \A i \in Regs(server) : server.regs[i].ctx = c => sessions[i].on \/ server.regs[i].closed
      BY <1>3 DEF Prepared, Of
    <3> QED BY <1>2, <3>1, <3>2, SessionsDone DEF Settled, Ended
  <2>3. InboxOK(inbox, server, op')
    <3>1. \A d \in Contexts : op'[d] = op[d] \/ op[d] # "refusing"
      BY <1>1, <1>2, <2>1
    <3> QED BY <1>2, <3>1, InboxMoves
  <2> QED BY <1>1, <1>2, <2>1, <2>2, <2>3, SameSessions, SilentStep DEF Stages
<1>4. CASE Prepared(c) # {}
  <2> DEFINE I == {Max(Prepared(c))}
             w == Each("unregister", c, I)
  <2>1. op' = [op EXCEPT ![c] = "unloading"] /\ loop' = loop \o w
    BY <1>4 DEF Unload, Enters, Submit
  <2>2. Max(Prepared(c)) \in Prepared(c)
    <3>1. Prepared(c) \subseteq 1..MaxRegs /\ MaxRegs \in Nat
      BY RegsIds, SharesAssumption DEF Prepared, Of, Ids
    <3>2. IsFiniteSet(Prepared(c)) /\ Prepared(c) \subseteq Nat
      <4>1. IsFiniteSet(1..MaxRegs)
        BY <3>1, FS_Interval
      <4> QED BY <3>1, <4>1, FS_Subset
    <3> HIDE DEF Prepared
    <3> QED BY <1>4, <3>1, <3>2, MaxOf
  <2>3. I \in SUBSET Ids /\ (\A i, j \in I : i = j) /\ \A i \in I : i \in Regs(server) /\ server.regs[i].ctx = c
    <3>1. Max(Prepared(c)) \in Regs(server) /\ server.regs[Max(Prepared(c))].ctx = c
      BY <2>2 DEF Prepared, Of
    <3> QED BY <3>1, RegsIds
  <2>4. EachOf(w, "unregister", c, I)
    BY <2>3, EachTasks
  <2> HIDE DEF I, w
  <2>5. TasksOK(w, op') /\ TasksRefer(w, server) /\ w \in Seq(Task)
    <3>1. MayStart("unregister", c, I, op', server)
      BY <1>2, <2>1, <2>3 DEF MayStart, StagesOf
    <3> QED BY <2>4, <3>1, EachOK
  <2>6. \A k \in DOMAIN w : w[k].ctx = c /\ w[k].do \notin {"activate", "deliver"}
    BY <2>4 DEF EachOf
  <2> QED BY <1>1, <1>2, <2>1, <2>5, <2>6, MoveStep, ZenonT(40) DEF Stages, Loading
<1> QED BY <1>3, <1>4

LEMMA UnshareStep ==
  ASSUME NEW c \in Contexts, NEW i \in Regs(server)
  PROVE  SharesInv /\ Unshare(c, i) => SharesInv'
<1> SUFFICES ASSUME SharesInv, Unshare(c, i) PROVE SharesInv'
  OBVIOUS
<1> DEFINE w == <<Todo("unregister", c, i)>>
<1>1. /\ op[c] = "idle" /\ op' = [op EXCEPT ![c] = "unshare"] /\ loop' = loop \o w
      /\ sessions' = [sessions EXCEPT ![i] = NoSession] /\ server.regs[i].ctx = c /\ sessions[i].on
      /\ UNCHANGED <<server, shown, passed, holds, puts, cell, edits, inbox>>
  BY DEF Unshare, Enters, registry, Submit, Attached, Of
<1>2. /\ Free(loop, c) /\ loop \in Seq(Task) /\ op \in [Contexts -> Stages] /\ op'[c] = "unshare"
      /\ SessionsAt(server, sessions, loop, "idle", c)
      /\ InboxOK(inbox, server, op) /\ inbox \in [Contexts -> Seq(Message)]
  BY <1>1, FreeNow DEF SharesInv, TypeOK, SessionsOK, RefsOK
<1> DEFINE I == {i}
<1>3. EachOf(w, "unregister", c, I)
  BY OneTask, RegsIds
<1>4. (\A j, k \in I : j = k) /\ (\A j \in I : j \in Regs(server) /\ server.regs[j].ctx = c) /\ i \in I
  BY <1>1
<1> HIDE DEF w, I
<1>5. TasksOK(w, op') /\ TasksRefer(w, server) /\ w \in Seq(Task)
  <2>1. MayStart("unregister", c, I, op', server)
    BY <1>2, <1>4 DEF MayStart, StagesOf
  <2> QED BY <1>3, <2>1, EachOK
<1>6. \A k \in DOMAIN w : w[k].ctx = c /\ w[k].do \notin {"activate", "deliver"}
  BY <1>3 DEF EachOf
<1>7. /\ sessions' \in Seq(Session) /\ Len(sessions') = Len(server.regs)
      /\ \A j \in Regs(server) : sessions'[j] = IF j = i THEN NoSession ELSE sessions[j]
  <2>1. NoSession \in Session /\ sessions \in Seq(Session) /\ Len(sessions) = Len(server.regs)
        /\ DOMAIN sessions = Regs(server)
    <3>1. NoSession \in Session
      BY DEF NoSession, Session
    <3> QED BY <3>1, SessionsLen, SameCalm DEF SharesInv, TypeOK
  <2> QED BY <1>1, <2>1
<1>8. SessionsOf(sessions, sessions', server, server, c)
  BY <1>1, <1>7 DEF SessionsOf
<1>9. SessionsAt(server, sessions', loop', "unshare", c)
  <2>1. ASSUME NEW j \in Regs(server), server.regs[j].ctx = c
        PROVE  SessionFits(server.regs[j], sessions'[j], "unshare")
    BY <1>2, <1>7, <2>1 DEF SessionsAt, SessionFits, Loading, NoSession
  <2>2. Loops(loop', "unregister", i)
    <3>1. Loops(w, "unregister", i)
      BY <1>3, <1>4 DEF EachOf, Loops
    <3> QED BY <1>1, <1>2, <1>5, <3>1, LoopsJoin
  <2>3. ASSUME NEW j \in Regs(server), server.regs[j].ctx = c
        PROVE  PreparedFits(server, sessions', loop', "unshare", j)
    BY <1>2, <1>7, <2>2, <2>3 DEF SessionsAt, PreparedFits, Loading
  <2> QED BY <2>1, <2>3 DEF SessionsAt
<1>10. InboxOK(inbox, server, op')
  <2>1. \A d \in Contexts : op'[d] = op[d] \/ op[d] # "refusing"
    BY <1>1, <1>2
  <2> QED BY <1>2, <2>1, InboxMoves
<1>11. \A j \in Regs(server) : sessions'[j] = sessions[j] \/ sessions'[j] = NoSession
  BY <1>7
<1> QED BY <1>1, <1>2, <1>5, <1>6, <1>8, <1>9, <1>10, <1>11, PlainStep DEF Stages

Detached(ss, I) == Changed(ss, I, LAMBDA s : NoSession)
LEMMA DetachSessions ==
  ASSUME NEW ss \in Seq(Session), NEW I
  PROVE  /\ Detached(ss, I) \in Seq(Session) /\ Len(Detached(ss, I)) = Len(ss)
         /\ \A i \in DOMAIN ss : Detached(ss, I)[i] = IF i \in I THEN NoSession ELSE ss[i]
<1> DEFINE ss2 == [i \in DOMAIN ss |-> IF i \in I THEN NoSession ELSE ss[i]]
<1>1. NoSession \in Session
  BY DEF NoSession, Session
<1>2. ss2 \in [DOMAIN ss -> Session]
  BY <1>1
<1>3. ss2 \in Seq(Session) /\ Len(ss2) = Len(ss)
  BY <1>2, MappedSeq
<1> QED BY <1>3 DEF Changed, Detached

LEMMA FinishStep ==
  ASSUME NEW c \in Contexts
  PROVE  SharesInv /\ Finish(c) => SharesInv'
<1> SUFFICES ASSUME SharesInv, Finish(c) PROVE SharesInv'
  OBVIOUS
<1> DEFINE I == Attached(c)
           w == Each("hold", c, I)
<1>1. /\ op[c] = "flushing" /\ op' = [op EXCEPT ![c] = "finishing"] /\ loop' = loop \o w
      /\ sessions' = Detached(sessions, I)
      /\ UNCHANGED <<server, shown, passed, holds, puts, cell, edits, inbox>>
  BY DEF Finish, Enters, registry, Submit, Detached
<1>2. /\ Free(loop, c) /\ loop \in Seq(Task) /\ op \in [Contexts -> Stages] /\ op'[c] = "finishing"
      /\ SessionsAt(server, sessions, loop, "flushing", c)
      /\ InboxOK(inbox, server, op) /\ inbox \in [Contexts -> Seq(Message)]
  BY <1>1, FreeNow DEF SharesInv, TypeOK, SessionsOK, RefsOK
<1>3. I \in SUBSET Ids /\ \A j \in Regs(server) : j \in I <=> server.regs[j].ctx = c /\ sessions[j].on
  BY RegsIds DEF Attached, Of
<1>4. \A j \in I : j \in Regs(server) /\ server.regs[j].ctx = c
  BY DEF Attached, Of
<1> HIDE DEF I
<1>5. EachOf(w, "hold", c, I)
  BY <1>3, EachTasks
<1> HIDE DEF w
<1>6. TasksOK(w, op') /\ TasksRefer(w, server) /\ w \in Seq(Task)
  <2>1. MayStart("hold", c, I, op', server)
    BY <1>2, <1>4 DEF MayStart, StagesOf, Waited
  <2> QED BY <1>5, <2>1, EachOK
<1>7. \A k \in DOMAIN w : w[k].ctx = c /\ w[k].do \notin {"activate", "deliver"}
  BY <1>5 DEF EachOf
<1>8. /\ sessions' \in Seq(Session) /\ Len(sessions') = Len(server.regs)
      /\ \A j \in Regs(server) : sessions'[j] = IF j \in I THEN NoSession ELSE sessions[j]
  <2>1. sessions \in Seq(Session) /\ Len(sessions) = Len(server.regs) /\ DOMAIN sessions = Regs(server)
    BY SessionsLen, SameCalm DEF SharesInv, TypeOK
  <2> QED BY <1>1, <2>1, DetachSessions
<1>9. SessionsOf(sessions, sessions', server, server, c)
  BY <1>4, <1>8 DEF SessionsOf
<1>10. SessionsAt(server, sessions', loop', "finishing", c)
  <2>1. ASSUME NEW j \in Regs(server), server.regs[j].ctx = c
        PROVE  SessionFits(server.regs[j], sessions'[j], "finishing")
    <3>1. SessionFits(server.regs[j], sessions[j], "flushing")
      BY <1>2, <2>1 DEF SessionsAt
    <3>2. ~sessions'[j].on
      BY <1>3, <1>8, <2>1 DEF NoSession
    <3> QED BY <3>1, <3>2 DEF SessionFits, Loading
  <2>2. ASSUME NEW j \in Regs(server) PROVE PreparedFits(server, sessions', loop', "finishing", j)
    BY DEF PreparedFits, Loading
  <2> QED BY <2>1, <2>2 DEF SessionsAt
<1>11. InboxOK(inbox, server, op')
  <2>1. \A d \in Contexts : op'[d] = op[d] \/ op[d] # "refusing"
    BY <1>1, <1>2
  <2> QED BY <1>2, <2>1, InboxMoves
<1>12. \A j \in Regs(server) : sessions'[j] = sessions[j] \/ sessions'[j] = NoSession
  BY <1>8
<1> QED BY <1>1, <1>2, <1>6, <1>7, <1>9, <1>10, <1>11, <1>12, PlainStep, ZenonT(40) DEF Stages

-----------------------------------------------------------------------------
(* The steps of the calls that reserve, publish and attach. *)

\* Nothing is under way for a registration that is not there yet.
LEMMA Unknown ==
  ASSUME SharesInv, NEW n, n \notin Regs(server)
  PROVE  /\ Unheard(inbox, n) /\ Unasked(puts, n) /\ DeliverAfter(loop, n)
         /\ \A do \in {"activate", "unregister", "deliver"} : ~Loops(loop, do, n)
<1>1. TasksRefer(loop, server) /\ InboxOK(inbox, server, op) /\ PutsRefer(puts, server)
  BY DEF SharesInv, RefsOK
<1>2. Unheard(inbox, n)
  BY <1>1 DEF Unheard, About, InboxOK, InboxAt, MessageFits
<1>3. Unasked(puts, n)
  BY <1>1 DEF Unasked, PutAt, PutsRefer, PutRefs
<1>4. \A do \in {"activate", "unregister", "deliver"} : ~Loops(loop, do, n)
  BY <1>1 DEF Loops, TasksRefer, TaskRefs, TaskOf
<1>5. DeliverAfter(loop, n)
  BY <1>4 DEF Loops, DeliverAfter
<1> QED BY <1>2, <1>3, <1>4, <1>5

LEMMA ReservedStep ==
  ASSUME SharesInv, NEW c \in Contexts, NEW r, NEW staged, Reserved(server, server', c, r, staged),
         ShownOK(server', shown'), sessions' = Append(sessions, NoSession),
         UNCHANGED <<loop, passed, holds, puts, inbox, cell, edits>>,
         NEW stage, op' = [op EXCEPT ![c] = stage],
         \/ staged = TRUE /\ stage = "load" /\ op[c] \in {"idle", "load"}
         \/ staged = FALSE /\ stage = "share" /\ op[c] = "idle" /\ server'.ns.owner = c
  PROVE  SharesInv'
<1> DEFINE n == Len(server.regs) + 1
<1>1. /\ server \in Server /\ OwnerOK(server, op) /\ op \in [Contexts -> Stages] /\ loop \in Seq(Task)
      /\ TasksRefer(loop, server) /\ InboxOK(inbox, server, op) /\ inbox \in [Contexts -> Seq(Message)] /\ NewOK
      /\ SessionsAt(server, sessions, loop, op[c], c)
  BY SameCalm DEF SharesInv, TypeOK, RefsOK, SessionsOK
<1>2. /\ Regs(server') = Regs(server) \cup {n} /\ Len(server'.regs) = n /\ OwnerPassed(server, server', c)
      /\ \A i \in Regs(server) : CalmReg(server.regs[i], server'.regs[i], Regs(server'))
      /\ FreshReg(server'.regs[n], c) /\ server'.regs[n].staged = staged /\ StagedOpen(server, server')
  BY DEF Reserved, Regs
<1>3. n \notin Regs(server) /\ server' \in Server /\ Len(server.regs) \in Nat /\ Regs(server) = 1..Len(server.regs)
  <2>1. server.regs \in Seq(Registration) /\ Regs(server) = DOMAIN server.regs
    BY <1>1 DEF Server, Regs
  <2>2. Len(server.regs) \in Nat /\ DOMAIN server.regs = 1..Len(server.regs)
    BY <2>1
  <2> QED BY <2>1, <2>2 DEF ShownOK, RegistryOK
<1>4. /\ sessions' \in Seq(Session) /\ Len(sessions') = n /\ sessions'[n] = NoSession
      /\ \A i \in Regs(server) : sessions'[i] = sessions[i]
  <2>1. NoSession \in Session
    BY DEF NoSession, Session
  <2>2. sessions \in Seq(Session) /\ Len(sessions) = Len(server.regs)
    BY DEF SharesInv, TypeOK
  <2> QED BY <1>3, <2>1, <2>2
<1> HIDE DEF n
<1>5. stage \in Stages /\ stage \notin {"closed", "attached"} /\ op'[c] = stage
      /\ op[c] \notin {"refusing", "closed", "share"} /\ Free(loop, c)
  <2>1. Free(loop, c)
    BY FreeNow
  <2> QED BY <1>1, <2>1 DEF Stages
<1>6. \A i \in Regs(server) :
        /\ server'.regs[i].ctx = server.regs[i].ctx /\ (server'.regs[i].staged <=> server.regs[i].staged)
        /\ server.regs[i].closed => server'.regs[i].closed
        /\ StaysFresh(server.regs[i], server'.regs[i])
  BY <1>2 DEF CalmReg, StaysFresh
<1>7. Follows(server, server') /\ Others(server, server', c)
  BY <1>2, <1>6 DEF Follows, Others, FreshReg
<1>8. OwnerOK(server', op')
  <2>1. ASSUME NEW i \in Regs(server'), Public(server', i) PROVE Follower(server, server', op, i)
    <3>1. CASE i = n
      BY <1>2, <2>1, <3>1 DEF Public, Follower, FreshReg
    <3>2. CASE i \in Regs(server)
      BY <1>2, <2>1, <3>2 DEF Public, Follower, CalmReg
    <3> QED BY <1>2, <3>1, <3>2
  <2>2. SameClosed(op, op')
    BY <1>1, <1>5 DEF SameClosed
  <2>3. OwnerPassed(server, server', c) /\ op[c] # "closed"
    BY <1>2
  <2> QED BY <1>1, <1>3, <2>1, <2>2, <2>3, OwnerStep
<1>9. \A d \in Contexts : StagedStay(server, server', d)
  BY <1>2, <1>6 DEF StagedStay, StagedOpen, Staged
<1>10. SessionsOf(sessions, sessions', server, server', c)
  BY <1>2, <1>4 DEF SessionsOf
<1>11. InboxOK(inbox', server', op') /\ inbox' \in [Contexts -> Seq(Message)]
  <2>1. \A d \in Contexts : op'[d] = op[d] \/ op[d] # "refusing"
    BY <1>1
  <2>2. InboxOK(inbox, server', op)
    BY <1>1, <1>7, FollowsRefers
  <2> QED BY <1>1, <2>1, <2>2, InboxMoves
<1>12. SessionsAt(server', sessions', loop', stage, c)
  <2>1. ~sessions'[n].on
    BY <1>4 DEF NoSession
  <2>2. ASSUME NEW i \in Regs(server), server.regs[i].ctx = c
        PROVE  /\ SessionFits(server.regs[i], sessions[i], op[c])
               /\ PreparedFits(server, sessions, loop, op[c], i)
    BY <1>1, <2>2 DEF SessionsAt
  <2>3. CASE stage = "share" /\ op[c] = "idle" /\ staged = FALSE
    <3>1. ASSUME NEW i \in Regs(server'), server'.regs[i].ctx = c
          PROVE  /\ SessionFits(server'.regs[i], sessions'[i], stage) /\ PreparedFits(server', sessions', loop', stage, i)
                 /\ ~sessions'[i].on /\ ~server'.regs[i].closed => i = n
      <4>1. PreparedFits(server', sessions', loop', stage, i)
        BY <2>3 DEF PreparedFits, Loading
      <4>2. CASE i = n
        BY <1>2, <2>1, <2>3, <4>1, <4>2 DEF SessionFits
      <4>3. CASE i \in Regs(server)
        BY <1>4, <1>6, <2>2, <2>3, <3>1, <4>1, <4>3 DEF SessionFits, PreparedFits, Loading
      <4> QED BY <1>2, <4>2, <4>3
    <3> QED BY <2>3, <3>1 DEF SessionsAt, Unattached
  <2>4. CASE stage = "load" /\ op[c] \in {"idle", "load"} /\ staged = TRUE
    <3>1. ASSUME NEW i \in Regs(server'), server'.regs[i].ctx = c
          PROVE  SessionFits(server'.regs[i], sessions'[i], stage) /\ PreparedFits(server', sessions', loop', stage, i)
      <4>1. CASE i = n
        BY <1>2, <2>1, <2>4, <4>1 DEF SessionFits, PreparedFits, Loading
      <4>2. CASE i \in Regs(server)
        <5>1. SessionFits(server'.regs[i], sessions'[i], stage)
          BY <1>4, <1>6, <2>2, <2>4, <3>1, <4>2 DEF SessionFits, Loading
        <5>2. PreparedFits(server', sessions', loop', stage, i)
          BY <1>4, <1>6, <2>2, <2>4, <3>1, <4>2 DEF PreparedFits, Loading
        <5> QED BY <5>1, <5>2
      <4> QED BY <1>2, <4>1, <4>2
    <3>2. n \in Unattached(server', sessions', c)
      BY <1>2, <2>1 DEF Unattached, FreshReg
    <3> QED BY <2>4, <3>1, <3>2 DEF SessionsAt
  <2> QED BY <2>3, <2>4
<1>13. ASSUME NEW i \in Regs(server'), server'.regs[i].ctx = c
       PROVE  NewAt(server', sessions', loop', op', inbox', puts', i)
  <2>1. CASE i = n
    <3>1. Fresh(server'.regs[n], sessions'[n])
      BY <1>2, <1>4 DEF Fresh, FreshReg, NoSession
    <3> QED BY <1>3, <2>1, <3>1, Unknown DEF NewAt
  <2>2. CASE i \in Regs(server)
    <3>1. New(server', sessions', loop', op', i) => New(server, sessions, loop, op, i)
      <4>1. ASSUME stage = "share", ~sessions[i].on, ~server.regs[i].closed PROVE FALSE
        <5>1. op[c] = "idle"
          BY <4>1
        <5> QED BY <1>1, <1>6, <1>13, <2>2, <4>1, <5>1 DEF SessionsAt, PreparedFits
      <4> QED BY <1>4, <1>5, <1>6, <1>13, <2>2, <4>1 DEF New
    <3>2. NewAt(server, sessions, loop, op, inbox, puts, i)
      BY <1>1, <2>2 DEF NewOK
    <3>3. Fresh(server.regs[i], sessions[i]) => Fresh(server'.regs[i], sessions'[i])
      BY <1>4, <1>6, <2>2 DEF Fresh, StaysFresh
    <3> QED BY <1>4, <1>6, <2>2, <3>1, <3>2, <3>3 DEF NewAt
  <2> QED BY <1>2, <2>1, <2>2
<1> DEFINE w == <<>>
<1>14. loop' = loop \o w /\ DOMAIN w = {}
  BY <1>1
<1>15. TasksOK(w, op') /\ TasksRefer(w, server') /\ w \in Seq(Task)
  BY NoTasks
<1> HIDE DEF w
<1>16. \A k \in DOMAIN w : w[k].ctx = c
  BY <1>14
<1> QED BY <1>5, <1>7, <1>8, <1>9, <1>10, <1>11, <1>12, <1>13, <1>14, <1>15, <1>16, ActorStep

\* A share that is not staged, as one predicate of the server before and after it.
PublicBefore(s, sh, c, r, v) ==
  /\ ShownOK(s, sh) /\ Len(s.regs) < MaxRegs /\ NoConflict(s, c, r, {}, {})
  /\ v = Reserve(s, c, r, FALSE)
PublicAfter(s, sh, c, r, v) ==
  Reserved(s, v, c, r, FALSE) /\ ShownOK(v, sh \cup Served(v)) /\ v.ns.owner = c

LEMMA ReservePublicly ==
  ASSUME NEW s, NEW sh, NEW c \in Contexts, NEW r \in Routes, NEW v, PublicBefore(s, sh, c, r, v)
  PROVE  PublicAfter(s, sh, c, r, v)
<1> DEFINE staged == FALSE
<1>1. staged \in BOOLEAN /\ ~staged /\ staged = FALSE
  OBVIOUS
<1> HIDE DEF staged
<1>2. ShownOK(s, sh) /\ Len(s.regs) < MaxRegs /\ NoConflict(s, c, r, {}, {}) /\ v = Reserve(s, c, r, staged)
  BY <1>1 DEF PublicBefore
<1>3. Reserved(s, v, c, r, staged) /\ ShownOK(v, sh \cup Served(v)) /\ v.ns.owner = c
  BY <1>1, <1>2, ReservePublic
<1> QED BY <1>1, <1>3 DEF PublicAfter

LEMMA ShareReserves ==
  ASSUME SharesInv, NEW c \in Contexts, NEW r \in Routes, Share(c, r)
  PROVE  \E staged : /\ staged = FALSE /\ Reserved(server, server', c, r, staged)
                      /\ ShownOK(server', shown') /\ server'.ns.owner = c
<1> DEFINE t == Reserve(server, c, r, FALSE)
<1>1. /\ Len(server.regs) < MaxRegs /\ NoConflict(server, c, r, {}, {})
      /\ server' = t /\ shown' = shown \cup Served(server')
  BY DEF Share, CanReserve, ReserveIn, Becomes
<1>2. PublicBefore(server, shown, c, r, t)
  BY <1>1 DEF SharesInv, PublicBefore
<1> HIDE DEF t
<1>3. PublicAfter(server, shown, c, r, t)
  BY <1>2, ReservePublicly
<1> QED BY <1>1, <1>3 DEF PublicAfter

LEMMA ShareStep ==
  ASSUME NEW c \in Contexts, NEW r \in Routes
  PROVE  SharesInv /\ Share(c, r) => SharesInv'
<1> SUFFICES ASSUME SharesInv, Share(c, r) PROVE SharesInv'
  OBVIOUS
<1>1. /\ op[c] = "idle" /\ op' = [op EXCEPT ![c] = "share"] /\ sessions' = Append(sessions, NoSession)
      /\ UNCHANGED <<loop, passed, holds, puts, inbox, cell, edits>>
  BY DEF Share, Enters, ReserveIn
<1>2. PICK staged : /\ staged = FALSE /\ Reserved(server, server', c, r, staged)
                    /\ ShownOK(server', shown') /\ server'.ns.owner = c
  BY ShareReserves
<1> QED BY <1>1, <1>2, ReservedStep

\* What a Context keeps attached has been published.
LEMMA AttachedUsed ==
  ASSUME SharesInv, NEW c \in Contexts
  PROVE  \A i \in Staged(server) : i \notin Attached(c)
<1> SUFFICES ASSUME NEW i \in Staged(server), server.regs[i].ctx = c PROVE ~sessions[i].on
  BY DEF Attached, Of
<1>1. i \in Regs(server) /\ server.regs[i].staged /\ ~server.regs[i].closed
  BY DEF Staged
<1>2. SessionsAt(server, sessions, loop, op[c], c)
  BY DEF SharesInv, SessionsOK
<1> QED BY <1>1, <1>2 DEF SessionsAt, SessionFits

LEMMA LoadReserveStep ==
  ASSUME NEW c \in Contexts, NEW r \in Routes
  PROVE  SharesInv /\ LoadReserve(c, r) => SharesInv'
<1> SUFFICES ASSUME SharesInv, LoadReserve(c, r) PROVE SharesInv'
  OBVIOUS
<1> DEFINE staged == TRUE
           t == Reserve(server, c, r, staged)
<1>1. /\ op[c] \in {"idle", "load"} /\ op' = [op EXCEPT ![c] = "load"] /\ sessions' = Append(sessions, NoSession)
      /\ Len(server.regs) < MaxRegs /\ NoConflict(server, c, r, Attached(c), {})
      /\ server' = t /\ shown' = shown \cup Served(server')
      /\ UNCHANGED <<loop, passed, holds, puts, inbox, cell, edits>>
  BY DEF LoadReserve, Enters, CanReserve, ReserveIn, Becomes
<1>2. staged \in BOOLEAN /\ staged /\ staged = TRUE /\ ShownOK(server, shown)
  BY DEF SharesInv
<1>3. \A i \in Staged(server) : server.regs[i].route # r
  BY <1>1, AttachedUsed DEF NoConflict
<1> HIDE DEF staged
<1>4. Reserved(server, t, c, r, staged) /\ ShownOK(t, shown \cup Served(t))
  BY <1>1, <1>2, <1>3, ReserveStaged
<1> HIDE DEF t
<1>5. Reserved(server, server', c, r, staged) /\ ShownOK(server', shown')
  BY <1>1, <1>4
<1> QED BY <1>1, <1>2, <1>5, ReservedStep

\* What becomes of the registrations of c when it attaches those that are prepared.
AttachedNow(s, t, ss, ss2, w, c) ==
  \A i \in Regs(s) : s.regs[i].ctx = c =>
    IF ~ss[i].on /\ ~s.regs[i].closed
    THEN /\ FreshReg(t.regs[i], c) /\ ~t.regs[i].staged
         /\ ss2[i].on /\ ss2[i].disk = NoValue /\ ~ss2[i].initial
    ELSE /\ t.regs[i].staged <=> s.regs[i].staged
         /\ s.regs[i].closed => t.regs[i].closed
         /\ StaysFresh(s.regs[i], t.regs[i])
         /\ ss2[i] = ss[i] \/ (ss2[i] = NoSession /\ Loops(w, "unregister", i))
\* Only these are activated, and nothing is delivered.
Activates(s, ss, w, c) ==
  \A k \in DOMAIN w :
    /\ w[k].ctx = c /\ w[k].do # "deliver"
    /\ w[k].do = "activate" => w[k].reg \in Unattached(s, ss, c)
LEMMA AttachingStep ==
  ASSUME SharesInv, NEW c \in Contexts, op[c] \in {"share", "load"}, op' = [op EXCEPT ![c] = "attached"],
         NEW w \in Seq(Task), loop' = loop \o w, Activates(server, sessions, w, c),
         TasksRefer(w, server'), TasksOK(w, op'),
         UNCHANGED <<passed, holds, puts, inbox, cell, edits>>,
         ShownOK(server', shown'), OwnerOK(server', op'), Follows(server, server'), Others(server, server', c),
         Regs(server') = Regs(server),
         \A d \in Contexts : d # c /\ op[d] = "load" => StagedStay(server, server', d),
         SessionsOf(sessions, sessions', server, server', c),
         AttachedNow(server, server', sessions, sessions', w, c)
  PROVE  SharesInv'
<1>1. /\ op \in [Contexts -> Stages] /\ op'[c] = "attached" /\ loop \in Seq(Task) /\ TasksRefer(loop, server)
      /\ InboxOK(inbox, server, op) /\ inbox \in [Contexts -> Seq(Message)] /\ NewOK
      /\ SessionsAt(server, sessions, loop, op[c], c) /\ Free(loop, c)
  BY FreeNow DEF SharesInv, TypeOK, RefsOK, SessionsOK
<1>2. \A i \in Regs(server) : server'.regs[i].ctx = server.regs[i].ctx
  BY DEF Follows
<1>3. InboxOK(inbox', server', op') /\ inbox' \in [Contexts -> Seq(Message)]
  <2>1. \A d \in Contexts : op'[d] = op[d] \/ op[d] # "refusing"
    BY <1>1
  <2>2. InboxOK(inbox, server', op)
    BY <1>1, FollowsRefers
  <2> QED BY <1>1, <2>1, <2>2, InboxMoves
<1>4. SessionsAt(server', sessions', loop', "attached", c)
  <2> SUFFICES ASSUME NEW i \in Regs(server), server.regs[i].ctx = c
               PROVE  /\ SessionFits(server'.regs[i], sessions'[i], "attached")
                      /\ PreparedFits(server', sessions', loop', "attached", i)
    BY <1>2 DEF SessionsAt
  <2>1. SessionFits(server.regs[i], sessions[i], op[c])
    BY <1>1 DEF SessionsAt
  <2>2. SessionFits(server'.regs[i], sessions'[i], "attached")
    BY <2>1 DEF AttachedNow, SessionFits, NoSession
  <2>3. ~sessions'[i].on /\ ~server'.regs[i].closed => Loops(loop', "unregister", i)
    <3>1. ~sessions'[i].on /\ ~server'.regs[i].closed => Loops(w, "unregister", i)
      BY DEF AttachedNow
    <3> QED BY <1>1, <3>1, LoopsJoin
  <2> QED BY <2>2, <2>3 DEF PreparedFits, Loading
<1>5. ASSUME NEW i \in Regs(server), server.regs[i].ctx = c
      PROVE  NewAt(server', sessions', loop', op', inbox', puts', i)
  <2>1. ~Loops(loop, "activate", i) /\ ~Loops(w, "deliver", i)
    <3>1. ~Loops(loop, "activate", i)
      BY <1>1, <1>5 DEF Loops, Free, TasksRefer, TaskRefs, TaskOf, Quiet
    <3> QED BY <3>1 DEF Activates, Loops
  <2>2. Loops(loop', "activate", i) <=> Loops(w, "activate", i)
    BY <1>1, <2>1, LoopsJoin
  <2>3. Loops(w, "activate", i) => ~sessions[i].on /\ ~server.regs[i].closed
    BY DEF Activates, Loops, Unattached
  <2>4. DeliverAfter(loop, i) => DeliverAfter(loop', i)
    BY <1>1, <2>1, LoopsJoin
  <2>5. SessionFits(server.regs[i], sessions[i], op[c]) /\ PreparedFits(server, sessions, loop, op[c], i)
        /\ NewAt(server, sessions, loop, op, inbox, puts, i)
    BY <1>1, <1>5 DEF SessionsAt, NewOK
  <2>6. CASE ~sessions[i].on /\ ~server.regs[i].closed
    <3>1. New(server, sessions, loop, op, i)
      BY <1>5, <2>5, <2>6 DEF PreparedFits, Loading, New
    <3>2. Unheard(inbox', i) /\ Unasked(puts', i) /\ DeliverAfter(loop', i)
      BY <2>4, <2>5, <3>1 DEF NewAt
    <3>3. Fresh(server'.regs[i], sessions'[i]) /\ sessions'[i].on /\ ~server'.regs[i].staged
      BY <1>5, <2>6 DEF AttachedNow, Fresh, FreshReg
    <3> QED BY <3>2, <3>3 DEF NewAt
  <2>7. CASE sessions[i].on \/ server.regs[i].closed
    <3> SUFFICES ASSUME New(server', sessions', loop', op', i)
                 PROVE  /\ Fresh(server'.regs[i], sessions'[i]) /\ Unheard(inbox', i) /\ Unasked(puts', i)
                        /\ DeliverAfter(loop', i)
      BY <2>2, <2>3, <2>7 DEF NewAt
    <3>1. server'.regs[i].staged
      BY <1>1, <1>2, <1>5, <2>2, <2>3, <2>7 DEF New
    <3>2. /\ server.regs[i].staged /\ StaysFresh(server.regs[i], server'.regs[i])
          /\ sessions'[i] = sessions[i] \/ sessions'[i] = NoSession
      BY <1>5, <2>7, <3>1 DEF AttachedNow
    <3>3. Fresh(server.regs[i], sessions[i]) /\ Unheard(inbox, i) /\ Unasked(puts, i) /\ DeliverAfter(loop, i)
      BY <2>5, <3>2 DEF NewAt, New
    <3>4. Fresh(server'.regs[i], sessions'[i])
      BY <3>2, <3>3 DEF Fresh, StaysFresh, NoSession
    <3> QED BY <2>4, <3>3, <3>4
  <2> QED BY <2>6, <2>7
<1>6. \A i \in Regs(server') : server'.regs[i].ctx = c => NewAt(server', sessions', loop', op', inbox', puts', i)
  BY <1>2, <1>5
<1>7. (\A k \in DOMAIN w : w[k].ctx = c) /\ "attached" \in Stages /\ \A i : Unheard(inbox, i) => Unheard(inbox', i)
  BY DEF Activates, Stages
<1> QED BY <1>1, <1>3, <1>4, <1>6, <1>7, ActorStep

\* The sessions of what is prepared.
LEMMA PreparedSessions ==
  ASSUME SharesInv, NEW c \in Contexts, NEW all \in Seq(Session), Len(all) = Len(server.regs)
  PROVE  LET ss == WithPrepared(c, all) IN
         /\ ss \in Seq(Session) /\ Len(ss) = Len(server.regs)
         /\ \A i \in Regs(server) :
              IF i \in Prepared(c) THEN ss[i].on /\ ss[i].disk = NoValue /\ ~ss[i].initial /\ ss[i].known = 0
              ELSE ss[i] = all[i]
<1> DEFINE ss == WithPrepared(c, all)
<1>1. DOMAIN all = Regs(server) /\ server.regs \in Seq(Registration) /\ server \in Server
  <2>1. server.regs \in Seq(Registration) /\ server \in Server
    BY DEF SharesInv, TypeOK, Server
  <2> QED BY <2>1 DEF Regs
<1>2. ASSUME NEW v \in Values
      PROVE  LET s == Attachment(v) IN s \in Session /\ s.on /\ s.disk = NoValue /\ ~s.initial /\ s.known = 0
  BY DEF Attachment, NoSession, Session
<1>3. \A i \in Regs(server) : cell[c][server.regs[i].route] \in Values
  BY <1>1, Typed DEF SharesInv, TypeOK, Registration
<1>4. ss = [i \in DOMAIN all |-> IF i \in Prepared(c) THEN Attachment(cell[c][server.regs[i].route]) ELSE all[i]]
  BY DEF WithPrepared
<1>5. ss \in [DOMAIN all -> Session]
  BY <1>1, <1>2, <1>3, <1>4
<1>6. ss \in Seq(Session) /\ Len(ss) = Len(all)
  BY <1>5, MappedSeq
<1> QED BY <1>1, <1>2, <1>3, <1>4, <1>6

LEMMA AttachStep ==
  ASSUME NEW c \in Contexts
  PROVE  SharesInv /\ Attach(c) => SharesInv'
<1> SUFFICES ASSUME SharesInv, Attach(c) PROVE SharesInv'
  OBVIOUS
<1> DEFINE w == Each("activate", c, Prepared(c))
<1>1. /\ op[c] = "share" /\ op' = [op EXCEPT ![c] = "attached"] /\ loop' = loop \o w
      /\ sessions' = WithPrepared(c, sessions)
      /\ UNCHANGED <<server, shown, passed, holds, puts, inbox, cell, edits>>
  BY DEF Attach, Enters, registry, Submit
<1>2. /\ Prepared(c) \in SUBSET Regs(server) /\ Prepared(c) \in SUBSET Ids
      /\ \A i \in Prepared(c) : server.regs[i].ctx = c
      /\ Prepared(c) = Unattached(server, sessions, c)
  BY RegsIds DEF Prepared, Of, Unattached
<1>3. EachOf(w, "activate", c, Prepared(c))
  BY <1>2, EachTasks
<1> HIDE DEF w
<1>4. /\ op \in [Contexts -> Stages] /\ op'[c] = "attached" /\ ShownOK(server, shown) /\ server \in Server
      /\ OwnerOK(server, op) /\ Calm(server, server) /\ SessionsAt(server, sessions, loop, "share", c) /\ NewOK
  BY <1>1, SameCalm DEF SharesInv, TypeOK, SessionsOK
<1>5. TasksOK(w, op') /\ TasksRefer(w, server) /\ w \in Seq(Task)
  <2>1. MayStart("activate", c, Prepared(c), op', server)
    BY <1>2, <1>4 DEF MayStart, StagesOf, Waited
  <2> QED BY <1>3, <2>1, EachOK
<1>6. Activates(server, sessions, w, c)
  BY <1>2, <1>3 DEF Activates, EachOf
<1>7. OwnerOK(server, op')
  <2>1. SameClosed(op, op')
    BY <1>1, <1>4 DEF SameClosed
  <2> QED BY <1>4, <2>1, OwnerCalm
<1>8. Follows(server, server) /\ Others(server, server, c) /\ \A d \in Contexts : StagedStay(server, server, d)
  BY DEF Follows, Others, StaysFresh, StagedStay, Staged
<1>9. /\ sessions' \in Seq(Session) /\ Len(sessions') = Len(server.regs)
      /\ \A i \in Regs(server) :
           IF i \in Prepared(c) THEN sessions'[i].on /\ sessions'[i].disk = NoValue /\ ~sessions'[i].initial
           ELSE sessions'[i] = sessions[i]
  <2>1. sessions \in Seq(Session) /\ Len(sessions) = Len(server.regs)
    BY DEF SharesInv, TypeOK
  <2> QED BY <1>1, <2>1, PreparedSessions
<1>10. SessionsOf(sessions, sessions', server, server, c)
  BY <1>2, <1>9 DEF SessionsOf
<1>11. AttachedNow(server, server, sessions, sessions', w, c)
  <2>1. ASSUME NEW i \in Prepared(c) PROVE FreshReg(server.regs[i], c) /\ ~server.regs[i].staged
    <3>1. i \in Regs(server) /\ server.regs[i].ctx = c /\ ~sessions[i].on /\ ~server.regs[i].closed
      BY <1>2 DEF Unattached
    <3>2. ~server.regs[i].staged
      BY <1>4, <3>1 DEF SessionsAt, SessionFits, Loading
    <3>3. Fresh(server.regs[i], sessions[i])
      BY <1>1, <1>4, <3>1 DEF NewOK, NewAt, New
    <3> QED BY <1>4, <3>1, <3>2, <3>3, Typed DEF FreshReg, Fresh
  <2> QED BY <1>2, <1>9, <2>1 DEF AttachedNow, Unattached, StaysFresh
<1> QED BY <1>1, <1>4, <1>5, <1>6, <1>7, <1>8, <1>10, <1>11, AttachingStep

\* A load unregisters what it replaces, and activates what it loaded.
AllOf(I, c, s) == \A i \in I : i \in Regs(s) /\ s.regs[i].ctx = c
LEMMA CommitTasks ==
  ASSUME NEW c, NEW I, NEW J, NEW u, EachOf(u, "unregister", c, I), NEW v, EachOf(v, "activate", c, J),
         J # {}, NEW o, o[c] = "attached", NEW s, AllOf(I, c, s), AllOf(J, c, s)
  PROVE  TasksOK(u \o v, o) /\ TasksRefer(u \o v, s) /\ u \o v \in Seq(Task)
<1> DEFINE w == u \o v
           n == Len(u)
<1>1. /\ u \in Seq(Task) /\ v \in Seq(Task)
      /\ \A k \in DOMAIN u : u[k].do = "unregister" /\ u[k].ctx = c /\ u[k].reg \in I
      /\ \A k \in DOMAIN v : v[k].do = "activate" /\ v[k].ctx = c /\ v[k].reg \in J
      /\ \A j, k \in DOMAIN v : v[j].reg = v[k].reg => j = k
      /\ \E k \in DOMAIN v : v[k].do = "activate"
  BY DEF EachOf
<1>2. /\ w \in Seq(Task) /\ n \in Nat
      /\ \A k \in DOMAIN u : k \in DOMAIN w /\ w[k] = u[k] /\ k \in Nat /\ k <= n
      /\ \A k \in DOMAIN v : k + n \in DOMAIN w /\ w[k + n] = v[k] /\ k \in Nat /\ 0 < k
      /\ \A k \in DOMAIN w : k \in DOMAIN u \/ (k - n \in DOMAIN v /\ k \in Nat)
  BY <1>1, JoinSeq, SMTT(20)
<1> HIDE DEF w, n
<1>3. ASSUME NEW k \in DOMAIN w
      PROVE  \/ k \in DOMAIN u /\ w[k].do = "unregister" /\ w[k].reg \in I /\ w[k].ctx = c /\ k <= n
             \/ k - n \in DOMAIN v /\ k \in Nat /\ w[k] = v[k - n] /\ w[k].do = "activate" /\ w[k].reg \in J /\ w[k].ctx = c
  <2>1. CASE k \in DOMAIN u
    BY <1>1, <1>2, <2>1
  <2>2. CASE k - n \in DOMAIN v /\ k \in Nat
    <3>1. (k - n) + n = k
      BY <1>2, <2>2
    <3>2. w[k] = v[k - n]
      BY <1>2, <2>2, <3>1
    <3> QED BY <1>1, <2>2, <3>2
  <2> QED BY <1>2, <2>1, <2>2
<1>4. TasksRefer(w, s)
  BY <1>3 DEF TasksRefer, TaskRefs, TaskOf, AllOf
<1>5. \A k \in DOMAIN w : o[w[k].ctx] \in StagesOf[w[k].do]
  BY <1>3 DEF StagesOf
<1>6. ASSUME NEW j \in DOMAIN w, NEW k \in DOMAIN w, w[j].do = "activate", w[k].do = "activate", w[j].reg = w[k].reg
      PROVE  j = k
  <2>1. j - n \in DOMAIN v /\ w[j] = v[j - n] /\ j \in Nat /\ k - n \in DOMAIN v /\ w[k] = v[k - n] /\ k \in Nat
    BY <1>3, <1>6
  <2>2. j - n = k - n
    BY <1>1, <1>6, <2>1
  <2> QED BY <1>2, <2>1, <2>2
<1>7. ASSUME NEW j \in DOMAIN w, w[j].do = "unregister"
      PROVE  \E k \in DOMAIN w : j < k /\ w[k].do = "activate" /\ w[k].ctx = w[j].ctx
  <2>1. j \in DOMAIN u /\ j \in Nat /\ j <= n /\ w[j].ctx = c
    BY <1>2, <1>3, <1>7
  <2>2. PICK k \in DOMAIN v : v[k].do = "activate" /\ v[k].ctx = c
    BY <1>1
  <2>3. k + n \in DOMAIN w /\ w[k + n] = v[k] /\ k \in Nat /\ 0 < k
    BY <1>2
  <2>4. j < k + n
    BY <1>2, <2>1, <2>3
  <2> QED BY <2>1, <2>2, <2>3, <2>4
<1>8. TasksOK(w, o)
  BY <1>3, <1>5, <1>6, <1>7 DEF TasksOK
<1> QED BY <1>2, <1>4, <1>8 DEF w

LEMMA LoadCommitStep ==
  ASSUME NEW c \in Contexts
  PROVE  SharesInv /\ LoadCommit(c) => SharesInv'
<1> SUFFICES ASSUME SharesInv, LoadCommit(c) PROVE SharesInv'
  OBVIOUS
<1> DEFINE I == Attached(c)
           J == Prepared(c)
           u == Each("unregister", c, I)
           v == Each("activate", c, J)
           w == u \o v
<1>1. /\ op[c] = "load" /\ op' = [op EXCEPT ![c] = "attached"] /\ loop' = loop \o w
      /\ Committable(c) /\ server' = Commit(server, c, J) /\ shown' = shown \cup Served(server')
      /\ sessions' = WithPrepared(c, Detached(sessions, I))
      /\ UNCHANGED <<passed, holds, puts, inbox, cell, edits>>
  BY DEF LoadCommit, Enters, Becomes, Submit, Detached
<1>2. /\ J \in SUBSET Regs(server) /\ J \in SUBSET Ids /\ (\A i \in J : server.regs[i].ctx = c)
      /\ J = Unattached(server, sessions, c)
      /\ I \in SUBSET Regs(server) /\ I \in SUBSET Ids /\ (\A i \in I : server.regs[i].ctx = c /\ sessions[i].on)
      /\ \A i \in Regs(server) : server.regs[i].ctx = c /\ sessions[i].on => i \in I
  BY RegsIds DEF Prepared, Of, Unattached, Attached
<1>3. EachOf(u, "unregister", c, I) /\ EachOf(v, "activate", c, J)
  BY <1>2, EachTasks
<1> HIDE DEF u, v, I
<1>4. /\ op \in [Contexts -> Stages] /\ op'[c] = "attached" /\ ShownOK(server, shown) /\ server \in Server
      /\ OwnerOK(server, op) /\ SessionsAt(server, sessions, loop, "load", c) /\ NewOK
  BY <1>1, SameCalm DEF SharesInv, TypeOK, SessionsOK
<1>5. J \in SUBSET Staged(server) /\ J # {}
  <2>1. ASSUME NEW i \in J PROVE i \in Staged(server)
    <3>1. PreparedFits(server, sessions, loop, "load", i)
      BY <1>2, <1>4 DEF SessionsAt
    <3> QED BY <1>2, <3>1 DEF PreparedFits, Loading, Unattached, Staged
  <2> QED BY <1>2, <1>4, <2>1 DEF SessionsAt
<1>6. Committed(server, server', c, J) /\ ShownOK(server', shown')
  <2>1. server.ns.owner # NoOwner /\ \A i \in J : NoConflict(server, c, server.regs[i].route, I, J)
    BY <1>1 DEF Committable, I
  <2> HIDE DEF J
  <2> QED BY <1>1, <1>2, <1>4, <1>5, <2>1, CommitStep
<1> HIDE DEF J
<1>7. /\ Regs(server') = Regs(server) /\ OwnerPassed(server, server', c) /\ server'.ns.owner = c
      /\ \A i \in Regs(server) : i \notin J => CalmReg(server.regs[i], server'.regs[i], Regs(server'))
      /\ \A i \in J : FreshReg(server'.regs[i], c) /\ ~server'.regs[i].staged
      /\ StagedOpen(server, server')
  BY <1>5, <1>6 DEF Committed, Regs
<1>8. \A i \in Regs(server) : server'.regs[i].ctx = server.regs[i].ctx
  BY <1>2, <1>7 DEF CalmReg, FreshReg
<1>9. Follows(server, server') /\ Others(server, server', c)
  <2>1. ASSUME NEW i \in Regs(server'), server'.regs[i].ctx # c
        PROVE  /\ i \in Regs(server) /\ server'.regs[i].ctx = server.regs[i].ctx
               /\ server'.regs[i].staged <=> server.regs[i].staged
               /\ server.regs[i].closed => server'.regs[i].closed
               /\ StaysFresh(server.regs[i], server'.regs[i])
    <3>1. i \in Regs(server) /\ i \notin J
      BY <1>2, <1>7, <1>8, <2>1
    <3> QED BY <1>7, <3>1 DEF CalmReg, StaysFresh
  <2> QED BY <1>7, <1>8, <2>1 DEF Follows, Others
<1>10. \A d \in Contexts : d # c /\ op[d] = "load" => StagedStay(server, server', d)
  BY <1>7, <1>8 DEF StagedStay, StagedOpen, Staged
<1>11. TasksOK(w, op') /\ TasksRefer(w, server') /\ w \in Seq(Task)
  <2>1. AllOf(I, c, server') /\ AllOf(J, c, server')
    BY <1>2, <1>7, <1>8 DEF AllOf
  <2> QED BY <1>3, <1>4, <1>5, <2>1, CommitTasks
<1>12. Activates(server, sessions, w, c) /\ \A i \in I : Loops(w, "unregister", i)
  <2>1. u \in Seq(Task) /\ v \in Seq(Task)
    BY <1>3 DEF EachOf
  <2>2. /\ \A k \in DOMAIN u : u[k].do = "unregister" /\ u[k].ctx = c
        /\ \A k \in DOMAIN v : v[k].do = "activate" /\ v[k].ctx = c /\ v[k].reg \in J
    BY <1>3 DEF EachOf
  <2>3. ASSUME NEW k \in DOMAIN w
        PROVE  w[k].ctx = c /\ w[k].do # "deliver" /\ (w[k].do = "activate" => w[k].reg \in J)
    <3>1. CASE k \in DOMAIN u
      BY <2>1, <2>2, <3>1, JoinSeq
    <3>2. CASE k - Len(u) \in DOMAIN v /\ k \in Nat
      <4>1. Len(u) \in Nat /\ w[(k - Len(u)) + Len(u)] = v[k - Len(u)]
        BY <2>1, <3>2, JoinSeq
      <4>2. (k - Len(u)) + Len(u) = k
        BY <3>2, <4>1
      <4> QED BY <2>2, <3>2, <4>1, <4>2
    <3> QED BY <2>1, <3>1, <3>2, JoinSeq
  <2>4. \A i \in I : Loops(u, "unregister", i)
    BY <1>3 DEF EachOf, Loops
  <2>5. \A i \in I : Loops(w, "unregister", i)
    BY <2>1, <2>4, LoopsJoin
  <2> QED BY <1>2, <2>3, <2>5 DEF Activates
<1> HIDE DEF w
<1>13. OwnerOK(server', op')
  <2>1. SameClosed(op, op')
    BY <1>1, <1>4 DEF SameClosed
  <2>2. ASSUME NEW i \in Regs(server'), Public(server', i) PROVE Follower(server, server', op, i)
    <3>1. CASE i \in J
      BY <1>1, <1>2, <1>7, <1>8, <3>1 DEF Follower
    <3>2. CASE i \notin J
      BY <1>7, <2>2, <3>2 DEF Follower, Public, CalmReg
    <3> QED BY <3>1, <3>2
  <2>3. server' \in Server /\ OwnerPassed(server, server', c) /\ op[c] # "closed"
    BY <1>1, <1>6, <1>7 DEF ShownOK, RegistryOK
  <2> QED BY <1>4, <2>1, <2>2, <2>3, OwnerStep
<1>14. /\ sessions' \in Seq(Session) /\ Len(sessions') = Len(server.regs)
       /\ \A i \in Regs(server) :
            IF i \in J THEN sessions'[i].on /\ sessions'[i].disk = NoValue /\ ~sessions'[i].initial
            ELSE sessions'[i] = IF i \in I THEN NoSession ELSE sessions[i]
  <2> DEFINE all == Detached(sessions, I)
  <2>1. sessions \in Seq(Session) /\ Len(sessions) = Len(server.regs) /\ DOMAIN sessions = Regs(server)
    BY SessionsLen, <1>4 DEF SharesInv, TypeOK
  <2>2. all \in Seq(Session) /\ Len(all) = Len(server.regs)
        /\ \A i \in Regs(server) : all[i] = IF i \in I THEN NoSession ELSE sessions[i]
    BY <2>1, DetachSessions
  <2>3. sessions' = WithPrepared(c, all)
    BY <1>1
  <2> HIDE DEF all
  <2> QED BY <2>2, <2>3, PreparedSessions DEF J
<1>15. SessionsOf(sessions, sessions', server, server', c)
  <2>1. Len(server'.regs) = Len(server.regs)
    BY <1>4, <1>6, <1>7, SessionsLen DEF ShownOK, RegistryOK, SharesInv
  <2> QED BY <1>2, <1>14, <2>1 DEF SessionsOf
<1>16. AttachedNow(server, server', sessions, sessions', w, c)
  <2> SUFFICES ASSUME NEW i \in Regs(server), server.regs[i].ctx = c, i \notin J
               PROVE  /\ server'.regs[i].staged <=> server.regs[i].staged
                      /\ server.regs[i].closed => server'.regs[i].closed
                      /\ StaysFresh(server.regs[i], server'.regs[i])
                      /\ sessions'[i] = sessions[i] \/ (sessions'[i] = NoSession /\ Loops(w, "unregister", i))
    BY <1>2, <1>7, <1>14 DEF AttachedNow, Unattached
  <2>1. CalmReg(server.regs[i], server'.regs[i], Regs(server'))
    BY <1>7
  <2> QED BY <1>12, <1>14, <2>1 DEF CalmReg, StaysFresh
<1> QED BY <1>1, <1>7, <1>9, <1>10, <1>11, <1>12, <1>6, <1>13, <1>15, <1>16, AttachingStep

-----------------------------------------------------------------------------
(* The steps that leave the calls alone. *)

News == {i \in Regs(server) : New(server, sessions, loop, op, i)}
\* What is submitted completes reattachments and delivers values, to what has been attached.
Settles(w) ==
  \A k \in DOMAIN w : /\ w[k].do \in Quiet /\ TaskRefs(w[k], server)
                      /\ w[k].do = "deliver" /\ w[k].reg \in News => Loops(loop, "activate", w[k].reg)
\* The registrations that are there stay, and the new ones new.
ServerSettles ==
  /\ Kept(server, server') /\ ShownOK(server', shown') /\ OwnerOK(server', op)
  /\ \A i \in News : StaysFresh(server.regs[i], server'.regs[i])
  /\ \A c \in Contexts : op[c] = "load" => StagedStay(server, server', c)
Untouched(s) == s.disk = NoValue /\ ~s.initial
SessionsSettle ==
  /\ sessions' \in Seq(Session) /\ Len(sessions') = Len(server.regs)
  /\ \A i \in Regs(server) : /\ sessions'[i].on <=> sessions[i].on
                             /\ i \in News /\ Untouched(sessions[i]) => Untouched(sessions'[i])
PutsSettle ==
  /\ puts' \in [Requests -> Handler] /\ PutsRefer(puts', server)
  /\ \A i \in News : Unasked(puts, i) => Unasked(puts', i)
InboxSettles ==
  /\ inbox' \in [Contexts -> Seq(Message)] /\ InboxOK(inbox', server, op)
  /\ \A i \in News : Unheard(inbox, i) => Unheard(inbox', i)

LEMMA SettledStep ==
  ASSUME SharesInv, op' = op, NEW w \in Seq(Task), loop' = loop \o w, Settles(w),
         ServerSettles, SessionsSettle, PutsSettle, InboxSettles,
         holds' \in Nat, passed' \in 0..holds', edits' \in 0..Len(Drafts),
         cell' \in [Contexts -> [Routes -> Values]]
  PROVE  SharesInv'
<1>1. /\ op \in [Contexts -> Stages] /\ loop \in Seq(Task) /\ TasksRefer(loop, server) /\ TasksOK(loop, op)
      /\ SessionsOK(server, sessions, loop, op) /\ NewOK /\ server \in Server
  BY SameCalm DEF SharesInv, TypeOK, RefsOK
<1>2. /\ Follows(server, server') /\ Regs(server') = Regs(server) /\ server' \in Server
      /\ Kept(server, server') /\ ShownOK(server', shown') /\ OwnerOK(server', op)
      /\ Len(server'.regs) <= MaxRegs /\ shown' \subseteq [route: Routes, marker: Nat, value: Values]
  BY KeptFollows DEF ServerSettles, Kept, ShownOK, RegistryOK
<1>3. TasksOK(loop', op') /\ TasksRefer(loop', server') /\ loop' \in Seq(Task)
  <2>1. TasksRefer(w, server) /\ \A k \in DOMAIN w : w[k].do \in Quiet
    BY DEF Settles, TasksRefer
  <2>2. TasksOK(w, op) /\ Apart(loop, w)
    BY <1>1, <2>1, QuietTasks
  <2>3. TasksOK(loop', op) /\ TasksRefer(loop', server) /\ loop' \in Seq(Task)
    BY <1>1, <2>1, <2>2, TasksJoin, ReferJoin
  <2> QED BY <1>2, <2>3, FollowsRefers
<1>4. RefsOK'
  <2>1. InboxOK(inbox', server', op') /\ PutsRefer(puts', server')
    BY <1>2, FollowsRefers DEF InboxSettles, PutsSettle
  <2> QED BY <1>3, <2>1 DEF RefsOK
<1>5. TypeOK'
  <2>1. Len(server'.regs) = Len(server.regs)
    BY <1>2, SessionsLen DEF SharesInv
  <2> QED BY <1>1, <1>2, <1>3, <2>1 DEF TypeOK, SessionsSettle, PutsSettle, InboxSettles
<1>6. \A do, i : do # "complete" /\ do # "deliver" => (Loops(loop', do, i) <=> Loops(loop, do, i))
  <2> SUFFICES ASSUME NEW do, NEW i, do # "complete", do # "deliver"
               PROVE  Loops(loop', do, i) <=> Loops(loop, do, i)
    OBVIOUS
  <2>1. ~Loops(w, do, i)
    BY DEF Loops, Settles, Quiet
  <2> QED BY <1>1, <2>1, LoopsJoin
<1>7. SessionsOK(server', sessions', loop', op')
  <2> SUFFICES ASSUME NEW d \in Contexts PROVE SessionsAt(server', sessions', loop', op[d], d)
    BY DEF SessionsOK
  <2>1. SessionsFollow(server, server', sessions, sessions', loop, loop', d)
    BY <1>2, <1>6 DEF SessionsFollow, Kept, SessionsSettle
  <2>2. SessionsAt(server, sessions, loop, op[d], d) /\ (op[d] = "load" => StagedStay(server, server', d))
    BY <1>1 DEF SessionsOK, ServerSettles
  <2> QED BY <2>1, <2>2, SessionsKept
<1>8. NewOK'
  <2> SUFFICES ASSUME NEW i \in Regs(server), New(server', sessions', loop', op', i)
               PROVE  /\ Fresh(server'.regs[i], sessions'[i]) /\ Unheard(inbox', i) /\ Unasked(puts', i)
                      /\ DeliverAfter(loop', i)
                      /\ Loops(loop', "activate", i) => sessions'[i].on /\ ~server'.regs[i].staged
    BY <1>2 DEF NewOK, NewAt
  <2>1. /\ server'.regs[i].ctx = server.regs[i].ctx /\ (server'.regs[i].staged <=> server.regs[i].staged)
        /\ server.regs[i].closed => server'.regs[i].closed
        /\ sessions'[i].on <=> sessions[i].on
        /\ Loops(loop', "activate", i) <=> Loops(loop, "activate", i)
    BY <1>2, <1>6 DEF Kept, SessionsSettle
  <2>2. i \in News
    BY <2>1 DEF New, News
  <2>3. /\ Fresh(server.regs[i], sessions[i]) /\ Unheard(inbox, i) /\ Unasked(puts, i) /\ DeliverAfter(loop, i)
        /\ Loops(loop, "activate", i) => sessions[i].on /\ ~server.regs[i].staged
    BY <1>1, <2>2 DEF NewOK, NewAt, News
  <2>4. StaysFresh(server.regs[i], server'.regs[i]) /\ Untouched(sessions'[i])
    BY <2>2, <2>3 DEF ServerSettles, SessionsSettle, Fresh, Untouched
  <2>5. Fresh(server'.regs[i], sessions'[i])
    BY <2>3, <2>4 DEF Fresh, StaysFresh, Untouched
  <2>6. Loops(w, "deliver", i) => Loops(loop, "activate", i)
    BY <2>2 DEF Loops, Settles
  <2>7. DeliverAfter(loop', i)
    BY <1>1, <2>3, <2>6, LoopsJoin
  <2> QED BY <2>1, <2>2, <2>3, <2>5, <2>7 DEF PutsSettle, InboxSettles
<1> QED BY <1>2, <1>3, <1>4, <1>5, <1>7, <1>8 DEF SharesInv

\* The parts that stay as they are.
LEMMA UnchangedSettles ==
  ASSUME SharesInv
  PROVE  /\ UNCHANGED <<server, shown>> => ServerSettles
         /\ sessions' = sessions => SessionsSettle
         /\ puts' = puts => PutsSettle
         /\ inbox' = inbox => InboxSettles
         /\ loop' = loop => loop' = loop \o <<>> /\ <<>> \in Seq(Task) /\ Settles(<<>>)
         /\ passed' = passed /\ holds' = holds => holds' \in Nat /\ passed' \in 0..holds'
         /\ edits' = edits => edits' \in 0..Len(Drafts)
         /\ cell' = cell => cell' \in [Contexts -> [Routes -> Values]]
<1>1. UNCHANGED <<server, shown>> => ServerSettles
  <2>1. Kept(server, server) /\ \A i \in News : StaysFresh(server.regs[i], server.regs[i])
    BY DEF Kept, StaysFresh
  <2>2. \A c \in Contexts : StagedStay(server, server, c)
    BY DEF StagedStay, Staged
  <2> QED BY <2>1, <2>2 DEF ServerSettles, SharesInv
<1>2. sessions' = sessions => SessionsSettle
  BY DEF SessionsSettle, SharesInv, TypeOK
<1>3. (puts' = puts => PutsSettle) /\ (inbox' = inbox => InboxSettles)
  BY DEF PutsSettle, InboxSettles, SharesInv, RefsOK, TypeOK
<1>4. loop' = loop => loop' = loop \o <<>> /\ <<>> \in Seq(Task) /\ Settles(<<>>)
  BY DEF SharesInv, TypeOK, Settles
<1>5. /\ passed' = passed /\ holds' = holds => holds' \in Nat /\ passed' \in 0..holds'
      /\ edits' = edits => edits' \in 0..Len(Drafts)
      /\ cell' = cell => cell' \in [Contexts -> [Routes -> Values]]
  BY DEF SharesInv, TypeOK
<1> QED BY <1>1, <1>2, <1>3, <1>4, <1>5

LEMMA CalmSettles ==
  ASSUME SharesInv, Calm(server, server'), shown' = shown \cup Served(server'),
         NEW I, ClosesIn(server, server', I), I \cap Staged(server) = {}
  PROVE  ServerSettles
<1>1. server \in Server /\ OwnerOK(server, op) /\ ShownOK(server, shown)
  BY SameCalm DEF SharesInv
<1>2. ShownOK(server', shown')
  BY <1>1, CalmStep
<1>3. OwnerOK(server', op)
  BY <1>1, OwnerCalm DEF SameClosed
<1>4. Kept(server, server') /\ \A i \in Regs(server) : StaysFresh(server.regs[i], server'.regs[i])
  BY CalmKept
<1>5. \A c \in Contexts : StagedStay(server, server', c)
  BY <1>4, StagedStays
<1> QED BY <1>2, <1>3, <1>4, <1>5 DEF ServerSettles, News

LEMMA TickStep == SharesInv /\ Tick => SharesInv'
<1> SUFFICES ASSUME SharesInv, Tick PROVE SharesInv'
  OBVIOUS
<1>1. /\ passed < holds /\ passed' = passed + 1 /\ op' = op /\ UNCHANGED <<server, shown>> /\ sessions' = sessions
      /\ puts' = puts /\ inbox' = inbox /\ loop' = loop /\ holds' = holds /\ edits' = edits /\ cell' = cell
  BY DEF Tick, registry, users
<1>2. holds' \in Nat /\ passed' \in 0..holds'
  BY <1>1 DEF SharesInv, TypeOK
<1> DEFINE w == <<>>
<1>3. loop' = loop \o w /\ w \in Seq(Task) /\ Settles(w)
  BY <1>1, UnchangedSettles
<1> HIDE DEF w
<1> QED BY <1>1, <1>2, <1>3, SettledStep, UnchangedSettles

LEMMA ExpireHoldsStep == SharesInv /\ ExpireHolds => SharesInv'
<1> SUFFICES ASSUME SharesInv, ExpireHolds PROVE SharesInv'
  OBVIOUS
<1>1. /\ op' = op /\ sessions' = sessions /\ passed' = passed
      /\ puts' = puts /\ inbox' = inbox /\ loop' = loop /\ holds' = holds /\ edits' = edits /\ cell' = cell
  BY DEF ExpireHolds, users
<1>2. ServerSettles
  <2>1. Recorded(server) \cap Staged(server) = {}
    BY StagedUnrecorded, SameCalm
  <2> QED BY <2>1, ExpireCalm, ExpireCloses, CalmSettles
<1> DEFINE w == <<>>
<1>3. loop' = loop \o w /\ w \in Seq(Task) /\ Settles(w)
  BY <1>1, UnchangedSettles
<1> HIDE DEF w
<1> QED BY <1>1, <1>2, <1>3, SettledStep, UnchangedSettles

\* The handler of a request goes on.
LEMMA PutMoves ==
  ASSUME SharesInv, NEW p \in Requests, NEW h \in Handler, puts' = [puts EXCEPT ![p] = h],
         PutRefs(h, server), h.at \in {"accepted", "sent"} => h.reg \notin News
  PROVE  PutsSettle
<1>1. puts \in [Requests -> Handler] /\ PutsRefer(puts, server)
  BY DEF SharesInv, TypeOK, RefsOK
<1>2. puts' \in [Requests -> Handler] /\ PutsRefer(puts', server)
  BY <1>1 DEF PutsRefer
<1>3. \A i \in News : Unasked(puts, i) => Unasked(puts', i)
  BY <1>1 DEF Unasked, PutAt
<1> QED BY <1>2, <1>3 DEF PutsSettle

LEMMA ReplySettles ==
  ASSUME SharesInv, NEW p \in Requests, NEW code \in {"200", "404", "409", "503"}, Reply(p, code)
  PROVE  PutsSettle
<1> DEFINE h == [puts[p] EXCEPT !.at = "done", !.reply = code]
<1>1. puts[p] \in Handler
  BY DEF SharesInv, TypeOK
<1>2. h \in Handler /\ h.at = "done"
  BY <1>1 DEF Handler
<1>3. puts' = [puts EXCEPT ![p] = h]
  BY DEF Reply
<1> HIDE DEF h
<1>4. PutRefs(h, server) /\ h.at \notin {"accepted", "sent"}
  BY <1>2 DEF PutRefs
<1> QED BY <1>2, <1>3, <1>4, PutMoves

LEMMA PutTimeoutStep ==
  ASSUME NEW p \in Requests
  PROVE  SharesInv /\ PutTimeout(p) => SharesInv'
<1> SUFFICES ASSUME SharesInv, PutTimeout(p) PROVE SharesInv'
  OBVIOUS
<1>1. /\ op' = op /\ sessions' = sessions /\ passed' = passed /\ UNCHANGED <<server, shown>>
      /\ inbox' = inbox /\ loop' = loop /\ holds' = holds /\ edits' = edits /\ cell' = cell
      /\ Reply(p, "503")
  BY DEF PutTimeout, users, registry
<1>2. PutsSettle
  BY <1>1, ReplySettles
<1> DEFINE w == <<>>
<1>3. loop' = loop \o w /\ w \in Seq(Task) /\ Settles(w)
  BY <1>1, UnchangedSettles
<1> HIDE DEF w
<1> QED BY <1>1, <1>2, <1>3, SettledStep, UnchangedSettles

LEMMA EnterSettles ==
  ASSUME SharesInv, NEW p \in Requests, NEW i \in Regs(server), NEW marker \in SUBSET Nat, Enter(p, i, marker)
  PROVE  ServerSettles /\ PutsSettle
<1>1. i \in Ids
  BY RegsIds
<1>2. PutsSettle
  <2> DEFINE h == [at |-> IF MustWait(server, i) THEN "waiting" ELSE "reading",
                   reg |-> i, marker |-> marker, ws |-> 0, reply |-> "none"]
  <2>1. h \in Handler /\ h.at \notin {"accepted", "sent"} /\ h.reg = i
    BY <1>1 DEF Handler
  <2>2. puts' = [puts EXCEPT ![p] = h]
    BY DEF Enter
  <2> HIDE DEF h
  <2> QED BY <2>1, <2>2, PutMoves DEF PutRefs
<1>3. ClosesIn(server, server', {})
  <2>1. server.regs[i] \in Registration /\ server.regs \in Seq(Registration) /\ server \in Server
        /\ Regs(server) = DOMAIN server.regs
    BY Typed, SameCalm DEF Regs
  <2>2. Expecting(server.regs[i]).closed = server.regs[i].closed
    BY <2>1 DEF Expecting, Registration
  <2>3. CASE server' = server
    BY <2>3 DEF ClosesIn
  <2>4. CASE server' = [server EXCEPT !.regs[i] = Expecting(@)]
    <3>1. server'.regs = [server.regs EXCEPT ![i] = Expecting(@)]
      BY <2>1, <2>4 DEF Server
    <3> QED BY <2>1, <2>2, <3>1 DEF ClosesIn
  <2> QED BY <2>3, <2>4 DEF Enter, Becomes
<1>4. ServerSettles
  <2> DEFINE I == {}
  <2>1. ClosesIn(server, server', I) /\ I \cap Staged(server) = {}
    BY <1>3
  <2> HIDE DEF I
  <2> QED BY <2>1, EnterCalm, CalmSettles
<1> QED BY <1>2, <1>4

LEMMA ArriveStep ==
  ASSUME NEW p \in Requests, NEW r \in Routes
  PROVE  SharesInv /\ Arrive(p, r) => SharesInv'
<1> SUFFICES ASSUME SharesInv, Arrive(p, r) PROVE SharesInv'
  OBVIOUS
<1>1. /\ op' = op /\ sessions' = sessions /\ passed' = passed
      /\ inbox' = inbox /\ loop' = loop /\ holds' = holds /\ edits' = edits /\ cell' = cell
  BY DEF Arrive, users
<1>2. ServerSettles /\ PutsSettle
  <2> DEFINE i == server.records[r]
  <2>1. i \in Regs(server)
    BY SameCalm DEF Arrive, RegistryOK, RecordsOK
  <2>2. PICK marker \in {{}, {server.regs[i].marker}} : Enter(p, i, marker)
    BY DEF Arrive
  <2>3. server.regs[i].marker \in Nat
    BY <2>1, Typed, SameCalm DEF Registration
  <2>4. marker \in SUBSET Nat
    BY <2>3
  <2> QED BY <2>1, <2>2, <2>4, EnterSettles
<1> DEFINE w == <<>>
<1>3. loop' = loop \o w /\ w \in Seq(Task) /\ Settles(w)
  BY <1>1, UnchangedSettles
<1> HIDE DEF w
<1> QED BY <1>1, <1>2, <1>3, SettledStep, UnchangedSettles

LEMMA ResumeStep ==
  ASSUME NEW p \in Requests
  PROVE  SharesInv /\ Resume(p) => SharesInv'
<1> SUFFICES ASSUME SharesInv, Resume(p) PROVE SharesInv'
  OBVIOUS
<1>1. /\ op' = op /\ sessions' = sessions /\ passed' = passed
      /\ inbox' = inbox /\ loop' = loop /\ holds' = holds /\ edits' = edits /\ cell' = cell
  BY DEF Resume, users
<1>2. ServerSettles /\ PutsSettle
  <2> DEFINE i == puts[p].reg
             to == server.regs[i].to
  <2>1. puts[p] \in Handler /\ i \in Regs(server) /\ RegistryOK(server)
    BY SameCalm DEF Resume, SharesInv, TypeOK, RefsOK, PutsRefer, PutRefs
  <2>2. to \in {0} \cup Regs(server)
    BY <2>1 DEF RegistryOK, FlagsOK, FlagsFit
  <2>3. CASE to = 0
    <3>1. Reply(p, "404") /\ UNCHANGED <<server, shown>>
      BY <2>3 DEF Resume, registry
    <3> QED BY <3>1, ReplySettles, UnchangedSettles
  <2>4. CASE to # 0
    <3>1. Enter(p, to, puts[p].marker) /\ to \in Regs(server)
      BY <2>2, <2>4 DEF Resume
    <3>2. puts[p].marker \in SUBSET Nat
      BY <2>1 DEF Handler
    <3> HIDE DEF to
    <3> QED BY <3>1, <3>2, EnterSettles
  <2> QED BY <2>3, <2>4
<1> DEFINE w == <<>>
<1>3. loop' = loop \o w /\ w \in Seq(Task) /\ Settles(w)
  BY <1>1, UnchangedSettles
<1> HIDE DEF w
<1> QED BY <1>1, <1>2, <1>3, SettledStep, UnchangedSettles

LEMMA InstalledSettles ==
  ASSUME SharesInv, NEW i \in Regs(server), server.regs[i].active, Installed(server, i, server'),
         shown' = shown \cup Served(server')
  PROVE  ServerSettles /\ i \notin News
<1>1. server \in Server /\ ShownOK(server, shown) /\ OwnerOK(server, op) /\ Regs(server') = Regs(server)
  BY SameCalm DEF SharesInv, Installed, Regs
<1>2. i \notin News
  BY DEF News, SharesInv, NewOK, NewAt, Fresh
<1>3. ShownOK(server', shown') /\ server' \in Server
  <2>1. ShownOK(server', shown')
    BY <1>1, InstalledStep
  <2> QED BY <2>1 DEF Installed
<1>4. ASSUME NEW j \in Regs(server)
      PROVE  /\ server'.regs[j].ctx = server.regs[j].ctx /\ (server'.regs[j].staged <=> server.regs[j].staged)
             /\ server'.regs[j].closed <=> server.regs[j].closed
             /\ server'.regs[j].active <=> server.regs[j].active
             /\ server'.regs[j].held <=> server.regs[j].held
             /\ server'.regs[j].reattaching <=> server.regs[j].reattaching
  BY DEF Installed
<1>5. OwnerOK(server', op)
  <2>1. OwnerKept(server, server') /\ SameClosed(op, op)
    BY DEF OwnerKept, Installed, SameClosed
  <2>2. \A j \in Regs(server') : Public(server', j) => Follower(server, server', op, j)
    BY <1>1, <1>4 DEF Follower, Public
  <2> QED BY <1>1, <1>3, <2>1, <2>2, OwnerStep
<1>6. Kept(server, server') /\ \A j \in News : StaysFresh(server.regs[j], server'.regs[j])
  BY <1>1, <1>4 DEF Kept, StaysFresh, News
<1>7. \A c \in Contexts : StagedStay(server, server', c)
  BY <1>1, <1>4 DEF StagedStay, Staged
<1> QED BY <1>2, <1>3, <1>5, <1>6, <1>7 DEF ServerSettles

LEMMA SinkSettles ==
  ASSUME SharesInv, NEW p \in Requests, puts[p].reg \in Regs(server), puts[p].reg \notin News, NEW ws \in Nat,
         Body[p] \in Values, Sink(p, puts[p].reg, ws)
  PROVE  PutsSettle /\ InboxSettles
<1> DEFINE i == puts[p].reg
           c == server.regs[i].ctx
           m == [type |-> "observed", reg |-> i, value |-> Body[p], ws |-> ws, request |-> p]
           h == [puts[p] EXCEPT !.at = "sent", !.ws = ws]
<1>1. CASE ~Accepting(c)
  <2>1. Reply(p, "503") /\ inbox' = inbox
    BY <1>1 DEF Sink
  <2> QED BY <2>1, ReplySettles, UnchangedSettles
<1>2. CASE Accepting(c)
  <2>1. puts[p] \in Handler /\ i \in Ids /\ c \in Contexts
    BY RegsIds, Typed, SameCalm DEF SharesInv, TypeOK, Registration
  <2>2. h \in Handler /\ h.reg = i
    BY <2>1 DEF Handler
  <2>3. puts' = [puts EXCEPT ![p] = h] /\ inbox' = Sent(inbox, c, m)
    BY <1>2 DEF Sink, Sent
  <2>4. m \in Message /\ MessageFits(m, server, c) /\ m.type # "begin_close"
    BY <2>1 DEF Message, MessageFits
  <2>5. \A j : j # i => ~About(m, j)
    BY DEF About
  <2> HIDE DEF h, m
  <2>6. PutRefs(h, server)
    BY <2>2 DEF PutRefs
  <2>7. PutsSettle
    BY <2>2, <2>3, <2>6, PutMoves
  <2>8. inbox \in [Contexts -> Seq(Message)] /\ InboxOK(inbox, server, op)
    BY DEF SharesInv, TypeOK, RefsOK
  <2> DEFINE box2 == inbox'
  <2>9. box2 = Sent(inbox, c, m)
    BY <2>3
  <2> HIDE DEF box2, c
  <2>10. /\ InboxOK(box2, server, op) /\ box2 \in [Contexts -> Seq(Message)]
         /\ \A j : Unheard(inbox, j) /\ ~About(m, j) => Unheard(box2, j)
    BY <2>1, <2>4, <2>8, <2>9, InboxAppend
  <2> QED BY <2>5, <2>7, <2>10 DEF InboxSettles, box2
<1> QED BY <1>1, <1>2

LEMMA SendStep ==
  ASSUME NEW p \in Requests
  PROVE  SharesInv /\ Send(p) => SharesInv'
<1> SUFFICES ASSUME SharesInv, Send(p) PROVE SharesInv'
  OBVIOUS
<1>1. /\ op' = op /\ sessions' = sessions /\ passed' = passed /\ UNCHANGED <<server, shown>>
      /\ loop' = loop /\ holds' = holds /\ edits' = edits /\ cell' = cell
      /\ puts[p].at = "accepted" /\ Sink(p, puts[p].reg, puts[p].ws)
  BY DEF Send, users, registry
<1>2. puts[p] \in Handler /\ puts[p].reg \in Regs(server) /\ puts[p].ws \in Nat
  BY <1>1 DEF SharesInv, TypeOK, RefsOK, PutsRefer, PutRefs, Handler
<1>3. puts[p].reg \notin News
  BY <1>1 DEF News, SharesInv, NewOK, NewAt, Unasked, PutAt
<1>4. PutsSettle /\ InboxSettles
  BY <1>1, <1>2, <1>3, SinkSettles DEF Values
<1> DEFINE w == <<>>
<1>5. loop' = loop \o w /\ w \in Seq(Task) /\ Settles(w)
  BY <1>1, UnchangedSettles
<1> HIDE DEF w
<1> QED BY <1>1, <1>4, <1>5, SettledStep, UnchangedSettles

LEMMA AcceptStep ==
  ASSUME NEW p \in Requests
  PROVE  SharesInv /\ Accept(p) => SharesInv'
<1> SUFFICES ASSUME SharesInv, Accept(p) PROVE SharesInv'
  OBVIOUS
<1> DEFINE i == puts[p].reg
           reg == server.regs[i]
<1>1. /\ op' = op /\ sessions' = sessions /\ passed' = passed
      /\ loop' = loop /\ holds' = holds /\ edits' = edits /\ cell' = cell /\ puts[p].at = "reading"
  BY DEF Accept, users
<1>2. puts[p] \in Handler /\ i \in Regs(server) /\ reg \in Registration /\ Body[p] \in Values /\ server \in Server
  BY <1>1, Typed, SameCalm DEF SharesInv, TypeOK, RefsOK, PutsRefer, PutRefs, Values
<1>3. ServerSettles /\ PutsSettle /\ InboxSettles
  <2>1. CASE \E code \in {"404", "409"} : Reply(p, code) /\ UNCHANGED <<registry, inbox>>
    BY <2>1, ReplySettles, UnchangedSettles DEF registry
  <2>2. CASE /\ ~Gone(reg) /\ Becomes(Install(server, i, Body[p]))
             /\ IF Body[p] = reg.checksum THEN Sink(p, i, reg.ws + 1)
                ELSE /\ puts' = [puts EXCEPT ![p].at = "accepted", ![p].ws = reg.ws + 1]
                     /\ UNCHANGED inbox
    <3>1. reg.active /\ server' = Install(server, i, Body[p]) /\ shown' = shown \cup Served(server')
      BY <2>2 DEF Gone, Becomes
    <3>2. Installed(server, i, server')
      BY <1>2, <3>1, InstallEffect
    <3>3. ServerSettles /\ i \notin News
      BY <1>2, <3>1, <3>2, InstalledSettles
    <3>4. reg.ws + 1 \in Nat
      BY <1>2 DEF Registration
    <3>5. CASE Body[p] = reg.checksum
      <4>1. Sink(p, i, reg.ws + 1)
        BY <2>2, <3>5
      <4> QED BY <1>2, <3>3, <3>4, <4>1, SinkSettles
    <3>6. CASE Body[p] # reg.checksum
      <4> DEFINE h == [puts[p] EXCEPT !.at = "accepted", !.ws = reg.ws + 1]
      <4>1. puts' = [puts EXCEPT ![p] = h] /\ inbox' = inbox
        BY <2>2, <3>6
      <4>2. h \in Handler /\ h.reg = i
        BY <1>2, <3>4 DEF Handler
      <4> HIDE DEF h
      <4>3. PutRefs(h, server)
        BY <1>2, <4>2 DEF PutRefs
      <4> QED BY <3>3, <4>1, <4>2, <4>3, PutMoves, UnchangedSettles
    <3> QED BY <3>5, <3>6
  <2> QED BY <2>1, <2>2 DEF Accept
<1> DEFINE w == <<>>
<1>4. loop' = loop \o w /\ w \in Seq(Task) /\ Settles(w)
  BY <1>1, UnchangedSettles
<1> HIDE DEF w
<1> QED BY <1>1, <1>3, <1>4, SettledStep, UnchangedSettles

\* The turns of the controllers: a session gets on, and keeps being attached.
LEMMA SessionMoves ==
  ASSUME SharesInv, NEW i \in Regs(server), NEW t \in Session, sessions' = [sessions EXCEPT ![i] = t],
         t.on <=> sessions[i].on, i \in News /\ Untouched(sessions[i]) => Untouched(t)
  PROVE  SessionsSettle
<1>1. sessions \in Seq(Session) /\ Len(sessions) = Len(server.regs) /\ DOMAIN sessions = Regs(server)
  BY SessionsLen, SameCalm DEF SharesInv, TypeOK
<1>2. sessions' \in Seq(Session) /\ Len(sessions') = Len(server.regs)
  BY <1>1
<1>3. \A j \in Regs(server) : sessions'[j] = IF j = i THEN t ELSE sessions[j]
  BY <1>1
<1> QED BY <1>2, <1>3 DEF SessionsSettle

LEMMA ActuateEffect ==
  ASSUME NEW s \in Session, NEW value \in Values
  PROVE  LET t == Actuate(s, value) IN
         /\ t \in Session /\ (t.on <=> s.on) /\ (Untouched(s) => Untouched(t))
         /\ t.known = s.known
<1> DEFINE u == IF value = s.last THEN s
                ELSE [s EXCEPT !.last = value, !.pending = IF value # s.disk THEN value ELSE @]
           t == Actuate(s, value)
<1>1. u \in Session
  BY DEF Session
<1>2. u.on = s.on /\ u.disk = s.disk /\ u.initial = s.initial /\ u.known = s.known
  BY DEF Session
<1>3. t = IF u.flight = NoValue /\ u.pending # NoValue /\ u.pending = u.disk
          THEN [u EXCEPT !.pending = NoValue, !.initial = TRUE] ELSE u
  BY DEF Actuate
<1> HIDE DEF u, t
<1>4. t \in Session
  BY <1>1, <1>3 DEF Session
<1>5. t.on = u.on /\ t.disk = u.disk /\ t.known = u.known /\ (u.disk = NoValue => t.initial = u.initial)
  BY <1>1, <1>3 DEF Session
<1> QED BY <1>2, <1>4, <1>5 DEF Untouched, t

LEMMA TurnSettles ==
  ASSUME SharesInv, NEW c \in Contexts, NEW i \in Regs(server), server.regs[i].ctx = c,
         NEW s \in Session, s.on <=> sessions[i].on, i \in News /\ Untouched(sessions[i]) => Untouched(s),
         NEW value \in Values, Turn(c, i, s, value)
  PROVE  /\ SessionsSettle /\ cell' \in [Contexts -> [Routes -> Values]]
         /\ \E w \in Seq(Task) : loop' = loop \o w /\ Settles(w)
<1> DEFINE t == IF Closing(c) THEN s ELSE Actuate(s, value)
           w == IF /\ t.initial /\ ~sessions[i].initial /\ server.regs[i].active /\ server.regs[i].from # 0
                THEN <<Todo("complete", c, i)>> ELSE <<>>
<1>1. /\ sessions' = [sessions EXCEPT ![i] = t]
      /\ cell' = [cell EXCEPT ![c][server.regs[i].route] = value] /\ loop' = loop \o w
  BY DEF Turn, Submit
<1>2. t \in Session /\ (t.on <=> s.on) /\ (Untouched(s) => Untouched(t))
  BY ActuateEffect
<1> HIDE DEF t
<1>3. SessionsSettle
  BY <1>1, <1>2, SessionMoves
<1>4. cell' \in [Contexts -> [Routes -> Values]]
  <2>1. server.regs[i].route \in Routes /\ cell \in [Contexts -> [Routes -> Values]]
    BY Typed, SameCalm DEF SharesInv, TypeOK, Registration
  <2>2. [cell[c] EXCEPT ![server.regs[i].route] = value] \in [Routes -> Values]
    BY <2>1
  <2> QED BY <1>1, <2>1, <2>2
<1>5. w \in Seq(Task) /\ Settles(w)
  <2>1. CASE w = <<>>
    BY <2>1 DEF Settles
  <2>2. CASE w = <<Todo("complete", c, i)>>
    <3> DEFINE e == Todo("complete", c, i)
    <3>1. e \in Task /\ e.do = "complete" /\ e.reg = i /\ e.ctx = c
      BY RegsIds DEF Todo, Task
    <3> HIDE DEF e
    <3>2. w \in Seq(Task) /\ DOMAIN w = {1} /\ w[1] = e
      BY <2>2, <3>1 DEF e
    <3>3. TaskRefs(e, server)
      BY <3>1 DEF TaskRefs, TaskOf
    <3> QED BY <3>1, <3>2, <3>3 DEF Settles, Quiet
  <2> QED BY <2>1, <2>2
<1> QED BY <1>1, <1>3, <1>4, <1>5

LEMMA EditStep ==
  ASSUME NEW c \in Contexts, NEW i \in Regs(server)
  PROVE  SharesInv /\ Edit(c, i) => SharesInv'
<1> SUFFICES ASSUME SharesInv, Edit(c, i) PROVE SharesInv'
  OBVIOUS
<1>1. /\ op' = op /\ passed' = passed /\ UNCHANGED <<server, shown>> /\ puts' = puts /\ inbox' = inbox
      /\ holds' = holds /\ edits' = edits + 1 /\ edits < Len(Drafts) /\ i \in Attached(c)
      /\ Turn(c, i, sessions[i], Drafts[edits + 1])
  BY DEF Edit, registry
<1>2. edits' \in 0..Len(Drafts) /\ Drafts[edits + 1] \in Values
  <2>1. Len(Drafts) \in Nat /\ Drafts \in Seq(Values) /\ edits \in Nat
    BY ValuesAssumption DEF SharesInv, TypeOK
  <2> QED BY <1>1, <2>1
<1>3. sessions[i] \in Session /\ server.regs[i].ctx = c
  BY <1>1, SessionsLen, SameCalm DEF SharesInv, Attached, Of
<1>4. /\ SessionsSettle /\ cell' \in [Contexts -> [Routes -> Values]]
      /\ \E w \in Seq(Task) : loop' = loop \o w /\ Settles(w)
  BY <1>1, <1>2, <1>3, TurnSettles
<1> QED BY <1>1, <1>2, <1>4, SettledStep, UnchangedSettles

\* A controller takes the first of its messages.
LEMMA PopSettles ==
  ASSUME SharesInv, NEW c \in Contexts, inbox[c] # <<>>, inbox' = Taken(inbox, c)
  PROVE  /\ InboxSettles /\ MessageFits(Head(inbox[c]), server, c) /\ Head(inbox[c]) \in Message
         /\ \A i \in News : ~About(Head(inbox[c]), i)
<1>1. inbox \in [Contexts -> Seq(Message)] /\ InboxOK(inbox, server, op)
  BY DEF SharesInv, TypeOK, RefsOK
<1> DEFINE box2 == inbox'
<1>2. box2 = Taken(inbox, c)
  OBVIOUS
<1> HIDE DEF box2
<1>3. /\ InboxOK(box2, server, op) /\ box2 \in [Contexts -> Seq(Message)]
      /\ MessageFits(Head(inbox[c]), server, c) /\ Head(inbox[c]) \in Message
      /\ \A i : Unheard(inbox, i) => Unheard(box2, i)
      /\ \A i : About(Head(inbox[c]), i) => ~Unheard(inbox, i)
  BY <1>1, <1>2, InboxPop
<1>4. \A i \in News : Unheard(inbox, i)
  BY DEF News, SharesInv, NewOK, NewAt
<1> QED BY <1>3, <1>4 DEF InboxSettles, box2

LEMMA ObservedStep ==
  ASSUME NEW c \in Contexts
  PROVE  SharesInv /\ Observed(c) => SharesInv'
<1> SUFFICES ASSUME SharesInv, Observed(c) PROVE SharesInv'
  OBVIOUS
<1> DEFINE m == Head(inbox[c])
           i == m.reg
           s == sessions[i]
           seen == [s EXCEPT !.known = m.ws, !.disk = m.value]
           sensed == [seen EXCEPT !.last = m.value, !.pending = NoValue]
           now == cell[c][server.regs[i].route]
<1>1. /\ op' = op /\ passed' = passed /\ UNCHANGED <<server, shown>> /\ holds' = holds /\ edits' = edits
      /\ inbox[c] # <<>> /\ m.type = "observed" /\ inbox' = Taken(inbox, c) /\ Reply(m.request, "200")
  BY DEF Observed, registry, HeadIs, Pop, Taken
<1>2. InboxSettles /\ MessageFits(m, server, c) /\ m \in Message /\ \A j \in News : ~About(m, j)
  BY <1>1, PopSettles
<1>3. i \in Regs(server) /\ server.regs[i].ctx = c /\ m.request \in Requests /\ m.value \in Values /\ i \notin News
      /\ m.ws \in Nat
  BY <1>1, <1>2 DEF MessageFits, About, Message
<1>4. PutsSettle
  BY <1>1, <1>3, ReplySettles
<1>5. s \in Session /\ now \in Values
  <2>1. server.regs[i].route \in Routes /\ cell \in [Contexts -> [Routes -> Values]]
    BY <1>3, Typed, SameCalm DEF SharesInv, TypeOK, Registration
  <2> QED BY <1>3, <2>1, SessionsLen, SameCalm DEF SharesInv
<1>6. seen \in Session /\ (seen.on <=> s.on)
  BY <1>3, <1>5 DEF Session
<1>7. sensed \in Session /\ (sensed.on <=> s.on)
  BY <1>3, <1>5 DEF Session
<1>8. \/ UNCHANGED <<sessions, cell, loop>>
      \/ Turn(c, i, s, now) \/ Turn(c, i, seen, now) \/ Turn(c, i, sensed, m.value)
  BY DEF Observed
<1> HIDE DEF seen, sensed, m, now
<1>9. /\ SessionsSettle /\ cell' \in [Contexts -> [Routes -> Values]]
      /\ \E w \in Seq(Task) : loop' = loop \o w /\ Settles(w)
  <2>1. CASE UNCHANGED <<sessions, cell, loop>>
    <3> DEFINE w == <<>>
    <3>1. loop' = loop \o w /\ w \in Seq(Task) /\ Settles(w)
      BY <2>1, UnchangedSettles
    <3> HIDE DEF w
    <3> QED BY <2>1, <3>1, UnchangedSettles
  <2>2. CASE Turn(c, i, s, now)
    BY <1>3, <1>5, <2>2, TurnSettles
  <2>3. CASE Turn(c, i, seen, now)
    BY <1>3, <1>5, <1>6, <2>3, TurnSettles
  <2>4. CASE Turn(c, i, sensed, m.value)
    BY <1>3, <1>5, <1>7, <2>4, TurnSettles
  <2> QED BY <1>8, <2>1, <2>2, <2>3, <2>4
<1> QED BY <1>1, <1>2, <1>4, <1>9, SettledStep, UnchangedSettles

LEMMA DeliveredStep ==
  ASSUME NEW c \in Contexts
  PROVE  SharesInv /\ Delivered(c) => SharesInv'
<1> SUFFICES ASSUME SharesInv, Delivered(c) PROVE SharesInv'
  OBVIOUS
<1> DEFINE m == Head(inbox[c])
           i == m.reg
           s == sessions[i]
           done == [s EXCEPT !.flight = NoValue, !.initial = TRUE]
           written == IF m.ws > s.known THEN [done EXCEPT !.known = m.ws, !.disk = m.value] ELSE done
           again == IF s.pending = NoValue THEN [done EXCEPT !.pending = s.flight] ELSE done
           now == cell[c][server.regs[i].route]
<1>1. /\ op' = op /\ passed' = passed /\ UNCHANGED <<server, shown>> /\ holds' = holds /\ edits' = edits
      /\ inbox[c] # <<>> /\ m.type \in {"written", "conflict", "error"} /\ inbox' = Taken(inbox, c)
      /\ puts' = puts
  BY DEF Delivered, registry, HeadIs, Pop, Taken
<1>2. InboxSettles /\ MessageFits(m, server, c) /\ m \in Message /\ \A j \in News : ~About(m, j)
  BY <1>1, PopSettles
<1>3. i \in Regs(server) /\ server.regs[i].ctx = c /\ i \notin News /\ m.ws \in Nat /\ m.value \in Values \cup {NoValue}
  BY <1>1, <1>2 DEF MessageFits, About, Message
<1>4. s \in Session /\ now \in Values
  <2>1. server.regs[i].route \in Routes /\ cell \in [Contexts -> [Routes -> Values]]
    BY <1>3, Typed, SameCalm DEF SharesInv, TypeOK, Registration
  <2> QED BY <1>3, <2>1, SessionsLen, SameCalm DEF SharesInv
<1>5. \/ UNCHANGED <<sessions, cell, loop>>
      \/ Turn(c, i, written, now) \/ Turn(c, i, again, now) \/ Turn(c, i, done, now)
  BY <1>1 DEF Delivered
<1>6. done \in Session /\ (done.on <=> s.on)
  BY <1>4 DEF Session
<1>7. written \in Session /\ (written.on <=> s.on)
  BY <1>3, <1>4, <1>6 DEF Session
<1>8. again \in Session /\ (again.on <=> s.on)
  BY <1>4, <1>6 DEF Session
<1> HIDE DEF done, written, again, m, now
<1>9. /\ SessionsSettle /\ cell' \in [Contexts -> [Routes -> Values]]
      /\ \E w \in Seq(Task) : loop' = loop \o w /\ Settles(w)
  <2>1. CASE UNCHANGED <<sessions, cell, loop>>
    <3> DEFINE w == <<>>
    <3>1. loop' = loop \o w /\ w \in Seq(Task) /\ Settles(w)
      BY <2>1, UnchangedSettles
    <3> HIDE DEF w
    <3> QED BY <2>1, <3>1, UnchangedSettles
  <2>2. CASE Turn(c, i, written, now)
    BY <1>3, <1>4, <1>7, <2>2, TurnSettles
  <2>3. CASE Turn(c, i, again, now)
    BY <1>3, <1>4, <1>8, <2>3, TurnSettles
  <2>4. CASE Turn(c, i, done, now)
    BY <1>3, <1>4, <1>6, <2>4, TurnSettles
  <2> QED BY <1>5, <2>1, <2>2, <2>3, <2>4
<1> QED BY <1>1, <1>2, <1>9, SettledStep, UnchangedSettles

LEMMA DispatchStep ==
  ASSUME NEW i \in Regs(server)
  PROVE  SharesInv /\ Dispatch(i) => SharesInv'
<1> SUFFICES ASSUME SharesInv, Dispatch(i) PROVE SharesInv'
  OBVIOUS
<1> DEFINE s == sessions[i]
           t == [s EXCEPT !.flight = s.pending, !.pending = NoValue]
           e == [do |-> "deliver", ctx |-> server.regs[i].ctx, reg |-> i, value |-> s.pending, ws |-> s.known]
           w == <<e>>
<1>1. /\ op' = op /\ passed' = passed /\ UNCHANGED <<server, shown>> /\ holds' = holds /\ edits' = edits
      /\ inbox' = inbox /\ puts' = puts /\ cell' = cell /\ s.on /\ s.pending # NoValue /\ loop' = loop \o w
      /\ sessions' = [sessions EXCEPT ![i].flight = s.pending, ![i].pending = NoValue]
  BY DEF Dispatch, registry, users, Submit
<1>2. s \in Session /\ server.regs[i].ctx \in Contexts
  BY SessionsLen, SameCalm, Typed DEF SharesInv, Registration
<1>3. t \in Session /\ (t.on <=> s.on) /\ (Untouched(s) => Untouched(t)) /\ s.pending \in Values
  BY <1>1, <1>2 DEF Session, Untouched
<1>4. sessions' = [sessions EXCEPT ![i] = t]
  BY <1>1
<1>5. e \in Task /\ e.do = "deliver" /\ e.reg = i /\ TaskRefs(e, server)
  BY <1>2, <1>3, RegsIds DEF Task, TaskRefs, TaskOf, Session
<1>6. i \in News => Loops(loop, "activate", i)
  <2>1. SessionFits(server.regs[i], s, op[server.regs[i].ctx])
    BY <1>2 DEF SharesInv, SessionsOK, SessionsAt
  <2> QED BY <1>1, <2>1 DEF News, New, SessionFits
<1> HIDE DEF t, e
<1>7. SessionsSettle
  BY <1>3, <1>4, SessionMoves
<1>8. w \in Seq(Task) /\ DOMAIN w = {1} /\ w[1] = e
  BY <1>5
<1>9. Settles(w)
  BY <1>5, <1>6, <1>8 DEF Settles, Quiet
<1> QED BY <1>1, <1>7, <1>8, <1>9, SettledStep, UnchangedSettles

-----------------------------------------------------------------------------
(* The theorems. *)

LEMMA SharesStart == Init => SharesInv
<1> SUFFICES ASSUME Init PROVE SharesInv
  OBVIOUS
<1>1. /\ server.ns = NoNamespace /\ server.regs = <<>> /\ server.records = [r \in Routes |-> 0]
      /\ server.floor = [r \in Routes |-> 0] /\ server = [ns |-> server.ns, regs |-> server.regs,
           records |-> server.records, floor |-> server.floor]
      /\ loop = <<>> /\ passed = 0 /\ holds = 0 /\ sessions = <<>> /\ inbox = [c \in Contexts |-> <<>>]
      /\ puts = [p \in Requests |-> [at |-> "unsent", reg |-> 0, marker |-> {}, ws |-> 0, reply |-> "none"]]
      /\ cell = Start /\ op = [c \in Contexts |-> "idle"] /\ edits = 0 /\ shown = {}
  BY DEF Init
<1>2. server \in Server /\ Regs(server) = {} /\ Len(server.regs) = 0 /\ NoNamespace.owner = NoOwner
  <2>1. NoNamespace \in Namespace /\ <<>> \in Seq(Registration)
    BY DEF NoNamespace, Namespace
  <2>2. server.records \in [Routes -> {0} \cup Ids] /\ server.floor \in [Routes -> Nat]
    BY <1>1
  <2>3. server.ns \in Namespace /\ server.regs \in Seq(Registration)
    BY <1>1, <2>1
  <2>4. server \in Server
    <3> DEFINE ns == server.ns
               regs == server.regs
               records == server.records
               floor == server.floor
    <3>1. server = [ns |-> ns, regs |-> regs, records |-> records, floor |-> floor]
      BY <1>1
    <3>2. ns \in Namespace /\ regs \in Seq(Registration) /\ records \in [Routes -> {0} \cup Ids]
          /\ floor \in [Routes -> Nat]
      BY <2>2, <2>3
    <3> HIDE DEF ns, regs, records, floor
    <3> QED BY <3>1, <3>2 DEF Server
  <2> QED BY <1>1, <2>4 DEF Regs, NoNamespace
<1>3. TypeOK
  <2>1. [at |-> "unsent", reg |-> 0, marker |-> {}, ws |-> 0, reply |-> "none"] \in Handler
    BY DEF Handler
  <2>2. "idle" \in Stages /\ Len(Drafts) \in Nat /\ cell \in [Contexts -> [Routes -> Values]] /\ MaxRegs \in Nat
    BY <1>1, ValuesAssumption, SharesAssumption DEF Stages
  <2>3. op \in [Contexts -> Stages] /\ puts \in [Requests -> Handler] /\ inbox \in [Contexts -> Seq(Message)]
    BY <1>1, <2>1, <2>2
  <2> QED BY <1>1, <1>2, <2>2, <2>3 DEF TypeOK
<1>4. ShownOK(server, shown)
  <2>1. RegistryOK(server)
    <3>1. RecordsOK(server) /\ PublicOK(server) /\ StagedOK(server) /\ StagedApart(server) /\ FlagsOK(server)
      BY <1>1, <1>2 DEF RecordsOK, PublicOK, StagedOK, StagedApart, Staged, FlagsOK
    <3>2. Len(server.regs) <= MaxRegs
      BY <1>3 DEF TypeOK
    <3> QED BY <1>2, <3>1, <3>2 DEF RegistryOK
  <2>2. MarkersOK(server, shown)
    BY <1>1, <1>2 DEF MarkersOK, Staged, Top
  <2> QED BY <1>1, <2>1, <2>2 DEF ShownOK
<1>5. OwnerOK(server, op)
  BY <1>1, <1>2 DEF OwnerOK
<1>6. RefsOK /\ TasksOK(loop, op)
  BY <1>1 DEF RefsOK, TasksRefer, InboxOK, InboxAt, PutsRefer, PutRefs, TasksOK
<1>7. SessionsOK(server, sessions, loop, op) /\ NewOK
  BY <1>1, <1>2 DEF SessionsOK, SessionsAt, NewOK
<1> QED BY <1>3, <1>4, <1>5, <1>6, <1>7 DEF SharesInv

LEMMA SharesStutters == SharesInv /\ UNCHANGED vars => SharesInv'
<1> SUFFICES ASSUME SharesInv, UNCHANGED vars PROVE SharesInv'
  OBVIOUS
<1>1. /\ op' = op /\ passed' = passed /\ UNCHANGED <<server, shown>> /\ holds' = holds /\ edits' = edits
      /\ inbox' = inbox /\ puts' = puts /\ cell' = cell /\ loop' = loop /\ sessions' = sessions
  BY DEF vars, registry, users
<1> DEFINE w == <<>>
<1>2. loop' = loop \o w /\ w \in Seq(Task) /\ Settles(w)
  BY <1>1, UnchangedSettles
<1> HIDE DEF w
<1> QED BY <1>1, <1>2, SettledStep, UnchangedSettles

LEMMA SharesSteps == SharesInv /\ Next => SharesInv'
<1> SUFFICES ASSUME SharesInv, Next PROVE SharesInv'
  OBVIOUS
<1>1. ASSUME NEW c \in Contexts, Threads(c) PROVE SharesInv'
  <2>1. CASE FlushOver(c)
    BY <2>1, FinishStep DEF FlushOver
  <2> QED BY <1>1, <2>1, AttachStep, ReleaseStep, ReturnStep, LoadCommitStep, UnloadStep, LoadFailsStep,
             RefuseStep, HoldNamespaceStep DEF Threads
<1>2. ASSUME NEW c \in Contexts, Turns(c) PROVE SharesInv'
  BY <1>2, ObservedStep, DeliveredStep, BeginCloseStep DEF Turns
<1>3. ASSUME NEW i \in Regs(server), Dispatch(i) PROVE SharesInv'
  BY <1>3, DispatchStep
<1>4. CASE Loop
  BY <1>4, ActivateStep, CompleteReattachStep, DeliverStep, UnregisterStep, HoldRegistrationStep,
     BeginCloseNamespaceStep, HoldStep, CloseNamespaceStep DEF Loop
<1>5. ASSUME NEW p \in Requests, Handles(p) PROVE SharesInv'
  BY <1>5, ResumeStep, AcceptStep, SendStep DEF Handles
<1>6. CASE Users
  <2>1. ASSUME NEW c \in Contexts, Close(c) \/ AttachFails(c) \/ LoadFails(c) \/ FlushTimeout(c) PROVE SharesInv'
    BY <2>1, CloseStep, AttachFailsStep, LoadFailsStep, FinishStep DEF FlushTimeout
  <2>2. ASSUME NEW c \in Contexts, NEW r \in Routes, Share(c, r) \/ LoadReserve(c, r) PROVE SharesInv'
    BY <2>2, ShareStep, LoadReserveStep
  <2>3. ASSUME NEW c \in Contexts, NEW i \in Regs(server), Unshare(c, i) \/ Edit(c, i) PROVE SharesInv'
    BY <2>3, UnshareStep, EditStep
  <2>4. ASSUME NEW p \in Requests, PutTimeout(p) \/ \E r \in Routes : Arrive(p, r) PROVE SharesInv'
    BY <2>4, PutTimeoutStep, ArriveStep
  <2> QED BY <1>6, <2>1, <2>2, <2>3, <2>4 DEF Users
<1> QED BY <1>1, <1>2, <1>3, <1>4, <1>5, <1>6, TickStep, ExpireHoldsStep DEF Next

\* The registry, the coroutines, the sessions, the messages and the requests fit together after every step.
THEOREM SharesInductive == Spec => []SharesInv
<1>1. SharesInv /\ [Next]_vars => SharesInv'
  BY SharesSteps, SharesStutters
<1> QED BY <1>1, SharesStart, PTL DEF Spec

\* Every variable has its type: a registration has a session, and every number refers to one.
THEOREM SharesTyped == Spec => []TypeOK
<1>1. SharesInv => TypeOK
  BY DEF SharesInv
<1> QED BY <1>1, SharesInductive, PTL

\* Whoever serves a route has it alone and owns the namespace, whatever was reserved, taken over, loaded or
\* came late (reserve, commit_reservations, _hold_namespace, _expire_holds).
THEOREM OneOwnerAlways == Spec => []OneOwner
<1>1. SharesInv => OneOwner
  <2> SUFFICES ASSUME SharesInv, NEW i \in Regs(server), ~server.regs[i].closed, ~server.regs[i].staged,
                      server.regs[i].active \/ server.regs[i].reattaching
               PROVE  i \in Recorded(server) /\ server.ns.owner = server.regs[i].ctx
    BY DEF OneOwner
  <2>1. PublicOK(server) /\ OwnerOK(server, op) /\ Public(server, i)
    BY DEF SharesInv, ShownOK, RegistryOK, Public
  <2>2. i \in Recorded(server)
    BY <2>1 DEF PublicOK, Recorded
  <2>3. server.ns.owner = server.regs[i].ctx
    BY <2>1 DEF OwnerOK, OwnerFits
  <2> QED BY <2>2, <2>3
<1> QED BY <1>1, SharesInductive, PTL

\* A marker of a route never stands for two values, over any number of registrations, takeovers, loads,
\* deliveries and PUTs (_marker_floors, _adopt_held_registration_locked, commit_reservations).
THEOREM MarkersName == Spec => []MarkerNamesValue
<1>1. SharesInv => MarkerNamesValue
  BY DEF SharesInv, ShownOK, MarkersOK, MarkerNamesValue
<1> QED BY <1>1, SharesInductive, PTL

-----------------------------------------------------------------------------
(* What a step does to the values: most steps change none. *)

Preserves(s, t) ==
  /\ Regs(s) \subseteq Regs(t)
  /\ \A i \in Regs(s) : /\ t.regs[i].ws = s.regs[i].ws
                        /\ \/ s.regs[i].staged
                           \/ t.regs[i].checksum = s.regs[i].checksum /\ t.regs[i].marker = s.regs[i].marker

LEMMA CalmPreserves ==
  ASSUME NEW s, NEW t, Calm(s, t)
  PROVE  Preserves(s, t)
BY DEF Calm, CalmReg, Preserves, Regs

LEMMA SamePreserves ==
  ASSUME NEW s, NEW t, SameMap(s, t)
  PROVE  Preserves(s, t)
BY DEF SameMap, SameReg, Preserves, Regs

LEMMA SelfPreserves ==
  ASSUME NEW s
  PROVE  Preserves(s, s)
BY DEF Preserves

LEMMA ReservedPreserves ==
  ASSUME NEW s, NEW t, NEW c, NEW r, NEW staged, Reserved(s, t, c, r, staged)
  PROVE  Preserves(s, t)
BY DEF Reserved, CalmReg, Preserves, Regs

LEMMA CommittedPreserves ==
  ASSUME NEW s, NEW t, NEW c, NEW I \in SUBSET Staged(s), Committed(s, t, c, I)
  PROVE  Preserves(s, t)
<1>1. Regs(t) = Regs(s)
  BY DEF Committed, Regs
<1>2. \A i \in I : t.regs[i].ws = s.regs[i].ws /\ s.regs[i].staged
  BY DEF Committed, Staged
<1>3. \A i \in Regs(s) : i \notin I => CalmReg(s.regs[i], t.regs[i], Regs(t))
  BY DEF Committed
<1>4. \A i \in Regs(s) : i \notin I =>
        /\ t.regs[i].ws = s.regs[i].ws
        /\ t.regs[i].checksum = s.regs[i].checksum /\ t.regs[i].marker = s.regs[i].marker
  BY <1>3 DEF CalmReg
<1> QED BY <1>1, <1>2, <1>4 DEF Preserves

\* The calls that reserve and commit.
LEMMA CallsPreserve ==
  ASSUME SharesInv, NEW c \in Contexts,
         LoadCommit(c) \/ \E r \in Routes : Share(c, r) \/ LoadReserve(c, r)
  PROVE  Preserves(server, server')
<1>0. ShownOK(server, shown)
  BY DEF SharesInv
<1>1. ASSUME LoadCommit(c) PROVE Preserves(server, server')
  <2> DEFINE J == Prepared(c)
             I == Attached(c)
  <2>1. /\ op[c] = "load" /\ server' = Commit(server, c, J) /\ server.ns.owner # NoOwner
        /\ \A i \in J : NoConflict(server, c, server.regs[i].route, I, J)
    BY <1>1 DEF LoadCommit, Committable, Becomes
  <2>2. SessionsAt(server, sessions, loop, "load", c)
    BY <2>1 DEF SharesInv, SessionsOK
  <2>3. \A i \in J : i \in Regs(server) /\ server.regs[i].ctx = c /\ PreparedFits(server, sessions, loop, "load", i)
    BY <2>2 DEF Prepared, Of, SessionsAt
  <2>4. J \in SUBSET Staged(server)
    BY <2>3 DEF PreparedFits, Loading, Staged, Prepared
  <2> HIDE DEF J, I
  <2>5. Committed(server, server', c, J)
    BY <1>0, <2>1, <2>3, <2>4, CommitStep
  <2> QED BY <2>4, <2>5, CommittedPreserves
<1>2. ASSUME NEW r \in Routes, Share(c, r) PROVE Preserves(server, server')
  BY <1>2, ShareReserves, ReservedPreserves
<1>3. ASSUME NEW r \in Routes, LoadReserve(c, r) PROVE Preserves(server, server')
  <2> DEFINE staged == TRUE
  <2>1. /\ Len(server.regs) < MaxRegs /\ NoConflict(server, c, r, Attached(c), {})
        /\ server' = Reserve(server, c, r, staged)
    BY <1>3 DEF LoadReserve, CanReserve, ReserveIn, Becomes
  <2>2. staged \in BOOLEAN /\ staged
    OBVIOUS
  <2>3. \A i \in Staged(server) : server.regs[i].route # r
    BY <2>1, AttachedUsed DEF NoConflict
  <2> HIDE DEF staged
  <2>4. Reserved(server, server', c, r, staged)
    BY <1>0, <2>1, <2>2, <2>3, ReserveStaged
  <2> QED BY <2>4, ReservedPreserves
<1> QED BY <1>1, <1>2, <1>3

\* The coroutines, other than deliveries.
LEMMA ActivatePreserves ==
  ASSUME SharesInv, Activate
  PROVE  Preserves(server, server')
<1> DEFINE i == Task1.reg
<1>1. loop # <<>> /\ Task1.do = "activate"
  BY DEF Activate, Executes, Task1
<1>2. i \in Regs(server) /\ 1 \in DOMAIN loop /\ Task1 = loop[1] /\ server \in Server /\ ShownOK(server, shown)
  BY <1>1, HeadTask, SameCalm DEF TaskRefs, TaskOf
<1>3. Loops(loop, "activate", i)
  BY <1>1, <1>2 DEF Loops
<1>4. Fresh(server.regs[i], sessions[i]) /\ ~server.regs[i].staged
  BY <1>2, <1>3 DEF SharesInv, NewOK, NewAt, New
<1>5. server' = (IF server.regs[i].closed THEN server ELSE Activated(server, i))
  BY <1>4 DEF Activate, Becomes, Activated, Fresh
<1>6. CASE server.regs[i].closed
  BY <1>5, <1>6, SelfPreserves
<1>7. CASE ~server.regs[i].closed
  <2>1. server.regs[i].held => server.regs[i].reattaching
    BY <1>4 DEF Fresh
  <2>2. server' = Activated(server, i)
    BY <1>5, <1>7
  <2> HIDE DEF i
  <2>3. SameMap(server, Activated(server, i))
    BY <1>2, <1>4, <1>7, <2>1, ActivatedStep
  <2> QED BY <2>2, <2>3, SamePreserves
<1> QED BY <1>6, <1>7

LEMMA HoldPreserves ==
  ASSUME SharesInv, HoldRegistration \/ Hold
  PROVE  Preserves(server, server')
<1>1. CASE HoldRegistration
  <2> DEFINE i == Task1.reg
  <2>1. loop # <<>> /\ Task1.do = "hold"
    BY <1>1 DEF HoldRegistration, Executes, Task1
  <2>2. i \in Regs(server) /\ server.regs[i].ctx = Task1.ctx /\ op[Task1.ctx] = "finishing"
        /\ server \in Server /\ ShownOK(server, shown)
    BY <2>1, HeadTask, SameCalm DEF TaskRefs, TaskOf, StagesOf
  <2>3. server' = (IF server.regs[i].closed THEN server ELSE HeldOne(server, i))
    BY <1>1 DEF HoldRegistration, Becomes, HeldOne
  <2>4. CASE server.regs[i].closed
    BY <2>3, <2>4, SelfPreserves
  <2>5. CASE ~server.regs[i].closed
    <3>1. ~server.regs[i].staged
      BY <2>2, <2>5, NotNew DEF Loading
    <3> HIDE DEF i
    <3>2. SameMap(server, HeldOne(server, i))
      BY <2>2, <3>1, HoldingStep
    <3> QED BY <2>3, <2>5, <3>2, SamePreserves
  <2> QED BY <2>4, <2>5
<1>2. CASE Hold
  <2>1. CASE server.ns.owner # Task1.ctx
    BY <1>2, <2>1, SelfPreserves DEF Hold, registry
  <2>2. CASE server.ns.owner = Task1.ctx
    BY <1>2, <2>2, HoldEffect, SamePreserves DEF HeldAll
  <2> QED BY <2>1, <2>2
<1> QED BY <1>1, <1>2

\* A value is installed by a delivery that expected what is there, or by a PUT that is accepted.
Delivers ==
  LET i == Task1.reg IN
  /\ i \in Regs(server) /\ server.regs[i].active /\ Installed(server, i, server')
  /\ loop # <<>> /\ Task1.do = "deliver" /\ Task1.ws = server.regs[i].ws
Accepts(p) ==
  LET i == puts[p].reg IN
  /\ i \in Regs(server) /\ server.regs[i].active /\ Installed(server, i, server')
  /\ puts[p].at = "reading"
  /\ server'.regs[i].checksum # server.regs[i].checksum => puts'[p].at = "accepted"

LEMMA DeliverInstalls ==
  ASSUME SharesInv, Deliver
  PROVE  Preserves(server, server') \/ Delivers
<1> DEFINE i == Task1.reg
<1>1. loop # <<>> /\ Task1.do = "deliver"
  BY DEF Deliver, Executes, Task1
<1>2. i \in Regs(server) /\ Task1.value \in Values /\ server \in Server
  BY <1>1, HeadTask, SameCalm DEF TaskRefs, TaskOf
<1>3. \/ server' = server
      \/ /\ server.regs[i].active /\ server' = Install(server, i, Task1.value)
         /\ Task1.ws = server.regs[i].ws
  BY DEF Deliver, Becomes, Expected
<1>4. CASE server' = server
  BY <1>4, SelfPreserves
<1>5. CASE /\ server.regs[i].active /\ server' = Install(server, i, Task1.value)
           /\ Task1.ws = server.regs[i].ws
  <2>1. Installed(server, i, server')
    BY <1>2, <1>5, InstallEffect
  <2> QED BY <1>1, <1>2, <1>5, <2>1 DEF Delivers
<1> QED BY <1>3, <1>4, <1>5

LEMMA AcceptInstalls ==
  ASSUME SharesInv, NEW p \in Requests, Accept(p)
  PROVE  (Preserves(server, server') /\ \E code \in {"404", "409"} : Reply(p, code)) \/ Accepts(p)
<1> DEFINE i == puts[p].reg
           reg == server.regs[i]
<1>1. /\ puts[p].at = "reading" /\ puts \in [Requests -> Handler] /\ i \in Regs(server) /\ Body[p] \in Values
      /\ server \in Server
  BY SameCalm DEF Accept, SharesInv, TypeOK, RefsOK, PutsRefer, PutRefs, Values
<1>2. CASE \E code \in {"404", "409"} : Reply(p, code) /\ UNCHANGED <<registry, inbox>>
  BY <1>2, SelfPreserves DEF registry
<1>3. CASE /\ ~Gone(reg) /\ Becomes(Install(server, i, Body[p]))
           /\ IF Body[p] = reg.checksum THEN Sink(p, i, reg.ws + 1)
              ELSE /\ puts' = [puts EXCEPT ![p].at = "accepted", ![p].ws = reg.ws + 1]
                   /\ UNCHANGED inbox
  <2>1. reg.active /\ server' = Install(server, i, Body[p])
    BY <1>3 DEF Gone, Becomes
  <2>2. Installed(server, i, server') /\ server'.regs[i].checksum = Body[p]
    BY <1>1, <2>1, InstallEffect
  <2>3. Body[p] # reg.checksum => puts'[p].at = "accepted"
    BY <1>1, <1>3 DEF Handler
  <2> QED BY <1>1, <2>1, <2>2, <2>3 DEF Accepts
<1> QED BY <1>2, <1>3 DEF Accept

LEMMA StepValues ==
  ASSUME SharesInv, [Next]_vars
  PROVE  Preserves(server, server') \/ Delivers \/ \E p \in Requests : Accepts(p)
<1>0. CASE server' = server
  BY <1>0, SelfPreserves
<1>1. CASE Calm(server, server')
  BY <1>1, CalmPreserves
<1>2. ASSUME NEW c \in Contexts, Threads(c) PROVE server' = server \/ Preserves(server, server')
  BY <1>2, CallsPreserve DEF Threads, Attach, Release, Return, Unload, LoadFails, Refuse, FlushOver, Finish,
     HoldNamespace, registry
<1>3. ASSUME NEW c \in Contexts, Turns(c) PROVE server' = server
  BY <1>3 DEF Turns, Observed, Delivered, BeginClose, registry
<1>4. ASSUME NEW i \in Regs(server), Dispatch(i) PROVE server' = server
  BY <1>4 DEF Dispatch, registry
<1>5. ASSUME Loop PROVE Preserves(server, server') \/ Delivers
  <2>1. CASE CompleteReattach \/ Unregister \/ BeginCloseNamespace \/ CloseNamespace
    BY <2>1, CompleteCalm, UnregisterCalm, BeginCloseCalm, CloseNamespaceCalm, CalmPreserves
  <2> QED BY <1>5, <2>1, ActivatePreserves, HoldPreserves, DeliverInstalls DEF Loop
<1>6. ASSUME NEW p \in Requests, Handles(p)
      PROVE  Preserves(server, server') \/ \E q \in Requests : Accepts(q)
  <2>1. CASE Resume(p)
    BY <2>1, ResumeCalm, CalmPreserves
  <2>2. CASE Accept(p)
    BY <2>2, AcceptInstalls
  <2>3. CASE Send(p)
    BY <2>3, SelfPreserves DEF Send, registry
  <2> QED BY <1>6, <2>1, <2>2, <2>3 DEF Handles
<1>7. ASSUME Users PROVE server' = server \/ Preserves(server, server')
  <2>1. ASSUME NEW c \in Contexts, Close(c) \/ AttachFails(c) \/ LoadFails(c) \/ FlushTimeout(c) PROVE server' = server
    BY <2>1 DEF Close, AttachFails, LoadFails, FlushTimeout, Finish, registry
  <2>2. ASSUME NEW c \in Contexts, NEW r \in Routes, Share(c, r) \/ LoadReserve(c, r) PROVE Preserves(server, server')
    BY <2>2, CallsPreserve
  <2>3. ASSUME NEW c \in Contexts, NEW i \in Regs(server), Unshare(c, i) \/ Edit(c, i) PROVE server' = server
    BY <2>3 DEF Unshare, Edit, registry
  <2>4. ASSUME NEW p \in Requests, PutTimeout(p) PROVE server' = server
    BY <2>4 DEF PutTimeout, registry
  <2>5. ASSUME NEW p \in Requests, NEW r \in Routes, Arrive(p, r) PROVE Preserves(server, server')
    BY <2>5, ArriveCalm, CalmPreserves
  <2> QED BY <1>7, <2>1, <2>2, <2>3, <2>4, <2>5 DEF Users
<1>8. CASE Tick
  BY <1>8, SelfPreserves DEF Tick, registry
<1>9. CASE ExpireHolds
  BY <1>9, ExpireCalm, CalmPreserves
<1>10. CASE UNCHANGED vars
  BY <1>10, SelfPreserves DEF vars, registry
<1> QED BY <1>0, <1>2, <1>3, <1>4, <1>5, <1>6, <1>7, <1>8, <1>9, <1>10 DEF Next

\* Only an active route gets another value, and one that is held is not active: a held route keeps what it has,
\* whatever PUTs and deliveries come late (_put, _deliver, _hold_registration).
THEOREM HoldKeepsAlways == Spec => HoldKeeps
<1>1. ASSUME SharesInv, [Next]_vars, NEW i \in Regs(server), server.regs[i].held, ~server.regs[i].reattaching
      PROVE  server'.regs[i].checksum = server.regs[i].checksum /\ server'.regs[i].marker = server.regs[i].marker
  <2>1. ~server.regs[i].staged /\ ~server.regs[i].active
    BY <1>1, SameCalm DEF RegistryOK, StagedOK, Unused, FlagsOK, FlagsFit
  <2>2. CASE Preserves(server, server')
    BY <2>1, <2>2 DEF Preserves
  <2>3. ASSUME NEW j, server.regs[j].active, Installed(server, j, server')
        PROVE  server'.regs[i] = server.regs[i]
    BY <2>1, <2>3 DEF Installed
  <2> QED BY <1>1, <2>2, <2>3, StepValues DEF Delivers, Accepts
<1>2. SharesInv /\ [Next]_vars =>
        [\A i \in Regs(server) : LET old == server.regs[i]  new == server'.regs[i] IN
           old.held /\ ~old.reattaching => new.checksum = old.checksum /\ new.marker = old.marker]_vars
  BY <1>1
<1> QED BY <1>2, SharesInductive, PTL DEF Spec, HoldKeeps

-----------------------------------------------------------------------------
(* The PUTs that are accepted. *)

Grown(s, t) ==
  /\ Regs(s) \subseteq Regs(t)
  /\ \A i \in Regs(s) : s.regs[i].ws \in Nat /\ t.regs[i].ws \in Nat /\ s.regs[i].ws <= t.regs[i].ws
\* A PUT that is accepted was so before, or it is the only one that gets the next ws.
OldPut(p, pp, pp2) == PutAt(pp[p], pp2[p].reg) /\ pp2[p].ws = pp[p].ws
NewPut(p, s, t, pp, pp2) ==
  LET i == pp2[p].reg IN
  /\ i \in Regs(s) /\ s.regs[i].ws < pp2[p].ws /\ pp2[p].ws <= t.regs[i].ws
  /\ \A q \in Requests : q # p /\ PutAt(pp2[q], i) => OldPut(q, pp, pp2)
PutsGo(s, t, pp, pp2) ==
  /\ pp \in [Requests -> Handler] /\ pp2 \in [Requests -> Handler] /\ PutsRefer(pp, s)
  /\ \A p \in Requests : PutAt(pp2[p], pp2[p].reg) => OldPut(p, pp, pp2) \/ NewPut(p, s, t, pp, pp2)

LEMMA OldWs ==
  ASSUME NEW s, NEW pp \in [Requests -> Handler], PutsRefer(pp, s), NEW p \in Requests, NEW i,
         PutFits(p, s, pp), PutAt(pp[p], i)
  PROVE  i \in Regs(s) /\ pp[p].ws \in Nat /\ 0 < pp[p].ws /\ pp[p].ws <= s.regs[i].ws /\ pp[p].reg = i
BY DEF PutFits, PutAt, PutsRefer, PutRefs, Handler

LEMMA PutsGoOn ==
  ASSUME NEW s, NEW t, Grown(s, t), NEW pp, NEW pp2, PutsGo(s, t, pp, pp2), \A p \in Requests : PutFits(p, s, pp)
  PROVE  \A p \in Requests : PutFits(p, t, pp2)
<1> SUFFICES ASSUME NEW p \in Requests, PutAt(pp2[p], pp2[p].reg)
             PROVE  /\ 0 < pp2[p].ws /\ pp2[p].ws <= t.regs[pp2[p].reg].ws
                    /\ \A q \in Requests : PutAt(pp2[q], pp2[p].reg) /\ pp2[q].ws = pp2[p].ws => p = q
  BY DEF PutFits
<1> DEFINE i == pp2[p].reg
<1>1. /\ pp \in [Requests -> Handler] /\ pp2 \in [Requests -> Handler] /\ PutsRefer(pp, s)
      /\ \A q \in Requests : PutAt(pp2[q], i) => pp2[q].reg = i
      /\ \A q \in Requests : PutAt(pp2[q], i) => OldPut(q, pp, pp2) \/ NewPut(q, s, t, pp, pp2)
  BY DEF PutsGo, PutAt
<1>2. pp2[p].ws \in Nat /\ \A q \in Requests : pp2[q].ws \in Nat
  BY <1>1 DEF Handler
<1>3. ASSUME NEW q \in Requests, PutAt(pp2[q], i), OldPut(q, pp, pp2)
      PROVE  /\ i \in Regs(s) /\ 0 < pp2[q].ws /\ pp2[q].ws <= s.regs[i].ws /\ PutAt(pp[q], i)
             /\ pp[q].ws = pp2[q].ws
  <2>1. PutAt(pp[q], i) /\ pp2[q].ws = pp[q].ws
    BY <1>1, <1>3 DEF OldPut
  <2> QED BY <1>1, <2>1, OldWs
<1>4. CASE OldPut(p, pp, pp2)
  <2>1. /\ i \in Regs(s) /\ 0 < pp2[p].ws /\ pp2[p].ws <= s.regs[i].ws /\ PutAt(pp[p], i) /\ pp[p].ws = pp2[p].ws
    BY <1>3, <1>4
  <2>2. s.regs[i].ws \in Nat /\ t.regs[i].ws \in Nat /\ s.regs[i].ws <= t.regs[i].ws
    BY <2>1 DEF Grown
  <2>3. ASSUME NEW q \in Requests, PutAt(pp2[q], i), pp2[q].ws = pp2[p].ws PROVE p = q
    <3>1. CASE OldPut(q, pp, pp2)
      <4>1. PutAt(pp[q], i) /\ pp[q].ws = pp[p].ws
        BY <1>3, <2>1, <2>3, <3>1
      <4>2. PutFits(p, s, pp) /\ pp[p].reg = i
        BY <2>1 DEF PutAt
      <4> QED BY <2>1, <4>1, <4>2 DEF PutFits
    <3>2. CASE NewPut(q, s, t, pp, pp2)
      <4>1. s.regs[i].ws < pp2[q].ws
        BY <1>1, <2>3, <3>2 DEF NewPut
      <4> QED BY <1>2, <2>1, <2>2, <2>3, <4>1
    <3> QED BY <1>1, <2>3, <3>1, <3>2
  <2> QED BY <1>2, <2>1, <2>2, <2>3
<1>5. CASE NewPut(p, s, t, pp, pp2)
  <2>1. i \in Regs(s) /\ s.regs[i].ws < pp2[p].ws /\ pp2[p].ws <= t.regs[i].ws
        /\ \A q \in Requests : q # p /\ PutAt(pp2[q], i) => OldPut(q, pp, pp2)
    BY <1>5 DEF NewPut
  <2>2. s.regs[i].ws \in Nat
    BY <2>1 DEF Grown
  <2>3. ASSUME NEW q \in Requests, PutAt(pp2[q], i), pp2[q].ws = pp2[p].ws, q # p PROVE FALSE
    <3>1. pp2[q].ws <= s.regs[i].ws
      BY <1>3, <2>1, <2>3
    <3> QED BY <1>2, <2>1, <2>2, <2>3, <3>1
  <2> QED BY <1>2, <2>1, <2>2, <2>3
<1> QED BY <1>1, <1>4, <1>5

LEMMA FreeGoesOn ==
  ASSUME NEW s, NEW t, Grown(s, t), NEW pp, NEW pp2, PutsGo(s, t, pp, pp2),
         NEW i \in Regs(s), NEW ws \in Nat, ws <= s.regs[i].ws
  PROVE  /\ ws <= t.regs[i].ws /\ (WsFree(ws, i, pp) => WsFree(ws, i, pp2))
         /\ \A p \in Requests : PutAt(pp2[p], i) /\ pp2[p].ws = ws => PutAt(pp[p], i) /\ pp[p].ws = ws
<1>1. s.regs[i].ws \in Nat /\ t.regs[i].ws \in Nat /\ s.regs[i].ws <= t.regs[i].ws
  BY DEF Grown
<1>2. ASSUME NEW p \in Requests, PutAt(pp2[p], i), pp2[p].ws = ws
      PROVE  PutAt(pp[p], i) /\ pp[p].ws = ws
  <2>1. pp2[p].reg = i /\ (OldPut(p, pp, pp2) \/ NewPut(p, s, t, pp, pp2))
    BY <1>2 DEF PutsGo, PutAt
  <2>2. CASE NewPut(p, s, t, pp, pp2)
    <3>1. s.regs[i].ws < ws
      BY <1>2, <2>1, <2>2 DEF NewPut
    <3> QED BY <1>1, <3>1
  <2> QED BY <1>2, <2>1, <2>2 DEF OldPut
<1> QED BY <1>1, <1>2 DEF WsFree

\* What becomes of the sessions, the coroutines and the messages.
KnownGo ==
  \A i \in Regs(server') :
    \/ i \in Regs(server) /\ sessions'[i].known = sessions[i].known
    \/ sessions'[i].known = 0
    \/ KnownFits(sessions'[i], i, server', puts')
LoopGoes ==
  \A k \in DOMAIN loop' :
    \/ loop'[k].do # "deliver" \/ DeliveryFits(loop'[k], server', puts')
    \/ \E j \in DOMAIN loop : loop'[k] = loop[j]
InboxGoes ==
  \A c \in Contexts : \A k \in DOMAIN inbox'[c] :
    \/ MarkFits(inbox'[c][k], server', puts')
    \/ \E j \in DOMAIN inbox[c] : inbox'[c][k] = inbox[c][j]
LEMMA WritesStep ==
  ASSUME WritesInv, SharesInv', Grown(server, server'), PutsGo(server, server', puts, puts'),
         KnownGo, LoopGoes, InboxGoes
  PROVE  WritesInv'
<1>1. /\ SharesInv /\ \A p \in Requests : PutFits(p, server, puts)
      /\ \A i \in Regs(server) : KnownFits(sessions[i], i, server, puts)
      /\ \A k \in DOMAIN loop : DeliveryFits(loop[k], server, puts)
      /\ \A c \in Contexts : \A k \in DOMAIN inbox[c] : MarkFits(inbox[c][k], server, puts)
  BY DEF WritesInv, WritesOK
<1>2. \A p \in Requests : PutFits(p, server', puts')
  BY <1>1, PutsGoOn
<1>3. ASSUME NEW i \in Regs(server') PROVE KnownFits(sessions'[i], i, server', puts')
  <2>1. CASE i \in Regs(server) /\ sessions'[i].known = sessions[i].known
    <3>1. sessions[i].known \in Nat
      BY <1>1, <2>1, SessionsLen, SameCalm DEF SharesInv, Session
    <3>2. sessions[i].known <= server.regs[i].ws /\ WsFree(sessions[i].known, i, puts)
      BY <1>1, <2>1 DEF KnownFits
    <3> QED BY <2>1, <3>1, <3>2, FreeGoesOn DEF KnownFits
  <2>2. CASE sessions'[i].known = 0
    <3>1. server'.regs[i].ws \in Nat
      <4>1. server'.regs[i] \in Registration
        BY Typed DEF SharesInv, TypeOK
      <4> QED BY <4>1 DEF Registration
    <3>2. WsFree(0, i, puts')
      BY <1>2 DEF PutFits, PutAt, WsFree
    <3> QED BY <2>2, <3>1, <3>2 DEF KnownFits
  <2> QED BY <2>1, <2>2 DEF KnownGo
<1>4. ASSUME NEW k \in DOMAIN loop' PROVE DeliveryFits(loop'[k], server', puts')
  <2>1. ASSUME NEW j \in DOMAIN loop PROVE DeliveryFits(loop[j], server', puts')
    <3> SUFFICES ASSUME loop[j].do = "deliver"
                 PROVE  loop[j].ws <= server'.regs[loop[j].reg].ws /\ WsFree(loop[j].ws, loop[j].reg, puts')
      BY DEF DeliveryFits
    <3>1. loop[j].reg \in Regs(server) /\ loop[j] \in Task
      BY <1>1, TaskAt DEF SharesInv, TypeOK, RefsOK, TasksRefer, TaskRefs, TaskOf
    <3>2. loop[j].ws <= server.regs[loop[j].reg].ws /\ WsFree(loop[j].ws, loop[j].reg, puts)
      BY <1>1 DEF DeliveryFits
    <3>3. loop[j].ws \in Nat
      BY <3>1 DEF Task
    <3> QED BY <3>1, <3>2, <3>3, FreeGoesOn
  <2> QED BY <2>1 DEF LoopGoes, DeliveryFits
<1>5. ASSUME NEW c \in Contexts, NEW k \in DOMAIN inbox'[c] PROVE MarkFits(inbox'[c][k], server', puts')
  <2>1. ASSUME NEW j \in DOMAIN inbox[c] PROVE MarkFits(inbox[c][j], server', puts')
    <3> DEFINE m == inbox[c][j]
    <3> SUFFICES ASSUME m.type \in {"observed", "written"}
                 PROVE  /\ m.ws <= server'.regs[m.reg].ws
                        /\ \A p \in Requests : PutAt(puts'[p], m.reg) /\ puts'[p].ws = m.ws
                                               => m.type = "observed" /\ m.request = p
      BY DEF MarkFits
    <3>1. MessageFits(m, server, c) /\ m \in Message
      BY <1>1 DEF SharesInv, TypeOK, RefsOK, InboxOK, InboxAt
    <3>2. m.reg \in Regs(server) /\ m.ws \in Nat
      BY <3>1 DEF MessageFits, Message
    <3>3. MarkFits(m, server, puts)
      BY <1>1
    <3> HIDE DEF m
    <3>4. m.ws <= server.regs[m.reg].ws
      BY <3>3 DEF MarkFits
    <3>5. /\ m.ws <= server'.regs[m.reg].ws
          /\ \A p \in Requests : PutAt(puts'[p], m.reg) /\ puts'[p].ws = m.ws
                                 => PutAt(puts[p], m.reg) /\ puts[p].ws = m.ws
      BY <3>2, <3>4, FreeGoesOn
    <3> QED BY <3>3, <3>5 DEF MarkFits
  <2> QED BY <2>1 DEF InboxGoes
<1> QED BY <1>2, <1>3, <1>4, <1>5 DEF WritesInv, WritesOK

\* One step of the first invariant, of which the second one holds before.
Going == WritesInv /\ SharesInv' /\ Grown(server, server')

LEMMA Grows ==
  ASSUME SharesInv, SharesInv', [Next]_vars
  PROVE  Grown(server, server')
<1>1. /\ server \in Server /\ server' \in Server
      /\ \A i \in Regs(server) : server.regs[i] \in Registration
      /\ \A i \in Regs(server') : server'.regs[i] \in Registration
  BY Typed DEF SharesInv, TypeOK
<1>2. CASE Preserves(server, server')
  BY <1>1, <1>2 DEF Preserves, Grown, Registration
<1>3. ASSUME NEW i \in Regs(server), Installed(server, i, server')
      PROVE  Grown(server, server')
  <2>1. Regs(server') = Regs(server)
    BY <1>3 DEF Installed, Regs
  <2>2. ASSUME NEW j \in Regs(server)
        PROVE  server.regs[j].ws \in Nat /\ server'.regs[j].ws \in Nat /\ server.regs[j].ws <= server'.regs[j].ws
    <3>1. server.regs[j].ws \in Nat /\ server'.regs[j].ws \in Nat
      BY <1>1, <2>1 DEF Registration
    <3>2. server'.regs[j].ws = server.regs[j].ws \/ server'.regs[j].ws = server.regs[j].ws + 1
      BY <1>3 DEF Installed
    <3> QED BY <3>1, <3>2
  <2> QED BY <2>1, <2>2 DEF Grown
<1> QED BY <1>2, <1>3, StepValues DEF Delivers, Accepts

\* The requests: none is accepted by a step that leaves them, or answers one.
LEMMA PutsStay ==
  ASSUME SharesInv, puts' = puts
  PROVE  PutsGo(server, server', puts, puts')
BY DEF SharesInv, TypeOK, RefsOK, PutsGo, OldPut

LEMMA PutsAnswered ==
  ASSUME SharesInv, NEW p \in Requests, NEW h \in Handler, h.at \notin {"accepted", "sent"},
         puts' = [puts EXCEPT ![p] = h]
  PROVE  PutsGo(server, server', puts, puts')
<1>1. puts \in [Requests -> Handler] /\ puts' \in [Requests -> Handler] /\ PutsRefer(puts, server)
  BY DEF SharesInv, TypeOK, RefsOK
<1>2. \A q \in Requests : puts'[q] = IF q = p THEN h ELSE puts[q]
  BY <1>1
<1>3. \A q \in Requests : PutAt(puts'[q], puts'[q].reg) => OldPut(q, puts, puts')
  BY <1>2 DEF PutAt, OldPut
<1> QED BY <1>1, <1>3 DEF PutsGo

LEMMA RepliedGo ==
  ASSUME SharesInv, NEW p \in Requests, NEW code \in {"200", "404", "409", "503"}, Reply(p, code)
  PROVE  PutsGo(server, server', puts, puts') /\ puts'[p].at = "done"
<1> DEFINE h == [puts[p] EXCEPT !.at = "done", !.reply = code]
<1>1. puts[p] \in Handler /\ puts \in [Requests -> Handler]
  BY DEF SharesInv, TypeOK
<1>2. h \in Handler /\ h.at = "done"
  BY <1>1 DEF Handler
<1>3. puts' = [puts EXCEPT ![p] = h]
  BY DEF Reply
<1> HIDE DEF h
<1>4. h.at \notin {"accepted", "sent"} /\ puts'[p] = h
  BY <1>1, <1>2, <1>3
<1> QED BY <1>2, <1>3, <1>4, PutsAnswered

LEMMA EnteredGo ==
  ASSUME SharesInv, NEW p \in Requests, NEW i \in Regs(server), NEW marker \in SUBSET Nat, Enter(p, i, marker)
  PROVE  PutsGo(server, server', puts, puts')
<1> DEFINE h == [at |-> IF MustWait(server, i) THEN "waiting" ELSE "reading",
                 reg |-> i, marker |-> marker, ws |-> 0, reply |-> "none"]
<1>1. h \in Handler /\ h.at \notin {"accepted", "sent"}
  BY RegsIds DEF Handler
<1>2. puts' = [puts EXCEPT ![p] = h]
  BY DEF Enter
<1> HIDE DEF h
<1> QED BY <1>1, <1>2, PutsAnswered

\* The coroutines: only a dispatch submits a delivery.
LEMMA LoopStays ==
  ASSUME loop' = loop
  PROVE  LoopGoes
BY DEF LoopGoes

LEMMA LoopPops ==
  ASSUME SharesInv, loop # <<>>, Done(<<>>)
  PROVE  LoopGoes
<1>1. loop' = Tail(loop) /\ loop \in Seq(Task)
  BY DonePops DEF SharesInv, TypeOK
<1>2. \A k \in DOMAIN Tail(loop) : k + 1 \in DOMAIN loop /\ Tail(loop)[k] = loop[k + 1]
  BY <1>1, PopSeq
<1> QED BY <1>1, <1>2 DEF LoopGoes

LEMMA LoopGrows ==
  ASSUME SharesInv, NEW w \in Seq(Task), loop' = loop \o w,
         \A k \in DOMAIN w : w[k].do # "deliver" \/ DeliveryFits(w[k], server', puts')
  PROVE  LoopGoes
<1>1. loop \in Seq(Task)
  BY DEF SharesInv, TypeOK
<1> DEFINE n == Len(loop)
           all == loop \o w
<1>2. /\ n \in Nat /\ \A k \in DOMAIN loop : all[k] = loop[k]
      /\ \A k \in DOMAIN w : all[k + n] = w[k]
      /\ \A k \in DOMAIN all : k \in DOMAIN loop \/ (k - n \in DOMAIN w /\ k \in Nat)
  BY <1>1, JoinSeq
<1>3. loop' = all
  OBVIOUS
<1> HIDE DEF all, n
<1>4. ASSUME NEW k \in DOMAIN all
      PROVE  \/ all[k].do # "deliver" \/ DeliveryFits(all[k], server', puts')
             \/ \E j \in DOMAIN loop : all[k] = loop[j]
  <2>1. CASE k \in DOMAIN loop
    BY <1>2, <2>1
  <2>2. CASE k - n \in DOMAIN w /\ k \in Nat
    <3>1. (k - n) + n = k
      BY <1>2, <2>2
    <3>2. all[k] = w[k - n]
      BY <1>2, <2>2, <3>1
    <3> QED BY <2>2, <3>2
  <2> QED BY <1>2, <2>1, <2>2
<1> QED BY <1>3, <1>4 DEF LoopGoes

LEMMA EachGoes ==
  ASSUME SharesInv, NEW c \in Contexts, NEW I \in SUBSET Regs(server),
         NEW do \in {"activate", "unregister", "hold"}, Submit(Each(do, c, I))
  PROVE  LoopGoes
<1> DEFINE w == Each(do, c, I)
<1>1. loop' = loop \o w
  BY DEF Submit
<1>2. EachOf(w, do, c, I)
  BY RegsIds, EachTasks
<1> HIDE DEF w
<1> QED BY <1>1, <1>2, LoopGrows DEF EachOf

LEMMA OneGoes ==
  ASSUME SharesInv, NEW c \in Contexts, NEW i \in {0} \cup Ids,
         NEW do \in {"unregister", "begin_close", "hold_namespace", "release", "complete"}, Submit(<<Todo(do, c, i)>>)
  PROVE  LoopGoes
<1> DEFINE w == <<Todo(do, c, i)>>
           I == {i}
<1>1. loop' = loop \o w
  BY DEF Submit
<1>2. EachOf(w, do, c, I)
  BY OneTask
<1> HIDE DEF w, I
<1> QED BY <1>1, <1>2, LoopGrows DEF EachOf

\* The sessions and the messages.
LEMMA KnownStays ==
  ASSUME SharesInv, SharesInv', sessions' = sessions
  PROVE  KnownGo
<1>1. DOMAIN sessions = Regs(server) /\ DOMAIN sessions' = Regs(server')
  BY DEF SharesInv, TypeOK, Server, Regs
<1> QED BY <1>1 DEF KnownGo

LEMMA InboxRests ==
  ASSUME inbox' = inbox
  PROVE  InboxGoes
BY DEF InboxGoes

LEMMA InboxPops ==
  ASSUME SharesInv, NEW c \in Contexts, inbox[c] # <<>>, inbox' = Taken(inbox, c)
  PROVE  InboxGoes /\ \E j \in DOMAIN inbox[c] : Head(inbox[c]) = inbox[c][j]
<1>1. inbox \in [Contexts -> Seq(Message)] /\ inbox[c] \in Seq(Message)
  BY DEF SharesInv, TypeOK
<1>2. \A k \in DOMAIN Tail(inbox[c]) : k + 1 \in DOMAIN inbox[c] /\ Tail(inbox[c])[k] = inbox[c][k + 1]
  BY <1>1, PopSeq
<1>3. \A d \in Contexts : inbox'[d] = IF d = c THEN Tail(inbox[c]) ELSE inbox[d]
  BY <1>1 DEF Taken
<1>4. 1 \in DOMAIN inbox[c] /\ Head(inbox[c]) = inbox[c][1]
  BY <1>1, PopSeq
<1>5. ASSUME NEW d \in Contexts, NEW k \in DOMAIN inbox'[d]
      PROVE  \E j \in DOMAIN inbox[d] : inbox'[d][k] = inbox[d][j]
  BY <1>2, <1>3
<1>6. InboxGoes
  BY <1>5 DEF InboxGoes
<1> QED BY <1>4, <1>6

LEMMA InboxGets ==
  ASSUME SharesInv, NEW c \in Contexts, NEW m \in Message, inbox' = Sent(inbox, c, m), MarkFits(m, server', puts')
  PROVE  InboxGoes
<1>1. inbox \in [Contexts -> Seq(Message)] /\ inbox[c] \in Seq(Message)
  BY DEF SharesInv, TypeOK
<1> DEFINE q == Append(inbox[c], m)
<1>2. \A k \in DOMAIN q : (k \in DOMAIN inbox[c] /\ q[k] = inbox[c][k]) \/ q[k] = m
  BY <1>1, AppendSeq
<1>3. \A d \in Contexts : inbox'[d] = IF d = c THEN q ELSE inbox[d]
  BY <1>1 DEF Sent
<1> HIDE DEF q
<1> QED BY <1>2, <1>3 DEF InboxGoes

\* Most steps leave the requests and the messages.
LEMMA QuietWrites ==
  ASSUME Going, puts' = puts, inbox' = inbox, KnownGo, LoopGoes
  PROVE  WritesInv'
<1>1. SharesInv
  BY DEF Going, WritesInv
<1> QED BY <1>1, PutsStay, InboxRests, WritesStep DEF Going

\* The calls.
LEMMA CallsWrite ==
  ASSUME Going, NEW c \in Contexts,
         AttachFails(c) \/ Release(c) \/ Return(c) \/ LoadFails(c) \/ Unload(c) \/ Close(c) \/ HoldNamespace(c)
  PROVE  WritesInv'
<1>0. SharesInv /\ SharesInv'
  BY DEF Going, WritesInv
<1>1. puts' = puts /\ inbox' = inbox /\ sessions' = sessions
  BY DEF AttachFails, Release, Return, LoadFails, Unload, Close, HoldNamespace
<1>2. LoopGoes
  <2>1. CASE AttachFails(c)
    <3>1. Submit(Each("unregister", c, Prepared(c))) /\ Prepared(c) \in SUBSET Regs(server)
      BY <2>1 DEF AttachFails, Prepared, Of
    <3> QED BY <1>0, <3>1, EachGoes
  <2>2. CASE Unload(c)
    <3>1. CASE Prepared(c) = {}
      BY <2>2, <3>1, LoopStays DEF Unload
    <3>2. CASE Prepared(c) # {}
      <4> DEFINE m == Max(Prepared(c))
      <4>1. m \in Prepared(c)
        <5>1. Prepared(c) \subseteq 1..MaxRegs /\ MaxRegs \in Nat
          BY <1>0, RegsIds, SharesAssumption DEF Prepared, Of, Ids
        <5>2. IsFiniteSet(Prepared(c)) /\ Prepared(c) \subseteq Nat
          <6>1. IsFiniteSet(1..MaxRegs)
            BY <5>1, FS_Interval
          <6> QED BY <5>1, <6>1, FS_Subset
        <5> HIDE DEF Prepared
        <5> QED BY <3>2, <5>1, <5>2, MaxOf
      <4>2. Submit(Each("unregister", c, {m}))
        BY <2>2, <3>2 DEF Unload
      <4>3. {m} \in SUBSET Regs(server)
        BY <4>1 DEF Prepared, Of
      <4> HIDE DEF m
      <4> QED BY <1>0, <4>2, <4>3, EachGoes
    <3> QED BY <3>1, <3>2
  <2>3. CASE Return(c) \/ LoadFails(c)
    BY <2>3, LoopStays DEF Return, LoadFails
  <2>4. CASE Release(c)
    BY <1>0, <2>4, OneGoes DEF Release
  <2>5. CASE Close(c)
    BY <1>0, <2>5, OneGoes DEF Close
  <2>6. CASE HoldNamespace(c)
    BY <1>0, <2>6, OneGoes DEF HoldNamespace
  <2> QED BY <2>1, <2>2, <2>3, <2>4, <2>5, <2>6
<1>3. KnownGo
  BY <1>0, <1>1, KnownStays
<1> QED BY <1>1, <1>2, <1>3, QuietWrites

\* Those that attach and detach sessions.
LEMMA SessionsNow ==
  ASSUME Going
  PROVE  /\ SharesInv /\ SharesInv' /\ sessions \in Seq(Session) /\ DOMAIN sessions = Regs(server)
         /\ Len(sessions) = Len(server.regs) /\ DOMAIN sessions' = Regs(server') /\ loop \in Seq(Task)
<1>1. SharesInv /\ SharesInv'
  BY DEF Going, WritesInv
<1>2. /\ server \in Server /\ sessions \in Seq(Session) /\ Len(sessions) = Len(server.regs)
      /\ loop \in Seq(Task)
  BY <1>1 DEF SharesInv, TypeOK
<1>3. server' \in Server /\ sessions' \in Seq(Session) /\ Len(sessions') = Len(server'.regs)
  BY <1>1 DEF SharesInv, TypeOK
<1>4. DOMAIN sessions = Regs(server)
  BY <1>2 DEF Server, Regs
<1>5. DOMAIN sessions' = Regs(server')
  BY <1>3 DEF Server, Regs
<1> QED BY <1>1, <1>2, <1>4, <1>5

LEMMA DetachWrites ==
  ASSUME Going, NEW c \in Contexts, Finish(c) \/ \E i \in Regs(server) : Unshare(c, i)
  PROVE  WritesInv'
<1>0. /\ SharesInv /\ SharesInv' /\ sessions \in Seq(Session) /\ DOMAIN sessions = Regs(server)
      /\ DOMAIN sessions' = Regs(server')
  BY SessionsNow
<1>1. puts' = puts /\ inbox' = inbox
  BY DEF Finish, Unshare
<1>2. CASE Finish(c)
  <2>1. Submit(Each("hold", c, Attached(c))) /\ Attached(c) \in SUBSET Regs(server)
        /\ sessions' = Detached(sessions, Attached(c))
    BY <1>2 DEF Finish, Attached, Of, Detached
  <2>2. LoopGoes
    BY <1>0, <2>1, EachGoes
  <2>3. \A j \in DOMAIN sessions : sessions'[j] = NoSession \/ sessions'[j] = sessions[j]
    BY <1>0, <2>1, DetachSessions
  <2>4. DOMAIN sessions' = DOMAIN sessions
    BY <2>1 DEF Detached, Changed
  <2>5. KnownGo
    BY <1>0, <2>3, <2>4 DEF KnownGo, NoSession
  <2> QED BY <1>1, <2>2, <2>5, QuietWrites
<1>3. ASSUME NEW i \in Regs(server), Unshare(c, i) PROVE WritesInv'
  <2>1. Submit(<<Todo("unregister", c, i)>>) /\ sessions' = [sessions EXCEPT ![i] = NoSession]
    BY <1>3 DEF Unshare
  <2>2. LoopGoes
    BY <1>0, <2>1, OneGoes, RegsIds
  <2>3. KnownGo
    BY <1>0, <2>1 DEF KnownGo, NoSession
  <2> QED BY <1>1, <2>2, <2>3, QuietWrites
<1> QED BY <1>2, <1>3

LEMMA AttachWrites ==
  ASSUME Going, NEW c \in Contexts, Attach(c) \/ LoadCommit(c)
  PROVE  WritesInv'
<1>0. /\ SharesInv /\ SharesInv' /\ sessions \in Seq(Session) /\ DOMAIN sessions = Regs(server)
      /\ Len(sessions) = Len(server.regs) /\ DOMAIN sessions' = Regs(server') /\ loop \in Seq(Task)
  BY SessionsNow
<1>1. puts' = puts /\ inbox' = inbox
  BY DEF Attach, LoadCommit
<1> DEFINE I == Attached(c)
           J == Prepared(c)
           u == Each("unregister", c, I)
           v == Each("activate", c, J)
           w == u \o v
<1>2. I \in SUBSET Regs(server) /\ J \in SUBSET Regs(server)
  BY DEF Attached, Prepared, Of
<1>3. LoopGoes
  <2>1. CASE Attach(c)
    <3>1. Submit(Each("activate", c, J))
      BY <2>1 DEF Attach
    <3> HIDE DEF J
    <3> QED BY <1>0, <1>2, <3>1, EachGoes
  <2>2. CASE LoadCommit(c)
    <3>1. loop' = loop \o w
      BY <2>2 DEF LoadCommit, Submit
    <3>2. I \in SUBSET Ids /\ J \in SUBSET Ids
      BY <1>0, <1>2, RegsIds
    <3>3. EachOf(u, "unregister", c, I) /\ EachOf(v, "activate", c, J)
      BY <3>2, EachTasks
    <3> HIDE DEF u, v, I, J
    <3>4. u \in Seq(Task) /\ v \in Seq(Task) /\ \A k \in DOMAIN u : u[k].do = "unregister"
      BY <3>3 DEF EachOf
    <3>5. \A k \in DOMAIN v : v[k].do = "activate"
      BY <3>3 DEF EachOf
    <3>6. w \in Seq(Task) /\ \A k \in DOMAIN w : w[k].do # "deliver"
      <4> DEFINE n == Len(u)
      <4>1. /\ w \in Seq(Task) /\ n \in Nat
            /\ \A k \in DOMAIN u : w[k] = u[k]
            /\ \A k \in DOMAIN v : w[k + n] = v[k]
            /\ \A k \in DOMAIN w : k \in DOMAIN u \/ (k - n \in DOMAIN v /\ k \in Nat)
        BY <3>4, JoinSeq
      <4> HIDE DEF w, n
      <4>2. ASSUME NEW k \in DOMAIN w PROVE w[k].do # "deliver"
        <5>1. CASE k \in DOMAIN u
          BY <3>4, <4>1, <5>1
        <5>2. CASE k - n \in DOMAIN v /\ k \in Nat
          <6>1. (k - n) + n = k
            BY <4>1, <5>2
          <6>2. w[k] = v[k - n]
            BY <4>1, <5>2, <6>1
          <6> QED BY <3>5, <5>2, <6>2
        <5> QED BY <4>1, <5>1, <5>2
      <4> QED BY <4>1, <4>2
    <3> HIDE DEF w
    <3> QED BY <1>0, <3>1, <3>6, LoopGrows
  <2> QED BY <2>1, <2>2
<1>4. KnownGo
  <2> DEFINE all == IF Attach(c) THEN sessions ELSE Detached(sessions, I)
  <2>1. sessions' = WithPrepared(c, all)
    BY DEF Attach, LoadCommit, Detached
  <2>2. /\ all \in Seq(Session) /\ Len(all) = Len(server.regs)
        /\ \A i \in Regs(server) : all[i] = NoSession \/ all[i] = sessions[i]
    BY <1>0, DetachSessions
  <2> HIDE DEF all
  <2>3. /\ sessions' \in Seq(Session) /\ Len(sessions') = Len(server.regs)
        /\ \A i \in Regs(server) : sessions'[i].known = 0 \/ sessions'[i] = all[i]
    BY <1>0, <2>1, <2>2, PreparedSessions
  <2>4. DOMAIN sessions' = Regs(server)
    BY <1>0, <2>3
  <2> QED BY <1>0, <2>2, <2>3, <2>4 DEF KnownGo, NoSession
<1> QED BY <1>1, <1>3, <1>4, QuietWrites

LEMMA ReserveWrites ==
  ASSUME Going, NEW c \in Contexts, NEW r \in Routes, Share(c, r) \/ LoadReserve(c, r)
  PROVE  WritesInv'
<1>0. /\ SharesInv /\ SharesInv' /\ sessions \in Seq(Session) /\ DOMAIN sessions = Regs(server)
      /\ DOMAIN sessions' = Regs(server')
  BY SessionsNow
<1>1. puts' = puts /\ inbox' = inbox /\ loop' = loop /\ sessions' = Append(sessions, NoSession)
  BY DEF Share, LoadReserve, ReserveIn
<1>2. KnownGo
  <2>1. NoSession \in Session /\ NoSession.known = 0
    BY DEF NoSession, Session
  <2>2. \A k \in DOMAIN sessions' : (k \in DOMAIN sessions /\ sessions'[k] = sessions[k]) \/ sessions'[k] = NoSession
    BY <1>0, <1>1, <2>1, AppendSeq
  <2> QED BY <1>0, <2>1, <2>2 DEF KnownGo
<1> QED BY <1>1, <1>2, LoopStays, QuietWrites

\* The coroutines that submit nothing: all but deliveries leave the messages too.
LEMMA CoroutinesWrite ==
  ASSUME Going, Activate \/ CompleteReattach \/ Unregister \/ HoldRegistration \/ BeginCloseNamespace \/ Hold
                \/ CloseNamespace \/ Tick \/ ExpireHolds
  PROVE  WritesInv'
<1>1. puts' = puts /\ inbox' = inbox /\ sessions' = sessions
  BY DEF Activate, CompleteReattach, Unregister, HoldRegistration, BeginCloseNamespace, Hold, CloseNamespace,
     Tick, ExpireHolds
<1>2. loop' = loop \/ (loop # <<>> /\ Done(<<>>))
  BY DEF Activate, CompleteReattach, Unregister, HoldRegistration, BeginCloseNamespace, Hold, CloseNamespace,
     Tick, ExpireHolds, Executes
<1>3. SharesInv /\ SharesInv'
  BY SessionsNow
<1> QED BY <1>1, <1>2, <1>3, LoopStays, LoopPops, KnownStays, QuietWrites

\* A delivery that writes gets the next ws, which no PUT has.
LEMMA DeliverWrites ==
  ASSUME Going, Deliver
  PROVE  WritesInv'
<1> DEFINE i == Task1.reg
           c == server.regs[i].ctx
<1>0. SharesInv /\ SharesInv' /\ WritesInv /\ Grown(server, server')
  BY SessionsNow DEF Going
<1>1. loop # <<>> /\ Done(<<>>) /\ Task1.do = "deliver" /\ puts' = puts /\ sessions' = sessions
  BY DEF Deliver, Executes, Task1
<1>2. i \in Regs(server) /\ Task1.value \in Values /\ server \in Server
  BY <1>0, <1>1, HeadTask, SameCalm DEF TaskRefs, TaskOf
<1>3. c \in Contexts /\ server' \in Server /\ i \in Ids
  BY <1>0, <1>2, Typed, RegsIds, SameCalm DEF SharesInv, TypeOK, Registration
<1>4. PICK type \in {"error", "conflict", "written"} :
        /\ inbox' = [inbox EXCEPT ![c] = Append(@,
                      [type |-> type, reg |-> i, value |-> server'.regs[i].checksum,
                       ws |-> server'.regs[i].ws, request |-> NoOwner])]
        /\ type = "written" => server' = Install(server, i, Task1.value)
  BY DEF Deliver, Becomes
<1> DEFINE m == [type |-> type, reg |-> i, value |-> server'.regs[i].checksum,
                 ws |-> server'.regs[i].ws, request |-> NoOwner]
<1>5. i \in Regs(server') /\ server'.regs[i] \in Registration
  BY <1>0, <1>2, <1>3, Typed DEF Grown
<1>6. m \in Message
  BY <1>3, <1>5 DEF Message, Registration
<1>7. inbox' = Sent(inbox, c, m)
  BY <1>4 DEF Sent
<1>8. m.type = type /\ m.reg = i /\ m.ws = server'.regs[i].ws
  OBVIOUS
<1> HIDE DEF m, i
<1>9. MarkFits(m, server', puts')
  <2>1. CASE type # "written"
    BY <1>4, <1>8, <2>1 DEF MarkFits
  <2>2. CASE type = "written"
    <3>1. Installed(server, i, server')
      BY <1>2, <1>4, <2>2, InstallEffect
    <3>2. server'.regs[i].ws = server.regs[i].ws + 1 /\ server.regs[i].ws \in Nat
      BY <1>0, <1>2, <3>1 DEF Installed, Grown
    <3>3. ASSUME NEW p \in Requests, PutAt(puts[p], i) PROVE puts[p].ws # m.ws
      <4>1. puts \in [Requests -> Handler] /\ PutsRefer(puts, server) /\ PutFits(p, server, puts)
        BY <1>0 DEF WritesInv, SharesInv, TypeOK, RefsOK, WritesOK
      <4>2. puts[p].ws <= server.regs[i].ws /\ puts[p].ws \in Nat
        BY <3>3, <4>1, OldWs
      <4> QED BY <1>8, <3>2, <4>2
    <3>4. m.ws <= server'.regs[m.reg].ws
      BY <1>8, <3>2
    <3> QED BY <1>1, <1>8, <3>3, <3>4 DEF MarkFits
  <2> QED BY <2>1, <2>2
<1> HIDE DEF c
<1>10. InboxGoes
  BY <1>0, <1>3, <1>6, <1>7, <1>9, InboxGets
<1>11. LoopGoes /\ KnownGo /\ PutsGo(server, server', puts, puts')
  BY <1>0, <1>1, LoopPops, KnownStays, PutsStay
<1> QED BY <1>0, <1>10, <1>11, WritesStep

\* A turn: what is known to its session is left, or it is free.
LEMMA TurnGoes ==
  ASSUME Going, NEW c \in Contexts, NEW i \in Regs(server), NEW s \in Session, NEW value \in Values,
         Turn(c, i, s, value), s.known = sessions[i].known \/ KnownFits(s, i, server', puts'), server' = server
  PROVE  LoopGoes /\ KnownGo
<1> DEFINE t == IF Closing(c) THEN s ELSE Actuate(s, value)
           w == IF /\ t.initial /\ ~sessions[i].initial /\ server.regs[i].active /\ server.regs[i].from # 0
                THEN <<Todo("complete", c, i)>> ELSE <<>>
<1>0. SharesInv /\ DOMAIN sessions = Regs(server) /\ DOMAIN sessions' = Regs(server') /\ sessions \in Seq(Session)
      /\ loop \in Seq(Task)
  BY SessionsNow
<1>1. sessions' = [sessions EXCEPT ![i] = t] /\ Submit(w)
  BY DEF Turn
<1>2. t.known = s.known
  BY ActuateEffect
<1> HIDE DEF t
<1>3. KnownGo
  BY <1>0, <1>1, <1>2 DEF KnownGo, KnownFits
<1>4. LoopGoes
  <2>1. CASE w = <<>>
    <3> DEFINE e == <<>>
    <3>1. e \in Seq(Task) /\ DOMAIN e = {} /\ w = e
      BY <2>1
    <3> HIDE DEF e, w
    <3>2. loop' = loop \o e
      BY <1>1, <3>1 DEF Submit
    <3> QED BY <1>0, <3>1, <3>2, LoopGrows
  <2>2. CASE w = <<Todo("complete", c, i)>>
    BY <1>0, <1>1, <2>2, OneGoes, RegsIds
  <2> QED BY <2>1, <2>2
<1> QED BY <1>3, <1>4

LEMMA EditWrites ==
  ASSUME Going, NEW c \in Contexts, NEW i \in Regs(server), Edit(c, i)
  PROVE  WritesInv'
<1>0. SharesInv /\ DOMAIN sessions = Regs(server) /\ sessions \in Seq(Session)
  BY SessionsNow
<1>1. /\ UNCHANGED <<server, shown>> /\ puts' = puts /\ inbox' = inbox /\ edits < Len(Drafts)
      /\ Turn(c, i, sessions[i], Drafts[edits + 1])
  BY DEF Edit, registry
<1>2. Drafts[edits + 1] \in Values
  <2>1. Len(Drafts) \in Nat /\ Drafts \in Seq(Values) /\ edits \in Nat
    BY <1>0, ValuesAssumption DEF SharesInv, TypeOK
  <2> QED BY <1>1, <2>1
<1>3. sessions[i] \in Session
  BY <1>0
<1>4. LoopGoes /\ KnownGo
  BY <1>1, <1>2, <1>3, TurnGoes
<1> QED BY <1>1, <1>4, QuietWrites

LEMMA DispatchWrites ==
  ASSUME Going, NEW i \in Regs(server), Dispatch(i)
  PROVE  WritesInv'
<1> DEFINE s == sessions[i]
           t == [s EXCEPT !.flight = s.pending, !.pending = NoValue]
           e == [do |-> "deliver", ctx |-> server.regs[i].ctx, reg |-> i, value |-> s.pending, ws |-> s.known]
           w == <<e>>
<1>0. /\ SharesInv /\ WritesInv /\ DOMAIN sessions = Regs(server) /\ DOMAIN sessions' = Regs(server')
      /\ sessions \in Seq(Session)
  BY SessionsNow DEF Going
<1>1. /\ server' = server /\ inbox' = inbox /\ puts' = puts /\ loop' = loop \o w /\ s.pending # NoValue
      /\ sessions' = [sessions EXCEPT ![i].flight = s.pending, ![i].pending = NoValue]
  BY DEF Dispatch, registry, users, Submit
<1>2. s \in Session /\ server.regs[i].ctx \in Contexts /\ i \in Ids
  BY <1>0, SameCalm, Typed, RegsIds DEF Registration
<1>3. t.known = s.known /\ s.pending \in Values
  BY <1>1, <1>2 DEF Session
<1>4. sessions' = [sessions EXCEPT ![i] = t]
  BY <1>1
<1>5. e \in Task /\ e.do = "deliver" /\ e.reg = i /\ e.ws = s.known
  BY <1>2, <1>3 DEF Task, Session
<1> HIDE DEF t, e
<1>6. KnownGo
  BY <1>0, <1>1, <1>3, <1>4 DEF KnownGo
<1>7. DeliveryFits(e, server', puts')
  <2>1. KnownFits(s, i, server, puts)
    BY <1>0 DEF WritesInv, WritesOK
  <2> QED BY <1>1, <1>5, <2>1 DEF KnownFits, DeliveryFits
<1>8. w \in Seq(Task) /\ DOMAIN w = {1} /\ w[1] = e
  BY <1>5
<1> HIDE DEF w
<1>9. LoopGoes
  BY <1>0, <1>1, <1>7, <1>8, LoopGrows
<1> QED BY <1>1, <1>6, <1>9, QuietWrites

\* What is observed is known when its request has been answered, and what was written is no PUT's.
LEMMA ObservedWrites ==
  ASSUME Going, NEW c \in Contexts, Observed(c)
  PROVE  WritesInv'
<1> DEFINE m == Head(inbox[c])
           i == m.reg
           s == sessions[i]
           seen == [s EXCEPT !.known = m.ws, !.disk = m.value]
           sensed == [seen EXCEPT !.last = m.value, !.pending = NoValue]
           now == cell[c][server.regs[i].route]
<1>0. /\ SharesInv /\ SharesInv' /\ WritesInv /\ DOMAIN sessions = Regs(server) /\ sessions \in Seq(Session)
      /\ Grown(server, server')
  BY SessionsNow DEF Going
<1>1. /\ server' = server /\ inbox[c] # <<>> /\ m.type = "observed" /\ inbox' = Taken(inbox, c)
      /\ Reply(m.request, "200")
  BY DEF Observed, registry, HeadIs, Pop, Taken
<1>2. InboxGoes /\ \E j \in DOMAIN inbox[c] : m = inbox[c][j]
  BY <1>0, <1>1, InboxPops
<1>3. MarkFits(m, server, puts) /\ MessageFits(m, server, c) /\ m \in Message
  BY <1>0, <1>1, <1>2, PopSettles DEF WritesInv, WritesOK
<1>4. i \in Regs(server) /\ m.request \in Requests /\ m.value \in Values /\ m.ws \in Nat
  BY <1>1, <1>3 DEF MessageFits, Message
<1>5. PutsGo(server, server', puts, puts') /\ puts'[m.request].at = "done"
  BY <1>0, <1>1, <1>4, RepliedGo
<1>6. s \in Session /\ now \in Values
  <2>1. server.regs[i].route \in Routes /\ cell \in [Contexts -> [Routes -> Values]]
    BY <1>0, <1>4, Typed, SameCalm DEF SharesInv, TypeOK, Registration
  <2> QED BY <1>0, <1>4, <2>1
<1>7. seen \in Session /\ seen.known = m.ws
  BY <1>4, <1>6 DEF Session
<1>8. sensed \in Session /\ sensed.known = m.ws
  BY <1>4, <1>6 DEF Session
<1>9. \/ UNCHANGED <<sessions, cell, loop>>
      \/ Turn(c, i, s, now) \/ Turn(c, i, seen, now) \/ Turn(c, i, sensed, m.value)
  BY DEF Observed
<1> HIDE DEF seen, sensed, m, now
<1>10. m.ws <= server'.regs[i].ws /\ WsFree(m.ws, i, puts')
  <2>1. m.ws <= server.regs[i].ws
        /\ \A p \in Requests : PutAt(puts[p], i) /\ puts[p].ws = m.ws => p = m.request
    BY <1>1, <1>3 DEF MarkFits
  <2>2. \A p \in Requests : PutAt(puts'[p], i) /\ puts'[p].ws = m.ws => PutAt(puts[p], i) /\ puts[p].ws = m.ws
    BY <1>0, <1>4, <1>5, <2>1, FreeGoesOn
  <2>3. ~PutAt(puts'[m.request], i)
    BY <1>5 DEF PutAt
  <2> QED BY <1>1, <2>1, <2>2, <2>3 DEF WsFree
<1>11. LoopGoes /\ KnownGo
  <2>1. CASE UNCHANGED <<sessions, cell, loop>>
    BY <1>0, <2>1, LoopStays, KnownStays
  <2>2. CASE Turn(c, i, s, now)
    BY <1>1, <1>4, <1>6, <2>2, TurnGoes
  <2>3. KnownFits(seen, i, server', puts') /\ KnownFits(sensed, i, server', puts')
    BY <1>7, <1>8, <1>10 DEF KnownFits
  <2>4. CASE Turn(c, i, seen, now)
    BY <1>1, <1>4, <1>6, <1>7, <2>3, <2>4, TurnGoes
  <2>5. CASE Turn(c, i, sensed, m.value)
    BY <1>1, <1>4, <1>6, <1>8, <2>3, <2>5, TurnGoes
  <2> QED BY <1>9, <2>1, <2>2, <2>4, <2>5
<1> QED BY <1>0, <1>2, <1>5, <1>11, WritesStep

LEMMA DeliveredWrites ==
  ASSUME Going, NEW c \in Contexts, Delivered(c)
  PROVE  WritesInv'
<1> DEFINE m == Head(inbox[c])
           i == m.reg
           s == sessions[i]
           done == [s EXCEPT !.flight = NoValue, !.initial = TRUE]
           written == IF m.ws > s.known THEN [done EXCEPT !.known = m.ws, !.disk = m.value] ELSE done
           again == IF s.pending = NoValue THEN [done EXCEPT !.pending = s.flight] ELSE done
           now == cell[c][server.regs[i].route]
<1>0. /\ SharesInv /\ SharesInv' /\ WritesInv /\ DOMAIN sessions = Regs(server) /\ sessions \in Seq(Session)
      /\ Grown(server, server')
  BY SessionsNow DEF Going
<1>1. /\ server' = server /\ inbox[c] # <<>> /\ m.type \in {"written", "conflict", "error"}
      /\ inbox' = Taken(inbox, c) /\ puts' = puts
  BY DEF Delivered, registry, HeadIs, Pop, Taken
<1>2. InboxGoes /\ \E j \in DOMAIN inbox[c] : m = inbox[c][j]
  BY <1>0, <1>1, InboxPops
<1>3. MarkFits(m, server, puts) /\ MessageFits(m, server, c) /\ m \in Message
  BY <1>0, <1>1, <1>2, PopSettles DEF WritesInv, WritesOK
<1>4. i \in Regs(server) /\ m.ws \in Nat /\ m.value \in Values \cup {NoValue}
  BY <1>1, <1>3 DEF MessageFits, Message
<1>5. s \in Session /\ now \in Values
  <2>1. server.regs[i].route \in Routes /\ cell \in [Contexts -> [Routes -> Values]]
    BY <1>0, <1>4, Typed, SameCalm DEF SharesInv, TypeOK, Registration
  <2> QED BY <1>0, <1>4, <2>1
<1>6. \/ UNCHANGED <<sessions, cell, loop>>
      \/ m.type = "written" /\ Turn(c, i, written, now)
      \/ Turn(c, i, again, now) \/ Turn(c, i, done, now)
  BY <1>1 DEF Delivered
<1>7. done \in Session /\ done.known = s.known
  BY <1>5 DEF Session
<1>8. written \in Session /\ (written.known = s.known \/ written.known = m.ws)
  BY <1>4, <1>5, <1>7 DEF Session
<1>9. again \in Session /\ again.known = s.known
  BY <1>5, <1>7 DEF Session
<1> HIDE DEF done, written, again, m, now
<1>10. LoopGoes /\ KnownGo
  <2>1. CASE UNCHANGED <<sessions, cell, loop>>
    BY <1>0, <2>1, LoopStays, KnownStays
  <2>2. CASE m.type = "written" /\ Turn(c, i, written, now)
    <3>1. written.known = m.ws => KnownFits(written, i, server', puts')
      BY <1>1, <1>3, <2>2 DEF MarkFits, KnownFits, WsFree
    <3> QED BY <1>1, <1>4, <1>5, <1>8, <2>2, <3>1, TurnGoes
  <2>3. CASE Turn(c, i, again, now)
    BY <1>1, <1>4, <1>5, <1>9, <2>3, TurnGoes
  <2>4. CASE Turn(c, i, done, now)
    BY <1>1, <1>4, <1>5, <1>7, <2>4, TurnGoes
  <2> QED BY <1>6, <2>1, <2>2, <2>3, <2>4
<1> QED BY <1>0, <1>1, <1>2, <1>10, PutsStay, WritesStep

LEMMA BeginsWrite ==
  ASSUME Going, NEW c \in Contexts, Refuse(c) \/ BeginClose(c)
  PROVE  WritesInv'
<1>0. SharesInv /\ SharesInv' /\ WritesInv /\ Grown(server, server')
  BY SessionsNow DEF Going
<1>1. puts' = puts /\ loop' = loop /\ sessions' = sessions
  BY DEF Refuse, BeginClose
<1>2. InboxGoes
  <2>1. CASE Refuse(c)
    <3> DEFINE m == [type |-> "begin_close", reg |-> 0, value |-> NoValue, ws |-> 0, request |-> NoOwner]
    <3>1. m \in Message /\ m.type = "begin_close"
      BY DEF Message
    <3>2. inbox' = Sent(inbox, c, m)
      BY <2>1 DEF Refuse, Sent
    <3> HIDE DEF m
    <3>3. MarkFits(m, server', puts')
      BY <3>1 DEF MarkFits
    <3> QED BY <1>0, <3>1, <3>2, <3>3, InboxGets
  <2>2. CASE BeginClose(c)
    <3>1. inbox[c] # <<>> /\ inbox' = Taken(inbox, c)
      BY <2>2 DEF BeginClose, HeadIs, Pop, Taken
    <3> QED BY <1>0, <3>1, InboxPops
  <2> QED BY <2>1, <2>2
<1> QED BY <1>0, <1>1, <1>2, LoopStays, KnownStays, PutsStay, WritesStep

\* The PUTs.
LEMMA WaitsWrite ==
  ASSUME Going, NEW p \in Requests, Resume(p) \/ PutTimeout(p) \/ \E r \in Routes : Arrive(p, r)
  PROVE  WritesInv'
<1>0. /\ SharesInv /\ SharesInv' /\ WritesInv /\ Grown(server, server') /\ RegistryOK(server)
      /\ \A i \in Regs(server) : server.regs[i] \in Registration
  BY SessionsNow, SameCalm, Typed DEF Going
<1>1. inbox' = inbox /\ loop' = loop /\ sessions' = sessions
  BY DEF Resume, PutTimeout, Arrive
<1>2. PutsGo(server, server', puts, puts')
  <2>1. CASE PutTimeout(p)
    BY <1>0, <2>1, RepliedGo DEF PutTimeout
  <2>2. CASE Resume(p)
    <3> DEFINE i == puts[p].reg
               to == server.regs[i].to
    <3>1. puts[p] \in Handler /\ i \in Regs(server)
      BY <1>0, <2>2 DEF Resume, SharesInv, TypeOK, RefsOK, PutsRefer, PutRefs
    <3>2. to \in {0} \cup Regs(server)
      BY <1>0, <3>1 DEF RegistryOK, FlagsOK, FlagsFit
    <3>3. CASE to = 0
      BY <1>0, <2>2, <3>3, RepliedGo DEF Resume
    <3>4. CASE to # 0
      <4>1. Enter(p, to, puts[p].marker) /\ to \in Regs(server)
        BY <2>2, <3>2, <3>4 DEF Resume
      <4>2. puts[p].marker \in SUBSET Nat
        BY <3>1 DEF Handler
      <4> HIDE DEF to
      <4> QED BY <1>0, <4>1, <4>2, EnteredGo
    <3> QED BY <3>3, <3>4
  <2>3. ASSUME NEW r \in Routes, Arrive(p, r) PROVE PutsGo(server, server', puts, puts')
    <3> DEFINE i == server.records[r]
    <3>1. i \in Regs(server)
      BY <1>0, <2>3 DEF Arrive, RegistryOK, RecordsOK
    <3>2. PICK marker \in {{}, {server.regs[i].marker}} : Enter(p, i, marker)
      BY <2>3 DEF Arrive
    <3>3. server.regs[i].marker \in Nat
      BY <1>0, <3>1 DEF Registration
    <3>4. marker \in SUBSET Nat
      BY <3>3
    <3> QED BY <1>0, <3>1, <3>2, <3>4, EnteredGo
  <2> QED BY <2>1, <2>2, <2>3
<1> QED BY <1>0, <1>1, <1>2, LoopStays, KnownStays, InboxRests, WritesStep

\* The sink takes what is installed, or the PUT that is accepted, with its ws.
SinkFits(p, ws) ==
  /\ ws \in Nat /\ ws <= server'.regs[puts[p].reg].ws
  /\ \A h \in Handler : puts' = [puts EXCEPT ![p] = h] /\ h.reg = puts[p].reg /\ h.ws = ws =>
       /\ PutsGo(server, server', puts, puts')
       /\ \A q \in Requests : PutAt(puts'[q], puts[p].reg) /\ puts'[q].ws = ws => q = p
LEMMA SinkGoes ==
  ASSUME Going, NEW p \in Requests, puts[p].reg \in Regs(server), NEW ws, SinkFits(p, ws), Sink(p, puts[p].reg, ws)
  PROVE  PutsGo(server, server', puts, puts') /\ InboxGoes
<1> DEFINE i == puts[p].reg
           c == server.regs[i].ctx
           m == [type |-> "observed", reg |-> i, value |-> Body[p], ws |-> ws, request |-> p]
           h == [puts[p] EXCEPT !.at = "sent", !.ws = ws]
<1>0. SharesInv /\ SharesInv' /\ server \in Server
  BY SessionsNow, SameCalm
<1>1. CASE ~Accepting(c)
  <2>1. Reply(p, "503") /\ inbox' = inbox
    BY <1>1 DEF Sink
  <2> QED BY <1>0, <2>1, RepliedGo, InboxRests
<1>2. CASE Accepting(c)
  <2>1. puts[p] \in Handler /\ i \in Ids /\ c \in Contexts /\ ws \in Nat /\ Body[p] \in Values
    <3>1. puts[p] \in Handler /\ ws \in Nat /\ Body[p] \in Values
      BY <1>0 DEF SharesInv, TypeOK, SinkFits, Values
    <3>2. i \in Ids
      BY <1>0, RegsIds
    <3>3. c \in Contexts
      BY <1>0, Typed DEF Registration
    <3> QED BY <3>1, <3>2, <3>3
  <2>2. h \in Handler /\ h.reg = i /\ h.ws = ws
    BY <2>1 DEF Handler
  <2>3. puts' = [puts EXCEPT ![p] = h] /\ inbox' = Sent(inbox, c, m)
    BY <1>2 DEF Sink, Sent
  <2>4. m \in Message /\ m.type = "observed" /\ m.reg = i /\ m.ws = ws /\ m.request = p
    BY <2>1 DEF Message
  <2> HIDE DEF h, m
  <2>5. /\ PutsGo(server, server', puts, puts')
        /\ \A q \in Requests : PutAt(puts'[q], i) /\ puts'[q].ws = ws => q = p
    BY <2>2, <2>3 DEF SinkFits
  <2>6. MarkFits(m, server', puts')
    BY <2>4, <2>5 DEF MarkFits, SinkFits
  <2> HIDE DEF c
  <2>7. InboxGoes
    BY <1>0, <2>1, <2>3, <2>4, <2>6, InboxGets
  <2> QED BY <2>5, <2>7
<1> QED BY <1>1, <1>2

LEMMA SendWrites ==
  ASSUME Going, NEW p \in Requests, Send(p)
  PROVE  WritesInv'
<1> DEFINE i == puts[p].reg
           ws == puts[p].ws
<1>0. /\ SharesInv /\ SharesInv' /\ WritesInv /\ Grown(server, server')
      /\ puts \in [Requests -> Handler] /\ PutsRefer(puts, server)
  BY SessionsNow DEF Going, SharesInv, TypeOK, RefsOK
<1>1. server' = server /\ loop' = loop /\ sessions' = sessions /\ puts[p].at = "accepted" /\ Sink(p, i, ws)
  BY DEF Send, registry
<1>2. /\ PutAt(puts[p], i) /\ i \in Regs(server) /\ ws \in Nat /\ ws <= server.regs[i].ws
      /\ \A q \in Requests : PutAt(puts[q], i) /\ puts[q].ws = ws => q = p
  <2>1. PutAt(puts[p], i)
    BY <1>1 DEF PutAt
  <2>2. PutFits(p, server, puts)
    BY <1>0 DEF WritesInv, WritesOK
  <2> QED BY <1>0, <2>1, <2>2, OldWs DEF PutFits
<1>3. ASSUME NEW h \in Handler, puts' = [puts EXCEPT ![p] = h], h.reg = i, h.ws = ws
      PROVE  /\ PutsGo(server, server', puts, puts')
             /\ \A q \in Requests : PutAt(puts'[q], i) /\ puts'[q].ws = ws => q = p
  <2>1. puts' \in [Requests -> Handler] /\ \A q \in Requests : puts'[q] = IF q = p THEN h ELSE puts[q]
    BY <1>0, <1>3
  <2>2. \A q \in Requests : PutAt(puts'[q], puts'[q].reg) => OldPut(q, puts, puts')
    BY <1>2, <1>3, <2>1 DEF PutAt, OldPut
  <2>3. \A q \in Requests : PutAt(puts'[q], i) /\ puts'[q].ws = ws => q = p
    BY <1>2, <2>1
  <2> QED BY <1>0, <2>1, <2>2, <2>3 DEF PutsGo
<1>4. SinkFits(p, ws)
  BY <1>1, <1>2, <1>3 DEF SinkFits
<1> HIDE DEF ws, i
<1>5. PutsGo(server, server', puts, puts') /\ InboxGoes
  BY <1>1, <1>2, <1>4, SinkGoes DEF i
<1> QED BY <1>0, <1>1, <1>5, LoopStays, KnownStays, WritesStep

LEMMA AcceptWrites ==
  ASSUME Going, NEW p \in Requests, Accept(p)
  PROVE  WritesInv'
<1> DEFINE i == puts[p].reg
           reg == server.regs[i]
           ws == reg.ws + 1
<1>0. /\ SharesInv /\ SharesInv' /\ WritesInv /\ Grown(server, server') /\ server \in Server
      /\ puts \in [Requests -> Handler] /\ PutsRefer(puts, server)
  BY SessionsNow, SameCalm DEF Going, SharesInv, TypeOK, RefsOK
<1>1. loop' = loop /\ sessions' = sessions /\ puts[p].at = "reading"
  BY DEF Accept
<1>2. puts[p] \in Handler /\ i \in Regs(server) /\ reg \in Registration /\ Body[p] \in Values
  BY <1>0, <1>1, Typed DEF PutsRefer, PutRefs, Values
<1>3. PutsGo(server, server', puts, puts') /\ InboxGoes
  <2>1. CASE \E code \in {"404", "409"} : Reply(p, code) /\ UNCHANGED <<registry, inbox>>
    BY <1>0, <2>1, RepliedGo, InboxRests
  <2>2. CASE /\ ~Gone(reg) /\ Becomes(Install(server, i, Body[p]))
             /\ IF Body[p] = reg.checksum THEN Sink(p, i, ws)
                ELSE /\ puts' = [puts EXCEPT ![p].at = "accepted", ![p].ws = ws]
                     /\ UNCHANGED inbox
    <3>1. Installed(server, i, server')
      BY <1>0, <1>2, <2>2, InstallEffect DEF Becomes
    <3>2. reg.ws \in Nat /\ ws \in Nat /\ server'.regs[i].ws = ws /\ reg.ws < ws
      BY <1>2, <3>1, SMTT(20) DEF Installed, Registration
    <3>3. \A q \in Requests : PutAt(puts[q], i) => puts[q].ws # ws
      <4> SUFFICES ASSUME NEW q \in Requests, PutAt(puts[q], i) PROVE puts[q].ws # ws
        OBVIOUS
      <4>1. PutFits(q, server, puts)
        BY <1>0 DEF WritesInv, WritesOK
      <4>2. puts[q].ws <= reg.ws /\ puts[q].ws \in Nat
        BY <1>0, <4>1, OldWs
      <4> QED BY <3>2, <4>2
    <3> HIDE DEF ws
    <3>4. ASSUME NEW h \in Handler, puts' = [puts EXCEPT ![p] = h], h.reg = i, h.ws = ws
          PROVE  /\ PutsGo(server, server', puts, puts')
                 /\ \A q \in Requests : PutAt(puts'[q], i) /\ puts'[q].ws = ws => q = p
      <4>1. puts' \in [Requests -> Handler] /\ \A q \in Requests : puts'[q] = IF q = p THEN h ELSE puts[q]
        BY <1>0, <3>4
      <4>2. \A q \in Requests : q # p /\ PutAt(puts'[q], puts'[q].reg) => OldPut(q, puts, puts')
        BY <4>1 DEF PutAt, OldPut
      <4>3. \A q \in Requests : q # p /\ PutAt(puts'[q], i) => OldPut(q, puts, puts')
        BY <4>1 DEF PutAt, OldPut
      <4>4. NewPut(p, server, server', puts, puts')
        <5>1. puts'[p].reg = i /\ puts'[p].ws = ws
          BY <3>4, <4>1
        <5>2. server.regs[i].ws < ws /\ ws <= server'.regs[i].ws
          BY <3>2
        <5> HIDE DEF i
        <5> QED BY <1>2, <4>3, <5>1, <5>2 DEF NewPut
      <4>5. \A q \in Requests : PutAt(puts'[q], i) /\ puts'[q].ws = ws => q = p
        BY <3>3, <4>1
      <4> QED BY <1>0, <4>1, <4>2, <4>4, <4>5 DEF PutsGo
    <3>5. CASE Body[p] = reg.checksum
      <4>1. SinkFits(p, ws)
        BY <3>2, <3>4 DEF SinkFits
      <4>2. Sink(p, i, ws)
        BY <2>2, <3>5
      <4> QED BY <1>2, <4>1, <4>2, SinkGoes
    <3>6. CASE Body[p] # reg.checksum
      <4> DEFINE h == [puts[p] EXCEPT !.at = "accepted", !.ws = ws]
      <4>1. puts' = [puts EXCEPT ![p] = h] /\ inbox' = inbox
        BY <2>2, <3>6
      <4>2. h \in Handler /\ h.reg = i /\ h.ws = ws
        BY <1>2, <3>2 DEF Handler
      <4> HIDE DEF h
      <4> QED BY <3>4, <4>1, <4>2, InboxRests
    <3> QED BY <3>5, <3>6
  <2> QED BY <2>1, <2>2 DEF Accept
<1> QED BY <1>0, <1>1, <1>3, LoopStays, KnownStays, WritesStep

LEMMA WritesStart == Init => WritesInv
<1> SUFFICES ASSUME Init PROVE WritesInv
  OBVIOUS
<1>1. /\ \A p \in Requests : puts[p].at = "unsent"
      /\ server.regs = <<>> /\ loop = <<>> /\ \A c \in Contexts : inbox[c] = <<>>
  BY DEF Init
<1>2. Regs(server) = {}
  BY <1>1 DEF Regs
<1>3. WritesOK(server, sessions, loop, inbox, puts)
  BY <1>1, <1>2 DEF WritesOK, PutFits, PutAt
<1> QED BY <1>3, SharesStart DEF WritesInv

LEMMA WritesSteps == WritesInv /\ SharesInv' /\ [Next]_vars => WritesInv'
<1> SUFFICES ASSUME WritesInv, SharesInv', [Next]_vars PROVE WritesInv'
  OBVIOUS
<1>0. Going
  BY Grows DEF Going, WritesInv
<1>1. CASE UNCHANGED vars
  <2>1. puts' = puts /\ inbox' = inbox /\ sessions' = sessions /\ loop' = loop
    BY <1>1 DEF vars
  <2> QED BY <1>0, <2>1, SessionsNow, LoopStays, KnownStays, QuietWrites
<1>2. ASSUME NEW c \in Contexts, Threads(c) PROVE WritesInv'
  <2>1. ASSUME FlushOver(c) PROVE Finish(c)
    BY <2>1 DEF FlushOver
  <2> QED BY <1>0, <1>2, <2>1, CallsWrite, DetachWrites, AttachWrites, BeginsWrite DEF Threads
<1>3. ASSUME NEW c \in Contexts, Turns(c) PROVE WritesInv'
  BY <1>0, <1>3, ObservedWrites, DeliveredWrites, BeginsWrite DEF Turns
<1>4. ASSUME NEW i \in Regs(server), Dispatch(i) PROVE WritesInv'
  BY <1>0, <1>4, DispatchWrites
<1>5. ASSUME Loop \/ Tick \/ ExpireHolds PROVE WritesInv'
  BY <1>0, <1>5, CoroutinesWrite, DeliverWrites DEF Loop
<1>6. ASSUME NEW p \in Requests, Handles(p) PROVE WritesInv'
  BY <1>0, <1>6, WaitsWrite, AcceptWrites, SendWrites DEF Handles
<1>7. ASSUME Users PROVE WritesInv'
  <2>1. ASSUME NEW c \in Contexts, Close(c) \/ AttachFails(c) \/ LoadFails(c) PROVE WritesInv'
    BY <1>0, <2>1, CallsWrite
  <2>2. ASSUME NEW c \in Contexts, FlushTimeout(c) PROVE WritesInv'
    BY <1>0, <2>2, DetachWrites DEF FlushTimeout
  <2>3. ASSUME NEW c \in Contexts, NEW r \in Routes, Share(c, r) \/ LoadReserve(c, r) PROVE WritesInv'
    BY <1>0, <2>3, ReserveWrites
  <2>4. ASSUME NEW c \in Contexts, NEW i \in Regs(server), Unshare(c, i) \/ Edit(c, i) PROVE WritesInv'
    BY <1>0, <2>4, DetachWrites, EditWrites
  <2>5. ASSUME NEW p \in Requests, PutTimeout(p) \/ \E r \in Routes : Arrive(p, r) PROVE WritesInv'
    BY <1>0, <2>5, WaitsWrite
  <2> QED BY <1>7, <2>1, <2>2, <2>3, <2>4, <2>5 DEF Users
<1> QED BY <1>1, <1>2, <1>3, <1>4, <1>5, <1>6, <1>7 DEF Next

\* What the session of a route knows, and what its deliveries expect, is never the ws of a PUT that the Context
\* has not processed (_mount_observed, _mount_delivered, _mount_dispatch).
THEOREM WritesInductive == Spec => []WritesInv
<1>1. WritesInv /\ SharesInv /\ SharesInv' /\ [Next]_vars => WritesInv'
  BY WritesSteps
<1> QED BY <1>1, WritesStart, SharesInductive, PTL DEF Spec

\* Only another PUT overwrites one that is accepted and not processed: a delivery was dispatched for another ws
\* (_deliver, _put).
THEOREM PutSafeAlways == Spec => PutSafe
<1>1. ASSUME WritesInv, [Next]_vars, NEW p \in Requests, puts[p].at \in {"accepted", "sent"},
             puts[p].ws = server.regs[puts[p].reg].ws,
             server'.regs[puts[p].reg].checksum # server.regs[puts[p].reg].checksum
      PROVE  \E q \in Requests : puts[q].reg = puts[p].reg /\ puts[q].at = "reading" /\ puts'[q].at = "accepted"
  <2> DEFINE i == puts[p].reg
  <2>1. SharesInv /\ PutAt(puts[p], i) /\ i \in Regs(server)
    BY <1>1 DEF WritesInv, PutAt, SharesInv, RefsOK, PutsRefer, PutRefs
  <2>2. CASE Preserves(server, server')
    <3>1. ~server.regs[i].staged
      BY <2>1 DEF SharesInv, NewOK, NewAt, New, Unasked
    <3> QED BY <1>1, <2>1, <2>2, <3>1 DEF Preserves
  <2>3. CASE Delivers
    <3>1. Task1.reg = i
      BY <1>1, <2>1, <2>3 DEF Delivers, Installed
    <3>2. DeliveryFits(Task1, server, puts)
      <4>1. 1 \in DOMAIN loop /\ Task1 = loop[1]
        BY <2>1, <2>3, HeadTask DEF Delivers
      <4> QED BY <1>1, <4>1 DEF WritesInv, WritesOK
    <3> QED BY <1>1, <2>1, <2>3, <3>1, <3>2 DEF Delivers, DeliveryFits, WsFree
  <2>4. ASSUME NEW q \in Requests, Accepts(q)
        PROVE  puts[q].reg = i /\ puts[q].at = "reading" /\ puts'[q].at = "accepted"
    <3>1. puts[q].reg = i
      BY <1>1, <2>1, <2>4 DEF Accepts, Installed
    <3> QED BY <1>1, <2>4, <3>1 DEF Accepts
  <2> QED BY <1>1, <2>1, <2>2, <2>3, <2>4, StepValues
<1>2. WritesInv /\ [Next]_vars =>
        [\A p \in Requests :
           LET i == puts[p].reg IN
           /\ puts[p].at \in {"accepted", "sent"} /\ puts[p].ws = server.regs[i].ws
           /\ server'.regs[i].checksum # server.regs[i].checksum
           => \E q \in Requests : puts[q].reg = i /\ puts[q].at = "reading" /\ puts'[q].at = "accepted"]_vars
  BY <1>1
<1> QED BY <1>2, WritesInductive, PTL DEF Spec, PutSafe

=============================================================================
