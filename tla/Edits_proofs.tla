------------------------------ MODULE Edits_proofs ------------------------------
(***************************************************************************)
(* Edits for any number of callers, requests, celltypes and retries: what  *)
(* is committed fits the cell, no job is lost, and the requests implement  *)
(* AtomicCell.                                                             *)
(***************************************************************************)
EXTENDS Edits, TLAPS

-----------------------------------------------------------------------------
\* The derivation of the cell

\* The marks in a cell once its facts are there
Marks(c) == (IF c.root = None \/ c.edge = "root" THEN {} ELSE c.root.val.has)
            \cup (IF c.edge = "none" THEN {} ELSE {Foreign})

\* A view has a value if it is complete, and no other one.
ViewOK(v) == /\ v = View(v.state, v.val, v.keys)
             /\ v.state \in {"waiting", "failed", "complete", "unwired"}
             /\ v.state = "complete" => v.val \in Value
             /\ v.state # "complete" => v.val = None

LEMMA SourceOK == Source \in Value /\ Source.has = {Foreign} /\ Source.enc = SourceType
BY TypesAssumption DEF Source, Value

\* A conversion keeps the marks, and what is converted has the new celltype.
LEMMA TypedView ==
  ASSUME NEW val \in Value, NEW is \in Celltypes, NEW type \in Celltypes, NEW f, NEW v,
         v = Typed(val, is, type, f)
  PROVE  /\ ViewOK(v) /\ v.state # "unwired"
         /\ v.state = "complete" => v.val.has = val.has /\ v.val.enc \in {val.enc, type}
         /\ v.state = "complete" /\ is # type => v.val.enc = type
         /\ is = type => v.state = "complete" /\ v.val = val
<1>1. CASE is = type
  BY <1>1 DEF Typed, View, ViewOK
<1>2. CASE is # type
  <2> DEFINE key == [op |-> "convert", val |-> val, is |-> is, to |-> type]
  <2>1. v = Demand(key, f)
    BY <1>2 DEF Typed
  <2>2. Result(key) = [enc |-> type, has |-> val.has] /\ Result(key) \in Value
    BY DEF Result, Value
  <2> QED BY <1>2, <2>1, <2>2 DEF Demand, View, ViewOK
<1> QED BY <1>1, <1>2

LEMMA RootView ==
  ASSUME NEW c \in Cell, NEW f, NEW v, v = Root(c, f)
  PROVE  /\ ViewOK(v)
         /\ v.state = "unwired" <=> c.root = None
         /\ v.state = "complete" => v.val.has = c.root.val.has
<1>1. CASE c.root = None
  BY <1>1 DEF Root, View, ViewOK
<1>2. CASE c.root # None
  <2>1. c.root \in Producer /\ c.type \in Celltypes
    BY <1>2 DEF Cell
  <2>2. c.root.val \in Value /\ c.root.ct \in Celltypes
    BY <2>1 DEF Producer
  <2>3. v = Typed(c.root.val, c.root.ct, c.type, f)
    BY <1>2 DEF Root
  <2> QED BY <1>2, <2>1, <2>2, <2>3, TypedView
<1> QED BY <1>1, <1>2

LEMMA JoinedView ==
  ASSUME NEW c \in Cell, NEW f, NEW v, v = Joined(c, f)
  PROVE  /\ ViewOK(v) /\ v.state # "unwired"
         /\ v.state = "complete" =>
              /\ v.val.enc = c.type
              /\ v.val.has = (IF c.root = None THEN {} ELSE c.root.val.has) \cup {Foreign}
<1> DEFINE member == Typed(Source, SourceType, c.type, f)
           old == Root(c, f)
           val == IF old.val = None THEN [enc |-> c.type, has |-> {}] ELSE old.val
           join == Demand([op |-> "join", val |-> val, is |-> c.type, to |-> c.type], f)
<1>1. c.type \in Celltypes
  BY DEF Cell
<1>2. ViewOK(member) /\ member.state # "unwired"
  BY <1>1, SourceOK, TypesAssumption, TypedView
<1>3. ViewOK(old) /\ (old.state = "unwired" <=> c.root = None)
      /\ (old.state = "complete" => old.val.has = c.root.val.has)
  BY RootView
<1>4. CASE member.state # "complete"
  BY <1>2, <1>4 DEF Joined
<1>5. CASE member.state = "complete" /\ old.state \in {"waiting", "failed"}
  <2>1. v = [old EXCEPT !.keys = @ \cup member.keys]
    BY <1>5 DEF Joined
  <2> HIDE DEF old, member
  <2> QED BY <1>3, <1>5, <2>1 DEF ViewOK, View
<1>6. CASE member.state = "complete" /\ old.state \notin {"waiting", "failed"}
  <2>1. v = [join EXCEPT !.keys = @ \cup member.keys \cup old.keys]
    BY <1>6 DEF Joined
  <2>2. val \in Value /\ val.has = IF c.root = None THEN {} ELSE c.root.val.has
    <3> HIDE DEF old
    <3>1. CASE old.state = "complete"
      BY <1>3, <3>1, NamesAssumption DEF ViewOK
    <3>2. CASE old.state = "unwired"
      BY <1>1, <1>3, <3>2 DEF ViewOK, Value
    <3> QED BY <1>3, <1>6, <3>1, <3>2 DEF ViewOK
  <2> DEFINE key == [op |-> "join", val |-> val, is |-> c.type, to |-> c.type]
  <2>3. Result(key) = [enc |-> c.type, has |-> val.has \cup {Foreign}]
    BY DEF Result
  <2>4. Result(key) \in Value
    BY <1>1, <2>2, <2>3 DEF Value
  <2> HIDE DEF val, old, member
  <2>5. join = View(join.state, join.val, join.keys)
        /\ join.state \in {"waiting", "failed", "complete"}
        /\ (join.state = "complete" => join.val = Result(key))
        /\ (join.state # "complete" => join.val = None)
    BY DEF Demand, View
  <2> HIDE DEF join, key
  <2>6. v = View(join.state, join.val, join.keys \cup member.keys \cup old.keys)
    BY <2>1, <2>5 DEF View
  <2>7. v.state = join.state /\ v.val = join.val
    BY <2>6 DEF View
  <2>8. ViewOK(v)
    BY <2>4, <2>5, <2>6, <2>7 DEF ViewOK, View
  <2> QED BY <2>2, <2>3, <2>5, <2>7, <2>8
<1> QED BY <1>4, <1>5, <1>6

\* A complete cell shows its marks; only a cell without any input is unwired.
LEMMA ViewOf ==
  ASSUME NEW c \in Cell, NEW f, NEW v, v = CellView(c, f)
  PROVE  /\ ViewOK(v)
         /\ v.state = "unwired" <=> c.root = None /\ c.edge = "none"
         /\ v.state = "complete" => v.val.has = Marks(c)
         /\ v.state = "complete" /\ (c.root = None \/ c.edge # "none") /\ c.edge # "root"
            => v.val.enc = c.type
         /\ v.state = "complete" /\ c.edge = "root" => v.val.enc = c.type
<1>1. c.edge \in {"none", "root", "member"} /\ c.type \in Celltypes
  BY DEF Cell
<1>2. CASE c.edge = "none"
  <2>1. v = Root(c, f)
    BY <1>2 DEF CellView
  <2> QED BY <1>2, <2>1, RootView DEF Marks
<1>3. CASE c.edge = "root"
  <2>1. v = Typed(Source, SourceType, c.type, f)
    BY <1>3 DEF CellView
  <2>2. v.state = "complete" => v.val.enc = c.type
    BY <1>1, <2>1, SourceOK, TypesAssumption, TypedView
  <2> QED BY <1>1, <1>3, <2>1, <2>2, SourceOK, TypesAssumption, TypedView DEF Marks
<1>4. CASE c.edge = "member"
  <2>1. v = Joined(c, f)
    BY <1>4 DEF CellView
  <2> QED BY <1>4, <2>1, JoinedView DEF Marks
<1> QED BY <1>1, <1>2, <1>3, <1>4

\* The derivation looks at the facts that it notes as used only.
Same(keys, f, g) == \A k \in keys : (k \in DOMAIN g <=> k \in DOMAIN f) /\ (k \in DOMAIN f => g[k] = f[k])

LEMMA SameDemand ==
  ASSUME NEW key, NEW f, NEW g, Same({key}, f, g)
  PROVE  Demand(key, g) = Demand(key, f)
BY DEF Same, Demand

LEMMA DemandKeys ==
  ASSUME NEW key, NEW f
  PROVE  Demand(key, f).keys = {key}
BY DEF Demand, View

LEMMA SameTyped ==
  ASSUME NEW val, NEW is, NEW type, NEW f, NEW g, Same(Typed(val, is, type, f).keys, f, g)
  PROVE  Typed(val, is, type, g) = Typed(val, is, type, f)
<1> DEFINE key == [op |-> "convert", val |-> val, is |-> is, to |-> type]
<1> HIDE DEF key
<1>1. CASE is = type
  BY <1>1 DEF Typed
<1>2. CASE is # type
  <2>1. Typed(val, is, type, f) = Demand(key, f) /\ Typed(val, is, type, g) = Demand(key, g)
    BY <1>2 DEF Typed, key
  <2> QED BY <2>1, DemandKeys, SameDemand
<1> QED BY <1>1, <1>2

LEMMA SameRoot ==
  ASSUME NEW c, NEW f, NEW g, Same(Root(c, f).keys, f, g)
  PROVE  Root(c, g) = Root(c, f)
BY SameTyped DEF Root

LEMMA SameJoined ==
  ASSUME NEW c \in Cell, NEW f, NEW g, Same(Joined(c, f).keys, f, g)
  PROVE  Joined(c, g) = Joined(c, f)
<1> DEFINE member == Typed(Source, SourceType, c.type, f)
           old == Root(c, f)
           val == IF old.val = None THEN [enc |-> c.type, has |-> {}] ELSE old.val
           key == [op |-> "join", val |-> val, is |-> c.type, to |-> c.type]
           join == Demand(key, f)
           member2 == Typed(Source, SourceType, c.type, g)
           old2 == Root(c, g)
           val2 == IF old2.val = None THEN [enc |-> c.type, has |-> {}] ELSE old2.val
           key2 == [op |-> "join", val |-> val2, is |-> c.type, to |-> c.type]
           join2 == Demand(key2, g)
<1>1. Joined(c, f) = IF member.state # "complete" THEN member
                     ELSE IF old.state \in {"waiting", "failed"}
                     THEN [old EXCEPT !.keys = @ \cup member.keys]
                     ELSE [join EXCEPT !.keys = @ \cup member.keys \cup old.keys]
  BY DEF Joined
<1>2. Joined(c, g) = IF member2.state # "complete" THEN member2
                     ELSE IF old2.state \in {"waiting", "failed"}
                     THEN [old2 EXCEPT !.keys = @ \cup member2.keys]
                     ELSE [join2 EXCEPT !.keys = @ \cup member2.keys \cup old2.keys]
  BY DEF Joined
<1>3. old = View(old.state, old.val, old.keys)
  BY RootView DEF ViewOK
<1>4. join = View(join.state, join.val, join.keys) /\ join.keys = {key}
  BY DEF Demand, View
<1>5. Same(member.keys, f, g) => member2 = member
  BY SameTyped
<1>6. Same(old.keys, f, g) => old2 = old
  BY SameRoot
<1>7. old2 = old => key2 = key
  OBVIOUS
<1>8. key2 = key /\ Same({key}, f, g) => join2 = join
  BY SameDemand
<1> HIDE DEF member, old, key, join, member2, old2, key2, join2
<1>9. CASE member.state # "complete"
  BY <1>1, <1>2, <1>5, <1>9
<1>10. CASE member.state = "complete" /\ old.state \in {"waiting", "failed"}
  <2>1. Joined(c, f).keys = old.keys \cup member.keys
    BY <1>1, <1>3, <1>10 DEF View
  <2>2. Same(old.keys, f, g) /\ Same(member.keys, f, g)
    BY <2>1 DEF Same
  <2> QED BY <1>1, <1>2, <1>5, <1>6, <1>10, <2>2
<1>11. CASE member.state = "complete" /\ old.state \notin {"waiting", "failed"}
  <2>1. Joined(c, f).keys = {key} \cup member.keys \cup old.keys
    BY <1>1, <1>4, <1>11 DEF View
  <2>2. Same(old.keys, f, g) /\ Same(member.keys, f, g) /\ Same({key}, f, g)
    BY <2>1 DEF Same
  <2> QED BY <1>1, <1>2, <1>5, <1>6, <1>7, <1>8, <1>11, <2>2
<1> QED BY <1>9, <1>10, <1>11

LEMMA SameView ==
  ASSUME NEW c \in Cell, NEW f, NEW g, Same(CellView(c, f).keys, f, g)
  PROVE  CellView(c, g) = CellView(c, f)
<1>1. c.edge \in {"none", "root", "member"}
  BY DEF Cell
<1>2. CASE c.edge = "none"
  BY <1>2, SameRoot DEF CellView
<1>3. CASE c.edge = "root"
  BY <1>3, SameTyped DEF CellView
<1>4. CASE c.edge = "member"
  BY <1>4, SameJoined DEF CellView
<1> QED BY <1>1, <1>2, <1>3, <1>4

\* The end of a turn launches what is not served yet.
LEMMA DeriveJobs ==
  ASSUME NEW c2 \in Cell, NEW f, NEW j, Derive(c2, f, j),
         \A w \in work : w = Task(w.key, w.n, w.live),
         \A k \in DOMAIN j : \/ k \in DOMAIN f
                             \/ \E w \in work : w.key = k /\ w.n = j[k] /\ w.live
                             \/ \E r \in replies' : r.key = k
  PROVE  JobsOK'
<1> DEFINE used == CellView(c2, f).keys
           new == used \ (DOMAIN f \cup DOMAIN j)
           gone(w) == w.key \in DOMAIN j \ used /\ w.n = j[w.key]
<1>1. /\ cell' = c2 /\ facts' = [k \in DOMAIN f \cap used |-> f[k]]
      /\ jobs' = [k \in used \ DOMAIN f |-> IF k \in new THEN Fresh(k) ELSE j[k]]
      /\ work' = {[w EXCEPT !.live = @ /\ ~gone(w)] : w \in work}
                 \cup {[key |-> k, n |-> Fresh(k), live |-> TRUE] : k \in new}
  BY DEF Derive, Listed
<1>2. Same(used, f, facts')
  BY <1>1 DEF Same
<1> HIDE DEF used
<1>3. Now'.keys = used
  BY <1>1, <1>2, SameView DEF Now, used
<1>4. Now'.keys \ DOMAIN facts' = DOMAIN jobs'
  BY <1>1, <1>3
<1>5. ASSUME NEW k \in DOMAIN jobs'
      PROVE  Served(k)'
  <2>1. k \in used \ DOMAIN f
    BY <1>1, <1>5
  <2>2. CASE k \in new
    <3>1. [key |-> k, n |-> Fresh(k), live |-> TRUE] \in work' /\ jobs'[k] = Fresh(k)
      BY <1>1, <2>1, <2>2
    <3> QED BY <3>1 DEF Served
  <2>3. CASE k \notin new
    <3>1. k \in DOMAIN j /\ jobs'[k] = j[k]
      BY <1>1, <2>1, <2>3
    <3>2. ASSUME NEW w \in work, w.key = k, w.n = j[k], w.live
          PROVE  Served(k)'
      <4>1. [w EXCEPT !.live = @ /\ ~gone(w)] \in work'
        BY <1>1
      <4>2. ~gone(w)
        BY <2>1, <3>2
      <4>3. PICK w2 \in work' : w2 = [w EXCEPT !.live = @ /\ ~gone(w)]
        BY <4>1
      <4>4. w = Task(k, j[k], TRUE)
        BY <3>2
      <4>5. w2.key = k /\ w2.n = j[k] /\ w2.live
        BY <4>2, <4>3, <4>4 DEF Task
      <4> QED BY <3>1, <4>5 DEF Served
    <3> QED BY <2>1, <3>1, <3>2 DEF Served
  <2> QED BY <2>2, <2>3
<1>6. ASSUME NEW w \in work'
      PROVE  w = Task(w.key, w.n, w.live)
  <2>1. CASE w \in {[key |-> k, n |-> Fresh(k), live |-> TRUE] : k \in new}
    BY <2>1 DEF Task
  <2>2. CASE \E v \in work : w = [v EXCEPT !.live = @ /\ ~gone(v)]
    <3>1. PICK v \in work : w = [v EXCEPT !.live = @ /\ ~gone(v)]
      BY <2>2
    <3>2. v = Task(v.key, v.n, v.live)
      OBVIOUS
    <3>3. w = Task(v.key, v.n, w.live)
      BY <3>1, <3>2 DEF Task
    <3> QED BY <3>3 DEF Task
  <2> QED BY <1>1, <2>1, <2>2
<1> QED BY <1>4, <1>5, <1>6 DEF JobsOK

-----------------------------------------------------------------------------
\* The callers

\* c goes from one stage to another; the others stay where they are.
Moves(c) ==
  /\ \A d \in Callers : d # c => /\ request'[d] = request[d] /\ pc'[d] = pc[d] /\ base'[d] = base[d]
                                 /\ tries'[d] = tries[d] /\ answer'[d] = answer[d]
  /\ request' \in [Callers -> Request \cup {None}] /\ request'[c] \in Requests[c] \cup {None}
  /\ pc' \in [Callers -> {"idle", "begin", "waiting", "based", "done"}]
  /\ base' \in [Callers -> Base \cup {None}]
  /\ tries' \in [Callers -> 0 .. Retries]
  /\ answer' \in [Callers -> {"none", "ok", "error"}]

LEMMA Blanks ==
  ASSUME EInv, NEW c \in Callers, Moves(c), pc[c] # "done", Blanked
  PROVE  Blanked'
<1>1. PICK d \in Callers : Kind(d) = "blank" /\ answer[d] = "ok"
  BY DEF Blanked
<1>2. answer[c] = "none"
  BY DEF EInv, StageOK
<1>3. d # c /\ request'[d] = request[d] /\ answer'[d] = answer[d]
  BY <1>1, <1>2 DEF Moves
<1> QED BY <1>1, <1>3 DEF Blanked, Kind

LEMMA CallTypes ==
  ASSUME EInv, NEW c \in Callers, Moves(c), cell' \in Cell, rev' \in Nat
  PROVE  TypeOK' /\ request' \in [Callers -> Request \cup {None}]
<1>1. TypeOK
  BY DEF EInv
<1>2. \A d \in Callers : request'[d] \in Requests[d] \cup {None}
  BY <1>1 DEF TypeOK, Moves
<1> QED BY <1>2 DEF TypeOK, Moves

\* The cell stays as it is.
LEMMA CallerStep ==
  ASSUME EInv, NEW c \in Callers, Moves(c), pc[c] # "done",
         UNCHANGED <<cell, rev, facts, jobs, work, replies>>, StageOK(c)', BaseOK(c)'
  PROVE  EInv'
<1>1. TypeOK' /\ request' \in [Callers -> Request \cup {None}]
  BY CallTypes DEF EInv, TypeOK
<1>2. RootOK' /\ JobsOK' /\ FactsOK'
  BY DEF EInv, RootOK, JobsOK, Served, Now, FactsOK, Sound
<1>3. ASSUME NEW d \in Callers, d # c
      PROVE  StageOK(d)' /\ BaseOK(d)'
  <2>1. StageOK(d) /\ BaseOK(d)
    BY DEF EInv
  <2>2. /\ request'[d] = request[d] /\ pc'[d] = pc[d] /\ base'[d] = base[d]
        /\ tries'[d] = tries[d] /\ answer'[d] = answer[d]
    BY <1>3 DEF Moves
  <2>3. Blanked => Blanked'
    BY Blanks
  <2>4. cell' = cell /\ rev' = rev
    OBVIOUS
  <2> QED BY <2>1, <2>2, <2>3, <2>4 DEF StageOK, BaseOK, Kind
<1>4. \A d \in Callers : StageOK(d)' /\ BaseOK(d)'
  BY <1>3
<1> QED BY <1>1, <1>2, <1>4 DEF EInv

\* A turn that applies the request of c leaves the cell as c2.
LEMMA TurnStep ==
  ASSUME EInv, NEW c \in Callers, pc[c] \in {"begin", "based"}, NEW c2 \in Cell, NEW bump \in {0, 1},
         NEW f, Sound(f), Derive(c2, f, jobs), rev' = rev + bump, replies' = replies, Return(c, "ok"),
         c2.edge = "root" => c2.root = None,
         c2.root # None /\ Foreign \in c2.root.val.has => c2.root.val.has \cap Callers # {},
         \/ bump = 1
         \/ c2.type = cell.type /\ (cell.root = None => c2.root = None)
         \/ c2.root = None /\ Kind(c) = "blank"
  PROVE  EInv' /\ Moves(c) /\ cell' = c2
<1>1. TypeOK /\ JobsOK /\ request \in [Callers -> Request \cup {None}] /\ StageOK(c)
  BY DEF EInv
<1>2. cell' = c2
  BY DEF Derive
<1>3. Moves(c) /\ answer'[c] = "ok" /\ pc'[c] = "done" /\ request' = request
  BY <1>1 DEF TypeOK, Return, Moves
<1>4. TypeOK' /\ request' \in [Callers -> Request \cup {None}]
  <2>1. rev' \in Nat
    BY <1>1 DEF TypeOK
  <2> QED BY <1>2, <1>3, <2>1, CallTypes
<1>5. RootOK'
  BY <1>2 DEF RootOK
<1>6. JobsOK'
  BY <1>1, DeriveJobs DEF JobsOK, Served
<1>6a. FactsOK'
  <2>1. facts' = [k \in DOMAIN f \cap CellView(c2, f).keys |-> f[k]]
    BY DEF Derive
  <2>2. Sound(facts')
    BY <2>1 DEF Sound
  <2> QED BY <2>2 DEF EInv, FactsOK, Sound
<1>7. StageOK(c)' /\ BaseOK(c)'
  BY <1>1, <1>3 DEF StageOK, BaseOK
<1>8. ASSUME NEW d \in Callers, d # c
      PROVE  StageOK(d)' /\ BaseOK(d)'
  <2>1. StageOK(d) /\ BaseOK(d)
    BY DEF EInv
  <2>2. /\ request'[d] = request[d] /\ pc'[d] = pc[d] /\ base'[d] = base[d]
        /\ tries'[d] = tries[d] /\ answer'[d] = answer[d]
    BY <1>3, <1>8 DEF Moves
  <2>3. (Blanked => Blanked') /\ (Kind(c) = "blank" => Blanked')
    BY <1>3, Blanks DEF Blanked, Kind
  <2>4. StageOK(d)'
    BY <2>1, <2>2 DEF StageOK, Kind
  <2>5. ASSUME pc[d] = "based"
        PROVE  BaseOK(d)'
    <3>1. base[d] \in Base /\ base[d].rev \in Nat /\ rev \in Nat
      BY <1>1, <2>1, <2>5 DEF TypeOK, StageOK, Base
    <3> QED BY <1>2, <2>1, <2>2, <2>3, <2>5, <3>1 DEF BaseOK, Kind
  <2> QED BY <2>2, <2>4, <2>5 DEF BaseOK
<1>9. \A d \in Callers : StageOK(d)' /\ BaseOK(d)'
  BY <1>7, <1>8
<1> QED BY <1>2, <1>3, <1>4, <1>5, <1>6, <1>6a, <1>9 DEF EInv

\* What the cell shows now
LEMMA NowOK ==
  ASSUME EInv
  PROVE  /\ cell \in Cell /\ ViewOK(Now) /\ Current = Now.val /\ Current \in Value \cup {None}
         /\ Now.state = "complete" <=> Current # None
         /\ Now.state = "unwired" <=> cell.root = None /\ cell.edge = "none"
         /\ Current # None => Current.has = Marks(cell)
         /\ Current # None /\ Current.has = {Foreign} => Current.enc = cell.type
<1>1. cell \in Cell
  BY DEF EInv, TypeOK
<1>2. /\ ViewOK(Now)
      /\ Now.state = "unwired" <=> cell.root = None /\ cell.edge = "none"
      /\ Now.state = "complete" => Now.val.has = Marks(cell)
      /\ Now.state = "complete" /\ cell.edge # "none" => Now.val.enc = cell.type
  BY <1>1, ViewOf DEF Now
<1>3. Now.state = "complete" <=> Current # None
  BY <1>2, NamesAssumption DEF ViewOK, Current
<1>4. ASSUME Now.state = "complete", cell.edge = "none", Now.val.has = {Foreign}
      PROVE  FALSE
  <2>1. cell.root # None /\ cell.root.val.has = {Foreign}
    BY <1>2, <1>4 DEF Marks
  <2>2. {Foreign} \cap Callers # {}
    BY <2>1 DEF EInv, RootOK
  <2> QED BY <2>2, NamesAssumption
<1> QED BY <1>1, <1>2, <1>3, <1>4 DEF Current, ViewOK

LEMMA BeginStep ==
  ASSUME EInv, NEW c \in Callers, NEW r \in Requests[c], Begin(c, r)
  PROVE  EInv' /\ Moves(c)
<1>1. TypeOK /\ request \in [Callers -> Request \cup {None}] /\ StageOK(c) /\ r \in Request /\ r # None
  BY RequestsAssumption, NamesAssumption DEF EInv
<1>2. Moves(c) /\ pc'[c] = "begin" /\ request'[c] = r /\ answer' = answer /\ pc[c] = "idle"
  BY <1>1 DEF Begin, Moves, TypeOK
<1>3. UNCHANGED <<cell, rev, facts, jobs, work, replies>>
  BY DEF Begin, factVars
<1>4. StageOK(c)' /\ BaseOK(c)'
  BY <1>1, <1>2 DEF StageOK, BaseOK
<1> QED BY <1>2, <1>3, <1>4, CallerStep

LEMMA FailStep ==
  ASSUME EInv, NEW c \in Callers, pc[c] \in {"begin", "based"}, Fail(c)
  PROVE  EInv' /\ Moves(c)
<1>1. TypeOK /\ request \in [Callers -> Request \cup {None}] /\ StageOK(c)
  BY DEF EInv
<1>2. /\ Moves(c) /\ pc'[c] = "done" /\ request' = request /\ answer'[c] = "error"
      /\ UNCHANGED <<cell, rev, facts, jobs, work, replies>>
  BY <1>1 DEF Fail, Return, Moves, TypeOK, factVars
<1>3. StageOK(c)' /\ BaseOK(c)'
  BY <1>1, <1>2 DEF StageOK, BaseOK
<1> QED BY <1>2, <1>3, CallerStep

\* Without a value there is no root, as no conversion has failed.
EmptyFits == "convert" \notin Failing /\ Current = None => cell.root = None

LEMMA NoFailedRoot ==
  ASSUME EInv, Now.state \in {"complete", "unwired"} \/ (Now.state = "failed" /\ cell.edge = "none")
  PROVE  EmptyFits
<1>1. CASE Now.state \in {"complete", "unwired"}
  BY <1>1, NowOK DEF EmptyFits
<1>2. CASE Now.state = "failed" /\ cell.edge = "none"
  <2> SUFFICES ASSUME "convert" \notin Failing, cell.root # None
               PROVE  FALSE
    BY DEF EmptyFits
  <2> DEFINE key == [op |-> "convert", val |-> cell.root.val, is |-> cell.root.ct, to |-> cell.type]
  <2>1. Now = Typed(cell.root.val, cell.root.ct, cell.type, facts)
    BY <1>2 DEF Now, CellView, Root
  <2>2. cell.root.ct # cell.type
    BY <1>2, <2>1 DEF Typed, View
  <2>3. Now = Demand(key, facts)
    BY <2>1, <2>2 DEF Typed
  <2>4. key \in DOMAIN facts /\ ~facts[key]
    BY <1>2, <2>3 DEF Demand, View
  <2> QED BY <2>4 DEF EInv, FactsOK, Sound
<1> QED BY <1>1, <1>2

LEMMA SnapshotStep ==
  ASSUME EInv, NEW c \in Callers, pc[c] = "begin", NEW next \in {"waiting", "based"}, Snapshot(c, next),
         Kind(c) \in PartKinds \/ (next = "based" /\ Kind(c) \in {"retype", "whole", "set"}),
         Kind(c) \notin {"whole", "set"} => CanTry(c),
         next = "based" /\ Kind(c) \in PartKinds => EmptyFits
  PROVE  EInv' /\ Moves(c)
<1>1. TypeOK /\ request \in [Callers -> Request \cup {None}] /\ StageOK(c)
  BY DEF EInv
<1> DEFINE b == [val |-> Current, type |-> cell.type, rev |-> rev]
<1>2. b \in Base /\ b # None
  <2>1. cell.type \in Celltypes /\ rev \in Nat
    BY <1>1 DEF TypeOK, Cell
  <2>2. b \in Base
    BY <2>1, NowOK DEF Base
  <2> QED BY <2>2, NamesAssumption DEF Base
<1> HIDE DEF b
<1>3. /\ base' = [base EXCEPT ![c] = b] /\ pc' = [pc EXCEPT ![c] = next]
      /\ UNCHANGED <<request, tries, answer>>
      /\ UNCHANGED <<cell, rev, facts, jobs, work, replies>>
  BY DEF Snapshot, factVars, b
<1>4. Moves(c) /\ pc'[c] = next /\ base'[c] = b
  BY <1>1, <1>2, <1>3 DEF Moves, TypeOK
<1>5. StageOK(c)'
  BY <1>1, <1>2, <1>3, <1>4 DEF StageOK, Kind, CanTry
<1>6. BaseOK(c)'
  <2>1. rev \in Nat
    BY <1>1 DEF TypeOK
  <2> QED BY <1>3, <1>4, <2>1, NowOK DEF BaseOK, b, EmptyFits, Kind
<1> QED BY <1>3, <1>4, <1>5, <1>6, CallerStep

LEMMA RetryStep ==
  ASSUME EInv, NEW c \in Callers, pc[c] \in {"waiting", "based"}, Kind(c) \notin {"whole", "set"},
         Retry(c, "begin")
  PROVE  EInv' /\ Moves(c)
<1>1. TypeOK /\ request \in [Callers -> Request \cup {None}] /\ StageOK(c)
  BY DEF EInv
<1>2. tries[c] + 1 \in 0 .. Retries
  BY <1>1, RetriesAssumption DEF StageOK, TypeOK
<1>3. /\ Moves(c) /\ pc'[c] = "begin" /\ UNCHANGED <<request, answer>>
      /\ UNCHANGED <<cell, rev, facts, jobs, work, replies>>
  BY <1>1, <1>2 DEF Retry, Moves, TypeOK, factVars
<1>4. StageOK(c)' /\ BaseOK(c)'
  BY <1>1, <1>3 DEF StageOK, BaseOK, Kind
<1> QED BY <1>3, <1>4, CallerStep

-----------------------------------------------------------------------------
\* The requests as AtomicCell sees them

\* A step of AtomicCell, or of nothing that it sees
Move == [Atomic!Next]_(Atomic!vars)

\* Nothing that AtomicCell sees
LEMMA SameSteps ==
  ASSUME Content' = Content, UNCHANGED <<request, answer>>
  PROVE  Move
<1>1. [c \in Callers |-> Abstract(Kind(c))]' = [c \in Callers |-> Abstract(Kind(c))]
  BY DEF Kind
<1> QED BY <1>1 DEF Move, Atomic!vars

LEMMA SameContent ==
  ASSUME cell' = cell
  PROVE  Content' = Content
BY DEF Content

LEMMA AskSteps ==
  ASSUME EInv, NEW c \in Callers, NEW r \in Requests[c], Begin(c, r)
  PROVE  Move
<1>1. /\ request \in [Callers -> Request \cup {None}] /\ r \in Request /\ r # None /\ request[c] = None
      /\ request' = [request EXCEPT ![c] = r] /\ cell' = cell /\ answer' = answer
  BY RequestsAssumption, NamesAssumption DEF EInv, StageOK, Begin
<1>2. Abstract(Kind(c)) = "none"
  BY <1>1 DEF Kind, Abstract
<1>3. Abstract(r.kind) \in Atomic!Kinds
  BY <1>1 DEF Request, PartKinds, Abstract, Atomic!Kinds
<1>4. \A d \in Callers : Kind(d)' = IF d = c THEN r.kind ELSE Kind(d)
  BY <1>1 DEF Kind
<1>5. [d \in Callers |-> Abstract(Kind(d))]'
      = [[d \in Callers |-> Abstract(Kind(d))] EXCEPT ![c] = Abstract(r.kind)]
  BY <1>4
<1>6. Atomic!Ask(c, Abstract(r.kind))
  BY <1>1, <1>2, <1>5, SameContent DEF Atomic!Ask
<1> QED BY <1>3, <1>6 DEF Move, Atomic!Next

LEMMA FailSteps ==
  ASSUME EInv, NEW c \in Callers, pc[c] \in {"begin", "based"}, Fail(c)
  PROVE  Move
<1>1. /\ answer[c] = "none" /\ answer' = [answer EXCEPT ![c] = "error"]
      /\ request' = request /\ cell' = cell
  BY DEF EInv, StageOK, Fail, Return
<1>2. [d \in Callers |-> Abstract(Kind(d))]' = [d \in Callers |-> Abstract(Kind(d))]
  BY <1>1 DEF Kind
<1>3. Atomic!Refuse(c)
  BY <1>1, <1>2, SameContent DEF Atomic!Refuse, Atomic!Answer
<1> QED BY <1>3 DEF Move, Atomic!Next

\* The content c2 is what the request of c makes of the content that is there.
Takes(c, c2) ==
  LET kind == Abstract(Kind(c))
  IN  \/ kind \notin {"none", "unplug"} /\ Marks(c2) = Atomic!Effect(kind, c, Marks(cell))
      \/ kind = "unplug" /\ Marks(c2) \in {Marks(cell), Marks(cell) \ {Foreign}}

LEMMA ContentMarks == Content = Marks(cell)
BY DEF Content, Marks

LEMMA TurnSteps ==
  ASSUME EInv, NEW c \in Callers, pc[c] \in {"begin", "based"}, NEW c2, cell' = c2, Return(c, "ok"),
         Takes(c, c2)
  PROVE  Move
<1>1. /\ answer[c] = "none" /\ answer' = [answer EXCEPT ![c] = "ok"] /\ request' = request
  BY DEF EInv, StageOK, Return
<1>2. [d \in Callers |-> Abstract(Kind(d))]' = [d \in Callers |-> Abstract(Kind(d))]
  BY <1>1 DEF Kind
<1>3. Content' = Marks(c2) /\ Content = Marks(cell)
  BY DEF Content, Marks
<1>4. Atomic!Answer(c, "ok")
  BY <1>1, <1>2 DEF Atomic!Answer
<1> DEFINE kind == Abstract(Kind(c))
<1>5. CASE kind \notin {"none", "unplug"} /\ Marks(c2) = Atomic!Effect(kind, c, Marks(cell))
  <2>1. Atomic!Apply(c)
    BY <1>3, <1>4, <1>5 DEF Atomic!Apply
  <2> QED BY <2>1 DEF Move, Atomic!Next
<1>7. CASE kind = "unplug" /\ Marks(c2) \in {Marks(cell), Marks(cell) \ {Foreign}}
  <2>1. Atomic!Unplug(c)
    BY <1>3, <1>4, <1>7 DEF Atomic!Unplug
  <2> QED BY <2>1 DEF Move, Atomic!Next
<1> QED BY <1>5, <1>7 DEF Takes

-----------------------------------------------------------------------------
\* The steps of the callers

\* Steps that apply nothing
LEMMA AsideSteps ==
  ASSUME EInv, NEW c \in Callers, pc[c] \in {"begin", "based"},
         \/ Fail(c)
         \/ /\ pc[c] = "begin" /\ (Kind(c) \notin {"whole", "set"} => CanTry(c))
            /\ \/ /\ Snapshot(c, "based") /\ Kind(c) \in PartKinds \cup {"retype", "whole", "set"}
                  /\ Kind(c) \in PartKinds => EmptyFits
               \/ Snapshot(c, "waiting") /\ Kind(c) \in PartKinds
         \/ pc[c] = "based" /\ Kind(c) \notin {"whole", "set"} /\ Retry(c, "begin")
  PROVE  EInv' /\ Move
<1>1. CASE Fail(c)
  BY <1>1, FailStep, FailSteps
<1>2. CASE /\ pc[c] = "begin" /\ (Kind(c) \notin {"whole", "set"} => CanTry(c))
           /\ \/ /\ Snapshot(c, "based") /\ Kind(c) \in PartKinds \cup {"retype", "whole", "set"}
                 /\ Kind(c) \in PartKinds => EmptyFits
              \/ Snapshot(c, "waiting") /\ Kind(c) \in PartKinds
  <2>1. PICK next \in {"waiting", "based"} :
          /\ Snapshot(c, next) /\ (next = "based" /\ Kind(c) \in PartKinds => EmptyFits)
          /\ Kind(c) \in PartKinds \/ (next = "based" /\ Kind(c) \in {"retype", "whole", "set"})
    BY <1>2
  <2>2. UNCHANGED <<request, answer, cell>>
    BY <2>1 DEF Snapshot
  <2> QED BY <1>2, <2>1, <2>2, SnapshotStep, SameContent, SameSteps
<1>3. CASE pc[c] = "based" /\ Kind(c) \notin {"whole", "set"} /\ Retry(c, "begin")
  <2>1. UNCHANGED <<request, answer, cell>>
    BY <1>3 DEF Retry
  <2> QED BY <1>3, <2>1, RetryStep, SameContent, SameSteps
<1> QED BY <1>1, <1>2, <1>3

LEMMA WaitEndsSteps ==
  ASSUME EInv, NEW c \in Callers, WaitEnds(c)
  PROVE  EInv' /\ Move
<1>1. pc[c] = "waiting" /\ Retry(c, "begin") /\ Kind(c) \notin {"whole", "set"}
  BY DEF WaitEnds, EInv, StageOK, PartKinds
<1>2. UNCHANGED <<request, answer, cell>>
  BY <1>1 DEF Retry
<1> QED BY <1>1, <1>2, RetryStep, SameContent, SameSteps

LEMMA UpdateBaseSteps ==
  ASSUME EInv, NEW c \in Callers, UpdateBase(c)
  PROVE  EInv' /\ Move
<1>1. pc[c] = "begin" /\ Kind(c) \in PartKinds /\ CanTry(c)
      /\ (Fail(c) \/ Snapshot(c, "waiting") \/ (Snapshot(c, "based") /\ EmptyFits))
  BY NoFailedRoot DEF UpdateBase, Asks
<1> QED BY <1>1, AsideSteps

LEMMA QuietSteps ==
  ASSUME EInv, NEW c \in Callers, GiveUp(c) \/ ConfigSnapshot(c) \/ NodeSnapshot(c)
  PROVE  EInv' /\ Move
<1>1. CASE GiveUp(c)
  BY <1>1, AsideSteps DEF GiveUp, Asks
<1>2. CASE ConfigSnapshot(c)
  BY <1>2, AsideSteps DEF ConfigSnapshot, Asks, PartKinds
<1>3. CASE NodeSnapshot(c)
  BY <1>3, AsideSteps DEF NodeSnapshot, Asks, PartKinds
<1> QED BY <1>1, <1>2, <1>3

\* Steps that apply the request
LEMMA AppliedSteps ==
  ASSUME EInv, NEW c \in Callers, pc[c] \in {"begin", "based"}, NEW c2 \in Cell, NEW bump \in {0, 1},
         Turn(c, c2, bump),
         c2.edge = "root" => c2.root = None,
         c2.root # None /\ Foreign \in c2.root.val.has => c2.root.val.has \cap Callers # {},
         \/ bump = 1
         \/ c2.type = cell.type /\ (cell.root = None => c2.root = None)
         \/ c2.root = None /\ Kind(c) = "blank"
  PROVE  EInv' /\ (Takes(c, c2) => Move)
<1>1. /\ Derive(c2, facts, jobs) /\ rev' = rev + bump /\ replies' = replies /\ Return(c, "ok")
      /\ Sound(facts)
  BY DEF Turn, EInv, FactsOK
<1>2. EInv' /\ cell' = c2
  BY <1>1, TurnStep
<1> QED BY <1>1, <1>2, TurnSteps

\* Who has begun has asked for something.
LEMMA Asked ==
  ASSUME EInv, NEW c \in Callers, pc[c] \in {"begin", "based"}
  PROVE  request[c] \in Request /\ Kind(c) = request[c].kind /\ request[c].type \in Celltypes
BY DEF EInv, StageOK, Kind, Request

LEMMA CellParts ==
  ASSUME EInv
  PROVE  /\ cell = [root |-> cell.root, type |-> cell.type, edge |-> cell.edge]
         /\ cell.root \in Producer \cup {None} /\ cell.type \in Celltypes
         /\ cell.edge \in {"none", "root", "member"}
         /\ cell.edge = "root" => cell.root = None
         /\ cell.root # None /\ Foreign \in cell.root.val.has => cell.root.val.has \cap Callers # {}
BY DEF EInv, TypeOK, RootOK, Cell

LEMMA Changed ==
  ASSUME EInv, NEW type, NEW edge
  PROVE  /\ [cell EXCEPT !.type = type] = [root |-> cell.root, type |-> type, edge |-> cell.edge]
         /\ [cell EXCEPT !.edge = edge] = [root |-> cell.root, type |-> cell.type, edge |-> edge]
<1>1. cell = [root |-> cell.root, type |-> cell.type, edge |-> cell.edge]
  BY CellParts
<1>2. PICK r, t, e : cell = [root |-> r, type |-> t, edge |-> e]
  BY <1>1
<1>3. cell.root = r /\ cell.type = t /\ cell.edge = e
  BY <1>2
<1>4. [cell EXCEPT !.type = type] = [root |-> r, type |-> type, edge |-> e]
  BY <1>2
<1>5. [cell EXCEPT !.edge = edge] = [root |-> r, type |-> t, edge |-> edge]
  BY <1>2
<1> QED BY <1>3, <1>4, <1>5

\* A write that encodes for the celltype of its snapshot
LEMMA Written ==
  ASSUME NEW enc \in Celltypes, NEW ct \in Celltypes, NEW has \in SUBSET (Callers \cup {Foreign, Loaded}),
         NEW type \in Celltypes, NEW edge \in {"none", "root", "member"}, NEW c2,
         c2 = [root |-> [val |-> [enc |-> enc, has |-> has], ct |-> ct], type |-> type, edge |-> edge]
  PROVE  /\ c2 \in Cell /\ c2.root # None /\ c2.root.val.has = has /\ c2.type = type /\ c2.edge = edge
         /\ edge # "root" => Marks(c2) = has \cup (IF edge = "none" THEN {} ELSE {Foreign})
<1> DEFINE root == [val |-> [enc |-> enc, has |-> has], ct |-> ct]
<1>1. [enc |-> enc, has |-> has] \in Value
  BY DEF Value
<1>2. root \in Producer /\ root.val.has = has
  BY <1>1 DEF Producer
<1>3. root # None
  BY <1>2, NamesAssumption
<1> HIDE DEF root
<1>4. c2 = [root |-> root, type |-> type, edge |-> edge]
  BY DEF root
<1> QED BY <1>2, <1>3, <1>4 DEF Cell, Marks

LEMMA CellOperationSteps ==
  ASSUME EInv, NEW c \in Callers, CellOperation(c)
  PROVE  EInv' /\ Move
<1>1. CASE Blocked(c) /\ Fail(c)
  BY <1>1, AsideSteps DEF CellOperation
<1>2. CASE ~(Blocked(c) /\ Fail(c))
  <2> DEFINE c2 == [root |-> [val |-> [enc |-> base[c].type, has |-> {c}], ct |-> cell.type],
                    type |-> cell.type, edge |-> "none"]
  <2>1. pc[c] = "based" /\ Kind(c) \in {"whole", "set"} /\ Turn(c, c2, 1)
    BY <1>2 DEF CellOperation
  <2>2. base[c].type \in Celltypes
    BY <2>1 DEF EInv, StageOK, TypeOK, Base
  <2> HIDE DEF c2
  <2>4. c2 \in Cell /\ c2.root.val.has = {c} /\ c2.edge = "none" /\ Marks(c2) = {c}
    BY <2>2, CellParts, Written DEF c2
  <2>5. Takes(c, c2)
    BY <2>1, <2>4 DEF Takes, Abstract, Atomic!Effect
  <2> QED BY <2>1, <2>4, <2>5, AppliedSteps
<1> QED BY <1>1, <1>2

LEMMA ReplaceSteps ==
  ASSUME EInv, NEW c \in Callers, ReplaceBlank(c) \/ ReplaceLiteral(c)
  PROVE  EInv' /\ Move
<1>1. CASE ReplaceBlank(c)
  <2> DEFINE c2 == [root |-> None, type |-> request[c].type, edge |-> "none"]
  <2>1. pc[c] = "begin" /\ Kind(c) = "blank" /\ Turn(c, c2, 0)
    BY <1>1 DEF ReplaceBlank, Asks
  <2>2. c2 \in Cell /\ c2.root = None /\ c2.edge = "none" /\ Marks(c2) = {}
    BY <2>1, Asked DEF Cell, Marks
  <2> HIDE DEF c2
  <2>3. Takes(c, c2)
    BY <2>1, <2>2 DEF Takes, Abstract, Atomic!Effect
  <2> QED BY <2>1, <2>2, <2>3, AppliedSteps
<1>2. CASE ReplaceLiteral(c)
  <2> DEFINE c2 == [root |-> [val |-> [enc |-> request[c].type, has |-> {c}], ct |-> request[c].type],
                    type |-> request[c].type, edge |-> "none"]
  <2>1. pc[c] = "begin" /\ Kind(c) = "literal" /\ Turn(c, c2, 1)
    BY <1>2 DEF ReplaceLiteral, Asks
  <2>2. c2 \in Cell /\ c2.root.val.has = {c} /\ c2.edge = "none" /\ Marks(c2) = {c}
    BY <2>1, Asked, Written
  <2> HIDE DEF c2
  <2>3. Takes(c, c2)
    BY <2>1, <2>2 DEF Takes, Abstract, Atomic!Effect
  <2> QED BY <2>1, <2>2, <2>3, AppliedSteps
<1> QED BY <1>1, <1>2

\* A part of what the snapshot found, which is what the cell shows now, unless
\* a root is there that cannot be shown
LEMMA CommitUpdateSteps ==
  ASSUME EInv, NEW c \in Callers, CommitUpdate(c)
  PROVE  EInv' /\ (KeepsRoot => Move)
<1>1. pc[c] = "based" /\ Kind(c) \in PartKinds /\ Kind(c) \notin {"whole", "set"}
  BY DEF CommitUpdate, PartKinds
<1>2. CASE Fail(c) \/ Retry(c, "begin")
  BY <1>1, <1>2, AsideSteps
<1>3. CASE ~(Fail(c) \/ Retry(c, "begin"))
  <2> DEFINE edge == IF Kind(c) = "drop" THEN "none" ELSE cell.edge
             c2 == [root |-> [val |-> [enc |-> base[c].type, has |-> Edited(c)], ct |-> cell.type],
                    type |-> cell.type, edge |-> edge]
  <2>1. ~Blocked(c) /\ Current = base[c].val /\ Turn(c, c2, 1)
    BY <1>3 DEF CommitUpdate, Unchanged
  <2>2. base[c].type \in Celltypes /\ base[c].val \in Value \cup {None}
    BY <1>1 DEF EInv, StageOK, TypeOK, Base
  <2>3. Found(c) \in SUBSET (Callers \cup {Foreign, Loaded})
    BY <2>2 DEF Found, Value
  <2>4. Edited(c) \in SUBSET (Callers \cup {Foreign, Loaded})
    BY <2>3 DEF Edited
  <2>5. Foreign \in Edited(c) => Edited(c) \cap Callers # {}
    BY <1>1, NamesAssumption DEF Edited, PartKinds
  <2>6. cell.edge # "root" /\ (Kind(c) = "member" => cell.edge = "none")
        /\ cell.edge \in {"none", "root", "member"}
    BY <1>1, <2>1, CellParts DEF Blocked
  <2>7. edge \in {"none", "member"}
    BY <2>6
  <2> HIDE DEF edge
  <2>8. /\ c2 \in Cell /\ c2.root.val.has = Edited(c) /\ c2.type = cell.type /\ c2.edge = edge
        /\ Marks(c2) = Edited(c) \cup (IF edge = "none" THEN {} ELSE {Foreign})
    BY <2>2, <2>4, <2>7, CellParts, Written
  <2> HIDE DEF c2
  <2>9. ASSUME KeepsRoot PROVE Takes(c, c2)
    <3>1. Abstract(Kind(c)) = Kind(c) /\ Kind(c) \in {"part", "member", "drop"}
      BY <1>1 DEF Abstract, PartKinds
    <3>2. edge = IF Kind(c) = "drop" THEN "none" ELSE cell.edge
      BY DEF edge
    <3>3. ASSUME NEW old, Found(c) = old, cell.edge # "none" /\ Kind(c) = "part" => Foreign \in old
          PROVE  Marks(c2) = Atomic!Effect(Kind(c), c, old)
      BY <2>6, <2>8, <3>1, <3>2, <3>3 DEF Edited, Atomic!Effect
    <3>4. CASE base[c].val # None
      <4>1. Found(c) = Marks(cell)
        BY <2>1, <3>4, NowOK DEF Found
      <4>2. cell.edge # "none" => Foreign \in Marks(cell)
        BY DEF Marks
      <4>3. Marks(c2) = Atomic!Effect(Kind(c), c, Marks(cell))
        BY <3>3, <4>1, <4>2
      <4> QED BY <3>1, <4>3 DEF Takes
    <3>5. CASE base[c].val = None
      <4>1. answer[c] # "ok" /\ answer'[c] = "ok"
        BY <1>1, <2>1 DEF Turn, Return, EInv, TypeOK, StageOK
      <4>2. cell.root = None
        BY <1>1, <2>9, <3>5, <4>1 DEF KeepsRoot
      <4>3. Found(c) = {} /\ Marks(cell) = IF cell.edge = "none" THEN {} ELSE {Foreign}
        BY <3>5, <4>2 DEF Found, Marks
      <4>4. Marks(c2) = Atomic!Effect(Kind(c), c, Marks(cell))
        BY <2>6, <2>8, <3>1, <3>2, <4>3 DEF Edited, Atomic!Effect
      <4> QED BY <3>1, <4>4 DEF Takes
    <3> QED BY <3>4, <3>5
  <2> QED BY <1>1, <2>1, <2>5, <2>7, <2>8, <2>9, AppliedSteps
<1> QED BY <1>2, <1>3

LEMMA PublishConfigSteps ==
  ASSUME EInv, NEW c \in Callers, PublishConfig(c)
  PROVE  EInv' /\ Move
<1>1. pc[c] = "based" /\ Kind(c) = "retype"
  BY DEF PublishConfig
<1>2. CASE Retry(c, "begin")
  BY <1>1, <1>2, AsideSteps
<1>3. CASE ~Retry(c, "begin")
  <2> DEFINE c2 == [cell EXCEPT !.type = request[c].type]
  <2>1. Turn(c, c2, 1)
    BY <1>3 DEF PublishConfig
  <2>2. c2 = [root |-> cell.root, type |-> request[c].type, edge |-> cell.edge]
    BY Changed
  <2> HIDE DEF c2
  <2>3. c2 \in Cell /\ c2.root = cell.root /\ c2.edge = cell.edge
    BY <1>1, <2>2, Asked, CellParts DEF Cell
  <2>4. Marks(c2) = Marks(cell)
    BY <2>3 DEF Marks
  <2>5. Takes(c, c2)
    BY <1>1, <2>4 DEF Takes, Abstract, Atomic!Effect
  <2> QED BY <1>1, <2>1, <2>3, <2>5, CellParts, AppliedSteps
<1> QED BY <1>2, <1>3

LEMMA AddEdgeSteps ==
  ASSUME EInv, NEW c \in Callers, AddEdge(c)
  PROVE  EInv' /\ Move
<1>1. pc[c] = "begin" /\ Kind(c) \in {"plug", "plugin"}
  BY DEF AddEdge, Asks
<1>2. CASE Fail(c)
  BY <1>1, <1>2, AsideSteps
<1>3. CASE Kind(c) = "plug" /\ ~Fail(c)
  <2> DEFINE c2 == [root |-> None, type |-> cell.type, edge |-> "root"]
  <2>1. Turn(c, c2, 0)
    BY <1>3 DEF AddEdge, Asks
  <2>2. c2 \in Cell /\ c2.root = None /\ c2.type = cell.type /\ Marks(c2) = {Foreign}
    BY CellParts DEF Cell, Marks
  <2> HIDE DEF c2
  <2>3. Takes(c, c2)
    BY <1>3, <2>2 DEF Takes, Abstract, Atomic!Effect
  <2> QED BY <1>1, <2>1, <2>2, <2>3, AppliedSteps
<1>4. CASE Kind(c) = "plugin" /\ ~Fail(c)
  <2> DEFINE c2 == [cell EXCEPT !.edge = "member"]
  <2>1. Turn(c, c2, 0) /\ cell.edge = "none"
    BY <1>4 DEF AddEdge, Asks
  <2>2. c2 = [root |-> cell.root, type |-> cell.type, edge |-> "member"]
    BY Changed
  <2> HIDE DEF c2
  <2>3. c2 \in Cell /\ c2.root = cell.root /\ c2.edge = "member" /\ c2.type = cell.type
    BY <2>2, CellParts DEF Cell
  <2>4. Marks(c2) = Marks(cell) \cup {Foreign}
    BY <2>1, <2>3 DEF Marks
  <2>5. Takes(c, c2)
    BY <1>4, <2>4 DEF Takes, Abstract, Atomic!Effect
  <2> QED BY <1>1, <2>1, <2>3, <2>5, CellParts, AppliedSteps
<1> QED BY <1>1, <1>2, <1>3, <1>4

LEMMA DeleteSourceSteps ==
  ASSUME EInv, NEW c \in Callers, DeleteSource(c)
  PROVE  EInv' /\ Move
<1> DEFINE c2 == [cell EXCEPT !.edge = "none"]
<1>1. pc[c] = "begin" /\ Kind(c) = "unplug" /\ Turn(c, c2, 0)
  BY DEF DeleteSource, Asks
<1>2. c2 = [root |-> cell.root, type |-> cell.type, edge |-> "none"]
  BY Changed
<1> HIDE DEF c2
<1>3. c2 \in Cell /\ c2.root = cell.root /\ c2.edge = "none" /\ c2.type = cell.type
  BY <1>2, CellParts DEF Cell
<1>4. Marks(c2) \in {Marks(cell), Marks(cell) \ {Foreign}}
  BY <1>3, CellParts DEF Marks
<1>5. Takes(c, c2)
  BY <1>1, <1>4 DEF Takes, Abstract
<1> QED BY <1>1, <1>3, <1>5, CellParts, AppliedSteps

LEMMA ClearExceptionSteps ==
  ASSUME EInv, NEW c \in Callers, ClearException(c)
  PROVE  EInv' /\ Move
<1>1. PICK f : Derive(cell, f, jobs) /\ Sound(f)
  BY DEF ClearException, EInv, FactsOK, Sound, Restrict
<1>2. pc[c] = "begin" /\ Kind(c) = "clear" /\ rev' = rev /\ replies' = replies /\ Return(c, "ok")
  BY DEF ClearException, Asks
<1>3. rev' = rev + 0
  BY <1>2 DEF EInv, TypeOK
<1>4. cell \in Cell
  BY DEF EInv, TypeOK
<1>5. EInv' /\ cell' = cell
  BY <1>1, <1>2, <1>3, <1>4, CellParts, TurnStep
<1>6. Takes(c, cell)
  BY <1>2 DEF Takes, Abstract, Atomic!Effect
<1> QED BY <1>2, <1>5, <1>6, TurnSteps

-----------------------------------------------------------------------------
\* The steps of the side loop

LEMMA SideStep ==
  ASSUME EInv, JobsOK', FactsOK', UNCHANGED <<cell, rev, callVars>>
  PROVE  EInv' /\ Move
<1>1. UNCHANGED <<request, pc, base, tries, answer>> /\ cell' = cell /\ rev' = rev
  BY DEF callVars
<1>2. TypeOK' /\ RootOK' /\ request' \in [Callers -> Request \cup {None}]
  BY <1>1 DEF EInv, TypeOK, RootOK
<1>3. ASSUME NEW d \in Callers
      PROVE  StageOK(d)' /\ BaseOK(d)'
  BY <1>1 DEF EInv, StageOK, BaseOK, Kind, Blanked
<1>4. EInv'
  BY <1>2, <1>3 DEF EInv
<1> QED BY <1>1, <1>4, SameContent, SameSteps

LEMMA EvaluateSteps ==
  ASSUME EInv, NEW w \in work, NEW ok \in BOOLEAN, Evaluate(w, ok)
  PROVE  EInv' /\ Move
<1>1. /\ work' = work \ {w} /\ replies' = replies \cup {[key |-> w.key, n |-> w.n, ok |-> ok]}
      /\ UNCHANGED <<cell, rev, facts, jobs, callVars>>
  BY DEF Evaluate
<1>1a. FactsOK'
  <2>1. w.key.op = "convert" /\ "convert" \notin Failing => ok
    BY DEF Evaluate
  <2> QED BY <1>1, <2>1 DEF EInv, FactsOK, Sound
<1>2. Now' = Now
  BY <1>1 DEF Now
<1>3. ASSUME NEW k, Served(k)
      PROVE  Served(k)'
  <2>1. CASE \E r \in replies : r.key = k
    BY <1>1, <2>1 DEF Served
  <2>2. CASE \E v \in work : v.key = k /\ v.n = jobs[k] /\ v.live
    <3>1. PICK v \in work : v.key = k /\ v.n = jobs[k] /\ v.live
      BY <2>2
    <3>2. CASE v = w
      <4>1. PICK r \in replies' : r = [key |-> k, n |-> w.n, ok |-> ok]
        BY <1>1, <3>1, <3>2
      <4> QED BY <4>1 DEF Served
    <3>3. CASE v # w
      BY <1>1, <3>1, <3>3 DEF Served
    <3> QED BY <3>2, <3>3
  <2> QED BY <1>3, <2>1, <2>2 DEF Served
<1>4. JobsOK'
  BY <1>1, <1>2, <1>3 DEF EInv, JobsOK
<1> QED BY <1>1, <1>1a, <1>4, SideStep

LEMMA VanishSteps ==
  ASSUME EInv, NEW w \in work, Vanish(w)
  PROVE  EInv' /\ Move
<1>1. ~w.live /\ work' = work \ {w} /\ UNCHANGED <<cell, rev, facts, jobs, replies, callVars>>
  BY DEF Vanish
<1>2. Now' = Now
  BY <1>1 DEF Now
<1>3. \A k : Served(k) => Served(k)'
  BY <1>1 DEF Served
<1>4. JobsOK' /\ FactsOK'
  BY <1>1, <1>2, <1>3 DEF EInv, JobsOK, FactsOK, Sound
<1> QED BY <1>1, <1>4, SideStep

LEMMA AcceptSteps ==
  ASSUME EInv, NEW r \in replies, AcceptFact(r)
  PROVE  EInv' /\ Move
<1>1. replies' = replies \ {r} /\ UNCHANGED <<rev, callVars>> /\ JobsOK /\ cell \in Cell
  BY DEF AcceptFact, EInv, TypeOK
<1>2. CASE r.key \notin DOMAIN jobs /\ UNCHANGED <<cell, facts, jobs, work>>
  <2>1. Now' = Now
    BY <1>2 DEF Now
  <2>2. ASSUME NEW k \in DOMAIN jobs
        PROVE  Served(k)'
    BY <1>1, <1>2 DEF JobsOK, Served
  <2>3. JobsOK' /\ FactsOK'
    BY <1>1, <1>2, <2>1, <2>2 DEF JobsOK, EInv, FactsOK, Sound
  <2> QED BY <1>1, <1>2, <2>3, SideStep
<1>3. CASE r.key \in DOMAIN jobs
  <2> DEFINE f == [k \in DOMAIN facts \cup {r.key} |-> IF k = r.key THEN r.ok ELSE facts[k]]
             j == Restrict(jobs, DOMAIN jobs \ {r.key})
  <2>1. Derive(cell, f, j) /\ cell' = cell
    BY <1>3 DEF AcceptFact, Derive
  <2>1a. Sound(f) /\ facts' = [k \in DOMAIN f \cap CellView(cell, f).keys |-> f[k]]
    BY <2>1 DEF Derive, EInv, FactsOK, Sound
  <2>2. DOMAIN j = DOMAIN jobs \ {r.key} /\ \A k \in DOMAIN j : j[k] = jobs[k]
    BY DEF Restrict
  <2> HIDE DEF f, j
  <2>3. ASSUME NEW k \in DOMAIN j
        PROVE  \/ \E w \in work : w.key = k /\ w.n = j[k] /\ w.live
               \/ \E q \in replies' : q.key = k
    BY <1>1, <2>2, <2>3 DEF JobsOK, Served
  <2>4. JobsOK'
    BY <1>1, <2>1, <2>3, DeriveJobs DEF JobsOK
  <2>5. FactsOK'
    <3>1. Sound(facts')
      BY <2>1a DEF Sound
    <3> QED BY <1>1, <3>1 DEF EInv, FactsOK, Sound
  <2> QED BY <1>1, <2>1, <2>4, <2>5, SideStep
<1> QED BY <1>2, <1>3 DEF AcceptFact

-----------------------------------------------------------------------------
\* The invariant and the refinement

LEMMA InitOK ==
  ASSUME Init
  PROVE  EInv /\ Atomic!Init
<1>1. cell \in Cell /\ RootOK /\ Content \in SUBSET {Loaded}
  <2>1. CASE cell = [root |-> None, type |-> SourceType, edge |-> "none"]
    BY <2>1, TypesAssumption DEF Cell, RootOK, Content
  <2>2. CASE cell \in LoadedCells
    <3>1. PICK is \in Celltypes, type \in Celltypes :
            cell = [root |-> [val |-> [enc |-> is, has |-> {Loaded}], ct |-> is],
                    type |-> type, edge |-> "none"]
      BY <2>2 DEF LoadedCells
    <3>2. cell \in Cell /\ cell.root.val.has = {Loaded} /\ cell.edge = "none"
      BY <3>1, Written
    <3> QED BY <3>2, NamesAssumption DEF RootOK, Content
  <2> QED BY <2>1, <2>2 DEF Init
<1>2. JobsOK
  <2>1. jobs = [k \in Now.keys |-> 1]
        /\ work = {[key |-> k, n |-> 1, live |-> TRUE] : k \in DOMAIN jobs}
    BY DEF Init, Now
  <2>2. ASSUME NEW k \in DOMAIN jobs
        PROVE  Served(k)
    <3>1. PICK w \in work : w = [key |-> k, n |-> 1, live |-> TRUE]
      BY <2>1
    <3> QED BY <2>1, <3>1 DEF Served
  <2>3. \A w \in work : w = Task(w.key, w.n, w.live)
    BY <2>1 DEF Task
  <2> QED BY <2>1, <2>2, <2>3 DEF JobsOK
<1>3. TypeOK /\ request \in [Callers -> Request \cup {None}]
  BY <1>1, RetriesAssumption DEF Init, TypeOK
<1>4. \A c \in Callers : StageOK(c) /\ BaseOK(c)
  BY DEF Init, StageOK, BaseOK, Kind
<1>5. [c \in Callers |-> Abstract(Kind(c))] = [c \in Callers |-> "none"]
  BY DEF Init, Kind, Abstract
<1>6. FactsOK
  BY DEF Init, FactsOK, Sound
<1> QED BY <1>1, <1>2, <1>3, <1>4, <1>5, <1>6 DEF EInv, Init, Atomic!Init

LEMMA NextOK ==
  ASSUME EInv, Next
  PROVE  EInv' /\ (KeepsRoot => Move)
<1>1. ASSUME NEW c \in Callers, NEW r \in Requests[c], Begin(c, r)
      PROVE  EInv' /\ (KeepsRoot => Move)
  BY <1>1, BeginStep, AskSteps
<1>2. ASSUME NEW c \in Callers, Step(c)
      PROVE  EInv' /\ (KeepsRoot => Move)
  BY <1>2, QuietSteps, UpdateBaseSteps, WaitEndsSteps, CommitUpdateSteps, PublishConfigSteps,
     CellOperationSteps, ReplaceSteps, AddEdgeSteps, DeleteSourceSteps, ClearExceptionSteps DEF Step
<1>3. CASE Side
  BY <1>3, VanishSteps, EvaluateSteps, AcceptSteps DEF Side
<1> QED BY <1>1, <1>2, <1>3 DEF Next

LEMMA StutterOK ==
  ASSUME EInv, UNCHANGED vars
  PROVE  EInv' /\ Move
<1>1. UNCHANGED <<cell, rev, callVars>> /\ UNCHANGED <<facts, jobs, work, replies>>
  BY DEF vars, factVars
<1>2. JobsOK' /\ FactsOK'
  BY <1>1 DEF EInv, JobsOK, Served, Now, FactsOK, Sound
<1> QED BY <1>1, <1>2, SideStep

\* Where the callers are, what their snapshots know of the cell and what its
\* jobs do belong together in every turn (_edit, _set_node_config, _demand).
THEOREM EditsInductive == Spec => []EInv
<1>1. EInv /\ [Next]_vars => EInv'
  BY NextOK, StutterOK
<1> QED BY <1>1, InitOK, PTL DEF Spec

\* Every variable has its type (the attempts of _edit and _set_node_config
\* never exceed the retries of the code).
THEOREM EditsTypes == Spec => []TypeOK
<1>1. EInv => TypeOK
  BY DEF EInv
<1> QED BY <1>1, EditsInductive, PTL

\* For any callers, celltypes and retries: an edit that would be accepted now
\* carries an encoding for the celltype of the cell (CommitUpdate).
THEOREM CommitsFit == Spec => []CommitFits
<1>1. ASSUME EInv, NEW c \in Callers, pc[c] = "based", Unchanged(c), base[c].val # None \/ ~Blanked
      PROVE  base[c].type = cell.type
  <2>1. BaseOK(c) /\ Current = base[c].val /\ rev = base[c].rev
    BY <1>1 DEF EInv, Unchanged
  <2> SUFFICES ASSUME base[c].type # cell.type PROVE FALSE
    OBVIOUS
  <2>2. cell.root = None /\ base[c].val # None
    BY <1>1, <2>1 DEF BaseOK
  <2>3. Current.has = {Foreign}
    <3>1. Current # None /\ Current.has = Marks(cell) /\ Now.state # "unwired"
      BY <1>1, <2>1, <2>2, NowOK
    <3>2. cell.edge # "none"
      BY <1>1, <2>2, <3>1, NowOK
    <3> QED BY <2>2, <3>1, <3>2 DEF Marks
  <2>4. Current.enc = cell.type /\ Current.enc = base[c].type
    BY <1>1, <2>1, <2>2, <2>3, NowOK DEF BaseOK
  <2> QED BY <2>4
<1>2. EInv => CommitFits
  BY <1>1 DEF CommitFits
<1> QED BY <1>2, EditsInductive, PTL

\* For any callers and keys: a fact that the cell needs is being evaluated, or
\* its answer is on its way (_demand, the jobs of _derive_all, _accept_fact).
THEOREM JobsKept == Spec => []NoLostJob
<1>1. EInv => NoLostJob
  BY DEF EInv, JobsOK, Served, NoLostJob
<1> QED BY <1>1, EditsInductive, PTL

\* For any callers, requests, celltypes and retries, and whatever fails: the
\* prepared, compared and retried requests take effect at one point each, on
\* the content that is there (AtomicCell), in every step but one that discards
\* a root that cannot be shown (KeepsRoot).
THEOREM EditsLinearizable == Spec => Linearizable
<1>1. EInv /\ [Next]_vars => [KeepsRoot => Move]_vars
  BY NextOK
<1> QED BY <1>1, InitOK, EditsInductive, PTL DEF Spec, Linearizable, Move

\* ... and none does where no conversion fails (UpdateBase, CommitUpdate).
THEOREM RootsKept == ASSUME "convert" \notin Failing PROVE Spec => PartKeepsRoot
<1>1. ASSUME EInv, Next PROVE KeepsRoot
  <2> SUFFICES ASSUME NEW c \in Callers, Kind(c) \in PartKinds, answer[c] # "ok", answer'[c] = "ok",
                      base[c].val = None
               PROVE  cell.root = None
    BY DEF KeepsRoot
  <2>1. answer \in [Callers -> {"none", "ok", "error"}]
    BY <1>1 DEF EInv, TypeOK
  <2>2. PICK d \in Callers : Step(d)
    BY <1>1 DEF Next, Begin, Side, Vanish, Evaluate, AcceptFact, callVars
  <2>3. answer' = answer \/ \E a : Return(d, a)
    BY <2>2 DEF Step, GiveUp, UpdateBase, WaitEnds, CommitUpdate, ConfigSnapshot, PublishConfig, NodeSnapshot,
                CellOperation, ReplaceBlank, ReplaceLiteral, AddEdge, DeleteSource, ClearException,
                Fail, Turn, Snapshot, Retry
  <2>4. Step(c) /\ Return(c, "ok")
    BY <2>1, <2>2, <2>3 DEF Return
  <2>5. ~Fail(c) /\ \A from : ~Retry(c, from)
    BY <2>1, <2>4 DEF Fail, Return, Retry
  <2>6. CommitUpdate(c)
    BY <2>1, <2>4, <2>5 DEF Step, GiveUp, UpdateBase, WaitEnds, ConfigSnapshot, PublishConfig, NodeSnapshot,
                CellOperation, ReplaceBlank, ReplaceLiteral, AddEdge, DeleteSource, ClearException,
                Asks, PartKinds, Snapshot
  <2>7. pc[c] = "based" /\ base[c].rev = rev
    BY <2>5, <2>6 DEF CommitUpdate, Unchanged
  <2> QED BY <1>1, <2>7 DEF EInv, BaseOK
<1> QED BY <1>1, EditsInductive, PTL DEF Spec, PartKeepsRoot

\* So all steps are steps of AtomicCell as long as conversions succeed.
THEOREM EditsAtomic == ASSUME "convert" \notin Failing PROVE Spec => Atomicity
<1>1. EInv /\ [Next]_vars /\ [KeepsRoot]_vars => Move
  BY NextOK, StutterOK
<1> QED BY <1>1, InitOK, EditsInductive, RootsKept, PTL DEF Spec, PartKeepsRoot, Atomicity, Atomic!Spec, Move

=============================================================================
