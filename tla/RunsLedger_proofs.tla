------------------------- MODULE RunsLedger_proofs -------------------------
(***************************************************************************)
(* What Runs says of its ledger and of the executions behind it, for every *)
(* graph, every capacity and any number of calls.                          *)
(***************************************************************************)
EXTENDS Runs_proofs, WellFoundedInduction

-----------------------------------------------------------------------------
\* Supersede and the cap

\* A set of runs that is not empty has a member that is held longest.
LEMMA Oldest ==
  ASSUME NEW S \in SUBSET Run, S # {}
  PROVE  \E r \in S : \A q \in S : r.hold <= q.hold
<1> DEFINE T == {r.hold : r \in S}
           R == OpToRel(<, Nat)
<1>1. \A r \in S : r.hold \in Nat
  BY DEF Run
<1>2. T \subseteq Nat /\ T # {}
  BY <1>1
<1>3. \A x, y \in Nat : y < x => <<y, x>> \in R
  BY DEF OpToRel
<1>4. IsWellFoundedOn(R, Nat)
  BY NatLessThanWellFounded
<1>5. \A r \in S : r.hold \in T
  OBVIOUS
<1>6. \A x \in T : \E r \in S : r.hold = x
  OBVIOUS
<1> HIDE DEF T, R
<1>7. PICK x \in T : \A y \in T : ~ (<<y, x>> \in R)
  BY <1>2, <1>4, WFMin
<1>8. ASSUME NEW y \in T PROVE x <= y
  <2>1. ~(y < x)
    BY <1>2, <1>3, <1>7
  <2> QED BY <1>2, <2>1
<1> QED BY <1>5, <1>6, <1>8

\* The run that a queued one is, apart from its phase and its hold.
Same(q, r) == q.gen = r.gen /\ q.key = r.key /\ q.result = r.result /\ q.error = r.error

LEMMA SupersedeLedger ==
  ASSUME TypeOK, LedgerOK, NEW n \in Nodes, NEW was \in SUBSET held[n]
  PROVE  LET s == Supersede(n, was)
         IN /\ IsFiniteSet(s.held) /\ Cardinality(s.held) <= Cap
            /\ \A q, r \in s.held \cup s.evicted : q.key = r.key => q = r
            /\ s.held \cap s.evicted = {}
            /\ \A r \in s.held \cup s.evicted : \E q \in was \cup current[n] : Same(r, q)
            /\ \A q \in was \cup current[n] : \E r \in s.held \cup s.evicted : Same(r, q)
<1> DEFINE up(r) == [r EXCEPT !.phase = "superseded", !.hold = stamp + 1,
                              !.kind = IF UpstreamUnresolved(n) THEN "upstream" ELSE "self-edit"]
           moved == {up(r) : r \in current[n]}
           queued == was \cup moved
           evicted == {r \in queued : Excess(queued) /\ \A q \in queued : r.hold <= q.hold}
<1>1. Supersede(n, was) = [moved |-> moved, held |-> queued \ evicted, evicted |-> evicted]
  BY DEF Supersede
<1>2. /\ \A r \in held[n] \cup current[n] : r \in Run
      /\ \A q, r \in current[n] : q = r
      /\ current[n] \cap held[n] = {}
      /\ \A q, r \in held[n] \cup current[n] : q.key = r.key => q = r
      /\ IsFiniteSet(held[n]) /\ Cardinality(held[n]) <= Cap
      /\ Cap \in Nat \ {0}
  BY ConstantsAssumption DEF TypeOK, LedgerOK, Runs
<1>3. ASSUME NEW r \in current[n]
      PROVE  up(r) \in Run /\ Same(up(r), r)
  <2>1. r \in Run /\ stamp + 1 \in Nat
    BY <1>2 DEF TypeOK
  <2>2. (IF UpstreamUnresolved(n) THEN "upstream" ELSE "self-edit") \in {"none", "self-edit", "upstream"}
    OBVIOUS
  <2> HIDE DEF UpstreamUnresolved
  <2> QED BY <2>1, <2>2 DEF Run, Same
<1> HIDE DEF up
<1>4. moved = {} \/ \E r \in current[n] : moved = {up(r)}
  <2>1. CASE current[n] = {}
    BY <2>1
  <2>2. ASSUME NEW r \in current[n] PROVE moved = {up(r)}
    <3>1. current[n] = {r}
      BY <1>2, <2>2
    <3> QED BY <3>1
  <2> QED BY <2>1, <2>2
<1>5. \A r \in queued : r \in was \/ \E q \in current[n] : r = up(q)
  OBVIOUS
<1>6. \A q \in current[n] : up(q) \in queued
  OBVIOUS
<1>7. evicted \subseteq queued /\ queued \in SUBSET Run
  <2>1. moved \in SUBSET Run
    BY <1>3
  <2>2. was \in SUBSET Run
    BY <1>2
  <2> QED BY <2>1, <2>2
<1> HIDE DEF moved
<1>8. IsFiniteSet(queued) /\ Cardinality(queued) \in Nat /\ Cardinality(queued) <= Cap + 1
  <2>1. IsFiniteSet(was) /\ Cardinality(was) \in Nat /\ Cardinality(was) <= Cap
    BY <1>2, FS_Subset, FS_CardinalityType
  <2>2. CASE moved = {}
    BY <1>2, <2>1, <2>2
  <2>3. CASE moved # {}
    <3>1. PICK r : moved = {r}
      BY <1>4, <2>3
    <3>2. /\ IsFiniteSet(was \cup {r})
          /\ Cardinality(was \cup {r}) = IF r \in was THEN Cardinality(was) ELSE Cardinality(was) + 1
      BY <2>1, FS_AddElement
    <3> QED BY <1>2, <2>1, <3>1, <3>2
  <2> QED BY <2>2, <2>3
<1>9. IsFiniteSet(queued \ evicted) /\ Cardinality(queued \ evicted) <= Cap
  <2>1. CASE ~Excess(queued)
    <3>1. queued \ evicted = queued
      BY <2>1
    <3>2. Cardinality(queued) <= Cap
      <4> HIDE DEF queued
      <4> QED BY <1>2, <1>8, <2>1 DEF Excess
    <3> HIDE DEF queued, evicted
    <3> QED BY <1>8, <3>1, <3>2
  <2>2. CASE Excess(queued)
    <3>1. queued # {}
      BY <1>2, <2>2, FS_EmptySet DEF Excess
    <3>2. PICK r \in queued : \A q \in queued : r.hold <= q.hold
      BY <1>7, <3>1, Oldest
    <3>3. queued \ evicted \in SUBSET (queued \ {r})
      BY <2>2, <3>2
    <3> HIDE DEF evicted, queued
    <3>4. IsFiniteSet(queued \ {r}) /\ Cardinality(queued \ {r}) = Cardinality(queued) - 1
      BY <1>8, <3>2, FS_RemoveElement
    <3>5. /\ IsFiniteSet(queued \ evicted)
          /\ Cardinality(queued \ evicted) <= Cardinality(queued \ {r})
      BY <3>3, <3>4, FS_Subset
    <3>6. Cardinality(queued \ evicted) \in Nat
      BY <3>5, FS_CardinalityType
    <3> QED BY <1>2, <1>8, <3>4, <3>5, <3>6
  <2> QED BY <2>1, <2>2
<1>10. ASSUME NEW r \in queued
       PROVE  \E q \in was \cup current[n] : Same(r, q)
  BY <1>3, <1>5 DEF Same
<1>11. ASSUME NEW q \in was \cup current[n]
       PROVE  \E r \in queued : Same(r, q)
  BY <1>3, <1>6 DEF Same
<1>12. ASSUME NEW q \in queued, NEW r \in queued, q.key = r.key
       PROVE  q = r
  <2>1. CASE q \in was /\ r \in was
    BY <1>2, <1>12, <2>1
  <2>2. ASSUME NEW a \in was, NEW b \in current[n], a.key = up(b).key PROVE FALSE
    BY <1>2, <1>3, <2>2 DEF Same
  <2>3. ASSUME NEW a \in current[n], NEW b \in current[n] PROVE up(a) = up(b)
    BY <1>2
  <2> QED BY <1>5, <1>12, <2>1, <2>2, <2>3
<1> HIDE DEF queued, evicted
<1> QED BY <1>1, <1>7, <1>9, <1>10, <1>11, <1>12

-----------------------------------------------------------------------------
\* Generations

\* The types that the arguments below need.
LEMMA Numbers ==
  ASSUME IInv
  PROVE  /\ gen \in Nat
         /\ \A n \in Nodes : \A r \in Runs(n) : r \in Run /\ r.gen \in Nat /\ r.gen <= gen
         /\ \A t \in tasks \cup effects.launch :
              t \in Task /\ t.node \in Nodes /\ t.gen \in Nat /\ t.gen <= gen
         /\ \A m \in news \cup effects.tell :
              m \in Finished /\ m.node \in Nodes /\ m.gen \in Nat /\ m.gen <= gen
         /\ effects.cancel \in SUBSET Nat /\ pending \in SUBSET Nodes
<1>1. /\ gen \in Nat /\ pending \in SUBSET Nodes
      /\ \A n \in Nodes : Runs(n) \in SUBSET Run
      /\ tasks \cup effects.launch \in SUBSET Task
      /\ news \cup effects.tell \in SUBSET Finished
      /\ effects.cancel \in SUBSET Nat
  BY DEF IInv, TypeOK, Runs, Effects
<1>2. /\ \A r \in Run : r.gen \in Nat
      /\ \A t \in Task : t.node \in Nodes /\ t.gen \in Nat
      /\ \A m \in Finished : m.node \in Nodes /\ m.gen \in Nat
  BY DEF Run, Task, Finished
<1> QED BY <1>1, <1>2 DEF IInv, KeysOK

\* A generation names one run of the ledger.
LEMMA OneRun ==
  ASSUME IInv, LedgerOK, NEW n \in Nodes, NEW q \in Runs(n), NEW r \in Runs(n), q.gen = r.gen
  PROVE  q = r
BY DEF IInv, KeysAgree, LedgerOK

\* A turn that has not derived a node, or nothing at all, cancels what it
\* drops of it: "if record.et is not None" holds.
LEMMA CancelledAll ==
  ASSUME IInv, NodesAgree, EffectsOK, NEW dropped \in SUBSET Run,
         \A r \in dropped : \E n \in Nodes : /\ r.gen \in Gens(Runs(n))
                                             /\ turn = "idle" \/ n \in pending
  PROVE  /\ Cancelling(dropped).cancel = effects.cancel \cup Gens(dropped)
         /\ Cancelling(dropped).launch = effects.launch
         /\ Cancelling(dropped).tell = effects.tell
         /\ \A g \in Gens(dropped) : \A t \in effects.launch : t.gen # g
<1>1. ASSUME NEW r \in dropped, NEW t \in effects.launch
      PROVE  t.gen # r.gen
  <2>1. PICK n \in Nodes : r.gen \in Gens(Runs(n)) /\ (turn = "idle" \/ n \in pending)
    OBVIOUS
  <2>2. PICK q \in Runs(n) : q.gen = r.gen
    BY <2>1 DEF Gens
  <2>3. CASE turn = "idle"
    BY <2>3 DEF EffectsOK, NoEffects
  <2>4. CASE n \in pending
    BY <2>2, <2>4 DEF NodesAgree, EffectsOK
  <2> QED BY <2>1, <2>3, <2>4
<1>2. Launched(dropped) = dropped
  BY <1>1 DEF Launched
<1>3. Cancelling(dropped) = [effects EXCEPT !.cancel = effects.cancel \cup Gens(dropped)]
  BY <1>2 DEF Cancelling
<1>4. effects \in Effects
  BY DEF IInv, TypeOK
<1>5. \A g \in Gens(dropped) : \A t \in effects.launch : t.gen # g
  BY <1>1 DEF Gens
<1> HIDE DEF Gens
<1> QED BY <1>3, <1>4, <1>5 DEF Effects

\* A turn that takes the runs of G out of the ledger, notes their cancellation,
\* and launches what is fresh.
BookStep(G, fresh) ==
  /\ turn' = "busy" /\ (turn = "idle" \/ pending' \subseteq pending)
  /\ tasks' = tasks /\ news' = news /\ gen <= gen'
  /\ effects'.launch = effects.launch \cup fresh
  /\ effects'.cancel = effects.cancel \cup G
  /\ effects.tell \subseteq effects'.tell
  /\ \A m \in effects'.tell : m \in effects.tell \/ \E q \in Runs(m.node) : q.gen = m.gen
  /\ \A t \in fresh : /\ gen' = gen + 1 /\ t.gen = gen + 1 /\ ~t.cancelled
                      /\ t.node \notin pending' /\ t.gen \in Gens(Runs(t.node)')
  /\ \A t, u \in fresh : t.node = u.node
  /\ G \in SUBSET Nat
  /\ \A g \in G : /\ \E n \in Nodes : g \in Gens(Runs(n))
                  /\ \A t \in effects.launch : t.gen # g
  /\ \A n \in Nodes : \A q \in Runs(n) : q.gen \in G \/ q.gen \in Gens(Runs(n)')
  /\ \A n \in Nodes : \A r \in Runs(n)' :
       \/ /\ r.gen \notin G
          /\ \E q \in Runs(n) : /\ q.gen = r.gen
                                /\ InFlight(r) => \/ InFlight(q)
                                                  \/ \E m \in effects'.tell : m.gen = r.gen
       \/ \E t \in fresh : t.node = n /\ t.gen = r.gen

LEMMA Bookkeeping ==
  ASSUME IInv, IInv', Books, NEW G, NEW fresh, BookStep(G, fresh)
  PROVE  Books'
<1> USE DEF BookStep
<1>1. /\ gen \in Nat /\ gen' \in Nat
      /\ \A n \in Nodes : \A r \in Runs(n) : r.gen \in Nat /\ r.gen <= gen
      /\ \A t \in tasks \cup effects.launch : t.node \in Nodes /\ t.gen \in Nat /\ t.gen <= gen
      /\ \A t \in fresh : t.node \in Nodes
      /\ \A m \in news \cup effects.tell : m.gen \in Nat /\ m.gen <= gen
      /\ \A m \in effects'.tell : m.node \in Nodes
      /\ effects.cancel \in SUBSET Nat
  <2>1. /\ gen' \in Nat /\ effects'.tell \subseteq Finished /\ effects'.launch \subseteq Task
    BY DEF IInv, TypeOK, Effects
  <2>2. /\ \A m \in effects'.tell : m.node \in Nodes
        /\ \A t \in fresh : t.node \in Nodes
    BY <2>1 DEF Task, Finished
  <2> QED BY <2>1, <2>2, Numbers
<1>2. \A g \in G : g <= gen
  BY <1>1 DEF Gens
<1>3. \A m \in news \cup effects'.tell : m.gen <= gen
  BY <1>1
<1>4. ASSUME NEW n \in Nodes, NEW r \in Runs(n)'
      PROVE  \/ r.gen \notin G /\ r.gen <= gen /\ \E q \in Runs(n) : q.gen = r.gen
             \/ gen' = gen + 1 /\ r.gen = gen + 1 /\ \E t \in fresh : t.node = n
  BY <1>1, <1>4
<1>5. ASSUME NEW n \in Nodes, NEW r \in Runs(n)', NEW m \in Nodes, NEW p \in Runs(m)', p.gen = r.gen
      PROVE  m = n
  <2>1. CASE r.gen <= gen
    <3>1. PICK q \in Runs(n) : q.gen = r.gen
      BY <1>1, <1>4, <2>1
    <3>2. PICK o \in Runs(m) : o.gen = r.gen
      BY <1>1, <1>4, <1>5, <2>1
    <3> QED BY <3>1, <3>2 DEF Books, NodesAgree
  <2>2. CASE r.gen = gen + 1
    <3>1. \E t \in fresh : t.node = n
      BY <1>1, <1>4, <2>2
    <3>2. \E t \in fresh : t.node = m
      BY <1>1, <1>4, <1>5, <2>2
    <3> QED BY <3>1, <3>2
  <2> QED BY <1>4, <2>1, <2>2
<1>6. ASSUME NEW n \in Nodes, NEW r \in Runs(n)', NEW t \in tasks' \cup effects'.launch, t.gen = r.gen
      PROVE  t.node = n
  <2>1. CASE t \in fresh
    BY <1>1, <1>4, <1>6, <2>1
  <2>2. CASE t \in tasks \cup effects.launch
    <3>1. PICK q \in Runs(n) : q.gen = r.gen
      BY <1>1, <1>4, <1>6, <2>2
    <3> QED BY <1>6, <2>2, <3>1 DEF Books, NodesAgree
  <2> QED BY <2>1, <2>2
<1>7. ASSUME NEW n \in Nodes, NEW r \in Runs(n)', NEW m \in news' \cup effects'.tell, m.gen = r.gen
      PROVE  m.node = n
  <2>1. PICK q \in Runs(n) : q.gen = r.gen
    BY <1>1, <1>3, <1>4, <1>7
  <2>2. CASE m \in news \cup effects.tell
    BY <1>7, <2>1, <2>2 DEF Books, NodesAgree
  <2>3. CASE m \in effects'.tell /\ \E o \in Runs(m.node) : o.gen = m.gen
    BY <1>1, <1>7, <2>1, <2>3 DEF Books, NodesAgree
  <2> QED BY <2>2, <2>3
<1>8. NodesAgree'
  BY <1>5, <1>6, <1>7 DEF NodesAgree
<1>9. ASSUME NEW t \in effects.launch
      PROVE  t.node \notin pending' /\ ~t.cancelled /\ t.gen \in Gens(Runs(t.node)')
  <2>1. turn # "idle"
    BY DEF Books, EffectsOK, NoEffects
  <2>2. PICK q \in Runs(t.node) : q.gen = t.gen
    BY DEF Books, EffectsOK, Gens
  <2>3. q.gen \notin G
    BY <2>2
  <2> QED BY <1>1, <2>1, <2>2, <2>3 DEF Books, EffectsOK
<1>10. ASSUME NEW g \in effects'.cancel, NEW n \in Nodes, NEW r \in Runs(n)', r.gen = g
       PROVE  FALSE
  <2>1. g <= gen /\ g \in Nat
    BY <1>1, <1>2 DEF Books, EffectsOK
  <2>2. PICK q \in Runs(n) : q.gen = g /\ g \notin G
    BY <1>1, <1>4, <1>10, <2>1
  <2> QED BY <2>2 DEF Books, EffectsOK, Gens
<1>11. ASSUME NEW g \in effects'.cancel
       PROVE  g <= gen'
  <2>1. g \in Nat /\ g <= gen
    BY <1>1, <1>2 DEF Books, EffectsOK
  <2> QED BY <1>1, <2>1
<1>12. EffectsOK'
  BY <1>9, <1>10, <1>11 DEF EffectsOK, Gens
<1>13. ASSUME NEW t \in tasks, ~t.cancelled, t.gen \notin effects'.cancel
       PROVE  t.gen \in Gens(Runs(t.node)')
  <2>1. PICK q \in Runs(t.node) : q.gen = t.gen
    BY <1>13 DEF Books, NothingLeaked, Gens
  <2> QED BY <1>1, <1>13, <2>1
<1>14. NothingLeaked'
  BY <1>13 DEF NothingLeaked
<1>15. ASSUME NEW n \in Nodes, NEW r \in Runs(n)', InFlight(r)
       PROVE  Expected(r)'
  <2>1. CASE \E t \in fresh : t.node = n /\ t.gen = r.gen
    BY <2>1 DEF Expected
  <2>2. CASE \E m \in effects'.tell : m.gen = r.gen
    BY <2>2 DEF Expected
  <2>3. ASSUME NEW q \in Runs(n), q.gen = r.gen, InFlight(q)
        PROVE  Expected(r)'
    <3>1. Expected(q)
      BY <2>3 DEF Books, NothingLost
    <3> QED BY <2>3, <3>1 DEF Expected
  <2> QED BY <1>15, <2>1, <2>2, <2>3
<1>16. NothingLost'
  BY <1>15 DEF NothingLost, InFlight
<1> QED BY <1>8, <1>12, <1>14, <1>16 DEF Books

-----------------------------------------------------------------------------
\* The ledger of a step that takes runs out of it, or rewrites one node's

LEMMA LedgerShrinks ==
  ASSUME LedgerOK, \A n \in Nodes : current'[n] \subseteq current[n] /\ held'[n] \subseteq held[n]
  PROVE  LedgerOK'
<1> SUFFICES ASSUME NEW n \in Nodes
             PROVE  /\ \A q, r \in current'[n] : q = r
                    /\ current'[n] \cap held'[n] = {}
                    /\ IsFiniteSet(held'[n]) /\ Cardinality(held'[n]) <= Cap
                    /\ \A q, r \in Runs(n)' : q.key = r.key => q = r
  BY DEF LedgerOK
<1>1. current'[n] \subseteq current[n] /\ held'[n] \in SUBSET held[n]
  OBVIOUS
<1>2. IsFiniteSet(held[n]) /\ Cardinality(held[n]) <= Cap /\ Cap \in Nat
  BY ConstantsAssumption DEF LedgerOK
<1>3. /\ IsFiniteSet(held'[n]) /\ Cardinality(held'[n]) <= Cardinality(held[n])
      /\ Cardinality(held'[n]) \in Nat /\ Cardinality(held[n]) \in Nat
  BY <1>1, <1>2, FS_Subset, FS_CardinalityType
<1>4. Cardinality(held'[n]) <= Cap
  BY <1>2, <1>3
<1> QED BY <1>1, <1>3, <1>4 DEF LedgerOK, Runs

LEMMA LedgerAt ==
  ASSUME TypeOK, LedgerOK, NEW n \in Nodes, NEW cur, NEW hel,
         current' = [current EXCEPT ![n] = cur], held' = [held EXCEPT ![n] = hel],
         \A q, r \in cur : q = r, cur \cap hel = {},
         IsFiniteSet(hel), Cardinality(hel) <= Cap,
         \A q, r \in cur \cup hel : q.key = r.key => q = r
  PROVE  LedgerOK'
<1>1. /\ current'[n] = cur /\ held'[n] = hel
      /\ \A m \in Nodes : m # n => current'[m] = current[m] /\ held'[m] = held[m]
  BY DEF TypeOK
<1> QED BY <1>1 DEF LedgerOK, Runs

-----------------------------------------------------------------------------
\* The messages of callers and timers

\* The books of a message that takes runs out of the ledger.
LEMMA DropTurn ==
  ASSUME IInv, IInv', LedgerOK, Books, turn = "idle", turn' = "busy",
         tasks' = tasks, news' = news, gen' = gen,
         NEW dropped \in SUBSET Run, effects' = Cancelling(dropped),
         \A n \in Nodes : Runs(n)' \subseteq Runs(n) /\ Runs(n) \ Runs(n)' \subseteq dropped,
         \A r \in dropped : \E n \in Nodes : r \in Runs(n) \ Runs(n)'
  PROVE  Books'
<1> DEFINE G == Gens(dropped)
<1>1. \A r \in dropped : \E n \in Nodes : r.gen \in Gens(Runs(n))
  BY DEF Gens
<1>2. /\ effects'.cancel = effects.cancel \cup G
      /\ effects'.launch = effects.launch
      /\ effects'.tell = effects.tell
      /\ \A g \in G : \A t \in effects.launch : t.gen # g
  BY <1>1, CancelledAll DEF Books
<1>3. G \in SUBSET Nat /\ \A g \in G : \E n \in Nodes : g \in Gens(Runs(n))
  BY <1>1 DEF Gens, Run
<1>4. \A n \in Nodes : \A q \in Runs(n) : q.gen \in G \/ q.gen \in Gens(Runs(n)')
  BY DEF Gens
<1>5. ASSUME NEW n \in Nodes, NEW r \in Runs(n)'
      PROVE  r \in Runs(n) /\ r.gen \notin G
  <2>1. ASSUME NEW d \in dropped, d.gen = r.gen
        PROVE  FALSE
    <3>1. PICK m \in Nodes : d \in Runs(m) \ Runs(m)'
      OBVIOUS
    <3>2. m = n
      BY <2>1, <3>1 DEF Books, NodesAgree
    <3> QED BY <2>1, <3>1, <3>2, OneRun
  <2> QED BY <2>1 DEF Gens
<1>6. gen <= gen'
  BY Numbers
<1> HIDE DEF G
<1> DEFINE fresh == {}
<1>7. /\ effects'.launch = effects.launch \cup fresh
      /\ \A t \in fresh : FALSE
  BY <1>2
<1> HIDE DEF fresh
<1>8. \A n \in Nodes : \A r \in Runs(n)' :
        /\ r.gen \notin G
        /\ \E q \in Runs(n) : q.gen = r.gen /\ (InFlight(r) => InFlight(q))
  BY <1>5
<1>9. effects.tell \subseteq effects'.tell /\ \A m \in effects'.tell : m \in effects.tell
  BY <1>2
<1>10. BookStep(G, fresh)
  BY <1>2, <1>3, <1>4, <1>6, <1>7, <1>8, <1>9 DEF BookStep
<1> QED BY <1>10, Bookkeeping

\* A message that drops nothing.
LEMMA QuietTurn ==
  ASSUME IInv, IInv', LedgerOK, Books, turn = "idle", turn' = "busy",
         UNCHANGED <<tasks, news, gen, current, held, effects>>
  PROVE  Books'
<1>1. effects \in Effects /\ effects' = effects
  BY DEF IInv, TypeOK
<1>2. Gens(Launched({})) = {}
  BY DEF Launched, Gens
<1>3. Cancelling({}) = effects
  BY <1>1, <1>2 DEF Cancelling, Effects
<1>4. \A n \in Nodes : Runs(n)' = Runs(n)
  BY DEF Runs
<1> QED BY <1>1, <1>3, <1>4, DropTurn

LEMMA EditLedger ==
  ASSUME IInv, IInv', LInv, NEW n \in Nodes, NEW c, Edit(n, c)
  PROVE  LInv'
<1> USE DEF Edit, Call, Begin, ledger, side
<1>1. LedgerOK'
  BY LedgerShrinks DEF LInv
<1>2. ComputingOK'
  BY DEF ComputingOK
<1>3. ~closing' => Books'
  BY QuietTurn DEF LInv, closing
<1> QED BY <1>1, <1>2, <1>3 DEF LInv

LEMMA ClearExceptionLedger ==
  ASSUME IInv, IInv', LInv, NEW n \in Nodes, ClearException(n)
  PROVE  LInv'
<1> USE DEF ClearException, Call, Begin, side
<1>1. current' = [current EXCEPT ![n] = {}] /\ held' = held
  OBVIOUS
<1>2. current \in [Nodes -> SUBSET Run] /\ held \in [Nodes -> SUBSET Run]
  BY DEF IInv, TypeOK
<1>3. LedgerOK'
  BY <1>1, <1>2, LedgerShrinks DEF LInv
<1>4. ComputingOK'
  BY DEF ComputingOK
<1>5. ASSUME ~closing'
      PROVE  Books'
  <2>1. \A m \in Nodes : Runs(m)' \subseteq Runs(m) /\ Runs(m) \ Runs(m)' \subseteq current[n]
    BY <1>1, <1>2 DEF Runs
  <2>2. \A r \in current[n] : r \in Runs(n) \ Runs(n)'
    BY <1>1, <1>2 DEF Runs, LInv, LedgerOK
  <2> QED BY <1>2, <1>5, <2>1, <2>2, DropTurn DEF LInv, closing
<1> QED BY <1>3, <1>4, <1>5 DEF LInv

LEMMA PruneLedger ==
  ASSUME IInv, IInv', LInv, NEW P \in SUBSET Nodes, Prune(P)
  PROVE  LInv'
<1> USE DEF Prune, Call, Begin, graph, side
<1> DEFINE dropped == UNION {held[n] : n \in P}
<1>1. current' = current /\ held' = [n \in Nodes |-> IF n \in P THEN {} ELSE held[n]]
  OBVIOUS
<1>2. current \in [Nodes -> SUBSET Run] /\ held \in [Nodes -> SUBSET Run]
  BY DEF IInv, TypeOK
<1>3. LedgerOK'
  BY <1>1, <1>2, LedgerShrinks DEF LInv
<1>4. ComputingOK'
  BY DEF LInv, ComputingOK, IInv, TurnOK
<1>5. ASSUME ~closing'
      PROVE  Books'
  <2>1. dropped \in SUBSET Run
    BY <1>2
  <2>2. \A m \in Nodes : Runs(m)' \subseteq Runs(m) /\ Runs(m) \ Runs(m)' \subseteq dropped
    BY <1>1 DEF Runs
  <2>3. \A n \in P : \A r \in held[n] : r \in Runs(n) \ Runs(n)'
    BY <1>1 DEF Runs, LInv, LedgerOK
  <2>4. \A r \in dropped : \E n \in Nodes : r \in Runs(n) \ Runs(n)'
    BY <2>3
  <2>5. effects' = Cancelling(dropped)
    OBVIOUS
  <2> HIDE DEF dropped
  <2> QED BY <1>5, <2>1, <2>2, <2>4, <2>5, DropTurn DEF LInv, closing, ledger
<1> QED BY <1>3, <1>4, <1>5 DEF LInv

LEMMA SetGraphLedger ==
  ASSUME IInv, IInv', LInv, NEW c, SetGraph(c)
  PROVE  LInv'
<1> USE DEF SetGraph, Call, Begin, side
<1> DEFINE dropped == UNION {Runs(n) : n \in Nodes}
<1>1. \A n \in Nodes : current'[n] = {} /\ held'[n] = {} /\ Runs(n)' = {}
  BY DEF Runs
<1>2. LedgerOK'
  BY <1>1, LedgerShrinks DEF LInv
<1>3. ComputingOK'
  BY DEF ComputingOK
<1>4. ASSUME ~closing'
      PROVE  Books'
  <2>1. dropped \in SUBSET Run
    BY DEF Runs, IInv, TypeOK
  <2>2. /\ \A n \in Nodes : Runs(n)' \subseteq Runs(n) /\ Runs(n) \ Runs(n)' \subseteq dropped
        /\ \A r \in dropped : \E n \in Nodes : r \in Runs(n) \ Runs(n)'
    BY <1>1
  <2>3. effects' = Cancelling(dropped)
    OBVIOUS
  <2> HIDE DEF dropped
  <2> QED BY <1>4, <2>1, <2>2, <2>3, DropTurn DEF LInv, closing
<1> QED BY <1>2, <1>3, <1>4 DEF LInv

LEMMA InstallWaitLedger ==
  ASSUME IInv, IInv', LInv, NEW n \in Nodes, InstallWait(n)
  PROVE  LInv'
<1> USE DEF InstallWait, Call, Begin, graph, ledger, side
<1>1. LedgerOK'
  BY LedgerShrinks DEF LInv
<1>2. ComputingOK'
  BY DEF LInv, ComputingOK, IInv, TurnOK
<1>3. ~closing' => Books'
  BY QuietTurn DEF LInv, closing
<1> QED BY <1>1, <1>2, <1>3 DEF LInv

LEMMA ExpireLedger ==
  ASSUME IInv, IInv', LInv, NEW t \in timers, Expire(t)
  PROVE  LInv'
<1> USE DEF Expire, Begin, graph
<1>1. t.node \in Nodes /\ Over(t) \subseteq held[t.node]
  BY DEF IInv, TypeOK, Timer, Over
<1>2. current \in [Nodes -> SUBSET Run] /\ held \in [Nodes -> SUBSET Run]
  BY DEF IInv, TypeOK
<1>3. current' = current /\ held' = [held EXCEPT ![t.node] = @ \ Over(t)]
  OBVIOUS
<1> HIDE DEF Over
<1>4. LedgerOK'
  BY <1>2, <1>3, LedgerShrinks DEF LInv
<1>5. ComputingOK'
  BY DEF LInv, ComputingOK, IInv, TurnOK
<1>6. ASSUME ~closing'
      PROVE  Books'
  <2>1. \A m \in Nodes : Runs(m)' \subseteq Runs(m) /\ Runs(m) \ Runs(m)' \subseteq Over(t)
    BY <1>2, <1>3 DEF Runs
  <2>2. \A r \in Over(t) : r \in Runs(t.node) \ Runs(t.node)'
    BY <1>1, <1>2, <1>3 DEF Runs, LInv, LedgerOK
  <2>3. Over(t) \in SUBSET Run
    BY <1>1, <1>2
  <2> QED BY <1>1, <1>6, <2>1, <2>2, <2>3, DropTurn DEF LInv, closing
<1> QED BY <1>4, <1>5, <1>6 DEF LInv

-----------------------------------------------------------------------------
\* The messages of executions

\* A turn without effects of its own that takes from the side loop only what
\* no run in flight waits for.
LEMMA SideTurn ==
  ASSUME IInv, IInv', Books, ~closing, turn = "idle", turn' = "busy", effects' = effects, gen' = gen,
         \A n \in Nodes : Gens(Runs(n)') = Gens(Runs(n)),
         \A t \in tasks' : \E u \in tasks : t.node = u.node /\ t.gen = u.gen /\ (u.cancelled => t.cancelled),
         news' \subseteq news,
         \A n \in Nodes : \A r \in Runs(n)' : InFlight(r) =>
           /\ r \in Runs(n)
           /\ \A u \in tasks : u.gen = r.gen /\ ~u.cancelled =>
                \E t \in tasks' : t.gen = r.gen /\ ~t.cancelled
           /\ \A m \in news \ news' : m.gen # r.gen
  PROVE  Books'
<1>1. effects = NoEffects /\ effects.launch = {} /\ effects.cancel = {} /\ effects.tell = {}
  BY DEF Books, EffectsOK, NoEffects
<1>2. \A n \in Nodes : \A r \in Runs(n)' : \E q \in Runs(n) : q.gen = r.gen
  BY DEF Gens
<1>3. NodesAgree'
  BY <1>1, <1>2 DEF Books, NodesAgree
<1>4. EffectsOK'
  BY <1>1 DEF EffectsOK
<1>5. \A t \in tasks : t.node \in Nodes
  BY Numbers
<1>6. NothingLeaked'
  BY <1>5 DEF Books, NothingLeaked
<1>7. ASSUME NEW n \in Nodes, NEW r \in Runs(n)', InFlight(r)
      PROVE  Expected(r)'
  <2>1. Expected(r)
    BY <1>7 DEF Books, NothingLost
  <2>2. CASE \E u \in tasks \cup effects.launch : u.gen = r.gen /\ ~u.cancelled
    BY <1>1, <1>7, <2>2 DEF Expected
  <2>3. CASE \E m \in news \cup effects.tell : m.gen = r.gen
    BY <1>1, <1>7, <2>3 DEF Expected
  <2> QED BY <2>1, <2>2, <2>3 DEF Expected
<1>8. NothingLost'
  BY <1>7 DEF NothingLost, InFlight
<1> QED BY <1>3, <1>4, <1>6, <1>8 DEF Books

LEMMA StartedLedger ==
  ASSUME IInv, IInv', LInv, NEW t \in tasks, Started(t)
  PROVE  LInv'
<1> USE DEF Started, Begin, graph, ledger
<1> DEFINE u == [t EXCEPT !.stage = "computing"]
<1>1. u.node = t.node /\ u.gen = t.gen /\ u.cancelled = t.cancelled
  BY DEF IInv, TypeOK, Task
<1>2. tasks' = (tasks \ {t}) \cup {u}
  OBVIOUS
<1> HIDE DEF u
<1>3. LedgerOK'
  BY LedgerShrinks DEF LInv
<1>4. ComputingOK'
  BY DEF LInv, ComputingOK, IInv, TurnOK
<1>5. \A n \in Nodes : Runs(n)' = Runs(n)
  BY DEF Runs
<1>6. ~closing' => Books'
  BY <1>1, <1>2, <1>5, SideTurn DEF LInv, closing
<1> QED BY <1>3, <1>4, <1>6 DEF LInv

\* What lands in a run leaves it in its place.
LEMMA LandingLedger ==
  ASSUME IInv, LInv, NEW n \in Nodes, NEW g, NEW res, Land(n, g, res)
  PROVE  /\ LedgerOK' /\ ComputingOK'
         /\ \A m \in Nodes : Gens(Runs(m)') = Gens(Runs(m))
         /\ ~closing => \A m \in Nodes : \A r \in Runs(m)' :
                          InFlight(r) => r \in Runs(m) /\ (m # n \/ r.gen # g)
<1> DEFINE landed(r) == IF ~IsRun(r, g) THEN r
                        ELSE [r EXCEPT !.result = res, !.error = (res = Null),
                                       !.phase = IF @ = "superseded" THEN @ ELSE "completed"]
<1>1. current \in [Nodes -> SUBSET Run] /\ held \in [Nodes -> SUBSET Run]
  BY DEF IInv, TypeOK
<1>2. /\ turn = "idle" /\ state' = state /\ pending = {}
      /\ pending' = IF closing \/ Found(n, g) = {} THEN {} ELSE Nodes
  BY DEF Land, Begin, graph, IInv, TurnOK
<1>3. CASE closing
  <2>1. current' = current /\ held' = held
    BY <1>3 DEF Land
  <2>2. LedgerOK'
    BY <2>1, LedgerShrinks DEF LInv
  <2>3. ComputingOK'
    BY <1>2, <2>1 DEF LInv, ComputingOK
  <2> QED BY <1>3, <2>1, <2>2, <2>3 DEF Runs
<1>4. CASE ~closing
  <2> DEFINE cur == {landed(r) : r \in current[n]}
             hel == {landed(r) : r \in held[n]}
  <2>1. current' = [current EXCEPT ![n] = cur] /\ held' = [held EXCEPT ![n] = hel]
    BY <1>4 DEF Land
  <2>2. ASSUME NEW r \in Run
        PROVE  /\ landed(r).key = r.key /\ landed(r).gen = r.gen
               /\ r.gen = g => ~InFlight(landed(r))
               /\ r.gen # g => landed(r) = r
    <3>1. CASE r.gen # g
      BY <3>1 DEF IsRun
    <3>2. CASE r.gen = g
      <4> DEFINE over == [r EXCEPT !.result = res, !.error = (res = Null),
                                   !.phase = IF @ = "superseded" THEN @ ELSE "completed"]
      <4>1. over.key = r.key /\ over.gen = r.gen /\ over.result = res /\ over.error = (res = Null)
        BY DEF Run
      <4>2. landed(r) = over
        BY <3>2 DEF IsRun
      <4> HIDE DEF over, landed
      <4> QED BY <3>2, <4>1, <4>2 DEF InFlight
    <3> QED BY <3>1, <3>2
  <2>3. /\ \A x \in cur : \E r \in current[n] : x = landed(r)
        /\ \A x \in hel : \E r \in held[n] : x = landed(r)
        /\ \A r \in current[n] : landed(r) \in cur
        /\ \A r \in held[n] : landed(r) \in hel
    OBVIOUS
  <2>4. IsFiniteSet(hel) /\ Cardinality(hel) <= Cap
    <3> DEFINE f == [r \in held[n] |-> landed(r)]
    <3>1. f \in Surjection(held[n], hel)
      BY DEF Surjection
    <3> HIDE DEF f, hel
    <3>2. /\ IsFiniteSet(held[n]) /\ Cardinality(held[n]) <= Cap /\ Cap \in Nat
          /\ Cardinality(held[n]) \in Nat
      BY ConstantsAssumption, FS_CardinalityType DEF LInv, LedgerOK
    <3>3. IsFiniteSet(hel) /\ Cardinality(hel) <= Cardinality(held[n])
      BY <3>1, <3>2, FS_Surjection
    <3>4. Cardinality(hel) \in Nat
      BY <3>3, FS_CardinalityType
    <3> QED BY <3>2, <3>3, <3>4
  <2> HIDE DEF landed, cur, hel
  <2>5. /\ \A q, r \in current[n] : q = r
        /\ current[n] \cap held[n] = {}
        /\ \A q, r \in current[n] \cup held[n] : q.key = r.key => q = r
    BY DEF LInv, LedgerOK, Runs
  <2>6. \A q, r \in cur : q = r
    BY <2>3, <2>5
  <2>7. \A q, r \in cur \cup hel : q.key = r.key => q = r
    <3>1. \A x \in cur \cup hel : \E r \in current[n] \cup held[n] : x = landed(r)
      BY <2>3
    <3>2. \A r \in current[n] \cup held[n] : landed(r).key = r.key
      BY <1>1, <2>2
    <3> QED BY <2>5, <3>1, <3>2
  <2>8. cur \cap hel = {}
    <3>1. ASSUME NEW q \in current[n], NEW r \in held[n], landed(q) = landed(r)
          PROVE  FALSE
      <4>1. q.key = r.key
        BY <1>1, <2>2, <3>1
      <4> QED BY <2>5, <4>1
    <3> QED BY <2>3, <3>1
  <2>9. LedgerOK'
    BY <2>1, <2>4, <2>6, <2>7, <2>8, LedgerAt DEF LInv, IInv
  <2>10. ComputingOK'
    <3>1. CASE Found(n, g) # {}
      BY <1>2, <1>4, <3>1 DEF ComputingOK
    <3>2. CASE Found(n, g) = {}
      <4>1. \A r \in current[n] : r.gen # g
        BY <3>2 DEF Found, Runs, IsRun
      <4>2. cur = current[n]
        <5>1. \A r \in current[n] : landed(r) = r
          BY <1>1, <2>2, <4>1
        <5> QED BY <2>3, <5>1
      <4>3. current' = current
        BY <1>1, <2>1, <4>2
      <4> QED BY <1>2, <1>4, <3>2, <4>3 DEF LInv, ComputingOK
    <3> QED BY <3>1, <3>2
  <2>11. Runs(n)' = cur \cup hel /\ \A m \in Nodes : m # n => Runs(m)' = Runs(m)
    BY <1>1, <2>1 DEF Runs
  <2>12. Gens(Runs(n)') = Gens(Runs(n))
    <3>1. \A r \in Runs(n) : landed(r) \in cur \cup hel /\ landed(r).gen = r.gen
      BY <1>1, <2>2, <2>3 DEF Runs
    <3>2. \A x \in cur \cup hel : \E r \in Runs(n) : x = landed(r) /\ x.gen = r.gen
      BY <1>1, <2>2, <2>3 DEF Runs
    <3> QED BY <2>11, <3>1, <3>2 DEF Gens
  <2>13. \A r \in cur \cup hel : InFlight(r) => r \in Runs(n) /\ r.gen # g
    BY <1>1, <2>2, <2>3 DEF Runs
  <2> QED BY <2>9, <2>10, <2>11, <2>12, <2>13
<1> QED BY <1>3, <1>4

\* A task or a queued result that lands goes, and nothing else.
LEMMA LandLedger ==
  ASSUME IInv, IInv', LInv, NEW n \in Nodes, NEW g, NEW res, Land(n, g, res),
         tasks' \subseteq tasks, \A t \in tasks \ tasks' : t.node = n /\ t.gen = g,
         news' \subseteq news, \A m \in news \ news' : m.node = n /\ m.gen = g
  PROVE  LInv'
<1>1. /\ LedgerOK' /\ ComputingOK'
      /\ \A m \in Nodes : Gens(Runs(m)') = Gens(Runs(m))
      /\ ~closing => \A m \in Nodes : \A r \in Runs(m)' :
                       InFlight(r) => r \in Runs(m) /\ (m # n \/ r.gen # g)
  BY LandingLedger
<1>2. /\ turn = "idle" /\ turn' = "busy" /\ effects' = effects /\ gen' = gen /\ closer' = closer
  BY DEF Land, Begin
<1>3. ASSUME ~closing'
      PROVE  Books'
  <2>1. ~closing /\ Books
    BY <1>2, <1>3 DEF LInv, closing
  <2>2. ASSUME NEW m \in Nodes, NEW r \in Runs(m)', InFlight(r)
        PROVE  /\ r \in Runs(m)
               /\ \A u \in tasks : u.gen = r.gen => u \in tasks'
               /\ \A w \in news \ news' : w.gen # r.gen
    <3>1. r \in Runs(m) /\ (m # n \/ r.gen # g)
      BY <1>1, <2>1, <2>2
    <3> QED BY <2>1, <3>1 DEF Books, NodesAgree
  <2> QED BY <1>1, <1>2, <2>1, <2>2, SideTurn
<1> QED BY <1>1, <1>3 DEF LInv

LEMMA ExecutionLands ==
  ASSUME IInv, IInv', LInv, NEW t \in tasks, Complete(t) \/ Fail(t)
  PROVE  LInv'
<1>1. t.node \in Nodes
  BY Numbers
<1>2. tasks' = tasks \ {t} /\ news' = news
  BY DEF Complete, Fail
<1>3. \E res : Land(t.node, t.gen, res)
  BY DEF Complete, Fail
<1> QED BY <1>1, <1>2, <1>3, LandLedger

LEMMA TakeNewsLedger ==
  ASSUME IInv, IInv', LInv, NEW m \in news, TakeNews(m)
  PROVE  LInv'
<1>1. m.node \in Nodes
  BY Numbers
<1>2. tasks' = tasks /\ news' = news \ {m} /\ Land(m.node, m.gen, m.result)
  BY DEF TakeNews
<1> QED BY <1>1, <1>2, LandLedger

LEMMA VanishLedger ==
  ASSUME IInv, IInv', LInv, NEW t \in tasks, Vanish(t)
  PROVE  LInv'
<1> USE DEF Vanish, graph, ledger
<1>1. LedgerOK'
  BY LedgerShrinks DEF LInv
<1>2. ComputingOK'
  BY DEF LInv, ComputingOK
<1>3. ASSUME ~closing'
      PROVE  Books'
  <2>1. Books /\ t.cancelled /\ \A n \in Nodes : Runs(n)' = Runs(n)
    BY <1>3 DEF LInv, closing, MayVanish, Runs
  <2>2. \A u \in tasks \cup effects.launch : u.node \in Nodes
    BY Numbers
  <2>3. NodesAgree' /\ EffectsOK'
    BY <2>1, <2>2 DEF Books, NodesAgree, EffectsOK
  <2>4. NothingLeaked'
    BY <2>1, <2>2 DEF Books, NothingLeaked
  <2>5. NothingLost'
    BY <2>1 DEF Books, NothingLost, Expected, InFlight
  <2> QED BY <2>3, <2>4, <2>5 DEF Books
<1> QED BY <1>1, <1>2, <1>3 DEF LInv

-----------------------------------------------------------------------------
\* The derivation of one node

\* Of n's runs those in K stay, and those with generations in G go.
Parted(n, K, G) ==
  /\ G \in SUBSET Nat
  /\ \A g \in G : g \in Gens(Runs(n)) /\ \A t \in effects.launch : t.gen # g
  /\ \A q \in Runs(n) : q.gen \in G \/ q.gen \in Gens(K)
  /\ \A r \in K : r.gen \notin G /\ \E q \in Runs(n) : Same(r, q)

LEMMA CancelParted ==
  ASSUME IInv, LedgerOK, Books, NEW n \in pending, NEW dropped \in SUBSET held[n]
  PROVE  /\ Parted(n, Runs(n) \ dropped, Gens(dropped))
         /\ Cancelling(dropped).cancel = effects.cancel \cup Gens(dropped)
         /\ Cancelling(dropped).launch = effects.launch
         /\ Cancelling(dropped).tell = effects.tell
<1>1. n \in Nodes /\ held[n] \subseteq Runs(n) /\ dropped \in SUBSET Run
  BY DEF IInv, TypeOK, Runs
<1>2. \A r \in dropped : r \in Runs(n) /\ r.gen \in Nat
  BY <1>1, Numbers
<1>3. \A r \in dropped : \E m \in Nodes : r.gen \in Gens(Runs(m)) /\ (turn = "idle" \/ m \in pending)
  BY <1>1, <1>2 DEF Gens
<1>4. /\ Cancelling(dropped).cancel = effects.cancel \cup Gens(dropped)
      /\ Cancelling(dropped).launch = effects.launch
      /\ Cancelling(dropped).tell = effects.tell
      /\ \A g \in Gens(dropped) : \A t \in effects.launch : t.gen # g
  BY <1>1, <1>3, CancelledAll DEF Books
<1>5. \A r \in Runs(n) \ dropped : r.gen \notin Gens(dropped)
  BY <1>1, <1>2, OneRun DEF Gens
<1>6. Gens(dropped) \in SUBSET Nat /\ \A g \in Gens(dropped) : g \in Gens(Runs(n))
  BY <1>2 DEF Gens
<1>7. \A q \in Runs(n) : q.gen \in Gens(dropped) \/ q.gen \in Gens(Runs(n) \ dropped)
  BY DEF Gens
<1> QED BY <1>4, <1>5, <1>6, <1>7 DEF Parted, Same

LEMMA SuspendParted ==
  ASSUME IInv, LedgerOK, Books, NEW n \in pending, NEW was \in SUBSET held[n]
  PROVE  LET s == Supersede(n, was)
             e == SuspendEffects(n, s, held[n] \ was)
             G == Gens((held[n] \ was) \cup s.evicted)
         IN /\ Parted(n, s.held, G)
            /\ e.cancel = effects.cancel \cup G
            /\ e.launch = effects.launch /\ e.tell = effects.tell
<1> DEFINE s == Supersede(n, was)
           dropped == held[n] \ was
           gone == dropped \cup s.evicted
<1>1. n \in Nodes /\ Runs(n) = current[n] \cup held[n] /\ TypeOK /\ was \in SUBSET Run
  BY DEF IInv, TypeOK, Runs
<1>2. /\ \A q, r \in s.held \cup s.evicted : q.key = r.key => q = r
      /\ s.held \cap s.evicted = {}
      /\ \A r \in s.held \cup s.evicted : \E q \in was \cup current[n] : Same(r, q)
      /\ \A q \in was \cup current[n] : \E r \in s.held \cup s.evicted : Same(r, q)
  BY <1>1, SupersedeLedger
<1>3. s.moved \in SUBSET Run /\ s.evicted \in SUBSET Run
  BY <1>1, SupersedeRuns
<1>4. dropped \cap was = {} /\ dropped \cap current[n] = {} /\ dropped \subseteq held[n]
  BY <1>1 DEF LedgerOK
<1>5. SuspendEffects(n, s, dropped) = [Cancelling(gone) EXCEPT !.arm = TimersOf(n, s.moved) \cup @]
  BY DEF SuspendEffects
<1> HIDE DEF s, dropped
<1>6. gone \in SUBSET Run
  BY <1>1, <1>3, <1>4 DEF IInv, TypeOK
<1>7. ASSUME NEW d \in gone
      PROVE  \E q \in Runs(n) : d.gen = q.gen
  BY <1>1, <1>2, <1>4 DEF Same
<1>8. \A r \in gone : \E m \in Nodes : r.gen \in Gens(Runs(m)) /\ (turn = "idle" \/ m \in pending)
  BY <1>1, <1>7 DEF Gens
<1> HIDE DEF gone
<1>9. /\ Cancelling(gone).cancel = effects.cancel \cup Gens(gone)
      /\ Cancelling(gone).launch = effects.launch
      /\ Cancelling(gone).tell = effects.tell
      /\ \A g \in Gens(gone) : \A t \in effects.launch : t.gen # g
  BY <1>6, <1>8, CancelledAll DEF Books
<1>10. Cancelling(gone) \in Effects
  BY <1>1, <1>6, CancellingEffects
<1>11. LET e == SuspendEffects(n, s, dropped)
       IN e.cancel = effects.cancel \cup Gens(gone) /\ e.launch = effects.launch /\ e.tell = effects.tell
  <2>1. \A c \in Effects : \A x : LET e == [c EXCEPT !.arm = x \cup @]
                                  IN e.cancel = c.cancel /\ e.launch = c.launch /\ e.tell = c.tell
    BY DEF Effects
  <2> QED BY <1>5, <1>9, <1>10, <2>1
<1>12. ASSUME NEW r \in s.held, NEW d \in gone, d.gen = r.gen
       PROVE  FALSE
  <2>1. PICK q \in was \cup current[n] : Same(r, q)
    BY <1>2
  <2>2. q \in Runs(n)
    BY <1>1, <2>1
  <2>3. CASE d \in dropped
    <3>1. d \in Runs(n)
      BY <1>1, <1>4, <2>3
    <3>2. d = q
      BY <1>1, <1>12, <2>1, <2>2, <3>1, OneRun DEF Same
    <3> QED BY <1>4, <2>1, <2>3, <3>2
  <2>4. CASE d \in s.evicted
    <3>1. PICK o \in was \cup current[n] : Same(d, o)
      BY <1>2, <2>4
    <3>2. o = q
      BY <1>1, <1>12, <2>1, <2>2, <3>1, OneRun DEF Same
    <3> QED BY <1>2, <2>1, <2>4, <3>1, <3>2 DEF Same
  <2> QED BY <2>3, <2>4 DEF gone
<1>13. ASSUME NEW q \in Runs(n)
       PROVE  q.gen \in Gens(gone) \/ q.gen \in Gens(s.held)
  <2>1. q \in dropped \/ q \in was \cup current[n]
    BY <1>1 DEF dropped
  <2>2. CASE q \in dropped
    BY <2>2 DEF Gens, gone
  <2>3. CASE q \in was \cup current[n]
    BY <1>2, <2>3 DEF Gens, gone, Same
  <2> QED BY <2>1, <2>2, <2>3
<1>14. Gens(gone) \in SUBSET Nat /\ \A g \in Gens(gone) : g \in Gens(Runs(n))
  BY <1>6, <1>7 DEF Gens, Run
<1>15. \A r \in s.held : r.gen \notin Gens(gone) /\ \E q \in Runs(n) : Same(r, q)
  BY <1>1, <1>2, <1>12 DEF Gens
<1>16. Parted(n, s.held, Gens(gone))
  BY <1>9, <1>13, <1>14, <1>15 DEF Parted
<1> QED BY <1>11, <1>16 DEF s, dropped, gone

\* What the derivation of n notes for the end of the turn: the runs of G are to
\* be cancelled, what is fresh is to be launched.
NotesStep(n, K, G, fresh) ==
  /\ effects'.cancel = effects.cancel \cup G
  /\ effects'.launch = effects.launch \cup fresh
  /\ effects.tell \subseteq effects'.tell
  /\ \A m \in effects'.tell : m \in effects.tell \/ (m.node = n /\ m.gen \in Gens(K))

\* At most one run is fresh, and it is current.
FreshStep(n, fresh, cur) ==
  /\ \A t, u \in fresh : t = u
  /\ \A t \in fresh : /\ gen' = gen + 1 /\ t.gen = gen + 1 /\ ~t.cancelled
                      /\ t.node = n /\ t.gen \in Gens(cur)

\* The runs that are left: those of K, in flight only if they were or if a
\* message is on its way to them, and the fresh one.
LeftStep(K, fresh, left) ==
  /\ \A q \in K : q.gen \in Gens(left)
  /\ \A r \in left :
       \/ \E q \in K : /\ q.gen = r.gen
                       /\ InFlight(r) => \/ InFlight(q)
                                         \/ \E m \in effects'.tell : m.gen = r.gen
       \/ \E t \in fresh : t.gen = r.gen

\* A derivation leaves n with the runs cur and hel: those it parted from the
\* others, and what it launches.
DeriveStep(n, K, G, fresh, cur, hel) ==
  /\ Derive(n) /\ Parted(n, K, G) /\ gen <= gen'
  /\ current' = [current EXCEPT ![n] = cur] /\ held' = [held EXCEPT ![n] = hel]
  /\ NotesStep(n, K, G, fresh) /\ FreshStep(n, fresh, cur)
  /\ LeftStep(K, fresh, cur \cup hel)

LEMMA DeriveBooks ==
  ASSUME IInv, IInv', Books, NEW n \in Nodes, NEW K, NEW G, NEW fresh, NEW cur, NEW hel,
         DeriveStep(n, K, G, fresh, cur, hel)
  PROVE  Books'
<1> USE DEF DeriveStep, NotesStep, FreshStep, LeftStep
<1>1. /\ turn' = "busy" /\ pending' = pending \ {n} /\ tasks' = tasks /\ news' = news
  BY DEF Derive, side
<1>2. Runs(n)' = cur \cup hel /\ \A m \in Nodes : m # n => Runs(m)' = Runs(m)
  BY DEF Runs, IInv, TypeOK
<1>3. G \in SUBSET Nat
  BY DEF Parted
<1>4. \A g \in G : /\ \E m \in Nodes : g \in Gens(Runs(m))
                   /\ \A t \in effects.launch : t.gen # g
  BY DEF Parted
<1>5. ASSUME NEW t \in fresh
      PROVE  /\ gen' = gen + 1 /\ t.gen = gen + 1 /\ ~t.cancelled
             /\ t.node \notin pending' /\ t.gen \in Gens(Runs(t.node)')
  BY <1>1, <1>2 DEF Gens
<1>6. ASSUME NEW m \in effects'.tell, m \notin effects.tell
      PROVE  \E q \in Runs(m.node) : q.gen = m.gen
  <2>1. m.node = n /\ m.gen \in Gens(K)
    BY <1>6
  <2>2. PICK r \in K : r.gen = m.gen
    BY <2>1 DEF Gens
  <2> QED BY <2>1, <2>2 DEF Parted, Same
<1>7. ASSUME NEW m \in Nodes, NEW q \in Runs(m)
      PROVE  q.gen \in G \/ q.gen \in Gens(Runs(m)')
  <2>1. CASE m # n
    BY <1>2, <2>1 DEF Gens
  <2>2. CASE m = n
    BY <1>2, <2>2 DEF Parted, Gens
  <2> QED BY <2>1, <2>2
<1>8. ASSUME NEW m \in Nodes, NEW r \in Runs(m)'
      PROVE  \/ /\ r.gen \notin G
                /\ \E q \in Runs(m) : /\ q.gen = r.gen
                                      /\ InFlight(r) => \/ InFlight(q)
                                                        \/ \E w \in effects'.tell : w.gen = r.gen
             \/ \E t \in fresh : t.node = m /\ t.gen = r.gen
  <2>1. CASE m # n
    <3>1. r \in Runs(m)
      BY <1>2, <2>1
    <3>2. ASSUME r.gen \in G
          PROVE  FALSE
      <4>1. r.gen \in Gens(Runs(n))
        BY <3>2 DEF Parted
      <4>2. PICK q \in Runs(n) : q.gen = r.gen
        BY <4>1 DEF Gens
      <4> QED BY <2>1, <3>1, <4>2 DEF Books, NodesAgree
    <3> QED BY <3>1, <3>2
  <2>2. CASE m = n
    <3>1. CASE \E t \in fresh : t.gen = r.gen
      BY <2>2, <3>1
    <3>2. ASSUME NEW q \in K, q.gen = r.gen,
                 InFlight(r) => InFlight(q) \/ \E w \in effects'.tell : w.gen = r.gen
          PROVE  /\ r.gen \notin G
                 /\ \E o \in Runs(n) : /\ o.gen = r.gen
                                       /\ InFlight(r) => \/ InFlight(o)
                                                         \/ \E w \in effects'.tell : w.gen = r.gen
      <4>1. PICK o \in Runs(n) : Same(q, o) /\ q.gen \notin G
        BY <3>2 DEF Parted
      <4> QED BY <3>2, <4>1 DEF Same, InFlight
    <3> QED BY <1>2, <2>2, <3>1, <3>2
  <2> QED BY <2>1, <2>2
<1>9. BookStep(G, fresh)
  BY <1>1, <1>3, <1>4, <1>5, <1>6, <1>7, <1>8 DEF BookStep
<1> QED BY <1>9, Bookkeeping

LEMMA DeriveComputing ==
  ASSUME IInv, ComputingOK, NEW n \in Nodes, Derive(n), NEW st, NEW cur,
         state' = [state EXCEPT ![n] = st], current' = [current EXCEPT ![n] = cur],
         st = "computing" => \E r \in cur : InFlight(r)
  PROVE  ComputingOK'
<1>1. pending' = pending \ {n}
  BY DEF Derive
<1>2. state'[n] = st /\ \A m \in Nodes : m # n => state'[m] = state[m]
  BY DEF IInv, TypeOK
<1>3. current'[n] = cur /\ \A m \in Nodes : m # n => current'[m] = current[m]
  BY DEF IInv, TypeOK
<1> QED BY <1>1, <1>2, <1>3 DEF ComputingOK

LEMMA DeriveBlockedLedger ==
  ASSUME IInv, IInv', LInv, NEW n \in Nodes, DeriveBlocked(n)
  PROVE  LInv'
<1> DEFINE s == Supersede(n, held[n])
           dropped == held[n] \ held[n]
           e == SuspendEffects(n, s, dropped)
           G == Gens(dropped \cup s.evicted)
           cur == {}
<1>1. /\ Derive(n) /\ n \in pending /\ gen' = gen /\ closer' = closer
      /\ state' = [state EXCEPT ![n] = BlockedState(n)]
      /\ current' = [current EXCEPT ![n] = cur] /\ held' = [held EXCEPT ![n] = s.held]
  BY DEF DeriveBlocked, Derive
<1>2. effects' = e
  <2>1. dropped = {}
    OBVIOUS
  <2> QED BY <2>1 DEF DeriveBlocked
<1>3. TypeOK /\ LedgerOK /\ ComputingOK /\ held[n] \in SUBSET held[n]
  BY DEF IInv, LInv
<1>4. /\ IsFiniteSet(s.held) /\ Cardinality(s.held) <= Cap
      /\ \A q, r \in s.held \cup s.evicted : q.key = r.key => q = r
  BY <1>3, SupersedeLedger
<1>5. ~closing => Parted(n, s.held, G) /\ e.cancel = effects.cancel \cup G
                  /\ e.launch = effects.launch /\ e.tell = effects.tell
  BY <1>1, <1>3, SuspendParted DEF LInv
<1>6. BlockedState(n) # "computing"
  BY DEF BlockedState
<1> HIDE DEF s, dropped, e, G
<1>7. /\ \A q, r \in cur : q = r
      /\ cur \cap s.held = {} /\ cur \cup s.held = s.held
  OBVIOUS
<1> HIDE DEF cur
<1>10. LedgerOK'
  BY <1>1, <1>3, <1>4, <1>7, LedgerAt
<1>8. ComputingOK'
  BY <1>1, <1>3, <1>6, DeriveComputing
<1>9. ASSUME ~closing'
      PROVE  Books'
  <2>1. Books /\ ~closing
    BY <1>1, <1>9 DEF LInv, closing
  <2>2. NotesStep(n, s.held, G, {}) /\ Parted(n, s.held, G)
    BY <1>2, <1>5, <2>1 DEF NotesStep
  <2>3. FreshStep(n, {}, cur)
    BY DEF FreshStep
  <2>4. LeftStep(s.held, {}, cur \cup s.held)
    BY <1>7 DEF LeftStep, Gens
  <2>5. gen <= gen'
    BY <1>1, Numbers
  <2>6. DeriveStep(n, s.held, G, {}, cur, s.held)
    BY <1>1, <2>2, <2>3, <2>4, <2>5 DEF DeriveStep
  <2> QED BY <2>1, <2>6, DeriveBooks
<1> QED BY <1>8, <1>9, <1>10 DEF LInv

\* The current run stays; the sources are resolved, so some held runs go.
LEMMA DeriveKeptLedger ==
  ASSUME IInv, IInv', LInv, NEW n \in Nodes, DeriveKept(n)
  PROVE  LInv'
<1> DEFINE dropped == held[n] \ StillHeld(n)
           cur == current[n]
           hel == StillHeld(n)
           K == Runs(n) \ dropped
           G == Gens(dropped)
<1>1. PICK r \in current[n] :
        /\ Derive(n) /\ Publish(n, r)
        /\ held' = [held EXCEPT ![n] = hel]
        /\ effects' = Cancelling(dropped)
        /\ UNCHANGED <<current, gen, stamp>>
  BY DEF DeriveKept
<1>2. n \in pending /\ closer' = closer
  BY <1>1 DEF Derive
<1>3. current \in [Nodes -> SUBSET Run] /\ held \in [Nodes -> SUBSET Run]
  BY DEF IInv, TypeOK
<1>4. hel \subseteq held[n] /\ current' = [current EXCEPT ![n] = cur]
  BY <1>1, <1>3 DEF StillHeld
<1>5. LedgerOK'
  BY <1>1, <1>3, <1>4, LedgerShrinks DEF LInv
<1> DEFINE st == IF r.error THEN "failed" ELSE IF r.result # Null THEN "complete" ELSE "computing"
<1>6. /\ state' = [state EXCEPT ![n] = st]
      /\ st = "computing" => \E q \in cur : InFlight(q)
  BY <1>1 DEF Publish, InFlight
<1> HIDE DEF st
<1>7. ComputingOK'
  BY <1>1, <1>4, <1>6, DeriveComputing DEF LInv
<1>8. ASSUME ~closing'
      PROVE  Books'
  <2>1. Books /\ LedgerOK
    BY <1>2, <1>8 DEF LInv, closing
  <2>2. K = cur \cup hel
    BY <1>4, <2>1 DEF Runs, LedgerOK
  <2>3. dropped \in SUBSET held[n]
    OBVIOUS
  <2> HIDE DEF dropped, cur, hel, K
  <2>4. /\ Parted(n, K, G)
        /\ effects'.cancel = effects.cancel \cup G
        /\ effects'.launch = effects.launch
        /\ effects'.tell = effects.tell
    BY <1>1, <1>2, <2>1, <2>3, CancelParted DEF K
  <2> HIDE DEF G
  <2>5. NotesStep(n, K, G, {})
    BY <2>4 DEF NotesStep
  <2>6. FreshStep(n, {}, cur)
    BY DEF FreshStep
  <2>7. LeftStep(K, {}, cur \cup hel)
    BY <2>2 DEF LeftStep, Gens
  <2>8. gen <= gen'
    BY <1>1, Numbers
  <2>9. DeriveStep(n, K, G, {}, cur, hel)
    BY <1>1, <1>4, <2>4, <2>5, <2>6, <2>7, <2>8 DEF DeriveStep
  <2> QED BY <2>1, <2>9, DeriveBooks
<1> QED BY <1>5, <1>7, <1>8 DEF LInv

\* A held run is demanded again: what it had already comes as a message.
LEMMA DeriveReinstatedLedger ==
  ASSUME IInv, IInv', LInv, NEW n \in Nodes, DeriveReinstated(n)
  PROVE  LInv'
<1> DEFINE was == StillHeld(n)
           s == Supersede(n, was)
           e == SuspendEffects(n, s, held[n] \ was)
           G == Gens((held[n] \ was) \cup s.evicted)
           Back(r) == [r EXCEPT !.result = Null, !.error = FALSE,
                                !.phase = "running", !.kind = "none"]
<1>1. PICK r \in Wanted(n, s.held) :
        /\ Derive(n) /\ n \in pending /\ closer' = closer
        /\ current' = [current EXCEPT ![n] = {Back(r)}]
        /\ held' = [held EXCEPT ![n] = s.held \ {r}]
        /\ effects' = [e EXCEPT !.tell = Told(n, r) \cup @]
        /\ Publish(n, Back(r))
        /\ gen' = gen
  BY DEF DeriveReinstated, Derive
<1>2. TypeOK /\ LedgerOK /\ ComputingOK /\ was \in SUBSET held[n] /\ was \in SUBSET Run
      /\ held[n] \ was \in SUBSET Run
  BY DEF IInv, LInv, StillHeld, TypeOK
<1> HIDE DEF was
<1>3. /\ IsFiniteSet(s.held) /\ Cardinality(s.held) <= Cap
      /\ \A q, o \in s.held \cup s.evicted : q.key = o.key => q = o
  BY <1>2, SupersedeLedger
<1>4. s.held \in SUBSET Run /\ e \in Effects
  BY <1>2, SupersedeRuns, SuspendEffectsOf
<1>5. ~closing => Parted(n, s.held, G) /\ e.cancel = effects.cancel \cup G
                  /\ e.launch = effects.launch /\ e.tell = effects.tell
  BY <1>1, <1>2, SuspendParted DEF LInv
<1> HIDE DEF s, e, G
<1>6. r \in s.held /\ r \in Run
  BY <1>4 DEF Wanted
<1> DEFINE back == Back(r)
           cur == {back}
           hel == s.held \ {r}
<1>7. /\ back.gen = r.gen /\ back.key = r.key /\ InFlight(back)
      /\ ~back.error /\ back.result = Null
  BY <1>6 DEF Run, InFlight
<1>8. current' = [current EXCEPT ![n] = cur] /\ held' = [held EXCEPT ![n] = hel]
  BY <1>1
<1> HIDE DEF Back, back
<1>9. cur \cap hel = {} /\ \A q, o \in cur : q = o
  BY <1>3, <1>6, <1>7
<1>10. \A q, o \in cur \cup hel : q.key = o.key => q = o
  BY <1>3, <1>6, <1>7
<1>11. IsFiniteSet(hel) /\ Cardinality(hel) <= Cap
  <2>1. hel \in SUBSET s.held
    OBVIOUS
  <2> HIDE DEF hel
  <2>2. /\ IsFiniteSet(hel) /\ Cardinality(hel) <= Cardinality(s.held)
        /\ Cardinality(hel) \in Nat /\ Cardinality(s.held) \in Nat /\ Cap \in Nat
    BY <1>3, <2>1, FS_Subset, FS_CardinalityType, ConstantsAssumption
  <2> QED BY <1>3, <2>2
<1>12. state' = [state EXCEPT ![n] = "computing"]
  BY <1>1, <1>7 DEF Publish, back
<1>13. \E q \in cur : InFlight(q)
  BY <1>7
<1>14. cur \cup hel = {back} \cup (s.held \ {r})
  OBVIOUS
<1> HIDE DEF cur, hel
<1>15. LedgerOK'
  BY <1>2, <1>8, <1>9, <1>10, <1>11, LedgerAt
<1>16. ComputingOK'
  BY <1>1, <1>2, <1>8, <1>12, <1>13, DeriveComputing
<1>17. ASSUME ~closing'
       PROVE  Books'
  <2>1. Books /\ ~closing
    BY <1>1, <1>17 DEF LInv, closing
  <2>2. Parted(n, s.held, G) /\ e.cancel = effects.cancel \cup G
        /\ e.launch = effects.launch /\ e.tell = effects.tell
    BY <1>5, <2>1
  <2>3. /\ effects'.cancel = e.cancel /\ effects'.launch = e.launch
        /\ effects'.tell = Told(n, r) \cup e.tell
    BY <1>1, <1>4 DEF Effects
  <2>4. \A m \in Told(n, r) : m.node = n /\ m.gen = r.gen
    BY DEF Told
  <2>5. r.gen \in Gens(s.held)
    BY <1>6 DEF Gens
  <2>6. NotesStep(n, s.held, G, {})
    BY <2>2, <2>3, <2>4, <2>5 DEF NotesStep
  <2>7. FreshStep(n, {}, cur)
    BY DEF FreshStep
  <2>8. InFlight(r) \/ \E m \in effects'.tell : m.gen = r.gen
    <3>1. CASE r.result # Null \/ r.error
      BY <2>3, <3>1 DEF Told
    <3>2. CASE ~(r.result # Null \/ r.error)
      BY <3>2 DEF InFlight
    <3> QED BY <3>1, <3>2
  <2>9. LeftStep(s.held, {}, cur \cup hel)
    <3>1. \A q \in s.held : q.gen \in Gens(cur \cup hel)
      BY <1>7, <1>14 DEF Gens
    <3>2. ASSUME NEW o \in cur \cup hel
          PROVE  \E q \in s.held : /\ q.gen = o.gen
                                   /\ InFlight(o) => \/ InFlight(q)
                                                     \/ \E m \in effects'.tell : m.gen = o.gen
      <4>1. CASE o = back
        BY <1>6, <1>7, <2>8, <4>1
      <4>2. CASE o \in s.held
        BY <4>2
      <4> QED BY <1>14, <4>1, <4>2
    <3> QED BY <3>1, <3>2 DEF LeftStep
  <2>10. gen <= gen'
    BY <1>1, Numbers
  <2>11. DeriveStep(n, s.held, G, {}, cur, hel)
    BY <1>1, <1>8, <2>2, <2>6, <2>7, <2>9, <2>10 DEF DeriveStep
  <2> QED BY <2>1, <2>11, DeriveBooks
<1> QED BY <1>15, <1>16, <1>17 DEF LInv

\* Nothing answers the demand: a new run, under a generation of its own.
LEMMA DeriveLaunchedLedger ==
  ASSUME IInv, IInv', LInv, NEW n \in Nodes, DeriveLaunched(n)
  PROVE  LInv'
<1> DEFINE was == StillHeld(n)
           s == Supersede(n, was)
           e == SuspendEffects(n, s, held[n] \ was)
           G == Gens((held[n] \ was) \cup s.evicted)
           r == [gen |-> gen + 1, key |-> DemandKey(n), result |-> Null, error |-> FALSE,
                 phase |-> "running", kind |-> "none", hold |-> 0]
           task == [node |-> n, gen |-> r.gen, key |-> r.key,
                    stage |-> "constructing", cancelled |-> FALSE]
           cur == {r}
           fresh == {task}
<1>1. /\ Derive(n) /\ n \in pending /\ closer' = closer
      /\ Wanted(n, s.held) = {}
      /\ gen' = gen + 1
      /\ current' = [current EXCEPT ![n] = cur]
      /\ held' = [held EXCEPT ![n] = s.held]
      /\ effects' = [e EXCEPT !.launch = fresh \cup @]
      /\ Publish(n, r)
  BY DEF DeriveLaunched, Derive
<1>2. TypeOK /\ LedgerOK /\ ComputingOK /\ was \in SUBSET held[n] /\ was \in SUBSET Run
      /\ held[n] \ was \in SUBSET Run
  BY DEF IInv, LInv, StillHeld, TypeOK
<1> HIDE DEF was
<1>3. /\ IsFiniteSet(s.held) /\ Cardinality(s.held) <= Cap
      /\ \A q, o \in s.held \cup s.evicted : q.key = o.key => q = o
  BY <1>2, SupersedeLedger
<1>4. s.held \in SUBSET Run /\ e \in Effects
  BY <1>2, SupersedeRuns, SuspendEffectsOf
<1>5. ~closing => Parted(n, s.held, G) /\ e.cancel = effects.cancel \cup G
                  /\ e.launch = effects.launch /\ e.tell = effects.tell
  BY <1>1, <1>2, SuspendParted DEF LInv
<1> HIDE DEF s, e, G
<1>6. /\ r.gen = gen + 1 /\ r.key = DemandKey(n) /\ InFlight(r)
      /\ ~r.error /\ r.result = Null
      /\ task.gen = gen + 1 /\ task.node = n /\ ~task.cancelled
  BY DEF InFlight
<1> HIDE DEF r, task
<1>7. \A q \in s.held : q.key # r.key
  BY <1>1, <1>6 DEF Wanted
<1>8. /\ \A q, o \in cur : q = o
      /\ cur \cap s.held = {}
      /\ \A q, o \in cur \cup s.held : q.key = o.key => q = o
  BY <1>3, <1>7
<1>9. state' = [state EXCEPT ![n] = "computing"]
  BY <1>1, <1>6 DEF Publish
<1>10. \E q \in cur : InFlight(q)
  BY <1>6
<1>11. \A q \in cur : q = r
  OBVIOUS
<1>12. r \in cur /\ task \in fresh /\ \A t \in fresh : t = task
  OBVIOUS
<1> HIDE DEF cur, fresh
<1>13. LedgerOK'
  BY <1>1, <1>2, <1>3, <1>8, LedgerAt
<1>14. ComputingOK'
  BY <1>1, <1>2, <1>9, <1>10, DeriveComputing
<1>15. ASSUME ~closing'
       PROVE  Books'
  <2>1. Books /\ ~closing
    BY <1>1, <1>15 DEF LInv, closing
  <2>2. Parted(n, s.held, G) /\ e.cancel = effects.cancel \cup G
        /\ e.launch = effects.launch /\ e.tell = effects.tell
    BY <1>5, <2>1
  <2>3. /\ effects'.cancel = e.cancel /\ effects'.launch = fresh \cup e.launch
        /\ effects'.tell = e.tell
    BY <1>1, <1>4 DEF Effects
  <2>4. NotesStep(n, s.held, G, fresh)
    BY <2>2, <2>3 DEF NotesStep
  <2>5. FreshStep(n, fresh, cur)
    BY <1>1, <1>6, <1>12 DEF FreshStep, Gens
  <2>6. LeftStep(s.held, fresh, cur \cup s.held)
    BY <1>6, <1>11, <1>12 DEF LeftStep, Gens
  <2>7. gen <= gen'
    BY <1>1, Numbers
  <2>8. DeriveStep(n, s.held, G, fresh, cur, s.held)
    BY <1>1, <2>2, <2>4, <2>5, <2>6, <2>7 DEF DeriveStep
  <2> QED BY <2>1, <2>8, DeriveBooks
<1> QED BY <1>13, <1>14, <1>15 DEF LInv

-----------------------------------------------------------------------------
\* The end of a turn, and close()

\* Which executions are cancelled after a cancellation.
LEMMA CancelMarks ==
  ASSUME NEW runs \in SUBSET Task, NEW gens
  PROVE  /\ \A t \in Cancel(runs, gens) : \E u \in runs :
              t.node = u.node /\ t.gen = u.gen /\ (t.cancelled <=> u.cancelled \/ u.gen \in gens)
         /\ \A u \in runs : \E t \in Cancel(runs, gens) :
              t.node = u.node /\ t.gen = u.gen /\ (t.cancelled <=> u.cancelled \/ u.gen \in gens)
<1> DEFINE mark(t) == [t EXCEPT !.cancelled = @ \/ t.gen \in gens]
<1>1. ASSUME NEW t \in Task
      PROVE  LET c == mark(t)
             IN c.node = t.node /\ c.gen = t.gen /\ (c.cancelled <=> t.cancelled \/ t.gen \in gens)
  <2> DEFINE b == t.cancelled \/ t.gen \in gens
  <2>1. b <=> t.cancelled \/ t.gen \in gens
    OBVIOUS
  <2>2. mark(t) = [t EXCEPT !.cancelled = b]
    OBVIOUS
  <2> HIDE DEF b, mark
  <2>3. LET c == [t EXCEPT !.cancelled = b]
        IN c.node = t.node /\ c.gen = t.gen /\ c.cancelled = b
    BY DEF Task
  <2> QED BY <2>1, <2>2, <2>3
<1>2. Cancel(runs, gens) = {mark(t) : t \in runs}
  BY DEF Cancel
<1> HIDE DEF mark
<1> QED BY <1>1, <1>2

LEMMA AfterTurnLedger ==
  ASSUME IInv, IInv', LInv, AfterTurn
  PROVE  LInv'
<1> USE DEF AfterTurn, graph, ledger
<1>1. LedgerOK'
  BY LedgerShrinks DEF LInv
<1>2. ComputingOK'
  BY DEF LInv, ComputingOK, InFlight
<1>3. /\ Books /\ \A n \in Nodes : Runs(n)' = Runs(n)
  BY DEF LInv, Runs
<1>4. /\ effects' = NoEffects
      /\ effects'.launch = {} /\ effects'.cancel = {} /\ effects'.tell = {}
      /\ news' = news \cup effects.tell
      /\ tasks \in SUBSET Task
  BY DEF NoEffects, IInv, TypeOK
<1> DEFINE C == Cancel(tasks, effects.cancel)
<1>5. tasks' = C \cup effects.launch
  OBVIOUS
<1>6. /\ \A t \in C : \E u \in tasks : /\ t.node = u.node /\ t.gen = u.gen
                                       /\ t.cancelled <=> u.cancelled \/ u.gen \in effects.cancel
      /\ \A u \in tasks : \E t \in C : /\ t.node = u.node /\ t.gen = u.gen
                                       /\ t.cancelled <=> u.cancelled \/ u.gen \in effects.cancel
  BY <1>4, CancelMarks
<1> HIDE DEF C
<1>7. NodesAgree'
  <2>1. \A t \in tasks' : \E u \in tasks \cup effects.launch : t.node = u.node /\ t.gen = u.gen
    BY <1>5, <1>6
  <2> QED BY <1>3, <1>4, <2>1 DEF Books, NodesAgree
<1>8. EffectsOK'
  BY <1>4 DEF EffectsOK
<1>9. ASSUME NEW t \in tasks', ~t.cancelled
      PROVE  t.gen \in Gens(Runs(t.node))
  <2>1. CASE t \in effects.launch
    BY <1>3, <2>1 DEF Books, EffectsOK
  <2>2. CASE t \in C
    BY <1>3, <1>6, <1>9, <2>2 DEF Books, NothingLeaked
  <2> QED BY <1>5, <2>1, <2>2
<1>10. \A t \in tasks' : t.node \in Nodes
  BY <1>5, <1>6, Numbers
<1>11. NothingLeaked'
  BY <1>3, <1>9, <1>10 DEF NothingLeaked
<1>12. ASSUME NEW n \in Nodes, NEW r \in Runs(n), InFlight(r)
       PROVE  Expected(r)'
  <2>1. Expected(r)
    BY <1>3, <1>12 DEF Books, NothingLost
  <2>2. r.gen \notin effects.cancel
    BY <1>3, <1>12 DEF Books, EffectsOK, Gens
  <2>3. CASE \E m \in news \cup effects.tell : m.gen = r.gen
    BY <1>4, <2>3 DEF Expected
  <2>4. CASE \E t \in effects.launch : t.gen = r.gen /\ ~t.cancelled
    BY <1>5, <2>4 DEF Expected
  <2>5. CASE \E t \in tasks : t.gen = r.gen /\ ~t.cancelled
    BY <1>5, <1>6, <2>2, <2>5 DEF Expected
  <2> QED BY <2>1, <2>3, <2>4, <2>5 DEF Expected
<1>13. NothingLost'
  BY <1>3, <1>12 DEF NothingLost, InFlight
<1> QED BY <1>1, <1>2, <1>3, <1>7, <1>8, <1>11, <1>13 DEF LInv, Books

\* The steps that leave the ledger and the executions alone.
LEMMA QuietLedger ==
  ASSUME LInv, AfterTurnClosing \/ CloseCall \/ UNCHANGED vars
  PROVE  LInv'
<1> USE DEF AfterTurnClosing, CloseCall, vars, graph, ledger, side
<1>1. LedgerOK'
  BY LedgerShrinks DEF LInv
<1>2. ComputingOK'
  BY DEF LInv, ComputingOK, InFlight
<1>3. CASE closing'
  BY <1>1, <1>2, <1>3 DEF LInv
<1>4. CASE ~closing'
  <2>1. UNCHANGED vars /\ ~closing
    BY <1>4 DEF closing
  <2>2. Books
    BY <2>1 DEF LInv
  <2>3. Books'
    BY <2>1, <2>2 DEF Books, NodesAgree, EffectsOK, NothingLeaked, NothingLost, Expected, InFlight, Runs
  <2> QED BY <1>1, <1>2, <2>3 DEF LInv
<1> QED BY <1>3, <1>4

LEMMA ClosingLedger ==
  ASSUME IInv, LInv, Closing
  PROVE  LInv'
<1>1. closing'
  BY DEF Closing, BeginClose, FinishClose, closing
<1>2. CASE BeginClose
  <2>1. LedgerOK'
    BY <1>2, LedgerShrinks DEF BeginClose, ledger, LInv
  <2>2. TurnOK /\ turn = "idle"
    BY <1>2 DEF BeginClose, Begin, IInv
  <2>3. ComputingOK'
    BY <1>2, <2>2 DEF BeginClose, Begin, graph, ledger, LInv, ComputingOK, InFlight, TurnOK
  <2> QED BY <1>1, <2>1, <2>3 DEF LInv
<1>3. CASE FinishClose
  <2>1. LedgerOK'
    BY <1>3, LedgerShrinks DEF FinishClose, LInv
  <2>2. ComputingOK'
    BY <1>3 DEF FinishClose, Begin, ComputingOK
  <2> QED BY <1>1, <2>1, <2>2 DEF LInv
<1> QED BY <1>2, <1>3 DEF Closing

-----------------------------------------------------------------------------
\* The theorems

LEMMA InitLInv == Init => LInv
<1> SUFFICES ASSUME Init PROVE LInv
  OBVIOUS
<1> USE DEF Init
<1>1. \A n \in Nodes : Runs(n) = {}
  BY DEF Runs
<1>2. /\ effects.launch = {} /\ effects.cancel = {} /\ effects.tell = {}
      /\ effects = NoEffects
  BY DEF NoEffects
<1>3. LedgerOK
  <2>1. IsFiniteSet({}) /\ Cardinality({}) = 0 /\ 0 <= Cap
    BY FS_EmptySet, ConstantsAssumption
  <2> QED BY <1>1, <2>1 DEF LedgerOK
<1>4. ComputingOK
  BY DEF ComputingOK
<1>5. Books
  BY <1>1, <1>2 DEF Books, NodesAgree, EffectsOK, NothingLeaked, NothingLost
<1> QED BY <1>3, <1>4, <1>5 DEF LInv

LEMMA NextLInv == IInv /\ IInv' /\ LInv /\ [Next]_vars => LInv'
<1> SUFFICES ASSUME IInv, IInv', LInv, [Next]_vars PROVE LInv'
  OBVIOUS
<1>1. CASE Request
  <2>1. \A P \in {Nodes} \cup {{m \in Nodes : n \in Cone[m]} : n \in Nodes} : P \in SUBSET Nodes
    OBVIOUS
  <2>2. Graphs \subseteq [Nodes -> Configs \cup {Unset}]
    BY GraphsAssumption
  <2> QED BY <1>1, <2>1, <2>2, EditLedger, ClearExceptionLedger, PruneLedger, SetGraphLedger, InstallWaitLedger DEF Request
<1>2. CASE Execution
  BY <1>2, StartedLedger, ExecutionLands, VanishLedger DEF Execution
<1>3. CASE Derivation
  BY <1>3, DeriveBlockedLedger, DeriveKeptLedger, DeriveReinstatedLedger, DeriveLaunchedLedger DEF Derivation
<1>4. CASE TurnEnd
  BY <1>4, AfterTurnLedger, QuietLedger DEF TurnEnd
<1>5. CASE Delivery
  BY <1>5, TakeNewsLedger DEF Delivery
<1>6. CASE Expiry
  BY <1>6, ExpireLedger DEF Expiry
<1>7. CASE CloseCall
  BY <1>7, QuietLedger
<1>8. CASE Closing
  BY <1>8, ClosingLedger
<1>9. CASE UNCHANGED vars
  BY <1>9, QuietLedger
<1> QED BY <1>1, <1>2, <1>3, <1>4, <1>5, <1>6, <1>7, <1>8, <1>9 DEF Next

\* The inductive invariant of the ledger: keys and the cap, a run in flight for
\* every node that says "computing", and the books, by which the executions,
\* the messages and the effects of the turn account for every run.
THEOREM LedgerInductive == Spec => []LInv
BY InitLInv, NextLInv, Inductive, PTL DEF Spec

\* At most superseded_cap runs of a node are held, whatever overtakes what
\* (ContextRuntime.supersede evicts before it returns).
THEOREM HoldsBounded == Spec => []HeldBounded
<1>1. LInv => HeldBounded
  BY DEF LInv, LedgerOK, HeldBounded
<1> QED BY <1>1, LedgerInductive, PTL

\* No two runs of a node in the ledger answer the same demand
\* (_derive_transformer looks among the held runs before it launches one).
THEOREM DemandsDiffer == Spec => []NoDuplicateDemand
<1>1. LInv => NoDuplicateDemand
  BY DEF LInv, LedgerOK, NoDuplicateDemand
<1> QED BY <1>1, LedgerInductive, PTL

\* Between two turns every execution that is not cancelled belongs to a run of
\* the ledger (_suspend, _expire_run, prune, clear_exception and set_graph
\* cancel what they drop).
THEOREM NoExecutionLeaks == Spec => []NoLeakedRun
<1>1. LInv => NoLeakedRun
  <2> SUFFICES ASSUME LInv, turn = "idle", ~closing, NEW t \in tasks
               PROVE  t.cancelled \/ t.gen \in Gens(Runs(t.node))
    BY DEF NoLeakedRun
  <2>1. effects.cancel = {}
    BY DEF LInv, Books, EffectsOK, NoEffects
  <2> QED BY <2>1 DEF LInv, Books, NothingLeaked
<1> QED BY <1>1, LedgerInductive, PTL

\* Between two turns a node that says "computing" has an execution that nobody
\* cancelled, or a message that is queued (the reinstatement of
\* _derive_transformer re-sends what a held run had already).
THEOREM NoRunLost == Spec => []NoLostRun
<1>1. IInv /\ LInv => NoLostRun
  <2> SUFFICES ASSUME IInv, LInv, turn = "idle", ~closing,
                      NEW n \in Nodes, state[n] = "computing"
               PROVE  \E r \in current[n] : OnItsWay(r)
    BY DEF NoLostRun
  <2>1. effects.launch = {} /\ effects.tell = {}
    BY DEF LInv, Books, EffectsOK, NoEffects
  <2>2. pending = {}
    BY DEF IInv, TurnOK
  <2>3. PICK r \in current[n] : InFlight(r)
    BY <2>2 DEF LInv, ComputingOK
  <2>4. Expected(r)
    BY <2>3 DEF LInv, Books, NothingLost, Runs
  <2> QED BY <2>1, <2>4 DEF Expected, OnItsWay
<1> QED BY <1>1, Inductive, LedgerInductive, PTL

-----------------------------------------------------------------------------
\* The holds

\* What a step does to the holds: they go on, or end, or one begins, with its
\* timer; and a timer goes only together with its hold.
Continued(n, r) == \E q \in held[n] : q.gen = r.gen /\ q.hold = r.hold
Begun(n, r) == r.hold = stamp + 1 /\ stamp' = stamp + 1 /\ TimersOf(n, {r}) \subseteq effects'.arm
HoldsStep ==
  /\ stamp' \in {stamp, stamp + 1} /\ (closing => closing')
  /\ \A n \in Nodes : \A r \in held'[n] : Continued(n, r) \/ Begun(n, r)
  /\ \A m, n \in Nodes : \A q \in held'[m], r \in held'[n] :
       q.hold = stamp + 1 /\ r.hold = stamp + 1 => m = n /\ q.gen = r.gen
  /\ \A t \in timers' \cup effects'.arm : t \in timers \cup effects.arm \/ t.hold <= stamp'
  /\ ~closing' => \A n \in Nodes : \A r \in held'[n] :
                    TimersOf(n, {r}) \cap (timers \cup effects.arm) \subseteq timers' \cup effects'.arm

\* The numbers of holds.
LEMMA HoldNumbers ==
  ASSUME IInv
  PROVE  /\ stamp \in Nat /\ effects \in Effects
         /\ \A n \in Nodes : held[n] \in SUBSET Run /\ current[n] \in SUBSET Run
         /\ \A n \in Nodes : \A r \in held[n] : r.hold \in Nat
         /\ \A t \in timers \cup effects.arm : t \in Timer /\ t.hold \in Nat
         /\ held \in [Nodes -> SUBSET Run]
<1>1. /\ stamp \in Nat /\ effects \in Effects /\ timers \in SUBSET Timer /\ effects.arm \in SUBSET Timer
      /\ held \in [Nodes -> SUBSET Run] /\ current \in [Nodes -> SUBSET Run]
  BY DEF IInv, TypeOK, Effects
<1>2. (\A r \in Run : r.hold \in Nat) /\ \A t \in Timer : t.hold \in Nat
  BY DEF Run, Timer
<1> QED BY <1>1, <1>2

LEMMA HoldsGoOn ==
  ASSUME IInv, IInv', HInv, HoldsStep
  PROVE  HInv'
<1>1. stamp \in Nat /\ stamp' \in Nat /\ stamp <= stamp'
  BY HoldNumbers DEF HoldsStep
<1>2. \A n \in Nodes : \A r \in held[n] : r.hold \in Nat /\ r.hold <= stamp /\ r.hold # stamp + 1
  BY <1>1, HoldNumbers DEF HInv, HoldsNumbered
<1>3. ASSUME NEW n \in Nodes, NEW r \in held'[n]
      PROVE  r.hold <= stamp'
  <2>1. CASE Continued(n, r)
    BY <1>1, <1>2, <2>1 DEF Continued
  <2>2. CASE Begun(n, r)
    BY <1>1, <2>2 DEF Begun
  <2> QED BY <2>1, <2>2 DEF HoldsStep
<1>4. ASSUME NEW m \in Nodes, NEW n \in Nodes, NEW q \in held'[m], NEW r \in held'[n], q.hold = r.hold
      PROVE  m = n /\ q.gen = r.gen
  <2>1. CASE q.hold = stamp + 1
    BY <1>4, <2>1 DEF HoldsStep
  <2>2. CASE q.hold # stamp + 1
    <3>1. Continued(m, q) /\ Continued(n, r)
      BY <1>4, <2>2 DEF HoldsStep, Begun
    <3> QED BY <1>4, <3>1 DEF Continued, HInv, HoldsNumbered
  <2> QED BY <2>1, <2>2
<1>5. \A t \in timers \cup effects.arm : t.hold \in Nat /\ t.hold <= stamp
  BY HoldNumbers DEF HInv, HoldsNumbered
<1>6. \A t \in timers' \cup effects'.arm : t.hold <= stamp'
  BY <1>1, <1>5 DEF HoldsStep
<1>7. ASSUME ~closing', NEW n \in Nodes, NEW r \in held'[n]
      PROVE  TimersOf(n, {r}) \subseteq timers' \cup effects'.arm
  <2>1. CASE Continued(n, r)
    <3>1. PICK q \in held[n] : q.gen = r.gen /\ q.hold = r.hold
      BY <2>1 DEF Continued
    <3>2. TimersOf(n, {q}) \subseteq timers \cup effects.arm
      BY <1>7, <3>1 DEF HoldsStep, HInv, HoldsTimed, TimersOf
    <3>3. TimersOf(n, {r}) = TimersOf(n, {q})
      BY <3>1 DEF TimersOf
    <3> QED BY <1>7, <3>2, <3>3 DEF HoldsStep
  <2>2. CASE Begun(n, r)
    BY <2>2 DEF Begun
  <2> QED BY <2>1, <2>2 DEF HoldsStep
<1>8. ASSUME ~closing'
      PROVE  HoldsTimed'
  BY <1>7, <1>8 DEF HoldsTimed, TimersOf
<1> QED BY <1>3, <1>4, <1>6, <1>8 DEF HInv, HoldsNumbered

\* The steps in which no hold begins.
LEMMA HoldsStay ==
  ASSUME IInv, stamp' = stamp, closing => closing',
         \A n \in Nodes : \A r \in held'[n] : Continued(n, r),
         HInv, timers' \cup effects'.arm \subseteq timers \cup effects.arm,
         ~closing' => \A n \in Nodes : \A r \in held'[n] :
                        TimersOf(n, {r}) \cap (timers \cup effects.arm) \subseteq timers' \cup effects'.arm
  PROVE  HoldsStep
<1>1. stamp \in Nat
  BY HoldNumbers
<1>2. \A n \in Nodes : \A r \in held'[n] : r.hold <= stamp /\ r.hold \in Nat
  BY HoldNumbers DEF Continued, HInv, HoldsNumbered
<1> QED BY <1>1, <1>2 DEF HoldsStep

\* What stays of the holds has its number.
LEMMA HeldContinued ==
  ASSUME NEW n \in Nodes, NEW r \in held[n]
  PROVE  Continued(n, r)
BY DEF Continued

\* A run that is put on hold.
LEMMA SupersedeHolds ==
  ASSUME IInv, LedgerOK, HInv, NEW n \in Nodes, NEW was \in SUBSET held[n], NEW dropped
  PROVE  LET s == Supersede(n, was)
             e == SuspendEffects(n, s, dropped)
         IN /\ \A r \in s.held : r \in held[n] \/ /\ r \in s.moved /\ r.hold = stamp + 1
                                                  /\ NextStamp(s) = stamp + 1
            /\ \A q, r \in s.moved : q.gen = r.gen
            /\ NextStamp(s) \in {stamp, stamp + 1}
            /\ e.arm = TimersOf(n, s.moved) \cup effects.arm
            /\ \A t \in TimersOf(n, s.moved) : t.hold = NextStamp(s)
<1> DEFINE up(r) == [r EXCEPT !.phase = "superseded", !.hold = stamp + 1,
                              !.kind = IF UpstreamUnresolved(n) THEN "upstream" ELSE "self-edit"]
           moved == {up(r) : r \in current[n]}
           queued == was \cup moved
           evicted == {r \in queued : Excess(queued) /\ \A q \in queued : r.hold <= q.hold}
           s == Supersede(n, was)
           e == SuspendEffects(n, s, dropped)
<1>1. s = [moved |-> moved, held |-> queued \ evicted, evicted |-> evicted]
  BY DEF Supersede
<1>2. s.moved = moved /\ s.held \subseteq was \cup moved
  <2> HIDE DEF s, moved, evicted
  <2> QED BY <1>1
<1>3. \A r \in current[n] : up(r).gen = r.gen /\ up(r).hold = stamp + 1
  BY HoldNumbers DEF Run
<1> HIDE DEF up, s, evicted
<1>4. \A r \in moved : r.hold = stamp + 1
  BY <1>3
<1>5. \A q, r \in moved : q.gen = r.gen
  BY <1>3 DEF LedgerOK
<1> HIDE DEF moved
<1>6. e.arm = TimersOf(n, s.moved) \cup effects.arm
  <2>1. Cancelling(dropped \cup s.evicted).arm = effects.arm
    BY HoldNumbers DEF Cancelling, Effects
  <2>2. e = [Cancelling(dropped \cup s.evicted) EXCEPT !.arm = TimersOf(n, s.moved) \cup @]
    BY DEF SuspendEffects
  <2>3. DOMAIN Cancelling(dropped \cup s.evicted) = {"launch", "cancel", "arm", "tell"}
    BY HoldNumbers DEF Cancelling, Effects
  <2> QED BY <2>1, <2>2, <2>3
<1>7. NextStamp(s) = IF moved = {} THEN stamp ELSE stamp + 1
  BY <1>2 DEF NextStamp
<1>8. \A t \in TimersOf(n, s.moved) : t.hold = NextStamp(s)
  BY <1>2, <1>4, <1>7 DEF TimersOf
<1> QED BY <1>2, <1>4, <1>5, <1>6, <1>7, <1>8 DEF s

\* A node's run is put on hold, and of the holds of the node some remain.
LEMMA SuspendHolds ==
  ASSUME IInv, LedgerOK, HInv, NEW n \in Nodes, NEW was \in SUBSET held[n], NEW dropped,
         NEW hel, hel \subseteq Supersede(n, was).held,
         held' = [held EXCEPT ![n] = hel], stamp' = NextStamp(Supersede(n, was)),
         effects'.arm = SuspendEffects(n, Supersede(n, was), dropped).arm,
         timers' = timers, closer' = closer
  PROVE  HoldsStep
<1> DEFINE s == Supersede(n, was)
           e == SuspendEffects(n, s, dropped)
<1>1. /\ \A r \in s.held : r \in held[n] \/ (r \in s.moved /\ r.hold = stamp + 1 /\ NextStamp(s) = stamp + 1)
      /\ \A q, r \in s.moved : q.gen = r.gen
      /\ NextStamp(s) \in {stamp, stamp + 1}
      /\ e.arm = TimersOf(n, s.moved) \cup effects.arm
      /\ \A t \in TimersOf(n, s.moved) : t.hold = NextStamp(s)
  BY SupersedeHolds
<1>2. /\ hel \subseteq s.held /\ stamp' = NextStamp(s) /\ effects'.arm = e.arm
  OBVIOUS
<1> HIDE DEF s, e
<1>3. /\ stamp \in Nat /\ held \in [Nodes -> SUBSET Run]
      /\ \A m \in Nodes : \A r \in held[m] : r.hold \in Nat /\ r.hold <= stamp /\ r.hold # stamp + 1
  <2>1. stamp \in Nat /\ held \in [Nodes -> SUBSET Run]
    BY HoldNumbers
  <2>2. \A m \in Nodes : \A r \in held[m] : r.hold \in Nat /\ r.hold <= stamp
    BY HoldNumbers DEF HInv, HoldsNumbered
  <2> QED BY <2>1, <2>2
<1>4. held'[n] = hel /\ \A m \in Nodes \ {n} : held'[m] = held[m]
  BY <1>3
<1>5. \A m \in Nodes : \A r \in held'[m] :
        r \in held[m] \/ /\ m = n /\ r \in s.moved /\ r.hold = stamp + 1 /\ stamp' = stamp + 1
  BY <1>1, <1>2, <1>4
<1>6. ASSUME NEW m \in Nodes, NEW r \in held'[m]
      PROVE  Continued(m, r) \/ Begun(m, r)
  <2>1. CASE r \in held[m]
    BY <2>1, HeldContinued
  <2>2. CASE m = n /\ r \in s.moved /\ r.hold = stamp + 1 /\ stamp' = stamp + 1
    <3>1. TimersOf(m, {r}) \subseteq effects'.arm
      BY <1>1, <1>2, <2>2 DEF TimersOf
    <3> QED BY <2>2, <3>1 DEF Begun
  <2> QED BY <1>5, <2>1, <2>2
<1>7. \A m, k \in Nodes : \A q \in held'[m], r \in held'[k] :
        q.hold = stamp + 1 /\ r.hold = stamp + 1 => m = k /\ q.gen = r.gen
  BY <1>1, <1>3, <1>5
<1>8. effects.arm \subseteq effects'.arm
      /\ \A t \in timers' \cup effects'.arm : t \in timers \cup effects.arm \/ t.hold = stamp'
  BY <1>1, <1>2
<1>9. stamp' \in {stamp, stamp + 1} /\ stamp' \in Nat /\ closing' = closing
  BY <1>1, <1>2, <1>3 DEF closing
<1>10. \A t \in timers' \cup effects'.arm : t \in timers \cup effects.arm \/ t.hold <= stamp'
  <2>1. stamp' <= stamp'
    BY <1>9
  <2> QED BY <1>8, <2>1
<1> QED BY <1>6, <1>7, <1>8, <1>9, <1>10 DEF HoldsStep

LEMMA DeriveHolds ==
  ASSUME IInv, LInv, HInv, Derivation
  PROVE  HoldsStep
<1>1. PICK n \in Nodes : DeriveBlocked(n) \/ DeriveKept(n) \/ DeriveReinstated(n) \/ DeriveLaunched(n)
  BY DEF Derivation
<1>2. timers' = timers /\ closer' = closer
  BY <1>1 DEF DeriveBlocked, DeriveKept, DeriveReinstated, DeriveLaunched, Derive, side
<1>3. /\ StillHeld(n) \in SUBSET held[n] /\ held[n] \in SUBSET held[n] /\ LedgerOK
      /\ effects \in Effects /\ held \in [Nodes -> SUBSET Run]
  BY HoldNumbers DEF StillHeld, LInv
<1>4. CASE DeriveBlocked(n)
  <2> DEFINE s == Supersede(n, held[n])
  <2>1. /\ held' = [held EXCEPT ![n] = s.held] /\ stamp' = NextStamp(s)
        /\ effects' = SuspendEffects(n, s, {}) /\ s.held \subseteq s.held
    BY <1>4 DEF DeriveBlocked
  <2> QED BY <1>2, <1>3, <2>1, SuspendHolds
<1>5. CASE DeriveKept(n)
  <2>1. /\ held' = [held EXCEPT ![n] = StillHeld(n)] /\ effects' = Cancelling(held[n] \ StillHeld(n))
        /\ stamp' = stamp
    BY <1>5 DEF DeriveKept
  <2>2. effects'.arm = effects.arm
    BY <1>3, <2>1 DEF Cancelling, Effects
  <2>3. \A m \in Nodes : held'[m] \subseteq held[m]
    BY <1>3, <2>1
  <2>4. closing' = closing
    BY <1>2 DEF closing
  <2> QED BY <1>2, <2>1, <2>2, <2>3, <2>4, HeldContinued, HoldsStay
<1> DEFINE s == Supersede(n, StillHeld(n))
           e == SuspendEffects(n, s, held[n] \ StillHeld(n))
<1>6. e \in Effects
  <2>1. TypeOK /\ StillHeld(n) \in SUBSET Run /\ held[n] \ StillHeld(n) \in SUBSET Run
    BY <1>3, HoldNumbers DEF IInv
  <2> QED BY <2>1, SupersedeRuns, SuspendEffectsOf
<1>7. CASE DeriveReinstated(n)
  <2>1. PICK r \in Wanted(n, s.held) :
          /\ held' = [held EXCEPT ![n] = s.held \ {r}] /\ stamp' = NextStamp(s)
          /\ effects' = [e EXCEPT !.tell = Told(n, r) \cup @]
    BY <1>7 DEF DeriveReinstated
  <2>2. effects'.arm = e.arm
    BY <1>6, <2>1 DEF Effects
  <2>3. s.held \ {r} \subseteq s.held
    OBVIOUS
  <2> QED BY <1>2, <1>3, <2>1, <2>2, <2>3, SuspendHolds
<1>8. CASE DeriveLaunched(n)
  <2>1. PICK fresh :
          /\ held' = [held EXCEPT ![n] = s.held] /\ stamp' = NextStamp(s)
          /\ effects' = [e EXCEPT !.launch = fresh \cup @]
    BY <1>8 DEF DeriveLaunched
  <2>2. effects'.arm = e.arm
    BY <1>6, <2>1 DEF Effects
  <2>3. s.held \subseteq s.held
    OBVIOUS
  <2> QED BY <1>2, <1>3, <2>1, <2>2, <2>3, SuspendHolds
<1> QED BY <1>1, <1>4, <1>5, <1>7, <1>8

\* Results land in held runs without changing the hold.
LEMMA LandHolds ==
  ASSUME IInv, HInv, NEW n \in Nodes, NEW g, NEW res, Land(n, g, res)
  PROVE  HoldsStep
<1> DEFINE landed(r) == IF ~IsRun(r, g) THEN r
                        ELSE [r EXCEPT !.result = res, !.error = (res = Null),
                                       !.phase = IF @ = "superseded" THEN @ ELSE "completed"]
<1>1. /\ stamp' = stamp /\ effects' = effects /\ timers' = timers /\ closer' = closer
      /\ held' = held \/ held' = [held EXCEPT ![n] = {landed(r) : r \in held[n]}]
  BY HoldNumbers DEF Land
<1>2. \A r \in held[n] : landed(r).gen = r.gen /\ landed(r).hold = r.hold
  BY HoldNumbers DEF Run
<1> HIDE DEF landed
<1>3. ASSUME NEW m \in Nodes, NEW r \in held'[m]
      PROVE  Continued(m, r)
  BY <1>1, <1>2, HoldNumbers DEF Continued
<1>4. closing' = closing
  BY <1>1 DEF closing
<1> QED BY <1>1, <1>3, <1>4, HoldsStay

\* A timer fires: what was held under it is not held any more.
LEMMA ExpireHolds ==
  ASSUME IInv, HInv, NEW t \in timers, Expire(t)
  PROVE  HoldsStep
<1>1. /\ stamp' = stamp /\ closer' = closer /\ timers' = timers \ {t}
      /\ held' = [held EXCEPT ![t.node] = @ \ Over(t)] /\ effects' = Cancelling(Over(t))
  BY DEF Expire
<1>2. effects'.arm = effects.arm
  BY <1>1, HoldNumbers DEF Cancelling, Effects
<1>3. t \in Timer /\ t.node \in Nodes
  BY HoldNumbers DEF Timer
<1>4. /\ held'[t.node] = held[t.node] \ Over(t)
      /\ \A n \in Nodes : held'[n] \subseteq held[n]
  BY <1>1, <1>3, HoldNumbers
<1>5. ASSUME NEW n \in Nodes, NEW r \in held'[n]
      PROVE  t \notin TimersOf(n, {r})
  <2>1. SUFFICES ASSUME t \in TimersOf(n, {r}) PROVE FALSE
    OBVIOUS
  <2>2. t.node = n /\ t.gen = r.gen /\ t.hold = r.hold
    BY <2>1 DEF TimersOf
  <2>3. r \in Over(t)
    BY <1>4, <2>2 DEF Over
  <2> QED BY <1>4, <1>5, <2>2, <2>3
<1>6. closing' = closing
  BY <1>1 DEF closing
<1> QED BY <1>1, <1>2, <1>4, <1>5, <1>6, HeldContinued, HoldsStay

LEMMA RequestHolds ==
  ASSUME IInv, HInv, Request
  PROVE  HoldsStep
<1>1. /\ timers' = timers /\ stamp' = stamp /\ closer' = closer
  BY DEF Request, Edit, ClearException, Prune, SetGraph, InstallWait, Call, ledger, side
<1>2. effects'.arm = effects.arm
  BY HoldNumbers DEF Request, Edit, ClearException, Prune, SetGraph, InstallWait, Cancelling, Effects
<1>3. \A n \in Nodes : held'[n] \subseteq held[n]
  BY HoldNumbers DEF Request, Edit, ClearException, Prune, SetGraph, InstallWait, ledger
<1>4. closing' = closing
  BY <1>1 DEF closing
<1> QED BY <1>1, <1>2, <1>3, <1>4, HeldContinued, HoldsStay

LEMMA ExecutionHolds ==
  ASSUME IInv, HInv, Execution
  PROVE  HoldsStep
<1>1. PICK t \in tasks : Started(t) \/ Complete(t) \/ Fail(t) \/ Vanish(t)
  BY DEF Execution
<1>2. CASE Started(t) \/ Vanish(t)
  <2>1. held' = held /\ stamp' = stamp /\ effects' = effects /\ timers' = timers /\ closer' = closer
    BY <1>2 DEF Started, Vanish, ledger
  <2>2. closing' = closing
    BY <2>1 DEF closing
  <2> QED BY <2>1, <2>2, HeldContinued, HoldsStay
<1>3. t.node \in Nodes
  BY DEF IInv, TypeOK, Task
<1> QED BY <1>1, <1>2, <1>3, LandHolds DEF Complete, Fail

LEMMA DeliveryHolds ==
  ASSUME IInv, HInv, Delivery
  PROVE  HoldsStep
<1>1. PICK m \in news : TakeNews(m)
  BY DEF Delivery
<1>2. m.node \in Nodes
  BY DEF IInv, TypeOK, Finished
<1> QED BY <1>1, <1>2, LandHolds DEF TakeNews

\* The end of a turn arms its timers; close() ends them all.
LEMMA OtherHolds ==
  ASSUME IInv, HInv, TurnEnd \/ CloseCall \/ Closing \/ UNCHANGED vars
  PROVE  HoldsStep
<1>1. stamp' = stamp /\ (closing => closing')
  BY DEF TurnEnd, AfterTurn, AfterTurnClosing, CloseCall, Closing, BeginClose, FinishClose, ledger, vars, closing
<1>2. \A n \in Nodes : held'[n] \subseteq held[n]
  BY DEF TurnEnd, AfterTurn, AfterTurnClosing, CloseCall, Closing, BeginClose, FinishClose, ledger, vars
<1>3. CASE Closing
  <2>1. closing' /\ timers' \cup effects'.arm \subseteq timers \cup effects.arm
    BY <1>3 DEF Closing, BeginClose, FinishClose, NoEffects, closing
  <2> QED BY <1>1, <1>2, <2>1, HeldContinued, HoldsStay
<1>4. CASE TurnEnd \/ CloseCall \/ UNCHANGED vars
  <2>1. timers' \cup effects'.arm = timers \cup effects.arm
    BY <1>4 DEF TurnEnd, AfterTurn, AfterTurnClosing, CloseCall, NoEffects, side, vars
  <2> QED BY <1>1, <1>2, <2>1, HeldContinued, HoldsStay
<1> QED BY <1>3, <1>4

LEMMA NextHolds ==
  ASSUME IInv, LInv, HInv, [Next]_vars
  PROVE  HoldsStep
BY RequestHolds, ExecutionHolds, DeriveHolds, DeliveryHolds, ExpireHolds, OtherHolds DEF Next, Expiry

LEMMA InitHInv == Init => HInv
BY DEF Init, HInv, HoldsNumbered, HoldsTimed, TimersOf, NoEffects

\* A hold has a number of its own, which orders the deque of superseded_runs,
\* and a timer: armed, or about to be at the end of the turn (_suspend).
THEOREM HoldsInductive == Spec => []HInv
<1>1. IInv /\ IInv' /\ LInv /\ HInv /\ [Next]_vars => HInv'
  BY NextHolds, HoldsGoOn
<1> QED BY <1>1, InitHInv, Inductive, LedgerInductive, PTL DEF Spec

\* A timer ends no hold but its own, and none is armed before its hold begins
\* (_expire_run compares generation and deadline).
THEOREM HoldsKept == Spec => HoldKept
<1> DEFINE ends == Expiry => \A n \in Nodes : \A r \in held[n] :
                     r \in held'[n] \/ [node |-> n, gen |-> r.gen, hold |-> r.hold] \notin timers'
           begins == \A n \in Nodes : \A r \in held'[n] :
                       [node |-> n, gen |-> r.gen, hold |-> r.hold] \in timers =>
                         \E q \in held[n] : q.gen = r.gen /\ q.hold = r.hold
<1>1. ASSUME IInv, Expiry
      PROVE  \A n \in Nodes : \A r \in held[n] :
               r \in held'[n] \/ [node |-> n, gen |-> r.gen, hold |-> r.hold] \notin timers'
  <2>1. PICK t \in timers : Expire(t)
    BY <1>1 DEF Expiry
  <2>2. /\ timers' = timers \ {t} /\ held' = [held EXCEPT ![t.node] = @ \ Over(t)]
    BY <2>1 DEF Expire
  <2>3. t = [node |-> t.node, gen |-> t.gen, hold |-> t.hold] /\ t.node \in Nodes
    BY <1>1, HoldNumbers DEF Timer
  <2>4. \A n \in Nodes : \A r \in held[n] : r \in held'[n] \/ (n = t.node /\ r \in Over(t))
    BY <1>1, <2>2, <2>3, HoldNumbers
  <2>5. \A r \in Over(t) : r.gen = t.gen /\ r.hold = t.hold
    BY DEF Over
  <2> QED BY <2>2, <2>3, <2>4, <2>5
<1>2. ASSUME IInv, LInv, HInv, [Next]_vars
      PROVE  begins
  <2>1. ASSUME NEW n \in Nodes, NEW r \in held'[n], [node |-> n, gen |-> r.gen, hold |-> r.hold] \in timers
        PROVE  Continued(n, r)
    <3>1. r.hold <= stamp /\ stamp \in Nat /\ r.hold \in Nat
      BY <1>2, <2>1, HoldNumbers DEF HInv, HoldsNumbered
    <3>2. r.hold # stamp + 1
      BY <3>1
    <3> QED BY <1>2, <3>2, NextHolds DEF HoldsStep, Begun
  <2> QED BY <2>1 DEF Continued
<1>3. IInv /\ LInv /\ HInv /\ [Next]_vars => [ends /\ begins]_vars
  BY <1>1, <1>2
<1> QED BY <1>3, HoldsInductive, Inductive, LedgerInductive, PTL DEF Spec, HoldKept

\* Between two turns of an open Context every held run has its timer armed, so
\* that no hold lasts for ever for want of one (_suspend, _after_turn).
HeldTimed == turn = "idle" /\ ~closing => \A n \in Nodes : TimersOf(n, held[n]) \subseteq timers

THEOREM EveryHoldTimed == Spec => []HeldTimed
<1>1. LInv /\ HInv => HeldTimed
  BY DEF LInv, Books, EffectsOK, NoEffects, HInv, HoldsTimed, HeldTimed
<1> QED BY <1>1, HoldsInductive, LedgerInductive, PTL

=============================================================================
