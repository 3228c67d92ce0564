---------------------------- MODULE Runs_proofs ----------------------------
(***************************************************************************)
(* Theorems about Runs, for every graph, every capacity and any number of  *)
(* calls.                                                                  *)
(*                                                                         *)
(* The argument of the main theorem: a run only ever changes its place in  *)
(* the ledger, its phase, and (once) its result; its generation and key    *)
(* stay.  So whatever the next state holds under a generation descends     *)
(* from what this state holds under it (Descent), or is the one fresh run  *)
(* of a launch.  A result that lands in a run is therefore the result of   *)
(* the run's own key, and a node is complete only if that key is the one   *)
(* it demands (DerivedFresh).                                              *)
(***************************************************************************)
EXTENDS Runs, FiniteSetTheorems, TLAPS

-----------------------------------------------------------------------------
\* Lemmas about the operators

\* The demand of a node that misses nothing is one of its keys.
LEMMA DemandKeyIsKey ==
  ASSUME TypeOK, DerivedFresh, NEW n \in Nodes, Missing(n) = {}
  PROVE  /\ DemandKey(n) \in Key[n] /\ DemandKey(n) \in AnyKey
         /\ config[n] \in Configs /\ config[n] # Unset
         /\ \A u \in Up[n] : state[u] = "complete"
<1>1. config[n] \in Configs /\ config[n] # Unset
  BY ConstantsAssumption DEF TypeOK, Missing
<1>2. \A u \in Up[n] : u \in Nodes /\ state[u] = "complete"
  BY ConstantsAssumption DEF Missing
<1>3. \A u \in Up[n] : checksum[u] \in Checksums
  BY <1>2 DEF TypeOK, DerivedFresh
<1>4. DemandKey(n) \in Key[n]
  BY <1>1, <1>3 DEF DemandKey, Key
<1>5. DemandKey(n) \in AnyKey
  BY <1>4 DEF AnyKey
<1> QED BY <1>1, <1>2, <1>4, <1>5

\* What supersede returns are the runs that were held and n's current run,
\* with the generation, key, result and error it had.
LEMMA SupersedeRuns ==
  ASSUME TypeOK, NEW n \in Nodes, NEW was \in SUBSET Run
  PROVE  LET s == Supersede(n, was)
         IN /\ s.moved \in SUBSET Run /\ s.held \in SUBSET Run /\ s.evicted \in SUBSET Run
            /\ \A r \in s.held :
                 r \in was \/ \E q \in current[n] : /\ r.gen = q.gen /\ r.key = q.key
                                                    /\ r.result = q.result
            /\ NextStamp(s) \in Nat
<1> DEFINE up(r) == [r EXCEPT !.phase = "superseded", !.hold = stamp + 1,
                              !.kind = IF UpstreamUnresolved(n) THEN "upstream" ELSE "self-edit"]
<1>1. \A r \in current[n] : r \in Run
  BY DEF TypeOK
<1>2. ASSUME NEW r \in current[n]
      PROVE  /\ up(r) \in Run
             /\ up(r).gen = r.gen /\ up(r).key = r.key /\ up(r).result = r.result
  <2>1. r \in Run /\ stamp + 1 \in Nat
    BY <1>1, <1>2 DEF TypeOK
  <2>2. (IF UpstreamUnresolved(n) THEN "upstream" ELSE "self-edit") \in {"none", "self-edit", "upstream"}
    OBVIOUS
  <2> HIDE DEF UpstreamUnresolved
  <2> QED BY <2>1, <2>2 DEF Run
<1>3. NextStamp(Supersede(n, was)) \in Nat
  BY DEF NextStamp, TypeOK
<1> DEFINE moved == {up(r) : r \in current[n]}
           evicted == {r \in was \cup moved :
                         Excess(was \cup moved) /\ \A q \in was \cup moved : r.hold <= q.hold}
<1>4. Supersede(n, was) = [moved |-> moved, held |-> (was \cup moved) \ evicted, evicted |-> evicted]
  BY DEF Supersede
<1>5. moved \in SUBSET Run /\ evicted \subseteq was \cup moved
  BY <1>2
<1>6. \A r \in was \cup moved :
        r \in was \/ \E q \in current[n] : /\ r.gen = q.gen /\ r.key = q.key
                                           /\ r.result = q.result
  BY <1>2
<1> HIDE DEF moved, evicted
<1> QED BY <1>3, <1>4, <1>5, <1>6

\* Cancelling and suspending leave what the turn launches and tells alone.
LEMMA CancellingEffects ==
  ASSUME TypeOK, NEW dropped \in SUBSET Run
  PROVE  /\ Cancelling(dropped) \in Effects
         /\ Cancelling(dropped).launch = effects.launch
         /\ Cancelling(dropped).tell = effects.tell
<1>1. Gens(Launched(dropped)) \in SUBSET Nat
  BY DEF Gens, Launched, Run
<1>2. effects \in Effects
  BY DEF TypeOK
<1> HIDE DEF Gens, Launched
<1> QED BY <1>1, <1>2 DEF Cancelling, Effects

LEMMA SuspendEffectsOf ==
  ASSUME TypeOK, NEW n \in Nodes, NEW was \in SUBSET Run, NEW dropped \in SUBSET Run
  PROVE  LET e == SuspendEffects(n, Supersede(n, was), dropped)
         IN e \in Effects /\ e.launch = effects.launch /\ e.tell = effects.tell
<1> DEFINE s == Supersede(n, was)
<1>1. s.moved \in SUBSET Run /\ s.evicted \in SUBSET Run
  BY SupersedeRuns
<1>2. TimersOf(n, s.moved) \in SUBSET Timer
  BY <1>1 DEF TimersOf, Timer, Run
<1> DEFINE c == Cancelling(dropped \cup s.evicted)
<1>3. c \in Effects /\ c.launch = effects.launch /\ c.tell = effects.tell
  BY <1>1, CancellingEffects
<1>4. SuspendEffects(n, s, dropped) = [c EXCEPT !.arm = TimersOf(n, s.moved) \cup @]
  BY DEF SuspendEffects
<1> HIDE DEF c, s
<1> QED BY <1>2, <1>3, <1>4 DEF Effects, s

-----------------------------------------------------------------------------
\* Descent: what the next state holds under a generation descends from what
\* this state holds under it, or has the generation that a launch gives out.

RunDescends(n, r) == \E q \in Runs(n) : /\ r.gen = q.gen /\ r.key = q.key
                                        /\ r.result \in {Null, q.result, Result(n, q.key)}
RunLaunched(n, r) == /\ gen' = gen + 1 /\ r.gen = gen + 1
                     /\ r.key = DemandKey(n) /\ r.key \in Key[n] /\ r.result = Null
TaskDescends(t) == \E s \in tasks \cup effects.launch :
                      t.node = s.node /\ t.gen = s.gen /\ t.key = s.key
TaskLaunched(t) == /\ gen' = gen + 1 /\ t.gen = gen + 1
                   /\ t.key = DemandKey(t.node) /\ t.key \in Key[t.node]
MessageDescends(m) == \/ m \in news \cup effects.tell
                      \/ \E q \in Runs(m.node) : m.gen = q.gen /\ m.result = q.result

LEMMA Descent ==
  ASSUME TypeOK, TypeOK', KeysOK, KeysAgree, ResultsTrue, gen' \in {gen, gen + 1},
         \A n \in Nodes : \A r \in Runs(n)' : RunDescends(n, r) \/ RunLaunched(n, r),
         \A t \in tasks' \cup effects'.launch : TaskDescends(t) \/ TaskLaunched(t),
         \A m \in news' \cup effects'.tell : MessageDescends(m)
  PROVE  KeysOK' /\ KeysAgree' /\ ResultsTrue'
<1>1. /\ \A n \in Nodes : \A r \in Runs(n) : r \in Run
      /\ \A n \in Nodes : \A r \in Runs(n)' : r \in Run
      /\ \A t \in tasks \cup effects.launch : t \in Task
      /\ \A t \in tasks' \cup effects'.launch : t \in Task
      /\ \A m \in news \cup effects.tell : m \in Finished
      /\ \A m \in news' \cup effects'.tell : m \in Finished
      /\ gen \in Nat /\ gen' \in Nat
  BY DEF TypeOK, Runs, Effects
<1>2. /\ \A r \in Run : r.gen \in Nat
      /\ \A t \in Task : t.gen \in Nat /\ t.node \in Nodes
      /\ \A m \in Finished : m.gen \in Nat /\ m.node \in Nodes
  BY DEF Run, Task, Finished
<1>3. ASSUME NEW n \in Nodes, NEW r \in Runs(n)'
      PROVE  r.key \in Key[n] /\ r.gen <= gen'
  <2>1. CASE RunDescends(n, r)
    BY <1>1, <1>2, <2>1 DEF RunDescends, KeysOK
  <2>2. CASE RunLaunched(n, r)
    BY <1>1, <2>2 DEF RunLaunched
  <2> QED BY <2>1, <2>2
<1>4. ASSUME NEW t \in tasks' \cup effects'.launch
      PROVE  t.key \in Key[t.node] /\ t.gen <= gen'
  <2>1. CASE TaskDescends(t)
    BY <1>1, <1>2, <2>1 DEF TaskDescends, KeysOK
  <2>2. CASE TaskLaunched(t)
    BY <1>1, <2>2 DEF TaskLaunched
  <2> QED BY <2>1, <2>2
<1>5. ASSUME NEW m \in news' \cup effects'.tell
      PROVE  m.gen <= gen
  BY <1>1, <1>2 DEF MessageDescends, KeysOK
<1>6. KeysOK'
  BY <1>1, <1>2, <1>3, <1>4, <1>5 DEF KeysOK
<1>7. ASSUME NEW n \in Nodes, NEW q \in Runs(n)', NEW r \in Runs(n)', q.gen = r.gen
      PROVE  q.key = r.key
  <2>1. ASSUME NEW p \in Runs(n)', RunLaunched(n, p), NEW o \in Runs(n)', o.gen = p.gen
        PROVE  RunLaunched(n, o)
    BY <1>1, <1>2, <2>1 DEF RunDescends, RunLaunched, KeysOK
  <2>2. CASE RunDescends(n, q) /\ RunDescends(n, r)
    BY <1>7, <2>2 DEF RunDescends, KeysAgree
  <2>3. CASE RunLaunched(n, q) /\ RunLaunched(n, r)
    BY <2>3 DEF RunLaunched
  <2> QED BY <1>7, <2>1, <2>2, <2>3
<1>8. ASSUME NEW t \in tasks' \cup effects'.launch, NEW r \in Runs(t.node)', r.gen = t.gen
      PROVE  r.key = t.key
  <2>0. t.node \in Nodes
    BY <1>1, <1>2
  <2>1. CASE TaskDescends(t) /\ RunDescends(t.node, r)
    BY <1>8, <2>1 DEF TaskDescends, RunDescends, KeysAgree
  <2>2. CASE TaskLaunched(t) /\ RunLaunched(t.node, r)
    BY <2>2 DEF TaskLaunched, RunLaunched
  <2>3. CASE TaskDescends(t) /\ RunLaunched(t.node, r)
    BY <1>1, <1>2, <1>8, <2>3 DEF TaskDescends, RunLaunched, KeysOK
  <2>4. CASE TaskLaunched(t) /\ RunDescends(t.node, r)
    <3>1. PICK q \in Runs(t.node) : r.gen = q.gen
      BY <2>4 DEF RunDescends
    <3>2. q.gen <= gen /\ q.gen = gen + 1
      BY <1>8, <2>0, <2>4, <3>1 DEF KeysOK, TaskLaunched
    <3> QED BY <1>1, <3>2
  <2>5. RunDescends(t.node, r) \/ RunLaunched(t.node, r)
    BY <1>8, <2>0 DEF Runs
  <2> QED BY <2>1, <2>2, <2>3, <2>4, <2>5
<1>9. KeysAgree'
  BY <1>7, <1>8 DEF KeysAgree
<1>10. ASSUME NEW n \in Nodes, NEW r \in Runs(n)', r.result # Null
       PROVE  r.result = Result(n, r.key)
  BY <1>10 DEF RunDescends, RunLaunched, ResultsTrue
<1>11. ASSUME NEW m \in news' \cup effects'.tell, NEW r \in Runs(m.node)',
              r.gen = m.gen, m.result # Null
       PROVE  m.result = Result(m.node, r.key)
  <2>0. m.node \in Nodes
    BY <1>1, <1>2
  <2>1. m.node \in Nodes /\ m.gen <= gen /\ m.gen \in Nat
    BY <1>1, <1>2, <1>5
  <2>2. RunDescends(m.node, r)
    BY <1>1, <1>11, <2>1 DEF RunLaunched
  <2>3. PICK p \in Runs(m.node) : r.gen = p.gen /\ r.key = p.key
    BY <2>2 DEF RunDescends
  <2>4. CASE m \in news \cup effects.tell
    BY <1>11, <2>3, <2>4 DEF ResultsTrue, Runs
  <2>5. CASE \E q \in Runs(m.node) : m.gen = q.gen /\ m.result = q.result
    <3>1. PICK q \in Runs(m.node) : m.gen = q.gen /\ m.result = q.result
      BY <2>5
    <3>2. q.key = p.key
      <4>1. q.gen = p.gen
        BY <1>11, <2>3, <3>1
      <4> QED BY <2>0, <4>1 DEF KeysAgree
    <3>3. m.result = Result(m.node, q.key)
      BY <1>11, <2>1, <3>1 DEF ResultsTrue
    <3> QED BY <2>3, <3>2, <3>3
  <2> QED BY <2>4, <2>5 DEF MessageDescends
<1>12. ResultsTrue'
  BY <1>10, <1>11 DEF ResultsTrue
<1> QED BY <1>6, <1>9, <1>12

\* The usual case: nothing is launched, no result lands.
LEMMA Shrinking ==
  ASSUME TypeOK, TypeOK', KeysOK, KeysAgree, ResultsTrue, gen' = gen,
         \A n \in Nodes : Runs(n)' \subseteq Runs(n),
         \A t \in tasks' \cup effects'.launch : TaskDescends(t),
         news' \cup effects'.tell \subseteq news \cup effects.tell
  PROVE  KeysOK' /\ KeysAgree' /\ ResultsTrue'
<1>1. \A n \in Nodes : \A r \in Runs(n)' : RunDescends(n, r)
  BY DEF RunDescends
<1>2. \A m \in news' \cup effects'.tell : MessageDescends(m)
  BY DEF MessageDescends
<1> QED BY <1>1, <1>2, Descent

LEMMA SameTasks ==
  ASSUME tasks' \subseteq tasks, effects'.launch = effects.launch
  PROVE  \A t \in tasks' \cup effects'.launch : TaskDescends(t)
BY DEF TaskDescends

-----------------------------------------------------------------------------
\* The steps, by the thread that takes them

\* A message that leaves the graph alone.
LEMMA HandlerTurn ==
  ASSUME IInv, Begin({}) \/ Begin(Nodes), UNCHANGED graph
  PROVE  TurnOK' /\ DerivedFresh'
<1>1. pending = {} /\ turn' = "busy" /\ (pending' = {} \/ pending' = Nodes)
  BY DEF IInv, TurnOK, Begin
<1>2. TurnOK'
  BY <1>1 DEF TurnOK
<1>3. \A n \in Nodes : Fresh(n)
  BY <1>1 DEF IInv, DerivedFresh
<1>4. \A n \in Nodes : Fresh(n)'
  BY <1>3 DEF Fresh, DemandKey, graph
<1>5. DerivedFresh'
  BY <1>4 DEF IInv, DerivedFresh, graph
<1> QED BY <1>2, <1>5

LEMMA EditStep ==
  ASSUME IInv, NEW n \in Nodes, NEW c \in Configs \cup {Unset}, Edit(n, c)
  PROVE  IInv'
<1> USE DEF Edit, Call, Begin, ledger, side
<1>1. TypeOK'
  BY DEF IInv, TypeOK
<1>2. TurnOK' /\ DerivedFresh'
  BY DEF IInv, TurnOK, DerivedFresh
<1>3. KeysOK' /\ KeysAgree' /\ ResultsTrue'
  BY <1>1, Shrinking, SameTasks DEF IInv, Runs
<1> QED BY <1>1, <1>2, <1>3 DEF IInv

LEMMA ClearExceptionStep ==
  ASSUME IInv, NEW n \in Nodes, ClearException(n)
  PROVE  IInv'
<1> USE DEF ClearException, Call, Begin, graph, side
<1>1. current[n] \in SUBSET Run
  BY DEF IInv, TypeOK
<1>2. effects' \in Effects /\ effects'.launch = effects.launch /\ effects'.tell = effects.tell
  BY <1>1, CancellingEffects DEF IInv
<1>3. TypeOK'
  BY <1>2 DEF IInv, TypeOK
<1>4. TurnOK' /\ DerivedFresh'
  BY HandlerTurn
<1>5. \A m \in Nodes : Runs(m)' \subseteq Runs(m)
  BY DEF Runs, IInv, TypeOK
<1>6. KeysOK' /\ KeysAgree' /\ ResultsTrue'
  BY <1>2, <1>3, <1>5, Shrinking, SameTasks DEF IInv
<1> QED BY <1>3, <1>4, <1>6 DEF IInv

LEMMA PruneStep ==
  ASSUME IInv, NEW P \in SUBSET Nodes, Prune(P)
  PROVE  IInv'
<1> USE DEF Prune, Call, Begin, graph, side
<1>1. UNION {held[n] : n \in P} \in SUBSET Run
  BY DEF IInv, TypeOK
<1>2. effects' \in Effects /\ effects'.launch = effects.launch /\ effects'.tell = effects.tell
  BY <1>1, CancellingEffects DEF IInv
<1>3. held' \in [Nodes -> SUBSET Run]
  BY DEF IInv, TypeOK
<1>4. TypeOK'
  BY <1>2, <1>3 DEF IInv, TypeOK
<1>5. TurnOK' /\ DerivedFresh'
  BY HandlerTurn
<1>6. \A m \in Nodes : Runs(m)' \subseteq Runs(m)
  BY DEF Runs
<1>7. KeysOK' /\ KeysAgree' /\ ResultsTrue'
  BY <1>2, <1>4, <1>6, Shrinking, SameTasks DEF IInv
<1> QED BY <1>4, <1>5, <1>7 DEF IInv

LEMMA SetGraphStep ==
  ASSUME IInv, NEW c \in [Nodes -> Configs \cup {Unset}], SetGraph(c)
  PROVE  IInv'
<1> USE DEF SetGraph, Call, Begin, side
<1>1. UNION {Runs(n) : n \in Nodes} \in SUBSET Run
  BY DEF IInv, TypeOK, Runs
<1>2. effects' \in Effects /\ effects'.launch = effects.launch /\ effects'.tell = effects.tell
  BY <1>1, CancellingEffects DEF IInv
<1>3. TypeOK'
  BY <1>2 DEF IInv, TypeOK, States
<1>4. TurnOK' /\ DerivedFresh'
  BY DEF IInv, TurnOK, DerivedFresh
<1>5. \A m \in Nodes : Runs(m)' \subseteq Runs(m)
  BY DEF Runs
<1>6. KeysOK' /\ KeysAgree' /\ ResultsTrue'
  BY <1>2, <1>3, <1>5, Shrinking, SameTasks DEF IInv
<1> QED BY <1>3, <1>4, <1>6 DEF IInv

LEMMA InstallWaitStep ==
  ASSUME IInv, NEW n \in Nodes, InstallWait(n)
  PROVE  IInv'
<1> USE DEF InstallWait, Call, Begin, ledger, side
<1>1. TypeOK'
  BY DEF IInv, TypeOK, graph
<1>2. TurnOK' /\ DerivedFresh'
  BY HandlerTurn
<1>3. KeysOK' /\ KeysAgree' /\ ResultsTrue'
  BY <1>1, Shrinking, SameTasks DEF IInv, Runs
<1> QED BY <1>1, <1>2, <1>3 DEF IInv

LEMMA RequestStep == ASSUME IInv, Request PROVE IInv'
BY EditStep, ClearExceptionStep, PruneStep, SetGraphStep, InstallWaitStep, GraphsAssumption DEF Request

\* A result may land in the runs of its generation if it is theirs.
LEMMA Landing ==
  ASSUME IInv, NEW n \in Nodes, NEW g \in Nat, NEW res \in Checksums \cup {Null}, Land(n, g, res),
         \A r \in Runs(n) : r.gen = g /\ res # Null => res = Result(n, r.key)
  PROVE  /\ TurnOK' /\ DerivedFresh'
         /\ current' \in [Nodes -> SUBSET Run] /\ held' \in [Nodes -> SUBSET Run]
         /\ \A m \in Nodes : \A r \in Runs(m)' : RunDescends(m, r)
<1> DEFINE landed(r) == IF ~IsRun(r, g) THEN r
                        ELSE [r EXCEPT !.result = res, !.error = (res = Null),
                                       !.phase = IF @ = "superseded" THEN @ ELSE "completed"]
<1>1. TurnOK' /\ DerivedFresh'
  BY HandlerTurn DEF Land, Begin, graph
<1>2. ASSUME NEW r \in Runs(n)
      PROVE  landed(r) \in Run /\ RunDescends(n, landed(r))
  <2>1. r \in Run
    BY DEF IInv, TypeOK, Runs
  <2>2. landed(r) \in Run
    BY <2>1 DEF Run
  <2>3. landed(r).gen = r.gen /\ landed(r).key = r.key
    BY <2>1 DEF Run
  <2>4. landed(r).result \in {Null, r.result, Result(n, r.key)}
    BY <2>1 DEF Run, IsRun
  <2> HIDE DEF landed
  <2> QED BY <2>2, <2>3, <2>4 DEF RunDescends
<1>3. CASE closing
  <2>1. current' = current /\ held' = held
    BY <1>3 DEF Land
  <2> QED BY <1>1, <2>1 DEF IInv, TypeOK, Runs, RunDescends
<1>4. CASE ~closing
  <2>1. /\ current' = [current EXCEPT ![n] = {landed(r) : r \in current[n]}]
        /\ held' = [held EXCEPT ![n] = {landed(r) : r \in held[n]}]
    BY <1>4 DEF Land
  <2>2. \A r \in current[n] \cup held[n] : landed(r) \in Run /\ RunDescends(n, landed(r))
    BY <1>2 DEF Runs
  <2>3. current \in [Nodes -> SUBSET Run] /\ held \in [Nodes -> SUBSET Run]
    BY DEF IInv, TypeOK
  <2> HIDE DEF landed
  <2>4. current' \in [Nodes -> SUBSET Run] /\ held' \in [Nodes -> SUBSET Run]
    BY <2>1, <2>2, <2>3
  <2>5. ASSUME NEW m \in Nodes, NEW r \in current'[m] \cup held'[m]
        PROVE  RunDescends(m, r)
    <3>1. CASE m = n
      BY <2>1, <2>2, <2>3, <2>5, <3>1
    <3>2. CASE m # n
      <4>1. r \in Runs(m)
        BY <2>1, <2>3, <2>5, <3>2 DEF Runs
      <4> QED BY <4>1 DEF RunDescends
    <3> QED BY <3>1, <3>2
  <2> QED BY <1>1, <2>4, <2>5 DEF Runs
<1> QED BY <1>3, <1>4

LEMMA StartedStep ==
  ASSUME IInv, NEW t \in tasks, Started(t)
  PROVE  IInv'
<1> USE DEF Started, ledger, graph
<1> DEFINE u == [t EXCEPT !.stage = "computing"]
<1>1. t \in Task /\ u \in Task /\ u.node = t.node /\ u.gen = t.gen /\ u.key = t.key
  BY DEF IInv, TypeOK, Task
<1>2. tasks' = (tasks \ {t}) \cup {u}
  OBVIOUS
<1> HIDE DEF u
<1>3. TypeOK'
  BY <1>1, <1>2 DEF IInv, TypeOK, Begin
<1>4. TurnOK' /\ DerivedFresh'
  BY HandlerTurn DEF Begin
<1>5. \A s \in tasks' \cup effects'.launch : TaskDescends(s)
  BY <1>1, <1>2 DEF TaskDescends
<1>6. KeysOK' /\ KeysAgree' /\ ResultsTrue'
  BY <1>3, <1>5, Shrinking DEF IInv, Runs
<1> QED BY <1>3, <1>4, <1>6 DEF IInv

\* The result of a task is the result of the key under its generation.
LEMMA CompleteStep ==
  ASSUME IInv, NEW t \in tasks, Complete(t)
  PROVE  IInv'
<1>1. t \in Task /\ t.node \in Nodes /\ t.gen \in Nat /\ t.key \in Key[t.node]
  BY DEF IInv, TypeOK, Task, KeysOK
<1>2. Result(t.node, t.key) \in Checksums \cup {Null}
  BY <1>1, ConstantsAssumption
<1>3. \A r \in Runs(t.node) : r.gen = t.gen => r.key = t.key
  BY DEF IInv, KeysAgree
<1>4. /\ TurnOK' /\ DerivedFresh'
      /\ current' \in [Nodes -> SUBSET Run] /\ held' \in [Nodes -> SUBSET Run]
      /\ \A m \in Nodes : \A r \in Runs(m)' : RunDescends(m, r)
  BY <1>1, <1>2, <1>3, Landing DEF Complete
<1> USE DEF Complete, Land, Begin, graph
<1>5. TypeOK'
  BY <1>4 DEF IInv, TypeOK
<1>6. \A s \in tasks' \cup effects'.launch : TaskDescends(s)
  BY SameTasks
<1>7. KeysOK' /\ KeysAgree' /\ ResultsTrue'
  BY <1>4, <1>5, <1>6, Descent DEF IInv, MessageDescends
<1> QED BY <1>4, <1>5, <1>7 DEF IInv

LEMMA FailStep ==
  ASSUME IInv, NEW t \in tasks, Fail(t)
  PROVE  IInv'
<1>1. t \in Task /\ t.node \in Nodes /\ t.gen \in Nat
  BY DEF IInv, TypeOK, Task
<1>2. /\ TurnOK' /\ DerivedFresh'
      /\ current' \in [Nodes -> SUBSET Run] /\ held' \in [Nodes -> SUBSET Run]
      /\ \A m \in Nodes : \A r \in Runs(m)' : RunDescends(m, r)
  BY <1>1, Landing DEF Fail
<1> USE DEF Fail, Land, Begin, graph
<1>3. TypeOK'
  BY <1>2 DEF IInv, TypeOK
<1>4. \A s \in tasks' \cup effects'.launch : TaskDescends(s)
  BY SameTasks
<1>5. KeysOK' /\ KeysAgree' /\ ResultsTrue'
  BY <1>2, <1>3, <1>4, Descent DEF IInv, MessageDescends
<1> QED BY <1>2, <1>3, <1>5 DEF IInv

LEMMA TakeNewsStep ==
  ASSUME IInv, NEW m \in news, TakeNews(m)
  PROVE  IInv'
<1>1. m \in Finished /\ m.node \in Nodes /\ m.gen \in Nat /\ m.result \in Checksums \cup {Null}
  BY DEF IInv, TypeOK, Finished
<1>2. \A r \in Runs(m.node) : r.gen = m.gen /\ m.result # Null => m.result = Result(m.node, r.key)
  BY DEF IInv, ResultsTrue
<1>3. /\ TurnOK' /\ DerivedFresh'
      /\ current' \in [Nodes -> SUBSET Run] /\ held' \in [Nodes -> SUBSET Run]
      /\ \A n \in Nodes : \A r \in Runs(n)' : RunDescends(n, r)
  BY <1>1, <1>2, Landing DEF TakeNews
<1> USE DEF TakeNews, Land, Begin, graph
<1>4. TypeOK'
  BY <1>3 DEF IInv, TypeOK
<1>5. \A s \in tasks' \cup effects'.launch : TaskDescends(s)
  BY SameTasks
<1>6. KeysOK' /\ KeysAgree' /\ ResultsTrue'
  BY <1>3, <1>4, <1>5, Descent DEF IInv, MessageDescends
<1> QED BY <1>3, <1>4, <1>6 DEF IInv

LEMMA VanishStep ==
  ASSUME IInv, NEW t \in tasks, Vanish(t)
  PROVE  IInv'
<1> USE DEF Vanish, ledger, graph
<1>1. TypeOK'
  BY DEF IInv, TypeOK
<1>2. TurnOK' /\ DerivedFresh'
  BY DEF IInv, TurnOK, DerivedFresh, Fresh, DemandKey
<1>3. KeysOK' /\ KeysAgree' /\ ResultsTrue'
  BY <1>1, Shrinking, SameTasks DEF IInv, Runs
<1> QED BY <1>1, <1>2, <1>3 DEF IInv

LEMMA ExpireStep ==
  ASSUME IInv, NEW t \in timers, Expire(t)
  PROVE  IInv'
<1> USE DEF Expire, Begin, graph
<1>1. t \in Timer /\ t.node \in Nodes /\ Over(t) \in SUBSET Run
  BY DEF IInv, TypeOK, Timer, Over
<1>2. effects' \in Effects /\ effects'.launch = effects.launch /\ effects'.tell = effects.tell
  BY <1>1, CancellingEffects DEF IInv
<1>3. TypeOK'
  BY <1>1, <1>2 DEF IInv, TypeOK
<1>4. TurnOK' /\ DerivedFresh'
  BY HandlerTurn
<1>5. \A m \in Nodes : Runs(m)' \subseteq Runs(m)
  BY <1>1 DEF Runs, IInv, TypeOK
<1>6. KeysOK' /\ KeysAgree' /\ ResultsTrue'
  BY <1>2, <1>3, <1>5, Shrinking, SameTasks DEF IInv
<1> QED BY <1>3, <1>4, <1>6 DEF IInv

\* A node that has just been derived is fresh if it shows the result of its
\* demand; the nodes that are not pending have it among their sources neither.
LEMMA DerivedTurn ==
  ASSUME IInv, NEW n \in Nodes, Derive(n), NEW s, NEW c,
         state' = [state EXCEPT ![n] = s], checksum' = [checksum EXCEPT ![n] = c],
         s = "complete" => /\ Missing(n) = {} /\ c # Null
                           /\ c = Result(n, DemandKey(n))
  PROVE  TurnOK' /\ DerivedFresh'
<1>0. /\ turn' = turn /\ turn = "busy" /\ n \in pending /\ Up[n] \cap pending = {}
      /\ pending' = pending \ {n} /\ config' = config /\ pending \subseteq Nodes
  BY DEF Derive, IInv, TypeOK
<1>1. n \notin Up[n] /\ \A m \in Nodes \ pending : n \notin Up[m]
  BY <1>0 DEF IInv, TurnOK
<1>2. TurnOK'
  BY <1>0 DEF IInv, TurnOK
<1>3. ASSUME NEW m \in Nodes, m # n \/ s # "complete" \/ c # Null, state'[m] = "complete"
      PROVE  checksum'[m] # Null
  BY <1>3 DEF IInv, TypeOK, DerivedFresh
<1>4. \A m \in Nodes : m # n => state'[m] = state[m] /\ checksum'[m] = checksum[m]
  BY DEF IInv, TypeOK
<1>5. state'[n] = s /\ checksum'[n] = c
  BY DEF IInv, TypeOK
<1>6. ASSUME NEW m \in Nodes \ pending
      PROVE  Fresh(m)'
  <2>1. Fresh(m) /\ m # n
    BY <1>0, <1>6 DEF IInv, DerivedFresh
  <2>2. \A u \in Up[m] : u \in Nodes /\ u # n
    BY <1>1, <1>6, ConstantsAssumption
  <2>3. \A u \in Up[m] : state'[u] = state[u] /\ checksum'[u] = checksum[u]
    BY <1>4, <2>2
  <2>4. DemandKey(m)' = DemandKey(m)
    BY <1>0, <2>3 DEF DemandKey
  <2> QED BY <1>0, <1>4, <2>1, <2>3, <2>4 DEF Fresh
<1>7. Fresh(n)'
  <2>1. CASE s # "complete"
    BY <1>5, <2>1 DEF Fresh
  <2>2. CASE s = "complete"
    <3>1. /\ config[n] # Unset
          /\ \A u \in Up[n] : u \in Nodes /\ u # n /\ state[u] = "complete"
      BY <1>1, <2>2, DemandKeyIsKey, ConstantsAssumption DEF IInv
    <3>2. \A u \in Up[n] : state'[u] = "complete" /\ checksum'[u] = checksum[u]
      BY <1>4, <3>1
    <3>3. DemandKey(n)' = DemandKey(n)
      BY <1>0, <3>2 DEF DemandKey
    <3> QED BY <1>0, <1>5, <2>2, <3>1, <3>2, <3>3 DEF Fresh
  <2> QED BY <2>1, <2>2
<1>8. \A m \in Nodes \ pending' : Fresh(m)'
  BY <1>0, <1>6, <1>7
<1> QED BY <1>2, <1>3, <1>8 DEF DerivedFresh

\* What Publish shows is the result of the run, if the run is the one demanded.
LEMMA Publishing ==
  ASSUME IInv, NEW n \in Nodes, NEW r \in Run, Derive(n), Missing(n) = {}, Publish(n, r),
         r.result # Null => r.result = Result(n, DemandKey(n))
  PROVE  /\ TurnOK' /\ DerivedFresh'
         /\ state' \in [Nodes -> States] /\ checksum' \in [Nodes -> Checksums \cup {Null}]
<1> DEFINE s == IF r.error THEN "failed" ELSE IF r.result # Null THEN "complete" ELSE "computing"
           c == IF r.error THEN Null ELSE r.result
<1>1. state' = [state EXCEPT ![n] = s] /\ checksum' = [checksum EXCEPT ![n] = c]
  BY DEF Publish
<1>2. s \in States /\ c \in Checksums \cup {Null}
  BY DEF States, Run
<1>3. s = "complete" => c # Null /\ c = Result(n, DemandKey(n))
  OBVIOUS
<1> HIDE DEF s, c
<1>4. TurnOK' /\ DerivedFresh'
  BY <1>1, <1>3, DerivedTurn
<1> QED BY <1>1, <1>2, <1>4 DEF IInv, TypeOK

\* The runs of the other nodes are not touched by a derivation.
LEMMA OnlyRunsOf ==
  ASSUME TypeOK, NEW n \in Nodes, NEW cur \in SUBSET Run, NEW hel \in SUBSET Run,
         current' = [current EXCEPT ![n] = cur], held' = [held EXCEPT ![n] = hel],
         \A r \in cur \cup hel : RunDescends(n, r) \/ RunLaunched(n, r)
  PROVE  /\ current' \in [Nodes -> SUBSET Run] /\ held' \in [Nodes -> SUBSET Run]
         /\ \A m \in Nodes : \A r \in Runs(m)' : RunDescends(m, r) \/ RunLaunched(m, r)
<1>1. current \in [Nodes -> SUBSET Run] /\ held \in [Nodes -> SUBSET Run]
  BY DEF TypeOK
<1>2. \A m \in Nodes : m # n => Runs(m)' = Runs(m)
  BY <1>1 DEF Runs
<1>3. Runs(n)' = cur \cup hel
  BY <1>1 DEF Runs
<1>4. ASSUME NEW m \in Nodes, NEW r \in Runs(m)'
      PROVE  RunDescends(m, r) \/ RunLaunched(m, r)
  <2>1. CASE m = n
    BY <1>3, <1>4, <2>1
  <2>2. CASE m # n
    BY <1>2, <1>4, <2>2 DEF RunDescends
  <2> QED BY <2>1, <2>2
<1> QED BY <1>1, <1>4

\* What supersede keeps descends from n's runs.
LEMMA SupersedeDescends ==
  ASSUME TypeOK, NEW n \in Nodes, NEW was \in SUBSET held[n]
  PROVE  \A r \in Supersede(n, was).held :
           /\ RunDescends(n, r)
           /\ \E q \in Runs(n) : r.gen = q.gen /\ r.result = q.result
<1>1. was \in SUBSET Run
  BY DEF TypeOK
<1>2. \A r \in Supersede(n, was).held :
        r \in was \/ \E q \in current[n] : /\ r.gen = q.gen /\ r.key = q.key
                                           /\ r.result = q.result
  BY <1>1, SupersedeRuns
<1> QED BY <1>2 DEF RunDescends, Runs

LEMMA DeriveBlockedStep ==
  ASSUME IInv, NEW n \in Nodes, DeriveBlocked(n)
  PROVE  IInv'
<1> DEFINE s == Supersede(n, held[n])
<1>1. held[n] \in SUBSET Run /\ {} \in SUBSET Run
  BY DEF IInv, TypeOK
<1>2. s.held \in SUBSET Run /\ NextStamp(s) \in Nat
  BY <1>1, SupersedeRuns DEF IInv
<1>3. effects' \in Effects /\ effects'.launch = effects.launch /\ effects'.tell = effects.tell
  BY <1>1, SuspendEffectsOf DEF IInv, DeriveBlocked
<1>4. BlockedState(n) \in States /\ BlockedState(n) # "complete"
  BY DEF BlockedState, States
<1>5. \A r \in s.held : RunDescends(n, r)
  BY SupersedeDescends DEF IInv
<1>6. current' = [current EXCEPT ![n] = {}] /\ held' = [held EXCEPT ![n] = s.held]
  BY DEF DeriveBlocked
<1>7. Derive(n) /\ stamp' = NextStamp(s) /\ gen' = gen
  BY DEF DeriveBlocked
<1>8. /\ state' = [state EXCEPT ![n] = BlockedState(n)]
      /\ checksum' = [checksum EXCEPT ![n] = Null]
  BY DEF DeriveBlocked
<1> HIDE DEF s
<1>9. TurnOK' /\ DerivedFresh'
  BY <1>4, <1>7, <1>8, DerivedTurn
<1>10. /\ current' \in [Nodes -> SUBSET Run] /\ held' \in [Nodes -> SUBSET Run]
       /\ \A m \in Nodes : \A r \in Runs(m)' : RunDescends(m, r) \/ RunLaunched(m, r)
  BY <1>2, <1>5, <1>6, OnlyRunsOf DEF IInv
<1>11. TypeOK'
  BY <1>2, <1>3, <1>4, <1>7, <1>8, <1>10 DEF IInv, TypeOK, Derive, side
<1>12. \A t \in tasks' \cup effects'.launch : TaskDescends(t)
  BY <1>3, <1>7, SameTasks DEF Derive, side
<1>13. KeysOK' /\ KeysAgree' /\ ResultsTrue'
  BY <1>3, <1>7, <1>10, <1>11, <1>12, Descent DEF IInv, MessageDescends, Derive, side
<1> QED BY <1>9, <1>11, <1>13 DEF IInv

LEMMA DeriveKeptStep ==
  ASSUME IInv, NEW n \in Nodes, DeriveKept(n)
  PROVE  IInv'
<1>1. PICK r \in current[n] :
        /\ Derive(n) /\ Missing(n) = {} /\ r.key = DemandKey(n)
        /\ Publish(n, r)
        /\ held' = [held EXCEPT ![n] = StillHeld(n)]
        /\ effects' = Cancelling(held[n] \ StillHeld(n))
        /\ UNCHANGED <<current, gen, stamp>>
  BY DEF DeriveKept
<1>2. r \in Run /\ r \in Runs(n)
  BY DEF IInv, TypeOK, Runs
<1>3. r.result # Null => r.result = Result(n, DemandKey(n))
  BY <1>1, <1>2 DEF IInv, ResultsTrue
<1>4. /\ TurnOK' /\ DerivedFresh'
      /\ state' \in [Nodes -> States] /\ checksum' \in [Nodes -> Checksums \cup {Null}]
  BY <1>1, <1>2, <1>3, Publishing
<1>5. held[n] \in SUBSET Run /\ StillHeld(n) \subseteq held[n]
  BY DEF IInv, TypeOK, StillHeld
<1>6. effects' \in Effects /\ effects'.launch = effects.launch /\ effects'.tell = effects.tell
  BY <1>1, <1>5, CancellingEffects DEF IInv
<1>7. TypeOK'
  BY <1>1, <1>4, <1>5, <1>6 DEF IInv, TypeOK, Derive, side
<1>8. \A m \in Nodes : Runs(m)' \subseteq Runs(m)
  BY <1>1, <1>5 DEF Runs, IInv, TypeOK
<1>9. \A t \in tasks' \cup effects'.launch : TaskDescends(t)
  BY <1>1, <1>6, SameTasks DEF Derive, side
<1>10. KeysOK' /\ KeysAgree' /\ ResultsTrue'
  BY <1>1, <1>6, <1>7, <1>8, <1>9, Shrinking DEF IInv, Derive, side
<1> QED BY <1>4, <1>7, <1>10 DEF IInv

\* A reinstated run starts again without its result, which it is told later.
LEMMA DeriveReinstatedStep ==
  ASSUME IInv, NEW n \in Nodes, DeriveReinstated(n)
  PROVE  IInv'
<1> DEFINE s == Supersede(n, StillHeld(n))
           dropped == held[n] \ StillHeld(n)
           e == SuspendEffects(n, s, dropped)
           Back(r) == [r EXCEPT !.result = Null, !.error = FALSE,
                                !.phase = "running", !.kind = "none"]
<1>1. PICK r \in Wanted(n, s.held) :
        /\ Derive(n) /\ Missing(n) = {}
        /\ current' = [current EXCEPT ![n] = {Back(r)}]
        /\ held' = [held EXCEPT ![n] = s.held \ {r}]
        /\ stamp' = NextStamp(s)
        /\ effects' = [e EXCEPT !.tell = Told(n, r) \cup @]
        /\ Publish(n, Back(r))
        /\ gen' = gen
  BY DEF DeriveReinstated
<1>2. held[n] \in SUBSET Run /\ StillHeld(n) \in SUBSET held[n]
  BY DEF IInv, TypeOK, StillHeld
<1>3. /\ s.held \in SUBSET Run /\ NextStamp(s) \in Nat
      /\ e \in Effects /\ e.launch = effects.launch /\ e.tell = effects.tell
  <2>1. StillHeld(n) \in SUBSET Run /\ dropped \in SUBSET Run
    BY <1>2
  <2> HIDE DEF dropped
  <2> QED BY <2>1, SupersedeRuns, SuspendEffectsOf DEF IInv
<1>4. \A q \in s.held : /\ RunDescends(n, q)
                       /\ \E o \in Runs(n) : q.gen = o.gen /\ q.result = o.result
  BY <1>2, SupersedeDescends DEF IInv
<1> HIDE DEF s, e
<1>5. r \in s.held /\ r \in Run
  BY <1>3 DEF Wanted
<1>6. /\ Back(r) \in Run /\ Back(r).gen = r.gen /\ Back(r).key = r.key
      /\ Back(r).result = Null
  BY <1>5 DEF Run
<1>7. RunDescends(n, Back(r))
  BY <1>4, <1>5, <1>6 DEF RunDescends
<1>8. Told(n, r) \in SUBSET Finished
  BY <1>5 DEF Told, Finished, Run
<1>9. \A m \in Told(n, r) : m.gen = r.gen /\ m.node = n /\ m.result = r.result
  BY DEF Told
<1> HIDE DEF Back
<1>10. effects' \in Effects /\ effects'.launch = effects.launch
       /\ effects'.tell = Told(n, r) \cup effects.tell
  BY <1>1, <1>3, <1>8 DEF Effects
<1>11. /\ TurnOK' /\ DerivedFresh'
       /\ state' \in [Nodes -> States] /\ checksum' \in [Nodes -> Checksums \cup {Null}]
  BY <1>1, <1>6, Publishing
<1>12. /\ current' \in [Nodes -> SUBSET Run] /\ held' \in [Nodes -> SUBSET Run]
       /\ \A m \in Nodes : \A q \in Runs(m)' : RunDescends(m, q) \/ RunLaunched(m, q)
  <2> DEFINE cur == {Back(r)}
             hel == s.held \ {r}
  <2>1. cur \in SUBSET Run /\ hel \in SUBSET Run
    BY <1>3, <1>6
  <2>2. \A q \in cur \cup hel : RunDescends(n, q) \/ RunLaunched(n, q)
    BY <1>4, <1>7
  <2>3. current' = [current EXCEPT ![n] = cur] /\ held' = [held EXCEPT ![n] = hel]
    BY <1>1
  <2> HIDE DEF cur, hel
  <2> QED BY <2>1, <2>2, <2>3, OnlyRunsOf DEF IInv
<1>13. TypeOK'
  BY <1>1, <1>3, <1>10, <1>11, <1>12 DEF IInv, TypeOK, Derive, side
<1>14. \A t \in tasks' \cup effects'.launch : TaskDescends(t)
  BY <1>1, <1>10, SameTasks DEF Derive, side
<1>15. \A m \in news' \cup effects'.tell : MessageDescends(m)
  <2>1. PICK q \in Runs(n) : r.gen = q.gen /\ r.result = q.result
    BY <1>4, <1>5
  <2>2. \A m \in Told(n, r) : MessageDescends(m)
    BY <1>9, <2>1 DEF MessageDescends
  <2> QED BY <1>1, <1>10, <2>2 DEF MessageDescends, Derive, side
<1>16. KeysOK' /\ KeysAgree' /\ ResultsTrue'
  BY <1>1, <1>12, <1>13, <1>14, <1>15, Descent DEF IInv
<1> QED BY <1>11, <1>13, <1>16 DEF IInv

LEMMA DeriveLaunchedStep ==
  ASSUME IInv, NEW n \in Nodes, DeriveLaunched(n)
  PROVE  IInv'
<1> DEFINE s == Supersede(n, StillHeld(n))
           e == SuspendEffects(n, s, held[n] \ StillHeld(n))
           r == [gen |-> gen + 1, key |-> DemandKey(n), result |-> Null, error |-> FALSE,
                 phase |-> "running", kind |-> "none", hold |-> 0]
           task == [node |-> n, gen |-> r.gen, key |-> r.key,
                    stage |-> "constructing", cancelled |-> FALSE]
           cur == {r}
<1>1. /\ Derive(n) /\ Missing(n) = {}
      /\ gen' = gen + 1
      /\ current' = [current EXCEPT ![n] = cur]
      /\ held' = [held EXCEPT ![n] = s.held]
      /\ stamp' = NextStamp(s)
      /\ effects' = [e EXCEPT !.launch = {task} \cup @]
      /\ Publish(n, r)
  BY DEF DeriveLaunched
<1>2. held[n] \in SUBSET Run /\ StillHeld(n) \in SUBSET held[n]
  BY DEF IInv, TypeOK, StillHeld
<1>3. /\ s.held \in SUBSET Run /\ NextStamp(s) \in Nat
      /\ e \in Effects /\ e.launch = effects.launch /\ e.tell = effects.tell
  <2> DEFINE dropped == held[n] \ StillHeld(n)
  <2>1. StillHeld(n) \in SUBSET Run /\ dropped \in SUBSET Run
    BY <1>2
  <2> HIDE DEF dropped
  <2>2. LET ee == SuspendEffects(n, Supersede(n, StillHeld(n)), dropped)
        IN ee \in Effects /\ ee.launch = effects.launch /\ ee.tell = effects.tell
    BY <2>1, SuspendEffectsOf DEF IInv
  <2>3. s.held \in SUBSET Run /\ NextStamp(s) \in Nat
    BY <2>1, SupersedeRuns DEF IInv
  <2> QED BY <2>2, <2>3 DEF dropped
<1>4. \A q \in s.held : RunDescends(n, q)
  BY <1>2, SupersedeDescends DEF IInv
<1>5. DemandKey(n) \in Key[n] /\ DemandKey(n) \in AnyKey /\ gen + 1 \in Nat
  BY <1>1, DemandKeyIsKey DEF IInv, TypeOK
<1>6. r \in Run /\ RunLaunched(n, r)
  BY <1>1, <1>5 DEF Run, RunLaunched
<1>7. task \in Task /\ TaskLaunched(task)
  BY <1>1, <1>5 DEF Task, TaskLaunched
<1>8. /\ TurnOK' /\ DerivedFresh'
      /\ state' \in [Nodes -> States] /\ checksum' \in [Nodes -> Checksums \cup {Null}]
  BY <1>1, <1>6, Publishing
<1>9. cur \in SUBSET Run /\ \A q \in cur \cup s.held : RunDescends(n, q) \/ RunLaunched(n, q)
  BY <1>4, <1>6
<1> HIDE DEF s, e, task, cur
<1>10. /\ current' \in [Nodes -> SUBSET Run] /\ held' \in [Nodes -> SUBSET Run]
       /\ \A m \in Nodes : \A q \in Runs(m)' : RunDescends(m, q) \/ RunLaunched(m, q)
  BY <1>1, <1>3, <1>9, OnlyRunsOf DEF IInv
<1>11. effects' \in Effects /\ effects'.launch = {task} \cup effects.launch
       /\ effects'.tell = effects.tell
  BY <1>1, <1>3, <1>7 DEF Effects
<1>12. TypeOK'
  BY <1>1, <1>3, <1>5, <1>8, <1>10, <1>11 DEF IInv, TypeOK, Derive, side
<1>13. tasks' = tasks /\ news' = news
  BY <1>1 DEF Derive, side
<1>14. \A t \in tasks' \cup effects'.launch : TaskDescends(t) \/ TaskLaunched(t)
  BY <1>7, <1>11, <1>13 DEF TaskDescends
<1>15. \A m \in news' \cup effects'.tell : MessageDescends(m)
  BY <1>11, <1>13 DEF MessageDescends
<1>16. KeysOK' /\ KeysAgree' /\ ResultsTrue'
  BY <1>1, <1>10, <1>12, <1>14, <1>15, Descent DEF IInv
<1> QED BY <1>8, <1>12, <1>16 DEF IInv

\* Cancelling executions leaves what they compute.
LEMMA CancelTasks ==
  ASSUME NEW runs \in SUBSET Task, NEW gens
  PROVE  /\ Cancel(runs, gens) \in SUBSET Task
         /\ \A t \in Cancel(runs, gens) :
              \E u \in runs : t.node = u.node /\ t.gen = u.gen /\ t.key = u.key
<1>1. ASSUME NEW t \in Task
      PROVE  LET c == [t EXCEPT !.cancelled = @ \/ t.gen \in gens]
             IN c \in Task /\ c.node = t.node /\ c.gen = t.gen /\ c.key = t.key
  <2> DEFINE b == t.cancelled \/ t.gen \in gens
  <2>1. b \in BOOLEAN
    OBVIOUS
  <2>2. [t EXCEPT !.cancelled = @ \/ t.gen \in gens] = [t EXCEPT !.cancelled = b]
    OBVIOUS
  <2> HIDE DEF b
  <2> QED BY <2>1, <2>2 DEF Task
<1> QED BY <1>1 DEF Cancel

LEMMA AfterTurnStep == ASSUME IInv, AfterTurn PROVE IInv'
<1> USE DEF AfterTurn, graph, ledger
<1>1. tasks \in SUBSET Task /\ effects \in Effects
  BY DEF IInv, TypeOK
<1>2. /\ Cancel(tasks, effects.cancel) \in SUBSET Task
      /\ \A t \in Cancel(tasks, effects.cancel) : TaskDescends(t)
  BY <1>1, CancelTasks DEF TaskDescends
<1>3. NoEffects \in Effects /\ NoEffects.launch = {} /\ NoEffects.tell = {}
  BY DEF NoEffects, Effects
<1>4. TypeOK'
  BY <1>1, <1>2, <1>3 DEF IInv, TypeOK, Unanswered, Effects
<1>5. TurnOK' /\ DerivedFresh'
  BY DEF IInv, TurnOK, DerivedFresh, Fresh, DemandKey
<1>6. \A t \in tasks' \cup effects'.launch : TaskDescends(t)
  BY <1>2, <1>3 DEF TaskDescends
<1>7. KeysOK' /\ KeysAgree' /\ ResultsTrue'
  BY <1>3, <1>4, <1>6, Shrinking DEF IInv, Runs
<1> QED BY <1>4, <1>5, <1>7 DEF IInv

\* The steps that change neither the graph nor what is in the ledger or on its
\* way to it.
LEMMA OtherStep ==
  ASSUME IInv, AfterTurnClosing \/ CloseCall \/ UNCHANGED vars
  PROVE  IInv'
<1> USE DEF AfterTurnClosing, CloseCall, vars, graph, ledger, side
<1>1. TypeOK'
  BY DEF IInv, TypeOK
<1>2. TurnOK' /\ DerivedFresh'
  BY DEF IInv, TurnOK, DerivedFresh, Fresh, DemandKey
<1>3. KeysOK' /\ KeysAgree' /\ ResultsTrue'
  BY <1>1, Shrinking, SameTasks DEF IInv, Runs
<1> QED BY <1>1, <1>2, <1>3 DEF IInv

LEMMA BeginCloseStep == ASSUME IInv, BeginClose PROVE IInv'
<1> USE DEF BeginClose, Begin, graph, ledger
<1> DEFINE gens == Gens(UNION {Runs(n) : n \in Nodes})
<1>1. tasks \in SUBSET Task /\ tasks' = Cancel(tasks, gens)
  BY DEF IInv, TypeOK
<1> HIDE DEF gens
<1>2. tasks' \in SUBSET Task /\ \A t \in tasks' : TaskDescends(t)
  BY <1>1, CancelTasks DEF TaskDescends
<1>3. NoEffects \in Effects /\ NoEffects.launch = {} /\ NoEffects.tell = {}
  BY DEF NoEffects, Effects
<1>4. TypeOK'
  BY <1>2, <1>3 DEF IInv, TypeOK
<1>5. TurnOK' /\ DerivedFresh'
  BY HandlerTurn
<1>6. KeysOK' /\ KeysAgree' /\ ResultsTrue'
  BY <1>2, <1>3, <1>4, Shrinking DEF IInv, Runs
<1> QED BY <1>4, <1>5, <1>6 DEF IInv

LEMMA FinishCloseStep == ASSUME IInv, FinishClose PROVE IInv'
<1> USE DEF FinishClose, Begin
<1>1. TypeOK'
  BY DEF IInv, TypeOK, States
<1>2. TurnOK' /\ DerivedFresh'
  BY DEF IInv, TurnOK, DerivedFresh, Fresh
<1>3. KeysOK' /\ KeysAgree' /\ ResultsTrue'
  BY <1>1, Shrinking, SameTasks DEF IInv, Runs
<1> QED BY <1>1, <1>2, <1>3 DEF IInv

-----------------------------------------------------------------------------
\* The theorems

LEMMA InitIInv == Init => IInv
<1> SUFFICES ASSUME Init PROVE IInv
  OBVIOUS
<1> USE DEF Init, NoEffects
<1>1. TypeOK
  BY GraphsAssumption DEF TypeOK, States, Effects
<1>2. TurnOK /\ DerivedFresh
  BY DEF TurnOK, DerivedFresh
<1>3. KeysOK /\ KeysAgree /\ ResultsTrue
  BY DEF KeysOK, KeysAgree, ResultsTrue, Runs
<1> QED BY <1>1, <1>2, <1>3 DEF IInv

LEMMA NextIInv == IInv /\ [Next]_vars => IInv'
<1> SUFFICES ASSUME IInv, [Next]_vars PROVE IInv'
  OBVIOUS
<1>1. CASE Request
  BY <1>1, RequestStep
<1>2. CASE Execution
  BY <1>2, StartedStep, CompleteStep, FailStep, VanishStep DEF Execution
<1>3. CASE Derivation
  BY <1>3, DeriveBlockedStep, DeriveKeptStep, DeriveReinstatedStep, DeriveLaunchedStep DEF Derivation
<1>4. CASE TurnEnd
  BY <1>4, AfterTurnStep, OtherStep DEF TurnEnd
<1>5. CASE Delivery
  BY <1>5, TakeNewsStep DEF Delivery
<1>6. CASE Expiry
  BY <1>6, ExpireStep DEF Expiry
<1>7. CASE CloseCall
  BY <1>7, OtherStep
<1>8. CASE Closing
  BY <1>8, BeginCloseStep, FinishCloseStep DEF Closing
<1>9. CASE UNCHANGED vars
  BY <1>9, OtherStep
<1> QED BY <1>1, <1>2, <1>3, <1>4, <1>5, <1>6, <1>7, <1>8, <1>9 DEF Next

\* The inductive invariant: a turn derives sources first, a generation stands
\* for one key, a result in the ledger is the result of its key, and whatever
\* has been derived is fresh.
THEOREM Inductive == Spec => []IInv
BY InitIInv, NextIInv, PTL DEF Spec

\* Every variable keeps its type: whatever is reinstated, evicted, landed or
\* cancelled, the ledger holds runs and the side loop tasks.
THEOREM TypeCorrect == Spec => []TypeOK
<1>1. IInv => TypeOK
  BY DEF IInv
<1> QED BY <1>1, Inductive, PTL

\* Between two turns a complete node shows the result of its present inputs:
\* no overtaken run and no late message publishes (_find_run by generation,
\* the demand key of _derive_transformer).
THEOREM Dataflow == Spec => []NoStaleResult
<1>1. IInv => NoStaleResult
  BY DEF IInv, TurnOK, DerivedFresh, NoStaleResult
<1> QED BY <1>1, Inductive, PTL

=============================================================================
