-------------------------------- MODULE Runs --------------------------------
(***************************************************************************)
(* The reactive engine of a Context: how an edit of a transformer's inputs *)
(* becomes a run, how the run's result comes back, and what happens to the *)
(* runs that edits have overtaken (seamless_workflow/reactive.py,          *)
(* scheduler.py and what context.py does to the run ledger).               *)
(*                                                                         *)
(* Four threads take part: the controller, which executes one message (a   *)
(* "turn") at a time; the side loop, on which every launched run is a      *)
(* task; the clock, whose timers end the holds of superseded runs; and the *)
(* closer, the thread that calls Context.close().                          *)
(*                                                                         *)
(* The controller's queue is not a variable here (module Controller has    *)
(* it).  A message of a caller, of a task or of a timer carries nothing    *)
(* that it read from the Context, so it is sent and taken in one step: a   *)
(* task stays in its stage until its message is taken, and may be          *)
(* cancelled in between without the message getting lost.  Only what the   *)
(* controller sends to itself stays visible in between ("news").           *)
(***************************************************************************)
EXTENDS Naturals, FiniteSets

CONSTANTS
  Nodes,          \* the transformer nodes of the graph
  Up,             \* Up[n]: the nodes connected to an input of n
  Configs,        \* the values of a node's own inputs (code and literal pins)
  Graphs,         \* the graphs that may be loaded, by the own inputs of their nodes
  Unset,          \* an own input that was never set
  Checksums,      \* the checksums of results
  Null,           \* no checksum
  Result(_, _),   \* Result(n, k): what computing n on the inputs k gives
  Cap,            \* Scheduler.superseded_cap
  Kinds,          \* bound: the kinds of request and event that happen, of
                  \*   "edit" "clear" "prune" "load" "wait" "close" "fail" "clock"
  MaxCalls        \* bound: how many requests the callers make

\* The demand key of a run: the node's own inputs and the checksums that its
\* connected inputs had when the run was demanded.
Key == [n \in Nodes |-> [own: Configs, ups: [Up[n] -> Checksums]]]

ASSUME ConstantsAssumption ==
  /\ Up \in [Nodes -> SUBSET Nodes]
  /\ Unset \notin Configs
  /\ Null \notin Checksums
  /\ Cap \in Nat \ {0}
  /\ MaxCalls \in Nat
  /\ \A n \in Nodes : \A k \in Key[n] : Result(n, k) \in Checksums

ASSUME GraphsAssumption == Graphs \subseteq [Nodes -> Configs \cup {Unset}]

VARIABLES
  config,     \* config[n]: the node's own inputs
  state,      \* Node.state
  checksum,   \* Node.current_checksum
  current,    \* ContextRuntime.current_runs: at most one run of each node
  held,       \* ContextRuntime.superseded_runs: the held runs of each node
  gen,        \* ContextRuntime.generation
  stamp,      \* how many times a run was put on hold (orders the holds)
  turn,       \* "idle", or "busy" while the controller executes a message
  pending,    \* the nodes this turn has still to derive
  effects,    \* Context._effects: what the turn does once it is over
  barriers,   \* Context._barriers: the nodes some caller waits for
  tasks,      \* the executions on the side loop
  timers,     \* the armed hold timers
  news,       \* results the controller has queued for itself
  closer,     \* where the thread in Context.close() is
  calls       \* how many requests the callers made

ledger == <<current, held, gen, stamp>>
graph  == <<config, state, checksum>>
side   == <<tasks, timers, news>>
vars   == <<graph, ledger, turn, pending, effects, barriers, side, closer, calls>>

States == {"unwired", "blocked", "waiting", "computing", "complete", "failed"}
Unsettled == {"waiting", "computing"}
AnyKey == UNION {Key[n] : n \in Nodes}

\* RunRecord.  A cancelled run is one that left the ledger.  "hold" numbers the
\* holds in the order in which they began (the order of the deque).
Run == [gen: Nat, key: AnyKey, result: Checksums \cup {Null}, error: BOOLEAN,
        phase: {"running", "completed", "superseded"},
        kind: {"none", "self-edit", "upstream"}, hold: Nat]

\* An execution on the side loop.  "cancelled": its future was cancelled, which
\* the task notices at one of its later awaits, if it has any.
Task == [node: Nodes, gen: Nat, key: AnyKey,
         stage: {"constructing", "computing"}, cancelled: BOOLEAN]

Timer == [node: Nodes, gen: Nat, hold: Nat]

\* The arguments of _transformation_finished; an error has no checksum.
Finished == [node: Nodes, gen: Nat, result: Checksums \cup {Null}]

Effects == [launch: SUBSET Task, cancel: SUBSET Nat, arm: SUBSET Timer,
            tell: SUBSET Finished]
NoEffects == [launch |-> {}, cancel |-> {}, arm |-> {}, tell |-> {}]

TypeOK ==
  /\ config \in [Nodes -> Configs \cup {Unset}]
  /\ state \in [Nodes -> States]
  /\ checksum \in [Nodes -> Checksums \cup {Null}]
  /\ current \in [Nodes -> SUBSET Run]
  /\ held \in [Nodes -> SUBSET Run]
  /\ gen \in Nat /\ stamp \in Nat /\ calls \in Nat
  /\ turn \in {"idle", "busy"}
  /\ pending \in SUBSET Nodes
  /\ effects \in Effects
  /\ barriers \in SUBSET Nodes
  /\ tasks \in SUBSET Task
  /\ timers \in SUBSET Timer
  /\ news \in SUBSET Finished
  /\ closer \in {"open", "flagged", "draining", "closed"}

-----------------------------------------------------------------------------
\* What the controller's own steps read

\* Context._closing
closing == closer # "open"

Runs(n) == current[n] \cup held[n]
Gens(runs) == {r.gen : r \in runs}

\* record.et is not None: the effect that launches the run has been executed.
Launched(runs) == {r \in runs : \A t \in effects.launch : t.gen # r.gen}

\* Every cancellation of a turn is an effect: "if record.et is not None".
Cancelling(runs) == [effects EXCEPT !.cancel = @ \cup Gens(Launched(runs))]

\* Why n cannot be computed (the reasons that a transformer has whose inputs
\* are of the right types).
Unavailable(s) == CASE s = "failed" -> "blocked-by-error"
                    [] s \in {"blocked", "unwired"} -> "blocked-by-unwired"
                    [] OTHER -> "waiting"
Missing(n) == {"unwired" : c \in {config[n]} \cap {Unset}}
              \cup {Unavailable(state[u]) : u \in {v \in Up[n] : state[v] # "complete"}}

DemandKey(n) == [own |-> config[n], ups |-> [u \in Up[n] |-> checksum[u]]]

\* _upstream_cone over the fixed connections, and the condition of a barrier
Cone[n \in Nodes] == {n} \cup UNION {Cone[u] : u \in Up[n]}
Settled(n) == \A m \in Cone[n] : state[m] \notin Unsettled

UpstreamUnresolved(n) == \E u \in Up[n] : state[u] \in Unsettled

\* The cap of ContextRuntime.supersede
ExcessOffByOne(runs) == Cardinality(runs) > Cap + 1
Excess(runs) == Cardinality(runs) > Cap

\* ContextRuntime.supersede: n's current run joins the runs "was" that are
\* held already; beyond Cap the one held longest leaves.
Supersede(n, was) ==
  LET moved == {[r EXCEPT !.phase = "superseded", !.hold = stamp + 1,
                          !.kind = IF UpstreamUnresolved(n) THEN "upstream" ELSE "self-edit"]
                : r \in current[n]}
      queued == was \cup moved
      evicted == {r \in queued : Excess(queued) /\ \A q \in queued : r.hold <= q.hold}
  IN [moved |-> moved, held |-> queued \ evicted, evicted |-> evicted]

\* _suspend: arm the timer of the new hold, cancel the runs that are dropped.
TimersOf(n, runs) == {[node |-> n, gen |-> r.gen, hold |-> r.hold] : r \in runs}
SuspendKeepingEvicted(n, s, dropped) ==
  [Cancelling(dropped) EXCEPT !.arm = TimersOf(n, s.moved) \cup @]
SuspendTrustingUpstream(n, s, dropped) ==
  [Cancelling(dropped \cup s.evicted) EXCEPT
     !.arm = TimersOf(n, {r \in s.moved : r.kind = "self-edit"}) \cup @]
SuspendEffects(n, s, dropped) ==
  [Cancelling(dropped \cup s.evicted) EXCEPT !.arm = TimersOf(n, s.moved) \cup @]
NextStamp(s) == IF s.moved = {} THEN stamp ELSE stamp + 1

-----------------------------------------------------------------------------
\* Turns.  The handler's change of the graph is followed by _derive_all, one
\* node after its sources (Derive), and by _after_turn.

Begin(derived) == turn = "idle" /\ turn' = "busy" /\ pending' = derived

Call(kind) == /\ kind \in Kinds /\ closer \in {"open", "flagged"}
              /\ calls < MaxCalls /\ calls' = calls + 1
              /\ UNCHANGED <<side, closer>>

\* Set or clear a pin or the code of n.
Edit(n, c) ==
  /\ Call("edit") /\ Begin(Nodes) /\ c # config[n]
  /\ config' = [config EXCEPT ![n] = c]
  /\ UNCHANGED <<state, checksum, ledger, effects, barriers>>

\* clear_exception: forget the failed run, so that the derivation retries it.
ClearException(n) ==
  /\ Call("clear") /\ Begin(Nodes) /\ state[n] = "failed"
  /\ current' = [current EXCEPT ![n] = {}]
  /\ effects' = Cancelling(current[n])
  /\ UNCHANGED <<graph, held, gen, stamp, barriers>>

\* prune: drop the held runs of the nodes in P; nothing is derived.
Prune(P) ==
  /\ Call("prune") /\ Begin({})
  /\ held' = [n \in Nodes |-> IF n \in P THEN {} ELSE held[n]]
  /\ effects' = Cancelling(UNION {held[n] : n \in P})
  /\ UNCHANGED <<graph, current, gen, stamp, barriers>>

\* set_graph: other nodes at the same paths, a new ledger that goes on
\* counting generations.
SetGraph(c) ==
  /\ Call("load") /\ Begin(Nodes)
  /\ config' = c
  /\ state' = [n \in Nodes |-> "unwired"]
  /\ checksum' = [n \in Nodes |-> Null]
  /\ current' = [n \in Nodes |-> {}]
  /\ held' = [n \in Nodes |-> {}]
  /\ effects' = Cancelling(UNION {Runs(n) : n \in Nodes})
  /\ UNCHANGED <<gen, stamp, barriers>>

\* _install_wait(barrier=True), the wait of compute() and run(), which looks
\* at the nodes at once.
InstallWait(n) ==
  /\ Call("wait") /\ Begin({})
  /\ barriers' = barriers \cup {m \in {n} : ~Settled(m)}
  /\ UNCHANGED <<graph, ledger, effects>>

\* _find_run: the run of n that a message is about
IsAnyRun(r, g) == TRUE
IsRun(r, g) == r.gen = g
Found(n, g) == {r \in Runs(n) : IsRun(r, g)}

\* _transformation_finished: the result belongs to the run with that
\* generation, current or held; without one, or while closing, it is released.
Land(n, g, res) ==
  LET landed(r) == IF ~IsRun(r, g) THEN r
                   ELSE [r EXCEPT !.result = res, !.error = (res = Null),
                                  !.phase = IF @ = "superseded" THEN @ ELSE "completed"]
  IN /\ Begin(IF closing \/ Found(n, g) = {} THEN {} ELSE Nodes)
     /\ IF closing THEN UNCHANGED <<current, held>>
        ELSE /\ current' = [current EXCEPT ![n] = {landed(r) : r \in @}]
             /\ held' = [held EXCEPT ![n] = {landed(r) : r \in @}]
     /\ UNCHANGED <<graph, gen, stamp, effects, barriers, timers, closer, calls>>

\* execute() constructed the transformation: _transformation_started
Started(t) ==
  /\ t.stage = "constructing" /\ closer \in {"open", "flagged"}
  /\ Begin(IF Found(t.node, t.gen) = {} THEN {} ELSE Nodes)
  /\ tasks' = (tasks \ {t}) \cup {[t EXCEPT !.stage = "computing"]}
  /\ UNCHANGED <<graph, ledger, effects, barriers, timers, news, closer, calls>>

\* execute() is over with a result, or with an exception of the construction
\* or of the computation.
Complete(t) ==
  /\ t.stage = "computing" /\ closer \in {"open", "flagged"}
  /\ Land(t.node, t.gen, Result(t.node, t.key))
  /\ tasks' = tasks \ {t} /\ UNCHANGED news
Fail(t) ==
  /\ "fail" \in Kinds /\ closer \in {"open", "flagged"}
  /\ Land(t.node, t.gen, Null)
  /\ tasks' = tasks \ {t} /\ UNCHANGED news

\* The controller takes the result that a reinstated run had already.
TakeNews(m) ==
  /\ closer \in {"open", "flagged"}
  /\ Land(m.node, m.gen, m.result)
  /\ news' = news \ {m} /\ UNCHANGED tasks

\* A hold timer fired.  _expire_run looks for the generation among the held
\* runs; the deadline that has passed is that of the hold the timer was armed
\* for, not that of a later hold of the same run.
OverByGeneration(t) == {r \in held[t.node] : r.gen = t.gen}
Over(t) == {r \in held[t.node] : r.gen = t.gen /\ r.hold = t.hold}
Expire(t) ==
  /\ "clock" \in Kinds /\ closer \in {"open", "flagged"}
  /\ Begin({})
  /\ timers' = timers \ {t}
  /\ held' = [held EXCEPT ![t.node] = @ \ Over(t)]
  /\ effects' = Cancelling(Over(t))
  /\ UNCHANGED <<graph, current, gen, stamp, barriers, tasks, news, closer, calls>>

-----------------------------------------------------------------------------
\* _derive_transformer, one node of the pass

Derive(n) ==
  /\ turn = "busy" /\ n \in pending /\ Up[n] \cap pending = {}
  /\ pending' = pending \ {n}
  /\ UNCHANGED <<config, turn, barriers, side, closer, calls>>

\* Missing inputs take precedence over blocked inputs, then waiting.
ReasonAsState(n) == IF "unwired" \in Missing(n) THEN "unwired"
                    ELSE CHOOSE reason \in Missing(n) : TRUE
BlockedState(n) == IF "unwired" \in Missing(n) THEN "unwired"
                   ELSE IF Missing(n) = {"waiting"} THEN "waiting" ELSE "blocked"

\* An input is missing: the run, if there was one, is overtaken.
DeriveBlocked(n) ==
  LET s == Supersede(n, held[n])
  IN /\ Derive(n) /\ Missing(n) # {}
     /\ state' = [state EXCEPT ![n] = BlockedState(n)]
     /\ checksum' = [checksum EXCEPT ![n] = Null]
     /\ current' = [current EXCEPT ![n] = {}]
     /\ held' = [held EXCEPT ![n] = s.held]
     /\ stamp' = NextStamp(s)
     /\ effects' = SuspendEffects(n, s, {})
     /\ UNCHANGED gen

\* _release_upstream_holds: the sources are resolved, so the runs held for
\* them end, except those that are wanted again.
StillHeld(n) == {r \in held[n] : r.kind # "upstream" \/ r.key = DemandKey(n)}

\* _publish_run
Publish(n, r) ==
  /\ state' = [state EXCEPT ![n] = IF r.error THEN "failed"
                                   ELSE IF r.result # Null THEN "complete" ELSE "computing"]
  /\ checksum' = [checksum EXCEPT ![n] = IF r.error THEN Null ELSE r.result]

\* The current run is the one demanded.
DeriveKept(n) ==
  \E r \in current[n] :
    /\ Derive(n) /\ Missing(n) = {} /\ r.key = DemandKey(n)
    /\ Publish(n, r)
    /\ held' = [held EXCEPT ![n] = StillHeld(n)]
    /\ effects' = Cancelling(held[n] \ StillHeld(n))
    /\ UNCHANGED <<current, gen, stamp>>

Overtaken(n) == \A r \in current[n] : r.key # DemandKey(n)
WantedUnfinished(n, runs) == {r \in runs : r.key = DemandKey(n) /\ r.result = Null}
Wanted(n, runs) == {r \in runs : r.key = DemandKey(n)}

\* If a reinstated run has a result or an error already, that arrives later, as
\* a message.
ToldResult(n, r) ==
  {m \in {[node |-> n, gen |-> r.gen, result |-> r.result]} : r.result # Null}
Told(n, r) ==
  {m \in {[node |-> n, gen |-> r.gen, result |-> r.result]} : r.result # Null \/ r.error}

\* A held run is demanded again (the first in the deque, if there are several).
DeriveReinstated(n) ==
  LET s == Supersede(n, StillHeld(n))
  IN \E r \in Wanted(n, s.held) :
       LET back == [r EXCEPT !.result = Null, !.error = FALSE,
                             !.phase = "running", !.kind = "none"]
       IN /\ Derive(n) /\ Missing(n) = {} /\ Overtaken(n)
          /\ \A q \in Wanted(n, s.held) : r.hold <= q.hold
          /\ current' = [current EXCEPT ![n] = {back}]
          /\ held' = [held EXCEPT ![n] = s.held \ {r}]
          /\ stamp' = NextStamp(s)
          /\ effects' = [SuspendEffects(n, s, held[n] \ StillHeld(n)) EXCEPT !.tell = Told(n, r) \cup @]
          /\ Publish(n, back)
          /\ UNCHANGED gen

\* Nothing in the ledger answers the demand: a new run.
DeriveLaunched(n) ==
  LET s == Supersede(n, StillHeld(n))
      r == [gen |-> gen + 1, key |-> DemandKey(n), result |-> Null, error |-> FALSE,
            phase |-> "running", kind |-> "none", hold |-> 0]
      task == [node |-> n, gen |-> r.gen, key |-> r.key,
               stage |-> "constructing", cancelled |-> FALSE]
  IN /\ Derive(n) /\ Missing(n) = {} /\ Overtaken(n) /\ Wanted(n, s.held) = {}
     /\ gen' = r.gen
     /\ current' = [current EXCEPT ![n] = {r}]
     /\ held' = [held EXCEPT ![n] = s.held]
     /\ stamp' = NextStamp(s)
     /\ effects' = [SuspendEffects(n, s, held[n] \ StillHeld(n)) EXCEPT !.launch = {task} \cup @]
     /\ Publish(n, r)

\* Future.cancel of the executions with these generations
Cancel(runs, gens) == {[t EXCEPT !.cancelled = @ \/ t.gen \in gens] : t \in runs}

\* _check_barriers: the waits that are not over
UnansweredAll == barriers
Unanswered == {n \in barriers : ~Settled(n)}

\* _after_turn: answer the waits that are over, then execute the effects.
AfterTurn ==
  /\ turn = "busy" /\ pending = {} /\ ~closing
  /\ turn' = "idle"
  /\ barriers' = Unanswered
  /\ tasks' = Cancel(tasks, effects.cancel) \cup effects.launch
  /\ timers' = timers \cup effects.arm
  /\ news' = news \cup effects.tell
  /\ effects' = NoEffects
  /\ UNCHANGED <<graph, ledger, pending, closer, calls>>

\* _after_turn once the Context is closing: nothing.
AfterTurnClosing ==
  /\ turn = "busy" /\ pending = {} /\ closing
  /\ turn' = "idle"
  /\ UNCHANGED <<graph, ledger, pending, effects, barriers, side, closer, calls>>

-----------------------------------------------------------------------------
\* The side loop: a task that was cancelled, or that finds the controller
\* closed, ends without a message.
MayVanishCancelled(t) == t.cancelled
MayVanish(t) == t.cancelled \/ closer = "draining"
Vanish(t) ==
  /\ MayVanish(t)
  /\ tasks' = tasks \ {t}
  /\ UNCHANGED <<graph, ledger, turn, pending, effects, barriers, timers, news, closer, calls>>

-----------------------------------------------------------------------------
\* Context.close()

\* The closer sets _closing; the controller may be in the middle of a turn.
CloseCall ==
  /\ "close" \in Kinds /\ closer = "open" /\ closer' = "flagged"
  /\ UNCHANGED <<graph, ledger, turn, pending, effects, barriers, side, calls>>

\* _begin_close, behind which no other message is accepted: pending effects are
\* forgotten, waiters fail, and the futures of the ledger's runs are cancelled.
BeginClose ==
  /\ closer = "flagged" /\ closer' = "draining"
  /\ Begin({})
  /\ effects' = NoEffects
  /\ barriers' = {}
  /\ tasks' = Cancel(tasks, Gens(UNION {Runs(n) : n \in Nodes}))
  /\ news' = {}
  /\ UNCHANGED <<graph, ledger, timers, calls>>

\* SideLoop.close returned, as no task is left: _finish_close, then stop().
FinishClose ==
  /\ closer = "draining" /\ tasks = {} /\ closer' = "closed"
  /\ Begin({})
  /\ config' = [n \in Nodes |-> Unset]
  /\ state' = [n \in Nodes |-> "unwired"]
  /\ checksum' = [n \in Nodes |-> Null]
  /\ current' = [n \in Nodes |-> {}]
  /\ held' = [n \in Nodes |-> {}]
  /\ timers' = {}
  /\ UNCHANGED <<gen, stamp, effects, barriers, tasks, news, calls>>

-----------------------------------------------------------------------------
\* A Context that was just given its graph
Init ==
  /\ config \in Graphs
  /\ state = [n \in Nodes |-> "unwired"]
  /\ checksum = [n \in Nodes |-> Null]
  /\ current = [n \in Nodes |-> {}]
  /\ held = [n \in Nodes |-> {}]
  /\ gen = 0 /\ stamp = 0 /\ calls = 0
  /\ turn = "busy" /\ pending = Nodes /\ effects = NoEffects
  /\ barriers = {} /\ tasks = {} /\ timers = {} /\ news = {}
  /\ closer = "open"

Request ==
  \/ \E n \in Nodes : \E c \in Configs \cup {Unset} : Edit(n, c)
  \/ \E n \in Nodes : ClearException(n)
  \/ \E P \in {Nodes} \cup {{m \in Nodes : n \in Cone[m]} : n \in Nodes} : Prune(P)
  \/ \E c \in Graphs : SetGraph(c)
  \/ \E n \in Nodes : InstallWait(n)

Execution == \E t \in tasks : Started(t) \/ Complete(t) \/ Fail(t) \/ Vanish(t)

Derivation == \E n \in Nodes : \/ DeriveBlocked(n) \/ DeriveKept(n)
                               \/ DeriveReinstated(n) \/ DeriveLaunched(n)

TurnEnd == AfterTurn \/ AfterTurnClosing
Delivery == \E m \in news : TakeNews(m)
Expiry == \E t \in timers : Expire(t)
Closing == BeginClose \/ FinishClose

Next == \/ Request \/ Execution \/ Derivation \/ TurnEnd \/ Delivery \/ Expiry
        \/ CloseCall \/ Closing

Spec == Init /\ [][Next]_vars

\* A turn that began goes on, a message that was queued is taken, computations
\* come to an end, timers fire, and a close() that began is carried on.  A
\* caller may stop calling, and nobody has to close the Context.
Fairness == /\ WF_vars(Derivation \/ TurnEnd)
            /\ WF_vars(Execution) /\ WF_vars(Delivery)
            /\ WF_vars(Expiry) /\ WF_vars(Closing)

FairSpec == Spec /\ Fairness

-----------------------------------------------------------------------------
\* Properties

\* Between two turns a complete node shows the result of computing its present
\* inputs, and each connected source is complete too: no run that an edit has
\* overtaken, and no late message of one, ever publishes its result
\* (_find_run by generation, demand_key in _derive_transformer).
Fresh(n) ==
  state[n] = "complete" =>
    /\ config[n] # Unset /\ \A u \in Up[n] : state[u] = "complete"
    /\ checksum[n] = Result(n, DemandKey(n))
NoStaleResult == turn = "idle" => \A n \in Nodes : Fresh(n)

\* The ledger never keeps two runs of one node for the same demand: a demand
\* that comes back while its run is held joins that run instead of computing
\* the same thing twice (the search of superseded_runs before a new run).
NoDuplicateDemand ==
  turn = "idle" =>
    \A n \in Nodes : \A q, r \in Runs(n) : q.key = r.key => q = r

\* A node that says "computing" has a run on its way: its task is still going
\* and nobody cancelled it, or its result is queued.  Otherwise the node, and
\* every wait on it, would hang for ever (_suspend, _expire_run and the
\* reinstatement in _derive_transformer pass the same record around).
OnItsWay(r) == \/ \E t \in tasks : t.gen = r.gen /\ ~t.cancelled
               \/ \E m \in news : m.gen = r.gen
NoLostRun ==
  turn = "idle" /\ ~closing =>
    \A n \in Nodes : state[n] = "computing" => \E r \in current[n] : OnItsWay(r)

\* Every execution that is not cancelled belongs to a run of the ledger: what
\* was evicted, expired, released, pruned or replaced has been cancelled
\* ("release memberships of evicted runs", _suspend).
NoLeakedRun ==
  turn = "idle" /\ ~closing =>
    \A t \in tasks : t.cancelled \/ t.gen \in Gens(Runs(t.node))

\* At most Cap runs of a node are held (ContextRuntime.supersede).
HeldBounded == \A n \in Nodes : IsFiniteSet(held[n]) /\ Cardinality(held[n]) <= Cap

\* A timer ends no hold but its own, and none is armed for a hold before it
\* begins: a run that was reinstated and overtaken again keeps its full window,
\* although the timer of its earlier hold names the same generation
\* (_expire_run compares the deadline too).
HoldKept ==
  [][/\ Expiry => \A n \in Nodes : \A r \in held[n] :
          r \in held'[n] \/ [node |-> n, gen |-> r.gen, hold |-> r.hold] \notin timers'
     /\ \A n \in Nodes : \A r \in held'[n] :
          [node |-> n, gen |-> r.gen, hold |-> r.hold] \in timers =>
            \E q \in held[n] : q.gen = r.gen /\ q.hold = r.hold]_vars

\* A wait for a node ends: with the node and its sources settled, or because
\* the Context closes (_check_barriers, _begin_close).
WaitAnswered == \A n \in Nodes : n \in barriers ~> n \notin barriers

\* A run is not held for ever: it is reinstated, or its timer, the upstream
\* event, an eviction or a prune ends the hold (_suspend's timer).
HoldEnds == \A n \in Nodes : held[n] # {} ~> held[n] = {}

\* Once _begin_close ran, no execution of the Context is still wanted: "close()
\* must deregister the Context's participation"
\* (tests/test_contract_cancellation_policy.py).  Does not hold.
CloseCancels == closer = "draining" /\ turn = "idle" => \A t \in tasks : t.cancelled

\* close() returns, whatever was going on when it was called.
CloseReturns == closer = "flagged" ~> closer = "closed"

-----------------------------------------------------------------------------
\* What makes NoStaleResult inductive

\* A turn derives a node only after its sources.
TurnOK == /\ turn = "idle" => pending = {}
          /\ \A n \in Nodes \ pending : Up[n] \cap pending = {}

\* Runs and executions compute keys of their node, under generations that
\* were given out already.
KeysOK ==
  /\ \A n \in Nodes : \A r \in Runs(n) : r.key \in Key[n] /\ r.gen <= gen
  /\ \A t \in tasks \cup effects.launch : t.key \in Key[t.node] /\ t.gen <= gen
  /\ \A m \in news \cup effects.tell : m.gen <= gen

\* A generation stands for one key of one node.
KeysAgree ==
  /\ \A n \in Nodes : \A q, r \in Runs(n) : q.gen = r.gen => q.key = r.key
  /\ \A t \in tasks \cup effects.launch :
       \A r \in Runs(t.node) : r.gen = t.gen => r.key = t.key

\* A result in the ledger, or on its way to it, is the result of its key.
ResultsTrue ==
  /\ \A n \in Nodes : \A r \in Runs(n) :
       r.result # Null => r.result = Result(n, r.key)
  /\ \A m \in news \cup effects.tell : \A r \in Runs(m.node) :
       r.gen = m.gen /\ m.result # Null => m.result = Result(m.node, r.key)

\* The nodes that this turn has derived, or that it need not derive, are fresh.
DerivedFresh == /\ \A n \in Nodes : state[n] = "complete" => checksum[n] # Null
                /\ \A n \in Nodes \ pending : Fresh(n)

IInv == TypeOK /\ TurnOK /\ KeysOK /\ KeysAgree /\ ResultsTrue /\ DerivedFresh

-----------------------------------------------------------------------------
\* What makes the invariants of the ledger inductive

InFlight(r) == r.result = Null /\ ~r.error

\* A node has one current run at most and Cap held ones, all of different keys.
LedgerOK ==
  \A n \in Nodes : /\ \A q, r \in current[n] : q = r
                  /\ current[n] \cap held[n] = {}
                  /\ IsFiniteSet(held[n]) /\ Cardinality(held[n]) <= Cap
                  /\ \A q, r \in Runs(n) : q.key = r.key => q = r

\* A node that this turn has derived says "computing" for a run in flight.
ComputingOK ==
  \A n \in Nodes \ pending : state[n] = "computing" => \E r \in current[n] : InFlight(r)

\* A generation stands for one node.
NodesAgree ==
  \A n \in Nodes : \A r \in Runs(n) :
    /\ \A m \in Nodes : \A q \in Runs(m) : q.gen = r.gen => m = n
    /\ \A t \in tasks \cup effects.launch : t.gen = r.gen => t.node = n
    /\ \A m \in news \cup effects.tell : m.gen = r.gen => m.node = n

\* What is to be launched is in the ledger, at a node that this turn has
\* derived already; what is to be cancelled is not in it.
EffectsOK ==
  /\ turn = "idle" => effects = NoEffects
  /\ \A t \in effects.launch : /\ t.node \notin pending /\ ~t.cancelled
                              /\ t.gen \in Gens(Runs(t.node))
  /\ \A g \in effects.cancel : g <= gen /\ \A n \in Nodes : g \notin Gens(Runs(n))

\* An execution is cancelled, or about to be, or in the ledger.
NothingLeaked ==
  \A t \in tasks : t.cancelled \/ t.gen \in effects.cancel \cup Gens(Runs(t.node))

\* A run in flight has an execution or a message, or is about to have one.
Expected(r) == \/ \E t \in tasks \cup effects.launch : t.gen = r.gen /\ ~t.cancelled
               \/ \E m \in news \cup effects.tell : m.gen = r.gen
NothingLost == \A n \in Nodes : \A r \in Runs(n) : InFlight(r) => Expected(r)

\* Once the Context is closing, the effects of a turn are dropped.
Books == NodesAgree /\ EffectsOK /\ NothingLeaked /\ NothingLost

LInv == LedgerOK /\ ComputingOK /\ (~closing => Books)

-----------------------------------------------------------------------------
\* What gives every hold its window

\* Holds are numbered as they begin, so a number stands for one hold of one run,
\* and no timer is armed for a hold that is still to come.
HoldsNumbered ==
  /\ \A n \in Nodes : \A r \in held[n] : r.hold <= stamp
  /\ \A m, n \in Nodes : \A q \in held[m], r \in held[n] :
       q.hold = r.hold => m = n /\ q.gen = r.gen
  /\ \A t \in timers \cup effects.arm : t.hold <= stamp

\* The timer of every hold is armed, or will be at the end of the turn.
HoldsTimed == \A n \in Nodes : TimersOf(n, held[n]) \subseteq timers \cup effects.arm

HInv == HoldsNumbered /\ (~closing => HoldsTimed)

=============================================================================
