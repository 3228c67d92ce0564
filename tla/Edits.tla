-------------------------------- MODULE Edits --------------------------------
(***************************************************************************)
(* Threads that change one cell of a Context, and the facts (conversions   *)
(* and joins, evaluated on the side loop) that the cell's value depends    *)
(* on.  A thread prepares a value outside the controller, from a snapshot, *)
(* and hands it in in a later turn: _edit compares the snapshot with the   *)
(* cell before it commits and tries again, _set_node_config compares the   *)
(* revision, a write of the whole value compares nothing.  Every action    *)
(* that changes the cell is one controller turn, with its _derive_all and  *)
(* the effects that follow it.                                             *)
(*                                                                         *)
(* A value is its encoding and the marks that the writes left in it.       *)
(***************************************************************************)
EXTENDS Naturals, FiniteSets, Functions, FiniteSetsExt

CONSTANTS
  Callers,    \* the threads, each makes one request
  Requests,   \* what each may ask for: a set of records of a kind and a celltype
  Celltypes,
  SourceType, \* the celltype of the cell that may be connected to this one
  Foreign,    \* the mark in that cell's value
  Loaded,     \* the mark in a value that was loaded with the graph
  Failing,    \* the evaluations that may fail: "convert", "join"
  Retries,    \* 8 in the code
  None

ASSUME RetriesAssumption == Retries \in Nat \ {0}
ASSUME TypesAssumption == SourceType \in Celltypes
ASSUME FailingAssumption == Failing \subseteq {"convert", "join"}

VARIABLES
  cell,     \* root: cell_root_producer; type: cell_config.celltype; edge: what is connected
  rev,      \* _revisions
  facts,    \* _facts: whether the evaluation of a key succeeded
  jobs,     \* _jobs: the task of a key that is demanded and has no fact
  work,     \* the tasks of the side loop
  replies,  \* the _accept_fact messages on their way to the controller
  request, pc, base, tries, answer   \* of each caller

factVars == <<facts, jobs, work, replies>>
callVars == <<request, pc, base, tries, answer>>
vars == <<cell, rev, factVars, callVars>>

PartKinds == {"part", "member", "drop"}
Value == [enc : Celltypes, has : SUBSET (Callers \cup {Foreign, Loaded})]
Producer == [val : Value, ct : Celltypes]
Cell == [root : Producer \cup {None}, type : Celltypes, edge : {"none", "root", "member"}]
Base == [val : Value \cup {None}, type : Celltypes, rev : Nat]
Request == [kind : PartKinds \cup {"retype", "whole", "set", "blank", "literal",
                                   "plug", "plugin", "unplug", "clear"},
            type : Celltypes]

ASSUME RequestsAssumption == \A c \in Callers : Requests[c] \subseteq Request
ASSUME NamesAssumption == /\ Foreign \notin Callers \cup {Loaded}
                          /\ None \notin Value \cup Producer \cup Base \cup Request

(***************************************************************************)
(* The derivation of the cell.                                             *)
(***************************************************************************)
Source == [enc |-> SourceType, has |-> {Foreign}]

\* The result of a fact: a conversion reads the value in the celltype `is`.
Result(key) == [enc |-> key.to, has |-> IF key.op = "convert" THEN key.val.has
                                        ELSE key.val.has \cup {Foreign}]

View(state, val, keys) == [state |-> state, val |-> val, keys |-> keys]

\* _demand: the key is used, and answered if there is a fact.
Demand(key, f) ==
  IF key \notin DOMAIN f THEN View("waiting", None, {key})
  ELSE IF f[key] THEN View("complete", Result(key), {key}) ELSE View("failed", None, {key})

Typed(val, is, type, f) ==
  IF is = type THEN View("complete", val, {})
  ELSE Demand([op |-> "convert", val |-> val, is |-> is, to |-> type], f)

Root(c, f) == IF c.root = None THEN View("unwired", None, {})
              ELSE Typed(c.root.val, c.root.ct, c.type, f)

\* The members are looked at before the root, and the join needs both.
Joined(c, f) ==
  LET member == Typed(Source, SourceType, c.type, f)
      old == Root(c, f)
      val == IF old.val = None THEN [enc |-> c.type, has |-> {}] ELSE old.val
  IN  IF member.state # "complete" THEN member
      ELSE IF old.state \in {"waiting", "failed"}
      THEN [old EXCEPT !.keys = @ \cup member.keys]
      ELSE LET join == Demand([op |-> "join", val |-> val, is |-> c.type, to |-> c.type], f)
           IN  [join EXCEPT !.keys = @ \cup member.keys \cup old.keys]

CellView(c, f) == CASE c.edge = "none"   -> Root(c, f)
                    [] c.edge = "root"   -> Typed(Source, SourceType, c.type, f)
                    [] c.edge = "member" -> Joined(c, f)

Now == CellView(cell, facts)
Current == Now.val

\* A number that no task of the key has.
Fresh(key) == Min(1 .. (Cardinality(work) + 1) \ {w.n : w \in {v \in work : v.key = key}})

\* The keys that stay in the table of jobs.
ListedForEver(used, f, j) == (used \ DOMAIN f) \cup DOMAIN j
Listed(used, f, j) == used \ DOMAIN f

\* The end of a turn that leaves the cell as c2: facts that are no longer
\* used go, jobs that are no longer used are cancelled, new ones are launched.
Derive(c2, f, j) ==
  LET used == CellView(c2, f).keys
      new == used \ (DOMAIN f \cup DOMAIN j)
      gone(w) == w.key \in DOMAIN j \ used /\ w.n = j[w.key]
  IN  /\ cell' = c2
      /\ facts' = [k \in DOMAIN f \cap used |-> f[k]]
      /\ jobs' = [k \in Listed(used, f, j) |-> IF k \in new THEN Fresh(k) ELSE j[k]]
      /\ work' = {[w EXCEPT !.live = @ /\ ~gone(w)] : w \in work}
                 \cup {[key |-> k, n |-> Fresh(k), live |-> TRUE] : k \in new}

(***************************************************************************)
(* The callers.                                                            *)
(***************************************************************************)
\* The cell is empty, or set_graph loaded it: a value of one celltype in a
\* cell of the same or of another one, whose conversion has been launched.
LoadedCells == {[root |-> [val |-> [enc |-> is, has |-> {Loaded}], ct |-> is],
                 type |-> type, edge |-> "none"] : is \in Celltypes, type \in Celltypes}

Init ==
  /\ cell \in LoadedCells \cup {[root |-> None, type |-> SourceType, edge |-> "none"]}
  /\ rev = 0 /\ facts = << >> /\ replies = {}
  /\ jobs = [k \in CellView(cell, << >>).keys |-> 1]
  /\ work = {[key |-> k, n |-> 1, live |-> TRUE] : k \in DOMAIN jobs}
  /\ request = [c \in Callers |-> None]
  /\ pc = [c \in Callers |-> "idle"]
  /\ base = [c \in Callers |-> None]
  /\ tries = [c \in Callers |-> 0]
  /\ answer = [c \in Callers |-> "none"]

Kind(c) == IF request[c] = None THEN "none" ELSE request[c].kind
Asks(c, kinds) == pc[c] = "begin" /\ Kind(c) \in kinds

Begin(c, r) == /\ pc[c] = "idle"
               /\ request' = [request EXCEPT ![c] = r]
               /\ pc' = [pc EXCEPT ![c] = "begin"]
               /\ UNCHANGED <<cell, rev, factVars, base, tries, answer>>

Return(c, a) == /\ answer' = [answer EXCEPT ![c] = a]
                /\ pc' = [pc EXCEPT ![c] = "done"]
                /\ UNCHANGED <<request, base, tries>>

Fail(c) == Return(c, "error") /\ UNCHANGED <<cell, rev, factVars>>

\* A turn that applies the request of c.
Turn(c, c2, bump) == /\ Derive(c2, facts, jobs)
                     /\ rev' = rev + bump
                     /\ UNCHANGED replies
                     /\ Return(c, "ok")

\* _validate_write: an edge above the part, or at it if it is not to go.
BlockedAtPart(c) == cell.edge # "none" /\ Kind(c) \in {"member", "set"}
Blocked(c) == \/ cell.edge = "root" /\ Kind(c) \in PartKinds
              \/ cell.edge = "member" /\ Kind(c) = "member"
              \/ cell.edge # "none" /\ Kind(c) = "set"

\* Take a snapshot; the loop of _edit, and that of _set_node_config.
Snapshot(c, next) == /\ base' = [base EXCEPT ![c] = [val |-> Current, type |-> cell.type, rev |-> rev]]
                     /\ pc' = [pc EXCEPT ![c] = next]
                     /\ UNCHANGED <<cell, rev, factVars, request, tries, answer>>

Retry(c, from) == /\ pc' = [pc EXCEPT ![c] = from]
                  /\ tries' = [tries EXCEPT ![c] = @ + 1]
                  /\ UNCHANGED <<cell, rev, factVars, request, base, answer>>

\* Another attempt; after the last one, ConcurrentUpdateError.
CanTryOffByOne(c) == tries[c] <= Retries
CanTry(c) == tries[c] < Retries

GiveUp(c) == Asks(c, PartKinds \cup {"retype"}) /\ ~CanTry(c) /\ Fail(c)

\* _edit reads the cell.  Without a value it waits for one, starts from an
\* empty mapping, or raises.
UpdateBase(c) ==
  /\ Asks(c, PartKinds) /\ CanTry(c)
  /\ \/ Blocked(c) /\ Fail(c)
     \/ ~Blocked(c) /\ Now.state = "waiting" /\ Snapshot(c, "waiting")
     \/ ~Blocked(c) /\ Now.state \in {"unwired", "failed"} /\ cell.edge # "none" /\ Fail(c)
     \/ ~Blocked(c) /\ Now.state \in {"unwired", "failed"} /\ cell.edge = "none"
        /\ Snapshot(c, "based")
     \/ ~Blocked(c) /\ Now.state = "complete" /\ Snapshot(c, "based")

\* The barrier of the cell opens; that was an attempt.
WaitEndsComplete(c) == pc[c] = "waiting" /\ Now.state = "complete" /\ Retry(c, "begin")
WaitEnds(c) == pc[c] = "waiting" /\ Now.state # "waiting" /\ Retry(c, "begin")

Found(c) == IF base[c].val = None THEN {} ELSE base[c].val.has

\* The part of the value that the request changes.
Edited(c) == CASE Kind(c) = "part"   -> Found(c) \cup {c}
               [] Kind(c) = "member" -> (Found(c) \ {Foreign}) \cup {c}
               [] OTHER              -> Found(c) \ {Foreign}

\* The checksum and the revision are those of the snapshot.
UnchangedChecksum(c) == Current = base[c].val
Unchanged(c) == Current = base[c].val /\ rev = base[c].rev

CommitUpdate(c) ==
  /\ pc[c] = "based" /\ Kind(c) \in PartKinds
  /\ \/ Blocked(c) /\ Fail(c)
     \/ ~Blocked(c) /\ ~Unchanged(c) /\ Retry(c, "begin")
     \/ /\ ~Blocked(c) /\ Unchanged(c)
        /\ Turn(c, [root |-> [val |-> [enc |-> base[c].type, has |-> Edited(c)], ct |-> cell.type],
                    type |-> cell.type,
                    edge |-> IF Kind(c) = "drop" THEN "none" ELSE cell.edge], 1)

\* A change of the configuration: the celltype.
ConfigSnapshot(c) == Asks(c, {"retype"}) /\ CanTry(c) /\ Snapshot(c, "based")

PublishConfig(c) ==
  /\ pc[c] = "based" /\ Kind(c) = "retype"
  /\ \/ rev # base[c].rev /\ Retry(c, "begin")
     \/ rev = base[c].rev /\ Turn(c, [cell EXCEPT !.type = request[c].type], 1)

\* A write of the whole value, encoded for the celltype of a snapshot:
\* an assignment removes what is connected, set() refuses to.
NodeSnapshot(c) == Asks(c, {"whole", "set"}) /\ Snapshot(c, "based")

CellOperation(c) ==
  /\ pc[c] = "based" /\ Kind(c) \in {"whole", "set"}
  /\ \/ Blocked(c) /\ Fail(c)
     \/ ~Blocked(c) /\ Turn(c, [root |-> [val |-> [enc |-> base[c].type, has |-> {c}], ct |-> cell.type],
                                type |-> cell.type, edge |-> "none"], 1)

\* The cell is replaced by a Cell that has no input, or a checksum as input.
ReplaceBlank(c) ==
  /\ Asks(c, {"blank"})
  /\ Turn(c, [root |-> None, type |-> request[c].type, edge |-> "none"], 0)

ReplaceLiteral(c) ==
  /\ Asks(c, {"literal"})
  /\ Turn(c, [root |-> [val |-> [enc |-> request[c].type, has |-> {c}], ct |-> request[c].type],
              type |-> request[c].type, edge |-> "none"], 1)

\* The source is connected to the cell, or to a member of it.
AddEdge(c) ==
  \/ Asks(c, {"plug"}) /\ cell.edge # "member" /\ Turn(c, [root |-> None, type |-> cell.type, edge |-> "root"], 0)
  \/ Asks(c, {"plug"}) /\ cell.edge = "member" /\ Fail(c)
  \/ Asks(c, {"plugin"}) /\ cell.edge = "none" /\ Turn(c, [cell EXCEPT !.edge = "member"], 0)
  \/ Asks(c, {"plugin"}) /\ cell.edge # "none" /\ Fail(c)

DeleteSource(c) == Asks(c, {"unplug"}) /\ Turn(c, [cell EXCEPT !.edge = "none"], 0)

\* The cell's failed facts are forgotten, to be demanded again.
ClearException(c) ==
  /\ Asks(c, {"clear"})
  /\ LET good == {k \in DOMAIN facts : facts[k]}
     IN  Derive(cell, IF Now.state = "failed" THEN Restrict(facts, good) ELSE facts, jobs)
  /\ UNCHANGED <<rev, replies>> /\ Return(c, "ok")

(***************************************************************************)
(* The side loop and its answers.                                          *)
(***************************************************************************)
\* A task that was cancelled may have finished before the cancellation reached it.
Evaluate(w, ok) == /\ ok \/ w.key.op \in Failing
                   /\ work' = work \ {w}
                   /\ replies' = replies \cup {[key |-> w.key, n |-> w.n, ok |-> ok]}
                   /\ UNCHANGED <<cell, rev, facts, jobs, callVars>>

Vanish(w) == /\ ~w.live /\ work' = work \ {w}
             /\ UNCHANGED <<cell, rev, facts, jobs, replies, callVars>>

AcceptFact(r) ==
  /\ replies' = replies \ {r}
  /\ \/ r.key \notin DOMAIN jobs /\ UNCHANGED <<cell, facts, jobs, work>>
     \/ /\ r.key \in DOMAIN jobs
        /\ Derive(cell, [k \in DOMAIN facts \cup {r.key} |-> IF k = r.key THEN r.ok ELSE facts[k]],
                  Restrict(jobs, DOMAIN jobs \ {r.key}))
  /\ UNCHANGED <<rev, callVars>>

Step(c) == \/ GiveUp(c) \/ UpdateBase(c) \/ WaitEnds(c) \/ CommitUpdate(c)
           \/ ConfigSnapshot(c) \/ PublishConfig(c) \/ NodeSnapshot(c) \/ CellOperation(c)
           \/ ReplaceBlank(c) \/ ReplaceLiteral(c) \/ AddEdge(c) \/ DeleteSource(c)
           \/ ClearException(c)

Side == \/ \E w \in work : Vanish(w) \/ \E ok \in BOOLEAN : Evaluate(w, ok)
        \/ \E r \in replies : AcceptFact(r)

Next == \/ \E c \in Callers : Step(c) \/ \E r \in Requests[c] : Begin(c, r)
        \/ Side

\* The callers' threads run, the controller drains its queue, and what the
\* side loop evaluates comes to an end.
Fairness == /\ \A c \in Callers : WF_vars(Step(c))
            /\ WF_vars(Side)

Spec == Init /\ [][Next]_vars
FairSpec == Spec /\ Fairness

(***************************************************************************)
(* Properties.                                                             *)
(***************************************************************************)
TypeOK ==
  /\ cell \in Cell /\ rev \in Nat
  /\ \A c \in Callers : request[c] \in Requests[c] \cup {None}
  /\ pc \in [Callers -> {"idle", "begin", "waiting", "based", "done"}]
  /\ base \in [Callers -> Base \cup {None}]
  /\ tries \in [Callers -> 0 .. Retries]
  /\ answer \in [Callers -> {"none", "ok", "error"}]

\* The cell was replaced by one that has no input.
Blanked == \E c \in Callers : Kind(c) = "blank" /\ answer[c] = "ok"

\* An edit (_edit) that would be accepted now carries an encoding for the
\* celltype the cell has now, whatever happened to the cell between its
\* snapshot and its commit.  An edit of an empty cell is exposed to a
\* replacement by another empty cell, which counts no revision.
CommitFits ==
  \A c \in Callers :
    pc[c] = "based" /\ Kind(c) \in PartKinds /\ Unchanged(c) /\ (base[c].val # None \/ ~Blanked)
    => base[c].type = cell.type

\* A cell that waits has somebody working for it: each fact it still needs is
\* being evaluated by a task that was not cancelled, or is on its way.  A job
\* that was dropped and demanded again, and the late answer of its first
\* task, do not leave it without.
NoLostJob ==
  \A k \in Now.keys \ DOMAIN facts :
    /\ k \in DOMAIN jobs
    /\ \/ \E w \in work : w.key = k /\ w.n = jobs[k] /\ w.live
       \/ \E r \in replies : r.key = k

\* Every request is answered: the retries of an edit end, and what it waits
\* for comes.
EditAnswered == \A c \in Callers : pc[c] = "begin" ~> answer[c] # "none"

\* What a user sees in the cell once its facts are there.
Content == (IF cell.root = None \/ cell.edge = "root" THEN {} ELSE cell.root.val.has)
           \cup (IF cell.edge = "none" THEN {} ELSE {Foreign})

Abstract(kind) == CASE kind \in {"set", "literal"}   -> "whole"
                    [] kind \in {"retype", "clear"}  -> "keep"
                    [] OTHER                         -> kind

Atomic == INSTANCE AtomicCell WITH content <- Content,
                                   request <- [c \in Callers |-> Abstract(Kind(c))]

\* "no root checksum, not waiting -> ValueUnavailableError, except that a
\* string/attribute path into an unwired cell starts from an empty mapping"
\* (tests/test_contract_workflow_context.py:683-685): what is committed over
\* an empty mapping meets a cell that has no root.  The code does not see to
\* that: a root whose conversion failed is discarded (ingress.py:150).
KeepsRoot ==
  \A c \in Callers :
    Kind(c) \in PartKinds /\ answer[c] # "ok" /\ answer'[c] = "ok" /\ base[c].val = None
    => cell.root = None

\* The prepared, compared and retried requests are atomic (_edit,
\* _commit_update, _cell_operation, _publish_config): each takes effect on the
\* content that is there when it is committed, none is lost, and one that is
\* answered with an error changed nothing.  Exempt is the step that discards a
\* root, and no other.
Linearizable == Atomic!Init /\ [][KeepsRoot => [Atomic!Next]_(Atomic!vars)]_vars

\* Without the exemption: no step is of that kind, and all are atomic.
PartKeepsRoot == [][KeepsRoot]_vars
Atomicity == Atomic!Spec

(***************************************************************************)
(* What makes the invariants inductive.                                    *)
(***************************************************************************)
\* A cell that is fed as a whole has no root; and what a write has copied of
\* the source is together with the mark of a writer.
RootOK == /\ cell.edge = "root" => cell.root = None
          /\ cell.root # None /\ Foreign \in cell.root.val.has
             => cell.root.val.has \cap Callers # {}

\* Where a caller is in its request, and that it has an attempt left
StageOK(c) ==
  /\ pc[c] = "idle" <=> request[c] = None
  /\ pc[c] # "done" <=> answer[c] = "none"
  /\ pc[c] = "waiting" => Kind(c) \in PartKinds
  /\ pc[c] = "based" => base[c] # None /\ Kind(c) \in PartKinds \cup {"retype", "whole", "set"}
  /\ pc[c] \in {"waiting", "based"} /\ Kind(c) \notin {"whole", "set"} => tries[c] < Retries

\* What a snapshot knows of the cell
BaseOK(c) ==
  pc[c] = "based" =>
    /\ base[c].rev <= rev
    /\ base[c].rev = rev /\ base[c].type # cell.type => Blanked /\ cell.root = None
    /\ base[c].val # None /\ base[c].val.has = {Foreign} => base[c].val.enc = base[c].type
    /\ "convert" \notin Failing /\ Kind(c) \in PartKinds /\ base[c].val = None /\ base[c].rev = rev
       => cell.root = None

\* The conversions that do not fail
Sound(f) == "convert" \notin Failing => \A k \in DOMAIN f : k.op = "convert" => f[k]
FactsOK == /\ Sound(facts)
           /\ "convert" \notin Failing => \A r \in replies : r.key.op = "convert" => r.ok

\* Each job has its task, or the answer.
Served(k) == \/ \E w \in work : w.key = k /\ w.n = jobs[k] /\ w.live
             \/ \E r \in replies : r.key = k
Task(k, n, live) == [key |-> k, n |-> n, live |-> live]
JobsOK == /\ \A w \in work : w = Task(w.key, w.n, w.live)
          /\ Now.keys \ DOMAIN facts \subseteq DOMAIN jobs
          /\ \A k \in DOMAIN jobs : Served(k)

EInv == /\ TypeOK /\ request \in [Callers -> Request \cup {None}]
        /\ RootOK /\ JobsOK /\ FactsOK
        /\ \A c \in Callers : StageOK(c) /\ BaseOK(c)

=============================================================================
