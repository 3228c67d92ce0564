------------------------------ MODULE Refholds ------------------------------
(***************************************************************************)
(* The references that a Context holds on checksums.  Every operation       *)
(* acquires and releases them one by one (incref_refholder and              *)
(* decref_refholder) at the place where a role changes hands; close(), the  *)
(* loading of a graph and the audit of the process go by the list of claims *)
(* that _refheld_checksums reads off the graph instead.  The two must agree *)
(* after every turn, whatever sequence of edits, deletions, replacements,   *)
(* copies, results and failures came before.                                *)
(*                                                                         *)
(* An action is one turn of the controller.  A turn is written as a chain   *)
(* of operators on a working state, which counts the references and notes   *)
(* the checksums that were without one on the way.                          *)
(***************************************************************************)
EXTENDS Integers, Sequences, FiniteSets, SequencesExt

CONSTANTS
  Paths,      \* where nodes may be
  Named,      \* the paths among them that the users name in their requests
  Sites,      \* where a loaded graph has its cell and its transformer
  Copied,     \* the copy of each path of the sub-context that is copied
  Helper,     \* first_free: where a replacement puts the cell it needs upstream
  Checksums,
  Result,     \* what a code computes from an input
  Cap,        \* superseded_cap
  MaxCalls,   \* bound: the operations of the users
  CopyOver,   \* whether a sub-context may be copied onto nodes that exist
  StaleConfig,\* whether a configuration prepared before its code was connected may be published
  Failed, None

ASSUME PathsAssumption ==
  /\ IsFiniteSet(Paths) /\ {Helper} \cup Named \cup DOMAIN Copied \subseteq Paths
  /\ Copied \in [DOMAIN Copied -> Paths]
  /\ \A p \in DOMAIN Copied, q \in DOMAIN Copied : Copied[p] = Copied[q] => p = q
  /\ \A site \in Sites : site \in Paths \X Paths /\ site[1] # site[2]
ASSUME ChecksumsAssumption ==
  /\ IsFiniteSet(Checksums) /\ Result \in [Checksums \X Checksums -> Checksums]
  /\ {Failed, None} \cap Checksums = {} /\ None \notin Paths /\ Failed # None
ASSUME BoundsAssumption ==
  Cap \in Nat \ {0} /\ MaxCalls \in Nat /\ CopyOver \in BOOLEAN /\ StaleConfig \in BOOLEAN

VARIABLES
  nodes,      \* _graph.nodes: the kind of each path
  values,     \* what a node holds in each of its roles
  edges,      \* _graph.edges: the source of each target that has one
  run, held,  \* current_runs, superseded_runs: by path
  codes,      \* _code_refholds
  modules,    \* _module_refholds
  inputs,     \* _edge_pin_refholds
  results,    \* _superseded_refholds, by path and demand
  refs,       \* what the Context has acquired and not released, by checksum
  lapsed,     \* the users' values that some turn kept, but not throughout
  calls

context == <<nodes, values, edges, run, held, codes, modules, inputs, results>>
vars == <<context, refs, lapsed, calls>>

Maybe == Checksums \cup {None}
Kinds == {"none", "cell", "transformer"}
\* cell_root_producer, transformer_pin_producers (of the one pin), the code and
\* the module of transformer_config, current_checksum
Roles == {"root", "pin", "code", "module", "current"}
Slots == {"root", "pin", "code"}
Sockets == {"pin", "code"}       \* what a transformer takes from an edge
Run == [code : Checksums, pin : Checksums, out : Maybe \cup {Failed}]
NoRun == [code |-> None, pin |-> None, out |-> None]
Demands == Paths \X (Checksums \X Checksums)

(***************************************************************************)
(* The working state of a turn.                                            *)
(***************************************************************************)
Now == [nodes |-> nodes, values |-> values, edges |-> edges, run |-> run, held |-> held, codes |-> codes,
        modules |-> modules, inputs |-> inputs, results |-> results, refs |-> refs, low |-> {}]

Retain(s, c) == IF c = None THEN s ELSE [s EXCEPT !.refs[c] = @ + 1]
Release(s, c) == IF c = None THEN s
                 ELSE [s EXCEPT !.refs[c] = @ - 1, !.low = IF s.refs[c] <= 1 THEN @ \cup {c} ELSE @]

\* ... of each checksum as often as f has it
Count(f, c) == Cardinality({k \in DOMAIN f : f[k] = c})
RetainEach(s, f) == [s EXCEPT !.refs = [c \in Checksums |-> s.refs[c] + Count(f, c)]]
ReleaseEach(s, f) ==
  [s EXCEPT !.refs = [c \in Checksums |-> s.refs[c] - Count(f, c)],
            !.low = @ \cup {c \in Checksums : Count(f, c) > 0 /\ s.refs[c] <= Count(f, c)}]

\* A map of claims is replaced: what is new is acquired, then what is gone is released.
Sync(s, old, new) ==
  LET refs2 == [c \in Checksums |-> s.refs[c] + Count(new, c) - Count(old, c)]
      gone == {old[k] : k \in {j \in DOMAIN old : old[j] # new[j]}} \ {None}
  IN  [s EXCEPT !.refs = refs2, !.low = @ \cup {c \in gone : refs2[c] <= 0}]

Present(s) == {p \in Paths : s.nodes[p] # "none"}
Transformers(s) == {p \in Paths : s.nodes[p] = "transformer"}
Wired(s, p, slot) == s.edges[<<p, slot>>] # None

SyncModules(s) ==
  LET active == [p \in Paths |-> IF s.nodes[p] = "transformer" THEN s.values[<<p, "module">>] ELSE None]
  IN  [Sync(s, s.modules, active) EXCEPT !.modules = active]

\* The results of the held runs, by path and demand, with the claim of a run
\* that is still held left as it is.
Demand(r) == <<r.code, r.pin>>
Done(s) == {h \in UNION {{p} \X DOMAIN s.held[p] : p \in Paths} : s.held[h[1]][h[2]].out \in Checksums}
KeyOf(s, h) == <<h[1], Demand(s.held[h[1]][h[2]])>>
OutOf(s, k) == LET h == CHOOSE g \in Done(s) : KeyOf(s, g) = k IN s.held[h[1]][h[2]].out

SyncResults(s) ==
  LET keys == {KeyOf(s, h) : h \in Done(s)}
      gone == [k \in DOMAIN s.results \ keys |-> s.results[k]]
      new == [k \in keys \ DOMAIN s.results |-> OutOf(s, k)]
  IN  [RetainEach(ReleaseEach(s, gone), new)
         EXCEPT !.results = [k \in keys |-> IF k \in DOMAIN s.results THEN s.results[k] ELSE new[k]]]

ReplaceCurrent(s, p, c) ==
  [Release(Retain(s, c), s.values[<<p, "current">>]) EXCEPT !.values[<<p, "current">>] = c]

(***************************************************************************)
(* The claims, as _refheld_checksums lists them.                           *)
(***************************************************************************)
Listing(s) == [k \in Paths \X Roles |->
                 IF k[2] = "code" /\ Wired(s, k[1], "code") THEN None ELSE s.values[k]]
Outs(s) == [k \in UNION {{p} \X DOMAIN s.held[p] : p \in Paths} |-> s.held[k[1]][k[2]].out]
Listed(s, c) == Count(Listing(s), c) + Count(s.inputs, c) + Count(Outs(s), c)
ReleaseListed(s) == ReleaseEach(ReleaseEach(ReleaseEach(s, Listing(s)), s.inputs), Outs(s))

\* The values that only the users can supply again.
UserValues(s) == {Listing(s)[k] : k \in Paths \X (Roles \ {"current"})} \ {None}

Commit(s) ==
  /\ nodes' = s.nodes /\ values' = s.values /\ edges' = s.edges /\ run' = s.run /\ held' = s.held
  /\ codes' = s.codes /\ modules' = s.modules /\ inputs' = s.inputs /\ results' = s.results
  /\ refs' = s.refs
  /\ lapsed' = lapsed \cup (UserValues(Now) \cap UserValues(s) \cap s.low)

(***************************************************************************)
(* _derive_graph.  Celltypes, conversions and anonymous cells are left out: *)
(* a target takes its source's checksum as it is.                          *)
(***************************************************************************)
Upstream(s, p) == {s.edges[<<p, slot>>] : slot \in Slots} \ {None}
Shown(c) == IF c \in Checksums THEN c ELSE None

\* What p takes, current being what its sources show.
Input(s, current, p, slot) ==
  IF Wired(s, p, slot) THEN Shown(current[s.edges[<<p, slot>>]]) ELSE s.values[<<p, slot>>]
Demanded(s, current, p) == <<Input(s, current, p, "code"), Input(s, current, p, "pin")>>
Blocked(s, current, p) == None \in {Input(s, current, p, "code"), Input(s, current, p, "pin")}
Keeps(s, current, p) == ~Blocked(s, current, p) /\ Demand(s.run[p]) = Demanded(s, current, p)

\* What p shows: a cell its root; a transformer the result of the demanded run.
Outcome(s, current, p) ==
  IF s.nodes[p] = "cell" THEN Input(s, current, p, "root")
  ELSE IF s.nodes[p] = "transformer" /\ Keeps(s, current, p) THEN Shown(s.run[p].out)
  ELSE None
\* Sources before their targets: visit.
Currents(s) ==
  LET next(d, i) == LET p == CHOOSE q \in Present(s) \ DOMAIN d : Upstream(s, q) \subseteq DOMAIN d
                    IN  (p :> Outcome(s, d, p)) @@ d
  IN  FoldLeft(next, << >>, [i \in 1 .. Cardinality(Present(s)) |-> i])

Queue(s, p) == IF s.run[p] = NoRun THEN s.held[p] ELSE Append(s.held[p], s.run[p])
LastOf(queue, n) == IF Len(queue) <= n THEN queue ELSE SubSeq(queue, Len(queue) - n + 1, Len(queue))
SuspendedOffByOne(s, p) == LastOf(Queue(s, p), Cap + 1)
Suspended(s, p) == LastOf(Queue(s, p), Cap)

Without(queue, demand) ==
  LET found == {i \in DOMAIN queue : Demand(queue[i]) = demand}
  IN  IF found = {} THEN queue ELSE RemoveAt(queue, CHOOSE i \in found : TRUE)

\* _derive_transformer: inputs are missing; the present run is the demanded
\* one; or it is launched, or found among the held ones.
RunOf(s, current, p) ==
  IF p \notin Transformers(s) \/ Blocked(s, current, p) THEN NoRun
  ELSE IF Keeps(s, current, p) THEN s.run[p]
  ELSE [code |-> Input(s, current, p, "code"), pin |-> Input(s, current, p, "pin"), out |-> None]
HeldOf(s, current, p) ==
  IF p \notin Transformers(s) THEN << >>
  ELSE IF Blocked(s, current, p) THEN Suspended(s, p)
  ELSE IF Keeps(s, current, p) THEN s.held[p]
  ELSE Without(Suspended(s, p), Demanded(s, current, p))

\* What the nodes show changes node by node: at worst, all that goes before all that comes.
Show(s, shown) ==
  LET moved == {p \in Paths : s.values[<<p, "current">>] # shown[p]}
      released == ReleaseEach(s, [p \in moved |-> s.values[<<p, "current">>]])
  IN  [RetainEach(released, [p \in moved |-> shown[p]])
         EXCEPT !.values = [k \in Paths \X Roles |-> IF k[2] = "current" THEN shown[k[1]] ELSE s.values[k]]]

DeriveWith(s, current) ==
  LET shown == [p \in Paths |-> Outcome(s, current, p)]
      given == [k \in Paths \X Sockets |-> IF k[1] \in Transformers(s) /\ Wired(s, k[1], k[2])
                                           THEN Input(s, current, k[1], k[2]) ELSE None]
  IN  SyncResults([Sync(Show(SyncModules(s), shown), s.inputs, given) EXCEPT
                     !.inputs = given,
                     !.run = [p \in Paths |-> RunOf(s, current, p)],
                     !.held = [p \in Paths |-> HeldOf(s, current, p)]])
Derive(s) == DeriveWith(s, Currents(s))

Turn(s) == \E end \in {Derive(s)} : Commit(end)

(***************************************************************************)
(* The parts that operations share.                                        *)
(***************************************************************************)
RemoveEdges(s, p, slots) ==
  [s EXCEPT !.edges = [k \in Paths \X Slots |-> IF k[1] = p /\ k[2] \in slots THEN None ELSE s.edges[k]]]

\* A literal takes the place of another, and of the edge.
SetLiteral(s, p, slot, c) ==
  RemoveEdges([Release(Retain(s, c), s.values[<<p, slot>>]) EXCEPT !.values[<<p, slot>>] = c], p, {slot})

RetainCode(s, p, c) == IF c = None THEN s ELSE [Retain(s, c) EXCEPT !.codes[p] = c]
ReleaseCode(s, p) == [Release(s, s.codes[p]) EXCEPT !.codes[p] = None]
ReplaceCodeReleasingFirst(s, p, c) == RetainCode(ReleaseCode(s, p), p, c)
ReplaceCode(s, p, c) == Release(RetainCode(s, p, c), s.codes[p])

ReleaseRoots(s, ps) == ReleaseEach(s, [k \in ps \X {"root"} |-> s.values[k]])
ReleaseProducers(s, ps) == ReleaseEach(s, [k \in ps \X {"root", "pin"} |-> s.values[k]])
ReleaseCurrents(s, ps) == ReleaseEach(s, [k \in ps \X {"current"} |-> s.values[k]])

ForgetRuns(s, ps) ==
  [s EXCEPT !.run = [p \in Paths |-> IF p \in ps THEN NoRun ELSE s.run[p]],
            !.held = [p \in Paths |-> IF p \in ps THEN << >> ELSE s.held[p]]]

\* New nodes, with nothing in their roles.
With(s, ps, kind) ==
  [s EXCEPT !.nodes = [p \in Paths |-> IF p \in ps THEN kind ELSE s.nodes[p]],
            !.values = [k \in Paths \X Roles |-> IF k[1] \in ps THEN None ELSE s.values[k]]]

ReleaseCodes(s, ps) ==
  [ReleaseEach(s, [p \in ps |-> s.codes[p]])
     EXCEPT !.codes = [p \in Paths |-> IF p \in ps THEN None ELSE s.codes[p]]]
DeleteSubtree(s, ps) ==
  LET t == With(ForgetRuns(ReleaseCodes(ReleaseProducers(ReleaseCurrents(s, ps), ps), ps), ps), ps, "none")
      kept == [k \in Paths \X Slots |-> IF k[1] \in ps \/ s.edges[k] \in ps THEN None ELSE s.edges[k]]
  IN  SyncResults(SyncModules([t EXCEPT !.edges = kept]))

\* _would_cycle, for an edge from source to p.
Reached(p) == LET up[n \in 0 .. Cardinality(Paths)] ==
                    IF n = 0 THEN {p} ELSE up[n - 1] \cup UNION {Upstream(Now, q) : q \in up[n - 1]}
              IN  up[Cardinality(Paths)]
CanFeed(source, p) == nodes[source] # "none" /\ p \notin Reached(source)

\* _add_edge, and _add_endpoint_edge, which releases the literal that the edge replaces.
AddEdge(s, source, p, slot) == [s EXCEPT !.edges[<<p, slot>>] = source]
AddEndpointEdge(s, source, p, slot) ==
  [Release(AddEdge(s, source, p, slot), s.values[<<p, slot>>]) EXCEPT !.values[<<p, slot>>] = None]

(***************************************************************************)
(* The operations.                                                         *)
(***************************************************************************)
\* A loaded graph: a cell and a transformer, connected, or with a module of its own.
Graph(a, t, c, k, wired) ==
  [nodes |-> [p \in Paths |-> IF p = a THEN "cell" ELSE IF p = t THEN "transformer" ELSE "none"],
   values |-> [q \in Paths \X Roles |->
                 IF q = <<a, "root">> \/ (q = <<t, "pin">> /\ ~wired) THEN c
                 ELSE IF q = <<t, "code">> \/ (q = <<t, "module">> /\ ~wired) THEN k ELSE None],
   edges |-> [q \in Paths \X Slots |-> IF q = <<t, "pin">> /\ wired THEN a ELSE None]]
Loadable == {Graph(site[1], site[2], c, k, wired) :
               site \in Sites, c \in Checksums, k \in Checksums, wired \in BOOLEAN}

NoRuns == [p \in Paths |-> << >>]
Unheld == [p \in Paths |-> None]
Fresh == [nodes |-> [p \in Paths |-> "none"], values |-> [k \in Paths \X Roles |-> None],
          edges |-> [k \in Paths \X Slots |-> None], run |-> [p \in Paths |-> NoRun], held |-> NoRuns,
          codes |-> Unheld, modules |-> Unheld, inputs |-> [k \in Paths \X Sockets |-> None],
          results |-> << >>, refs |-> [c \in Checksums |-> 0], low |-> {}]

\* set_graph: the claims of the new graph are acquired before those of the old
\* one are released, and what depends on derivation starts anew.
Load(s, g) ==
  LET t == ReleaseListed(RetainEach(s, g.values))
  IN  [Fresh EXCEPT !.refs = t.refs, !.low = t.low,
                    !.nodes = g.nodes, !.values = g.values, !.edges = g.edges,
                    !.codes = [p \in Paths |-> g.values[<<p, "code">>]],
                    !.modules = [p \in Paths |-> g.values[<<p, "module">>]]]

Is(s) == /\ nodes = s.nodes /\ values = s.values /\ edges = s.edges /\ run = s.run /\ held = s.held
         /\ codes = s.codes /\ modules = s.modules /\ inputs = s.inputs /\ results = s.results
         /\ refs = s.refs

\* A new Context, or one that has loaded a graph.
Init == /\ \/ Is(Fresh)
           \/ \E g \in Loadable : Is(Derive(Load(Fresh, g)))
        /\ lapsed = {} /\ calls = 0

Called == calls < MaxCalls /\ calls' = calls + 1
Op(s) == Called /\ Turn(s)

\* _create_cell and _cell_operation; _assign of a source to a new path.
CreateCell(p, c) ==
  /\ nodes[p] = "none"
  /\ Op(SetLiteral(With(Now, {p}, "cell"), p, "root", c))

\* _assign of a source: a new cell, a cell, or a transformer that becomes one.
AssignSource(p, source) ==
  /\ nodes[source] # "none"
  /\ \/ /\ nodes[p] = "none"
        /\ Op(AddEndpointEdge(With(Now, {p}, "cell"), source, p, "root"))
     \/ /\ nodes[p] = "cell" /\ CanFeed(source, p)
        /\ Op(AddEndpointEdge(Now, source, p, "root"))
     \/ /\ nodes[p] = "transformer" /\ CanFeed(source, p)
        /\ LET bare == ReleaseCode(ReleaseProducers(ReplaceCurrent(Now, p, None), {p}), p)
               cell == ForgetRuns(RemoveEdges(With(bare, {p}, "cell"), p, Slots), {p})
           IN  Op(AddEndpointEdge(SyncResults(SyncModules(cell)), source, p, "root"))

\* _set_cell_root_with_edges, _cell_delete_path
SetRoot(p, c) == nodes[p] = "cell" /\ Op(SetLiteral(Now, p, "root", c))

\* _replace_cell_from_builder, the input being a Cell or an Expression: a new
\* cell upstream takes the checksum.  Behind a Cell the old literal stays.
ReplaceNested(p, c, expression) ==
  /\ nodes[p] = "cell" /\ nodes[Helper] = "none"
  /\ LET upstream == SetLiteral(With(Now, {Helper}, "cell"), Helper, "root", c)
         bare == IF expression THEN SetLiteral(upstream, p, "root", None) ELSE upstream
     IN  Op(AddEdge(bare, Helper, p, "root"))

\* _set_transformer_code
SetCode(p, c) ==
  /\ nodes[p] = "transformer"
  /\ Op(RemoveEdges(ReplaceCode([Now EXCEPT !.values[<<p, "code">>] = c], p, c), p, {"code"}))

ConnectCode(p, source) ==
  /\ nodes[p] = "transformer" /\ CanFeed(source, p) /\ ~Wired(Now, p, "code")
  /\ Op([ReleaseCode(AddEdge(Now, source, p, "code"), p) EXCEPT !.values[<<p, "code">>] = None])

\* _set_transformer_pin, _clear_transformer_pin
SetPin(p, c) == nodes[p] = "transformer" /\ Op(SetLiteral(Now, p, "pin", c))

ConnectPin(p, source) ==
  /\ nodes[p] = "transformer" /\ CanFeed(source, p)
  /\ Op(AddEndpointEdge(Now, source, p, "pin"))

\* _publish_config, of a snapshot that has the code the transformer has now,
\* or, with StaleConfig, had before its code was connected, which counts no
\* revision: the code asks for the revision only.
PublishConfig(p, module, code) ==
  /\ nodes[p] = "transformer"
  /\ code = values[<<p, "code">>] \/ (StaleConfig /\ Wired(Now, p, "code"))
  /\ Op([Now EXCEPT !.values = [values EXCEPT ![<<p, "module">>] = module, ![<<p, "code">>] = code]])

\* _create_transformer_from_builder: the pin's input is a literal or a source;
\* a source that is refused takes the new node with it.
Created(p, code) ==
  RetainCode([With(Now, {p}, "transformer") EXCEPT !.values[<<p, "code">>] = code], p, code)

CreateTransformer(p, code, input) ==
  /\ nodes[p] = "none"
  /\ \/ input \in Maybe /\ Op(SetLiteral(Created(p, code), p, "pin", input))
     \/ input \in Present(Now) /\ Op(AddEndpointEdge(Created(p, code), input, p, "pin"))

CreateFails(p, code) == nodes[p] = "none" /\ Op(DeleteSubtree(Created(p, code), {p}))

\* _replace_transformer_from_builder: what the new transformer holds is staged,
\* published as one, and then the old state is released.  A pin that is not
\* given keeps its literal and its edge.
Staged(pin, code, module) == Retain(Retain(Retain(Now, pin), code), module)

ReplaceTransformer(p, code, module, input) ==
  /\ nodes[p] = "transformer"
  /\ LET pin == IF input \in Checksums THEN input ELSE None
         given == input # None
         new == [values EXCEPT ![<<p, "code">>] = code, ![<<p, "module">>] = module,
                               ![<<p, "pin">>] = IF given THEN pin ELSE @]
         published == [Staged(pin, code, module) EXCEPT
                         !.values = new, !.codes[p] = code, !.modules[p] = module]
         cut == RemoveEdges(Release(published, IF given THEN values[<<p, "pin">>] ELSE None), p,
                            IF given THEN {"pin", "code"} ELSE {"code"})
         released == Release(Release(cut, codes[p]), modules[p])
     IN  \/ input \in Maybe /\ Op(released)
         \/ input \in Paths /\ CanFeed(input, p) /\ Op(AddEndpointEdge(released, input, p, "pin"))

\* A failure before the publication releases what was staged.
ReplaceFails(p, code) ==
  /\ nodes[p] = "transformer"
  /\ Op(Release(Release(Staged(code, code, None), code), code))

\* _delete, of a node or of a whole sub-context
Delete(ps) == ps \cap Present(Now) # {} /\ Op(DeleteSubtree(Now, ps \cap Present(Now)))

\* _copy_subcontext, which does not ask whether there are nodes where the copy
\* goes, nor releases what they hold: with CopyOver there may be.
CopySubcontext ==
  LET from == DOMAIN Copied \cap Present(Now)
      to == {Copied[p] : p \in from}
      origin == [q \in to |-> CHOOSE p \in from : Copied[p] = q]
      claims == [k \in from \X {"root", "pin", "current", "code"} |-> values[k]]
      inner(q, slot) == q \in to /\ edges[<<origin[q], slot>>] \in from
      copied == [RetainEach(Now, claims) EXCEPT
        !.nodes = [q \in Paths |-> IF q \in to THEN nodes[origin[q]] ELSE nodes[q]],
        !.values = [k \in Paths \X Roles |-> IF k[1] \in to THEN values[<<origin[k[1]], k[2]>>] ELSE values[k]],
        !.codes = [q \in Paths |-> IF q \in to /\ values[<<origin[q], "code">>] # None
                                   THEN values[<<origin[q], "code">>] ELSE codes[q]],
        !.edges = [k \in Paths \X Slots |-> IF inner(k[1], k[2]) THEN Copied[edges[<<origin[k[1]], k[2]>>]]
                                            ELSE edges[k]]]
  IN  from # {} /\ (CopyOver \/ to \cap Present(Now) = {}) /\ Op(copied)

SetGraph(g) == Op(Load(Now, g))

\* _clear_exception, prune
ClearException(p) == run[p].out = Failed /\ Op([Now EXCEPT !.run[p] = NoRun])

Prune == Called /\ held # NoRuns /\ Commit(SyncResults([Now EXCEPT !.held = NoRuns]))

\* _finish_close
Close == /\ calls < MaxCalls /\ calls' = MaxCalls
         /\ \E t \in {ReleaseListed(Now)} : Commit([Fresh EXCEPT !.refs = t.refs, !.low = t.low])

\* _transformation_finished, of the present run or of a held one
Finish(p, ok) ==
  LET out(r) == IF ok THEN Result[Demand(r)] ELSE Failed
  IN  /\ \/ /\ run[p] # NoRun /\ run[p].out = None
            /\ Turn(SyncResults([Now EXCEPT !.run[p].out = out(run[p])]))
         \/ \E i \in DOMAIN held[p] :
              /\ held[p][i].out = None
              /\ Turn(SyncResults([Now EXCEPT !.held[p][i].out = out(held[p][i])]))
      /\ UNCHANGED calls

\* _expire_run; why and when a hold ends is the matter of module Runs.
Expire(p) ==
  /\ \E i \in DOMAIN held[p] : Commit(SyncResults([Now EXCEPT !.held[p] = RemoveAt(@, i)]))
  /\ UNCHANGED calls

\* What the users ask for at a path.
Request(p) ==
  \/ \E c \in Checksums : \/ CreateCell(p, c) \/ SetCode(p, c)
                          \/ CreateFails(p, c) \/ ReplaceFails(p, c)
                          \/ \E e \in BOOLEAN : ReplaceNested(p, c, e)
                          \/ \E input \in Maybe \cup Paths :
                               \/ CreateTransformer(p, c, input)
                               \/ \E m \in Maybe : ReplaceTransformer(p, c, m, input)
  \/ \E c \in Maybe : \/ SetRoot(p, c) \/ SetPin(p, c)
                      \/ \E m \in Maybe : PublishConfig(p, m, c)
  \/ \E source \in Paths : AssignSource(p, source) \/ ConnectCode(p, source) \/ ConnectPin(p, source)
  \/ Delete({p}) \/ ClearException(p)

Next ==
  \/ calls < MaxCalls /\ \E p \in Named : Request(p)
  \/ \E sub \in {DOMAIN Copied, {Copied[p] : p \in DOMAIN Copied}} : Delete(sub)
  \/ CopySubcontext \/ Prune \/ Close \/ \E g \in Loadable : SetGraph(g)
  \/ \E p \in Paths : Expire(p) \/ \E ok \in BOOLEAN : Finish(p, ok)

Spec == Init /\ [][Next]_vars

(***************************************************************************)
(* Properties.                                                             *)
(***************************************************************************)
TypeOK ==
  /\ nodes \in [Paths -> Kinds] /\ values \in [Paths \X Roles -> Maybe]
  /\ edges \in [Paths \X Slots -> Paths \cup {None}]
  /\ \A k \in Paths \X Slots : edges[k] # None => {k[1], edges[k]} \subseteq Present(Now)
  /\ run \in [Paths -> Run \cup {NoRun}] /\ held \in [Paths -> Seq(Run)]
  /\ \A p \in Paths : Len(held[p]) <= Cap
  /\ \A p \in Paths : nodes[p] # "transformer" => run[p] = NoRun /\ held[p] = << >>
  /\ codes \in [Paths -> Maybe] /\ modules \in [Paths -> Maybe]
  /\ inputs \in [Paths \X Sockets -> Maybe]
  /\ DOMAIN results \subseteq Demands /\ \A k \in DOMAIN results : results[k] = Result[k[2]]
  /\ refs \in [Checksums -> Int] /\ calls \in 0 .. MaxCalls
  /\ lapsed \subseteq Checksums

\* What the Context has acquired and not released is what it lists: nothing
\* leaks, and closing it releases nothing twice.  The code keeps it as long as
\* a copy of a sub-context meets no node and no configuration is older than a
\* connection of its code (_copy_subcontext, _publish_config).
Balanced == \A c \in Checksums : refs[c] = Listed(Now, c)

\* A user's value that is in the graph before and after a turn was never
\* without a reference in between: replacements are acquired before what they
\* replace is released.
KeptThroughout == lapsed = {}

=============================================================================
