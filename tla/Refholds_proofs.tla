-------------------------- MODULE Refholds_proofs --------------------------
(***************************************************************************)
(* Proofs about Refholds, for every set of paths and checksums and every    *)
(* bound, for Contexts in which no sub-context is copied onto nodes that     *)
(* exist and no configuration is published that was prepared before its      *)
(* code was connected (Regular).                                            *)
(*                                                                         *)
(* The books: what the Context has acquired and not released is what its     *)
(* tables hold, role by role (Balances).  The tables agree with the graph    *)
(* (NodesOK, EdgesOK, RunsOK, ResultsOK) at every step of a turn, and at its *)
(* end those of modules and results do too (Synced).  The list that          *)
(* _refheld_checksums reads off the graph then counts what the tables do.    *)
(***************************************************************************)
EXTENDS Refholds, TLAPS, FiniteSetTheorems

Regular == ~CopyOver /\ ~StaleConfig

(***************************************************************************)
(* The invariant.                                                          *)
(***************************************************************************)
Ind(c, d) == IF c = d THEN 1 ELSE 0
Shelf == Paths \X {"root", "pin", "current"}
Literals(s) == [k \in Shelf |-> s.values[k]]
Total(s, c) == Count(Literals(s), c) + Count(s.codes, c) + Count(s.modules, c)
               + Count(s.inputs, c) + Count(s.results, c)

Results == UNION {[D -> Checksums] : D \in SUBSET Demands}
State == [nodes : [Paths -> Kinds], values : [Paths \X Roles -> Maybe],
          edges : [Paths \X Slots -> Paths \cup {None}],
          run : [Paths -> Run \cup {NoRun}], held : [Paths -> Seq(Run)],
          codes : [Paths -> Maybe], modules : [Paths -> Maybe],
          inputs : [Paths \X Sockets -> Maybe], results : Results,
          refs : [Checksums -> Int], low : SUBSET Checksums]

Balances(s) == \A c \in Checksums : s.refs[c] = Total(s, c)
NodesOK(s) == \A p \in Paths :
  /\ s.codes[p] = s.values[<<p, "code">>]
  /\ s.nodes[p] # "transformer" => s.values[<<p, "module">>] = None
  /\ s.nodes[p] = "none" => \A role \in Roles : s.values[<<p, role>>] = None
EdgesOK(s) == \A p \in Paths, slot \in Slots : Wired(s, p, slot) =>
  /\ s.nodes[p] # "none" /\ s.nodes[s.edges[<<p, slot>>]] # "none"
  /\ slot = "code" => s.values[<<p, "code">>] = None
Right(r) == r.out \in Checksums => r.out = Result[Demand(r)]
Apart(queue) == \A i \in DOMAIN queue, j \in DOMAIN queue : Demand(queue[i]) = Demand(queue[j]) => i = j
RunsAt(kind, current, queue) ==
  /\ kind # "transformer" => current = NoRun /\ queue = << >>
  /\ Len(queue) <= Cap /\ Apart(queue) /\ Right(current)
  /\ \A i \in DOMAIN queue : Right(queue[i]) /\ Demand(queue[i]) # Demand(current)
RunsOK(s) == \A p \in Paths : RunsAt(s.nodes[p], s.run[p], s.held[p])
ResultsOK(s) == \A k \in DOMAIN s.results : s.results[k] = Result[k[2]]
Base(s) == s \in State /\ Balances(s) /\ NodesOK(s) /\ EdgesOK(s) /\ RunsOK(s) /\ ResultsOK(s)

ModulesSynced(s) == \A p \in Paths : s.modules[p] = s.values[<<p, "module">>]
ResultsSynced(s) == DOMAIN s.results = {KeyOf(s, h) : h \in Done(s)}
Synced(s) == ModulesSynced(s) /\ ResultsSynced(s)
Spared(s) == s.low \cap UserValues(s) = {}

RefholdsInv == Base(Now) /\ Synced(Now) /\ lapsed = {} /\ calls \in 0 .. MaxCalls

(***************************************************************************)
(* Counting.                                                               *)
(***************************************************************************)
At(f, c) == {k \in DOMAIN f : f[k] = c}

\* A count is a number, and none exactly where the value does not occur.
LEMMA CountNat ==
  ASSUME NEW f, IsFiniteSet(DOMAIN f), NEW c
  PROVE  /\ Count(f, c) \in Nat /\ IsFiniteSet(At(f, c))
         /\ \A k \in DOMAIN f : f[k] = c => Count(f, c) >= 1
         /\ (\A k \in DOMAIN f : f[k] # c) => Count(f, c) = 0
<1>1. At(f, c) \in SUBSET DOMAIN f
  BY DEF At
<1>2. IsFiniteSet(At(f, c))
  BY <1>1, FS_Subset
<1>3. Cardinality(At(f, c)) \in Nat /\ (Cardinality(At(f, c)) = 0 <=> At(f, c) = {})
  BY <1>2, FS_CardinalityType, FS_EmptySet
<1>4. Count(f, c) = Cardinality(At(f, c))
  BY DEF Count, At
<1>5. \A k \in DOMAIN f : f[k] = c <=> k \in At(f, c)
  BY DEF At
<1> QED BY <1>1, <1>2, <1>3, <1>4, <1>5

\* Two functions that differ at one place.
LEMMA CountOff ==
  ASSUME NEW f, NEW g, DOMAIN f = DOMAIN g, IsFiniteSet(DOMAIN f), NEW j \in DOMAIN f,
         \A k \in DOMAIN f : k # j => g[k] = f[k], NEW c
  PROVE  Count(g, c) = Count(f, c) - Ind(f[j], c) + Ind(g[j], c)
<1>1. At(g, c) \ {j} = At(f, c) \ {j}
  BY DEF At
<1>2. /\ IsFiniteSet(At(f, c)) /\ IsFiniteSet(At(g, c))
      /\ Count(f, c) \in Nat /\ Count(g, c) \in Nat
      /\ Count(f, c) = Cardinality(At(f, c)) /\ Count(g, c) = Cardinality(At(g, c))
  <2>1. IsFiniteSet(DOMAIN g)
    OBVIOUS
  <2>2. IsFiniteSet(At(f, c)) /\ IsFiniteSet(At(g, c)) /\ Count(f, c) \in Nat /\ Count(g, c) \in Nat
    BY <2>1, CountNat
  <2> QED BY <2>2 DEF Count, At
<1>3. /\ Cardinality(At(f, c) \ {j}) = IF j \in At(f, c) THEN Count(f, c) - 1 ELSE Count(f, c)
      /\ Cardinality(At(g, c) \ {j}) = IF j \in At(g, c) THEN Count(g, c) - 1 ELSE Count(g, c)
  BY <1>2, FS_RemoveElement
<1>4. (j \in At(f, c) <=> f[j] = c) /\ (j \in At(g, c) <=> g[j] = c)
  BY DEF At
<1>5. Ind(f[j], c) = (IF j \in At(f, c) THEN 1 ELSE 0) /\ Ind(g[j], c) = IF j \in At(g, c) THEN 1 ELSE 0
  BY <1>4 DEF Ind
<1> DEFINE F == Cardinality(At(f, c) \ {j})
           G == Cardinality(At(g, c) \ {j})
<1>6. F = Count(f, c) - Ind(f[j], c) /\ F \in Int
  BY <1>2, <1>3, <1>5
<1>7. G = Count(g, c) - Ind(g[j], c)
  BY <1>2, <1>3, <1>5
<1>8. F = G /\ Ind(f[j], c) \in Int /\ Ind(g[j], c) \in Int
  BY <1>1 DEF Ind
<1> HIDE DEF F, G
<1> QED BY <1>2, <1>6, <1>7, <1>8

\* A function in two parts.
LEMMA CountSplit ==
  ASSUME NEW f, IsFiniteSet(DOMAIN f), NEW g, NEW h, DOMAIN g \cup DOMAIN h = DOMAIN f,
         DOMAIN g \cap DOMAIN h = {}, \A k \in DOMAIN g : g[k] = f[k],
         \A k \in DOMAIN h : h[k] = f[k], NEW c
  PROVE  Count(f, c) = Count(g, c) + Count(h, c) /\ Count(g, c) \in Nat /\ Count(h, c) \in Nat
<1>1. IsFiniteSet(DOMAIN g) /\ IsFiniteSet(DOMAIN h)
  BY FS_Subset
<1>2. /\ IsFiniteSet(At(g, c)) /\ IsFiniteSet(At(h, c)) /\ Count(g, c) \in Nat /\ Count(h, c) \in Nat
  BY <1>1, CountNat
<1>3. /\ Count(f, c) = Cardinality(At(f, c)) /\ Count(g, c) = Cardinality(At(g, c))
      /\ Count(h, c) = Cardinality(At(h, c))
  BY DEF Count, At
<1>4. At(f, c) = At(g, c) \cup At(h, c) /\ At(g, c) \cap At(h, c) = {}
  BY DEF At
<1>5. Cardinality(At(g, c) \cup At(h, c))
        = Cardinality(At(g, c)) + Cardinality(At(h, c)) - Cardinality(At(g, c) \cap At(h, c))
  BY <1>2, FS_Union
<1>6. Cardinality(At(g, c) \cap At(h, c)) = 0
  BY <1>4, FS_EmptySet
<1> QED BY <1>2, <1>3, <1>4, <1>5, <1>6

\* Two functions that have a value equally often, the places being paired off.
LEMMA CountPaired ==
  ASSUME NEW f, NEW g, IsFiniteSet(DOMAIN g), NEW c, NEW b,
         b \in [At(f, c) -> At(g, c)], \A j, k \in At(f, c) : b[j] = b[k] => j = k,
         \A k \in At(g, c) : \E j \in At(f, c) : b[j] = k
  PROVE  Count(f, c) = Count(g, c)
<1>1. b \in Injection(At(f, c), At(g, c)) /\ b \in Surjection(At(f, c), At(g, c))
  BY DEF Injection, IsInjective, Surjection
<1>2. IsFiniteSet(At(g, c))
  BY CountNat
<1>3. Cardinality(At(f, c)) = Cardinality(At(g, c))
  BY <1>1, <1>2, FS_Injection
<1> QED BY <1>3 DEF Count, At

(***************************************************************************)
(* The parts of the working state, and what acquires and releases.         *)
(***************************************************************************)
\* All that a working state has, without what it counts.
Alike(s, t) ==
  /\ t.nodes = s.nodes /\ t.values = s.values /\ t.edges = s.edges /\ t.run = s.run /\ t.held = s.held
  /\ t.codes = s.codes /\ t.modules = s.modules /\ t.inputs = s.inputs /\ t.results = s.results

\* The checksums noted as low have no reference, or were noted before.
Sunk(s) == \A c \in s.low : s.refs[c] <= 0
Sinks(s, t) == (\A c \in t.low : c \in s.low \/ t.refs[c] <= 0) /\ (Sunk(s) => Sunk(t))

LEMMA Finite ==
  /\ IsFiniteSet(Paths) /\ IsFiniteSet(Shelf) /\ IsFiniteSet(Demands)
  /\ IsFiniteSet(Paths \X Roles) /\ IsFiniteSet(Paths \X Sockets)
<1>1. IsFiniteSet(Paths) /\ IsFiniteSet(Checksums)
  BY PathsAssumption, ChecksumsAssumption
<1>2. /\ IsFiniteSet({"pin", "code"}) /\ IsFiniteSet({"root", "pin", "current"})
      /\ IsFiniteSet({"root", "pin", "code", "module", "current"})
  <2>1. IsFiniteSet({"root"}) /\ IsFiniteSet({"pin"})
    BY FS_Singleton
  <2>2. IsFiniteSet({"pin"} \cup {"code"}) /\ IsFiniteSet({"root"} \cup {"pin"})
    BY <2>1, FS_AddElement
  <2>3. IsFiniteSet(({"root"} \cup {"pin"}) \cup {"current"})
    BY <2>2, FS_AddElement
  <2>4. IsFiniteSet((({"root"} \cup {"pin"}) \cup {"current"}) \cup {"code"})
    BY <2>3, FS_AddElement
  <2>5. IsFiniteSet(((({"root"} \cup {"pin"}) \cup {"current"}) \cup {"code"}) \cup {"module"})
    BY <2>4, FS_AddElement
  <2>6. /\ {"pin"} \cup {"code"} = {"pin", "code"}
        /\ ({"root"} \cup {"pin"}) \cup {"current"} = {"root", "pin", "current"}
        /\ ((({"root"} \cup {"pin"}) \cup {"current"}) \cup {"code"}) \cup {"module"}
             = {"root", "pin", "code", "module", "current"}
    OBVIOUS
  <2> QED BY <2>2, <2>3, <2>5, <2>6
<1>3. IsFiniteSet(Checksums \X Checksums)
  BY <1>1, FS_Product
<1> QED BY <1>1, <1>2, <1>3, FS_Product DEF Shelf, Demands, Roles, Sockets

\* The domains of the tables.
LEMMA Domains ==
  ASSUME NEW s \in State
  PROVE  /\ DOMAIN Literals(s) = Shelf /\ IsFiniteSet(DOMAIN Literals(s))
         /\ DOMAIN s.codes = Paths /\ IsFiniteSet(DOMAIN s.codes)
         /\ DOMAIN s.modules = Paths /\ IsFiniteSet(DOMAIN s.modules)
         /\ DOMAIN s.inputs = Paths \X Sockets /\ IsFiniteSet(DOMAIN s.inputs)
         /\ DOMAIN s.results \subseteq Demands /\ IsFiniteSet(DOMAIN s.results)
         /\ \A k \in DOMAIN s.results : s.results[k] \in Checksums
<1>1. DOMAIN s.results \subseteq Demands /\ \A k \in DOMAIN s.results : s.results[k] \in Checksums
  BY DEF State, Results
<1>2. IsFiniteSet(DOMAIN s.results)
  BY <1>1, Finite, FS_Subset
<1>3. DOMAIN s.codes = Paths /\ DOMAIN s.modules = Paths /\ DOMAIN s.inputs = Paths \X Sockets
  BY DEF State
<1> QED BY <1>1, <1>2, <1>3, Finite DEF Literals

\* A working state is a record of its parts, and one that takes other parts of
\* the same types is one too.
LEMMA Parts ==
  ASSUME NEW s \in State
  PROVE  /\ s.nodes \in [Paths -> Kinds] /\ s.values \in [Paths \X Roles -> Maybe]
         /\ s.edges \in [Paths \X Slots -> Paths \cup {None}]
         /\ s.run \in [Paths -> Run \cup {NoRun}] /\ s.held \in [Paths -> Seq(Run)]
         /\ s.codes \in [Paths -> Maybe] /\ s.modules \in [Paths -> Maybe]
         /\ s.inputs \in [Paths \X Sockets -> Maybe] /\ s.results \in Results
         /\ s.refs \in [Checksums -> Int] /\ s.low \in SUBSET Checksums
BY DEF State

LEMMA TotalNat ==
  ASSUME NEW s \in State, NEW c
  PROVE  /\ Count(Literals(s), c) \in Nat /\ Count(s.codes, c) \in Nat /\ Count(s.modules, c) \in Nat
         /\ Count(s.inputs, c) \in Nat /\ Count(s.results, c) \in Nat
         /\ Total(s, c) \in Nat /\ Total(s, c) >= Count(Literals(s), c)
         /\ Total(s, c) >= Count(s.codes, c) /\ Total(s, c) >= Count(s.modules, c)
<1>1. /\ Count(Literals(s), c) \in Nat /\ Count(s.codes, c) \in Nat /\ Count(s.modules, c) \in Nat
      /\ Count(s.inputs, c) \in Nat /\ Count(s.results, c) \in Nat
  BY Domains, CountNat
<1> QED BY <1>1 DEF Total

LEMMA AlikeTotal ==
  ASSUME NEW s, NEW t, Alike(s, t)
  PROVE  \A c : Total(t, c) = Total(s, c)
BY DEF Alike, Total, Literals

\* incref_refholder
Retained(s, t, c) ==
  t \in State /\ Alike(s, t) /\ t.low = s.low /\ \A d \in Checksums : t.refs[d] = s.refs[d] + Ind(c, d)

LEMMA RetainFacts ==
  ASSUME NEW s \in State, NEW c \in Maybe
  PROVE  Retained(s, Retain(s, c), c)
<1> DEFINE t == Retain(s, c)
<1>1. CASE c = None
  <2>1. t = s
    BY <1>1 DEF Retain
  <2>2. \A d \in Checksums : Ind(c, d) = 0
    BY <1>1, ChecksumsAssumption DEF Ind
  <2> QED BY <2>1, <2>2, Parts DEF Retained, Alike
<1>2. CASE c # None
  <2>1. t = [s EXCEPT !.refs[c] = @ + 1] /\ c \in Checksums
    BY <1>2 DEF Retain, Maybe
  <2>2. t.refs = [s.refs EXCEPT ![c] = @ + 1] /\ s.refs \in [Checksums -> Int]
    BY <2>1 DEF State
  <2>3. \A d \in Checksums : t.refs[d] = s.refs[d] + Ind(c, d)
    BY <2>1, <2>2 DEF Ind
  <2>4. Alike(s, t) /\ t.low = s.low
    BY <2>1 DEF State, Alike
  <2>5. t \in State
    <3> DEFINE r == [s.refs EXCEPT ![c] = @ + 1]
    <3>1. t = [s EXCEPT !.refs = r] /\ r \in [Checksums -> Int]
      BY <2>1, <2>2
    <3> HIDE DEF r, t
    <3> QED BY <3>1 DEF State
  <2> QED BY <2>3, <2>4, <2>5 DEF Retained
<1> QED BY <1>1, <1>2

\* decref_refholder
Released(s, t, c) ==
  t \in State /\ Alike(s, t) /\ Sinks(s, t) /\ \A d \in Checksums : t.refs[d] = s.refs[d] - Ind(c, d)

LEMMA ReleaseFacts ==
  ASSUME NEW s \in State, NEW c \in Maybe
  PROVE  Released(s, Release(s, c), c)
<1> DEFINE t == Release(s, c)
<1>1. CASE c = None
  <2>1. t = s
    BY <1>1 DEF Release
  <2>2. \A d \in Checksums : Ind(c, d) = 0
    BY <1>1, ChecksumsAssumption DEF Ind
  <2> QED BY <2>1, <2>2, Parts DEF Released, Alike, Sinks
<1>2. CASE c # None
  <2>1. /\ t = [s EXCEPT !.refs[c] = @ - 1, !.low = IF s.refs[c] <= 1 THEN @ \cup {c} ELSE @]
        /\ c \in Checksums
    BY <1>2 DEF Release, Maybe
  <2>2. /\ t.refs = [s.refs EXCEPT ![c] = @ - 1] /\ s.refs \in [Checksums -> Int]
        /\ t.low = IF s.refs[c] <= 1 THEN s.low \cup {c} ELSE s.low
        /\ s.low \subseteq Checksums
    BY <2>1 DEF State
  <2>3. \A d \in Checksums : t.refs[d] = s.refs[d] - Ind(c, d)
    BY <2>1, <2>2 DEF Ind
  <2>4. Alike(s, t)
    BY <2>1 DEF State, Alike
  <2>5. t \in State
    <3> DEFINE r == [s.refs EXCEPT ![c] = @ - 1]
               l == IF s.refs[c] <= 1 THEN s.low \cup {c} ELSE s.low
    <3>1. t = [s EXCEPT !.refs = r, !.low = l]
      BY <2>1
    <3>2. r \in [Checksums -> Int] /\ l \in SUBSET Checksums
      BY <2>1, <2>2
    <3> HIDE DEF r, l, t
    <3> QED BY <3>1, <3>2 DEF State
  <2>6. Sinks(s, t)
    <3>1. \A d \in Checksums : t.refs[d] <= s.refs[d] /\ (d # c => t.refs[d] = s.refs[d])
      BY <2>1, <2>2
    <3>2. c \in t.low => c \in s.low \/ t.refs[c] <= 0
      BY <2>1, <2>2
    <3>3. \A d \in t.low : d \in Checksums /\ (d = c \/ d \in s.low)
      BY <2>1, <2>2
    <3>4. \A d \in Checksums : s.refs[d] \in Int /\ t.refs[d] \in Int
      BY <2>1, <2>2
    <3> QED BY <3>1, <3>2, <3>3, <3>4 DEF Sinks, Sunk
  <2> QED BY <2>3, <2>4, <2>5, <2>6 DEF Released
<1> QED BY <1>1, <1>2

\* ... of each value of f
RetainedEach(s, t, f) ==
  t \in State /\ Alike(s, t) /\ t.low = s.low /\ \A d \in Checksums : t.refs[d] = s.refs[d] + Count(f, d)
ReleasedEach(s, t, f) ==
  t \in State /\ Alike(s, t) /\ Sinks(s, t) /\ \A d \in Checksums : t.refs[d] = s.refs[d] - Count(f, d)

LEMMA RetainEachFacts ==
  ASSUME NEW s \in State, NEW f, \A d \in Checksums : Count(f, d) \in Nat
  PROVE  RetainedEach(s, RetainEach(s, f), f)
<1> DEFINE t == RetainEach(s, f)
           refs2 == [c \in Checksums |-> s.refs[c] + Count(f, c)]
<1>1. t = [s EXCEPT !.refs = refs2]
  BY DEF RetainEach
<1>2. refs2 \in [Checksums -> Int] /\ \A d \in Checksums : refs2[d] = s.refs[d] + Count(f, d)
  BY DEF State
<1> HIDE DEF refs2, t
<1>3. t.refs = refs2 /\ t.low = s.low /\ Alike(s, t)
  BY <1>1 DEF State, Alike
<1>4. t \in State
  BY <1>1, <1>2 DEF State
<1>5. RetainedEach(s, t, f)
  BY <1>2, <1>3, <1>4 DEF RetainedEach
<1> QED BY <1>5 DEF t

LEMMA ReleaseEachFacts ==
  ASSUME NEW s \in State, NEW f, \A d \in Checksums : Count(f, d) \in Nat
  PROVE  ReleasedEach(s, ReleaseEach(s, f), f)
<1> DEFINE t == ReleaseEach(s, f)
           refs2 == [c \in Checksums |-> s.refs[c] - Count(f, c)]
           sunk == {c \in Checksums : Count(f, c) > 0 /\ s.refs[c] <= Count(f, c)}
<1>1. t = [s EXCEPT !.refs = refs2, !.low = @ \cup sunk]
  BY DEF ReleaseEach
<1>2. refs2 \in [Checksums -> Int] /\ \A d \in Checksums : refs2[d] = s.refs[d] - Count(f, d)
  BY DEF State
<1>3. sunk \subseteq Checksums /\ \A d \in sunk : refs2[d] <= 0
  BY DEF State
<1>4. \A d \in Checksums : refs2[d] <= s.refs[d] /\ s.refs[d] \in Int /\ refs2[d] \in Int
  BY DEF State
<1> HIDE DEF refs2, t, sunk
<1>5. t.refs = refs2 /\ t.low = s.low \cup sunk /\ Alike(s, t)
  BY <1>1 DEF State, Alike
<1>6. t \in State
  BY <1>1, <1>2, <1>3 DEF State
<1>7. Sinks(s, t)
  BY <1>3, <1>4, <1>5, Parts DEF Sinks, Sunk
<1>8. ReleasedEach(s, t, f)
  BY <1>2, <1>5, <1>6, <1>7 DEF ReleasedEach
<1> QED BY <1>8 DEF t

\* A map of claims replaced by another of the same keys.
Synchronized(s, t, old, new) ==
  /\ t \in State /\ Alike(s, t) /\ \A c \in t.low : c \in s.low \/ t.refs[c] <= 0
  /\ \A d \in Checksums : t.refs[d] = s.refs[d] + Count(new, d) - Count(old, d)

LEMMA SyncFacts ==
  ASSUME NEW s \in State, NEW old, NEW new,
         \A d \in Checksums : Count(old, d) \in Nat /\ Count(new, d) \in Nat,
         \A k \in DOMAIN old : old[k] \in Maybe
  PROVE  Synchronized(s, Sync(s, old, new), old, new)
<1> DEFINE t == Sync(s, old, new)
           refs2 == [c \in Checksums |-> s.refs[c] + Count(new, c) - Count(old, c)]
           gone == {old[k] : k \in {j \in DOMAIN old : old[j] # new[j]}} \ {None}
           sunk == {c \in gone : refs2[c] <= 0}
<1>1. t = [s EXCEPT !.refs = refs2, !.low = @ \cup sunk]
  BY DEF Sync
<1>2. refs2 \in [Checksums -> Int] /\ \A d \in Checksums : refs2[d] = s.refs[d] + Count(new, d) - Count(old, d)
  BY DEF State
<1>3. gone \subseteq Checksums
  BY DEF Maybe
<1> HIDE DEF gone
<1>4. sunk \subseteq Checksums /\ \A d \in sunk : refs2[d] <= 0
  BY <1>3
<1> HIDE DEF refs2, t, sunk
<1>5. t.refs = refs2 /\ t.low = s.low \cup sunk /\ Alike(s, t)
  BY <1>1 DEF State, Alike
<1>6. t \in State
  BY <1>1, <1>2, <1>4 DEF State
<1>7. Synchronized(s, t, old, new)
  BY <1>2, <1>4, <1>5, <1>6 DEF Synchronized
<1> QED BY <1>7 DEF t

\* A table changed at one place.
LEMMA ShelfOff ==
  ASSUME NEW s \in State, NEW t, NEW k \in Shelf, NEW v \in Maybe, t.values = [s.values EXCEPT ![k] = v]
  PROVE  /\ s.values[k] \in Maybe
         /\ \A c : Count(Literals(t), c) = Count(Literals(s), c) - Ind(s.values[k], c) + Ind(v, c)
<1>1. /\ DOMAIN Literals(s) = Shelf /\ DOMAIN Literals(t) = Shelf /\ IsFiniteSet(Shelf)
      /\ \A j \in Shelf : Literals(s)[j] = s.values[j] /\ Literals(t)[j] = t.values[j]
  BY Finite DEF Literals
<1>2. k \in Paths \X Roles /\ s.values \in [Paths \X Roles -> Maybe] /\ Shelf \subseteq Paths \X Roles
  BY Parts DEF Shelf, Roles
<1>3. t.values[k] = v /\ \A j \in Shelf : j # k => t.values[j] = s.values[j]
  BY <1>2
<1>4. ASSUME NEW c
      PROVE  Count(Literals(t), c) = Count(Literals(s), c) - Ind(s.values[k], c) + Ind(v, c)
  <2> DEFINE f == Literals(s)
             g == Literals(t)
  <2>1. /\ DOMAIN f = Shelf /\ DOMAIN g = Shelf /\ k \in DOMAIN f /\ IsFiniteSet(DOMAIN f)
        /\ \A j \in DOMAIN f : j # k => g[j] = f[j]
    BY <1>1, <1>3
  <2>2. f[k] = s.values[k] /\ g[k] = v
    BY <1>1, <1>3
  <2> HIDE DEF f, g
  <2>3. Count(g, c) = Count(f, c) - Ind(f[k], c) + Ind(g[k], c)
    BY <2>1, CountOff
  <2> QED BY <2>2, <2>3 DEF f, g
<1> QED BY <1>2, <1>4

LEMMA TableOff ==
  ASSUME NEW f \in [Paths -> Maybe], NEW p \in Paths, NEW v \in Maybe
  PROVE  \A c : Count([f EXCEPT ![p] = v], c) = Count(f, c) - Ind(f[p], c) + Ind(v, c)
<1> DEFINE g == [f EXCEPT ![p] = v]
<1>1. /\ DOMAIN f = Paths /\ DOMAIN g = Paths /\ IsFiniteSet(Paths)
      /\ g[p] = v /\ \A q \in Paths : q # p => g[q] = f[q]
  BY Finite
<1> HIDE DEF g
<1>2. ASSUME NEW c PROVE Count(g, c) = Count(f, c) - Ind(f[p], c) + Ind(v, c)
  BY <1>1, CountOff
<1> QED BY <1>2 DEF g

\* Where the literals are kept is all that matters of the values.
LEMMA SameLiterals ==
  ASSUME NEW s, NEW t, \A k \in Shelf : t.values[k] = s.values[k]
  PROVE  Literals(t) = Literals(s)
BY DEF Literals

(***************************************************************************)
(* The claims of the users.                                                *)
(***************************************************************************)
Unclaimed(s, c) == \A p \in Paths :
  s.values[<<p, "root">>] # c /\ s.values[<<p, "pin">>] # c /\ s.codes[p] # c /\ s.modules[p] # c

LEMMA ClaimCounts ==
  ASSUME NEW s \in State, NEW c, Total(s, c) <= 0
  PROVE  Unclaimed(s, c)
<1>1. /\ Count(Literals(s), c) = 0 /\ Count(s.codes, c) = 0 /\ Count(s.modules, c) = 0
  BY TotalNat
<1>2. /\ \A k \in Shelf : Literals(s)[k] # c
      /\ \A p \in Paths : s.codes[p] # c /\ s.modules[p] # c
  BY <1>1, Domains, CountNat
<1>3. \A p \in Paths : /\ <<p, "root">> \in Shelf /\ <<p, "pin">> \in Shelf
  BY DEF Shelf
<1>4. \A k \in Shelf : Literals(s)[k] = s.values[k]
  BY DEF Literals
<1> QED BY <1>2, <1>3, <1>4 DEF Unclaimed

LEMMA UnclaimedValue ==
  ASSUME NEW s \in State, NodesOK(s), ModulesSynced(s), NEW c \in Checksums, Unclaimed(s, c)
  PROVE  c \notin UserValues(s)
<1> SUFFICES ASSUME NEW k \in Paths \X (Roles \ {"current"}), c = Listing(s)[k]
             PROVE  FALSE
  BY DEF UserValues
<1>1. PICK p \in Paths, role \in {"root", "pin", "code", "module"} : k = <<p, role>>
  BY DEF Roles
<1>2. c # None
  BY ChecksumsAssumption
<1>3. Listing(s)[k] = s.values[<<p, role>>]
  BY <1>1, <1>2 DEF Listing, Roles
<1>4. s.codes[p] = s.values[<<p, "code">>] /\ s.modules[p] = s.values[<<p, "module">>]
  BY DEF NodesOK, ModulesSynced
<1> QED BY <1>1, <1>3, <1>4 DEF Unclaimed

LEMMA SameUserValues ==
  ASSUME NEW s, NEW t, t.edges = s.edges,
         \A p \in Paths, role \in Roles \ {"current"} : t.values[<<p, role>>] = s.values[<<p, role>>]
  PROVE  UserValues(t) = UserValues(s)
<1>1. \A k \in Paths \X (Roles \ {"current"}) : Listing(t)[k] = Listing(s)[k]
  BY DEF Listing, Wired
<1> QED BY <1>1 DEF UserValues

LEMMA SunkSpared ==
  ASSUME NEW s \in State, NodesOK(s), ModulesSynced(s), Balances(s), Sunk(s)
  PROVE  Spared(s)
<1>1. \A c \in s.low : c \in Checksums /\ Total(s, c) <= 0
  BY Parts DEF Balances, Sunk
<1>2. \A c \in s.low : Unclaimed(s, c)
  BY <1>1, ClaimCounts
<1> QED BY <1>1, <1>2, UnclaimedValue DEF Spared

(***************************************************************************)
(* The tables that are brought up to date.                                 *)
(***************************************************************************)
Fit(s) == NodesOK(s) /\ EdgesOK(s) /\ RunsOK(s) /\ ResultsOK(s)

LEMMA FitSame ==
  ASSUME NEW s, NEW t, Fit(s), t.nodes = s.nodes, t.values = s.values, t.edges = s.edges,
         t.run = s.run, t.held = s.held, t.codes = s.codes, t.results = s.results
  PROVE  Fit(t)
BY DEF Fit, NodesOK, EdgesOK, RunsOK, ResultsOK, Wired

\* _sync_module_refholds
Remoduled(s, t) ==
  /\ t \in State /\ t.nodes = s.nodes /\ t.values = s.values /\ t.edges = s.edges /\ t.run = s.run
  /\ t.held = s.held /\ t.codes = s.codes /\ t.inputs = s.inputs /\ t.results = s.results
  /\ ModulesSynced(t) /\ \A c \in t.low : c \in s.low \/ t.refs[c] <= 0
  /\ \A c \in Checksums : t.refs[c] - Total(t, c) = s.refs[c] - Total(s, c)
  /\ \A c \in Checksums : t.refs[c] = s.refs[c] + Count(t.modules, c) - Count(s.modules, c)

LEMMA SyncModulesFacts ==
  ASSUME NEW s \in State, NodesOK(s)
  PROVE  Remoduled(s, SyncModules(s))
<1> DEFINE active == [p \in Paths |-> IF s.nodes[p] = "transformer" THEN s.values[<<p, "module">>] ELSE None]
           u == Sync(s, s.modules, active)
           t == SyncModules(s)
<1>1. active \in [Paths -> Maybe] /\ \A p \in Paths : active[p] = s.values[<<p, "module">>]
  <2>1. \A p \in Paths : s.values[<<p, "module">>] \in Maybe
    BY Parts DEF Roles
  <2> QED BY <2>1 DEF Maybe, NodesOK
<1>2. t = [u EXCEPT !.modules = active]
  BY DEF SyncModules
<1> HIDE DEF active
<1>3. \A d \in Checksums : Count(s.modules, d) \in Nat /\ Count(active, d) \in Nat
  <2>1. DOMAIN active = Paths
    BY <1>1
  <2> QED BY <2>1, Finite, CountNat, TotalNat
<1>4. \A k \in DOMAIN s.modules : s.modules[k] \in Maybe
  BY Parts
<1>5. Synchronized(s, u, s.modules, active)
  BY <1>3, <1>4, SyncFacts
<1> HIDE DEF u, t
<1>6. u \in State /\ Alike(s, u) /\ \A c \in u.low : c \in s.low \/ u.refs[c] <= 0
  BY <1>5 DEF Synchronized
<1>7. /\ t.nodes = u.nodes /\ t.values = u.values /\ t.edges = u.edges /\ t.run = u.run
      /\ t.held = u.held /\ t.codes = u.codes /\ t.inputs = u.inputs /\ t.results = u.results
      /\ t.refs = u.refs /\ t.low = u.low /\ t.modules = active
  BY <1>2, <1>6 DEF State
<1>8. t \in State
  BY <1>1, <1>2, <1>6 DEF State
<1>9. ModulesSynced(t)
  BY <1>1, <1>6, <1>7 DEF ModulesSynced, Alike
<1>10. \A c \in Checksums : t.refs[c] = s.refs[c] + Count(t.modules, c) - Count(s.modules, c)
  BY <1>5, <1>7 DEF Synchronized
<1>11. ASSUME NEW c \in Checksums PROVE t.refs[c] - Total(t, c) = s.refs[c] - Total(s, c)
  <2>1. Literals(t) = Literals(s)
    BY <1>6, <1>7 DEF Literals, Alike
  <2>2. Total(t, c) = Count(Literals(s), c) + Count(s.codes, c) + Count(t.modules, c)
                      + Count(s.inputs, c) + Count(s.results, c)
    BY <1>6, <1>7, <2>1 DEF Total, Alike
  <2>3. s.refs[c] \in Int
    BY Parts
  <2> QED BY <1>3, <1>7, <1>10, <2>2, <2>3, TotalNat DEF Total
<1>12. Remoduled(s, t)
  BY <1>6, <1>7, <1>8, <1>9, <1>10, <1>11 DEF Remoduled, Alike
<1> QED BY <1>12 DEF t

\* The held runs that have a result.
LEMMA DoneFacts ==
  ASSUME NEW s \in State, RunsOK(s), NEW h \in Done(s)
  PROVE  /\ h[1] \in Paths /\ h[2] \in DOMAIN s.held[h[1]] /\ h = <<h[1], h[2]>>
         /\ s.held[h[1]][h[2]] \in Run /\ s.held[h[1]][h[2]].out \in Checksums
         /\ KeyOf(s, h) \in Demands /\ KeyOf(s, h) = <<h[1], Demand(s.held[h[1]][h[2]])>>
         /\ s.held[h[1]][h[2]].out = Result[KeyOf(s, h)[2]] /\ KeyOf(s, h)[1] = h[1]
<1>1. h[1] \in Paths /\ h[2] \in DOMAIN s.held[h[1]] /\ h = <<h[1], h[2]>> /\ s.held[h[1]][h[2]].out \in Checksums
  BY DEF Done
<1>2. s.held[h[1]] \in Seq(Run)
  BY <1>1, Parts
<1>3. s.held[h[1]][h[2]] \in Run
  BY <1>1, <1>2
<1>4. Right(s.held[h[1]][h[2]])
  BY <1>1 DEF RunsOK, RunsAt
<1>5. Demand(s.held[h[1]][h[2]]) \in Checksums \X Checksums
  BY <1>3 DEF Demand, Run
<1> QED BY <1>1, <1>3, <1>4, <1>5 DEF KeyOf, Demands, Right

LEMMA OutFacts ==
  ASSUME NEW s \in State, RunsOK(s), NEW k \in {KeyOf(s, h) : h \in Done(s)}
  PROVE  k \in Demands /\ OutOf(s, k) = Result[k[2]] /\ Result[k[2]] \in Checksums
<1> DEFINE g == CHOOSE x \in Done(s) : KeyOf(s, x) = k
<1>1. g \in Done(s) /\ KeyOf(s, g) = k
  OBVIOUS
<1>2. OutOf(s, k) = s.held[g[1]][g[2]].out
  BY DEF OutOf
<1> HIDE DEF g
<1>3. k \in Demands /\ s.held[g[1]][g[2]].out = Result[k[2]]
  BY <1>1, DoneFacts
<1>4. Result[k[2]] \in Checksums
  BY <1>3, ChecksumsAssumption DEF Demands
<1> QED BY <1>2, <1>3, <1>4

\* _sync_superseded_refholds
Reresulted(s, t) ==
  /\ t \in State /\ t.nodes = s.nodes /\ t.values = s.values /\ t.edges = s.edges /\ t.run = s.run
  /\ t.held = s.held /\ t.codes = s.codes /\ t.modules = s.modules /\ t.inputs = s.inputs
  /\ ResultsOK(t) /\ ResultsSynced(t)
  /\ \A c \in Checksums : t.refs[c] - Total(t, c) = s.refs[c] - Total(s, c)
  /\ Balances(s) => \A c \in t.low : c \in s.low \/ Unclaimed(t, c)
  /\ {KeyOf(s, h) : h \in Done(s)} \subseteq DOMAIN s.results => Sinks(s, t)

LEMMA SyncResultsFacts ==
  ASSUME NEW s \in State, RunsOK(s), ResultsOK(s)
  PROVE  Reresulted(s, SyncResults(s))
<1> DEFINE keys == {KeyOf(s, h) : h \in Done(s)}
           gone == [k \in DOMAIN s.results \ keys |-> s.results[k]]
           new == [k \in keys \ DOMAIN s.results |-> OutOf(s, k)]
           stay == [k \in DOMAIN s.results \cap keys |-> s.results[k]]
           results2 == [k \in keys |-> IF k \in DOMAIN s.results THEN s.results[k] ELSE new[k]]
           u == ReleaseEach(s, gone)
           v == RetainEach(u, new)
           t == SyncResults(s)
<1>1. \A k \in keys : k \in Demands /\ OutOf(s, k) = Result[k[2]] /\ Result[k[2]] \in Checksums
  BY OutFacts
<1>2. t = [v EXCEPT !.results = results2]
  BY DEF SyncResults
<1>3. DOMAIN gone = DOMAIN s.results \ keys /\ DOMAIN new = keys \ DOMAIN s.results
      /\ DOMAIN stay = DOMAIN s.results \cap keys /\ DOMAIN results2 = keys
  OBVIOUS
<1>4. /\ \A k \in DOMAIN gone : gone[k] = s.results[k]
      /\ \A k \in DOMAIN stay : stay[k] = s.results[k] /\ results2[k] = stay[k]
      /\ \A k \in DOMAIN new : results2[k] = new[k]
  OBVIOUS
<1>5. \A k \in keys : results2[k] = Result[k[2]] /\ results2[k] \in Checksums
  BY <1>1 DEF ResultsOK
<1>6. results2 \in Results
  <2>1. keys \in SUBSET Demands
    BY <1>1
  <2>2. results2 \in [keys -> Checksums]
    BY <1>5
  <2> HIDE DEF keys, results2
  <2> QED BY <2>1, <2>2 DEF Results
<1>7. DOMAIN s.results \subseteq Demands /\ IsFiniteSet(DOMAIN s.results) /\ IsFiniteSet(keys)
  <2>1. keys \in SUBSET Demands
    BY <1>1
  <2> HIDE DEF keys
  <2> QED BY <2>1, Domains, Finite, FS_Subset
<1> HIDE DEF keys, gone, new, stay, results2
<1>8. ASSUME NEW c
      PROVE  /\ Count(gone, c) \in Nat /\ Count(new, c) \in Nat /\ Count(stay, c) \in Nat
             /\ Count(s.results, c) = Count(gone, c) + Count(stay, c)
             /\ Count(results2, c) = Count(stay, c) + Count(new, c)
  <2>1. DOMAIN gone \cup DOMAIN stay = DOMAIN s.results /\ DOMAIN gone \cap DOMAIN stay = {}
    BY <1>3
  <2>2. DOMAIN stay \cup DOMAIN new = DOMAIN results2 /\ DOMAIN stay \cap DOMAIN new = {}
    BY <1>3
  <2>3. Count(s.results, c) = Count(gone, c) + Count(stay, c) /\ Count(gone, c) \in Nat /\ Count(stay, c) \in Nat
    BY <1>4, <1>7, <2>1, CountSplit
  <2>4. Count(results2, c) = Count(stay, c) + Count(new, c) /\ Count(new, c) \in Nat
    BY <1>3, <1>4, <1>7, <2>2, CountSplit
  <2> QED BY <2>3, <2>4
<1>9. ReleasedEach(s, u, gone)
  BY <1>8, ReleaseEachFacts
<1> HIDE DEF u
<1>10. u \in State /\ Alike(s, u) /\ Sinks(s, u) /\ \A d \in Checksums : u.refs[d] = s.refs[d] - Count(gone, d)
  BY <1>9 DEF ReleasedEach
<1>11. RetainedEach(u, v, new)
  BY <1>8, <1>10, RetainEachFacts
<1> HIDE DEF v
<1>12. v \in State /\ Alike(u, v) /\ v.low = u.low /\ \A d \in Checksums : v.refs[d] = u.refs[d] + Count(new, d)
  BY <1>11 DEF RetainedEach
<1> HIDE DEF t
<1>13. /\ t.nodes = s.nodes /\ t.values = s.values /\ t.edges = s.edges /\ t.run = s.run
       /\ t.held = s.held /\ t.codes = s.codes /\ t.modules = s.modules /\ t.inputs = s.inputs
       /\ t.refs = v.refs /\ t.low = u.low /\ t.results = results2
  <2>1. Alike(s, v)
    BY <1>10, <1>12 DEF Alike
  <2> QED BY <1>2, <1>12, <2>1 DEF State, Alike
<1>14. t \in State
  BY <1>2, <1>6, <1>12 DEF State
<1>15. ResultsOK(t)
  BY <1>3, <1>5, <1>13 DEF ResultsOK
<1>16. ResultsSynced(t)
  <2>1. Done(t) = Done(s) /\ \A h : KeyOf(t, h) = KeyOf(s, h)
    BY <1>13 DEF Done, KeyOf
  <2> QED BY <1>3, <1>13, <2>1 DEF ResultsSynced, keys
<1>17. \A d \in Checksums : t.refs[d] = s.refs[d] - Count(gone, d) + Count(new, d)
  BY <1>10, <1>12, <1>13
<1>18. ASSUME NEW c \in Checksums PROVE t.refs[c] - Total(t, c) = s.refs[c] - Total(s, c)
  <2>1. Literals(t) = Literals(s)
    BY <1>13 DEF Literals
  <2>2. Total(t, c) = Count(Literals(s), c) + Count(s.codes, c) + Count(s.modules, c)
                      + Count(s.inputs, c) + Count(results2, c)
    BY <1>13, <2>1 DEF Total
  <2>3. s.refs[c] \in Int
    BY Parts
  <2> QED BY <1>8, <1>17, <2>2, <2>3, TotalNat DEF Total
<1>19. ASSUME Balances(s), NEW c \in t.low PROVE c \in s.low \/ Unclaimed(t, c)
  <2>1. c \in Checksums /\ (c \in s.low \/ u.refs[c] <= 0)
    BY <1>10, <1>13, Parts DEF Sinks
  <2>2. ASSUME u.refs[c] <= 0 PROVE Unclaimed(s, c)
    <3>1. Total(s, c) <= Count(gone, c)
      BY <1>8, <1>10, <1>19, <2>1, <2>2, TotalNat DEF Balances
    <3>2. Count(Literals(s), c) = 0 /\ Count(s.codes, c) = 0 /\ Count(s.modules, c) = 0
      BY <1>8, <3>1, TotalNat DEF Total
    <3>3. /\ \A k \in Shelf : Literals(s)[k] # c
          /\ \A p \in Paths : s.codes[p] # c /\ s.modules[p] # c
      BY <3>2, Domains, CountNat
    <3>4. \A p \in Paths : <<p, "root">> \in Shelf /\ <<p, "pin">> \in Shelf
      BY DEF Shelf
    <3>5. \A k \in Shelf : Literals(s)[k] = s.values[k]
      BY DEF Literals
    <3> QED BY <3>3, <3>4, <3>5 DEF Unclaimed
  <2> QED BY <1>13, <2>1, <2>2 DEF Unclaimed
<1>20. ASSUME keys \subseteq DOMAIN s.results PROVE Sinks(s, t)
  <2>1. \A c : Count(new, c) = 0
    BY <1>3, <1>7, <1>20, CountNat, FS_EmptySet
  <2>2. \A d \in Checksums : v.refs[d] = u.refs[d]
    BY <1>10, <1>12, <2>1, Parts
  <2> QED BY <1>10, <1>13, <2>2, Parts DEF Sinks, Sunk
<1>21. Reresulted(s, t)
  BY <1>13, <1>14, <1>15, <1>16, <1>18, <1>19, <1>20 DEF Reresulted, keys
<1> QED BY <1>21 DEF t

(***************************************************************************)
(* What the nodes show.                                                    *)
(***************************************************************************)
\* One role of some nodes, as a column.
IsColumn(f, role, g, ps) ==
  ps \subseteq Paths /\ DOMAIN f = ps \X {role} /\ DOMAIN g = ps /\ \A p \in ps : f[<<p, role>>] = g[p]

LEMMA Column ==
  ASSUME NEW f, NEW g, NEW role, NEW ps, IsColumn(f, role, g, ps), NEW c
  PROVE  Count(f, c) = Count(g, c)
<1> USE DEF IsColumn
<1> DEFINE b == [k \in At(f, c) |-> k[1]]
<1>1. /\ \A k \in At(f, c) : k = <<k[1], role>> /\ k[1] \in ps /\ g[k[1]] = c
      /\ \A p \in At(g, c) : p \in ps /\ f[<<p, role>>] = c
  BY DEF At
<1>2. /\ \A k \in ps \X {role} : f[k] = c => k \in At(f, c)
      /\ \A p \in ps : g[p] = c => p \in At(g, c)
  BY DEF At
<1>3. IsFiniteSet(DOMAIN g)
  BY Finite, FS_Subset
<1>4. b \in [At(f, c) -> At(g, c)]
  BY <1>1, <1>2
<1>5. ASSUME NEW j \in At(f, c), NEW k \in At(f, c), b[j] = b[k] PROVE j = k
  BY <1>1, <1>5
<1>6. ASSUME NEW p \in At(g, c) PROVE \E k \in At(f, c) : b[k] = p
  <2>1. <<p, role>> \in At(f, c)
    BY <1>1, <1>2
  <2>2. b[<<p, role>>] = p
    BY <2>1
  <2> QED BY <2>1, <2>2
<1> HIDE DEF b
<1> QED BY <1>3, <1>4, <1>5, <1>6, CountPaired

Asked(s) == [k \in Paths \X {"root", "pin"} |-> s.values[k]]
Showing(s) == [p \in Paths |-> s.values[<<p, "current">>]]

LEMMA LiteralsSplit ==
  ASSUME NEW s, NEW c
  PROVE  /\ Count(Literals(s), c) = Count(Asked(s), c) + Count(Showing(s), c)
         /\ Count(Asked(s), c) \in Nat /\ Count(Showing(s), c) \in Nat
         /\ Count(Asked(s), c) = 0 =>
              \A p \in Paths : s.values[<<p, "root">>] # c /\ s.values[<<p, "pin">>] # c
<1> DEFINE h == [k \in Paths \X {"current"} |-> s.values[k]]
<1>1. /\ DOMAIN Asked(s) \cup DOMAIN h = DOMAIN Literals(s) /\ DOMAIN Asked(s) \cap DOMAIN h = {}
      /\ \A k \in DOMAIN Asked(s) : Asked(s)[k] = Literals(s)[k]
      /\ \A k \in DOMAIN h : h[k] = Literals(s)[k]
      /\ IsFiniteSet(DOMAIN Literals(s))
  BY Finite DEF Asked, Literals, Shelf
<1>2. Count(h, c) = Count(Showing(s), c)
  <2>1. IsColumn(h, "current", Showing(s), Paths)
    BY DEF Showing, IsColumn
  <2> HIDE DEF h
  <2> QED BY <2>1, Column
<1> HIDE DEF h
<1>3. /\ Count(Literals(s), c) = Count(Asked(s), c) + Count(h, c)
      /\ Count(Asked(s), c) \in Nat /\ Count(h, c) \in Nat
  BY <1>1, CountSplit
<1>4. ASSUME Count(Asked(s), c) = 0, NEW p \in Paths
      PROVE  s.values[<<p, "root">>] # c /\ s.values[<<p, "pin">>] # c
  <2>1. /\ <<p, "root">> \in DOMAIN Asked(s) /\ Asked(s)[<<p, "root">>] = s.values[<<p, "root">>]
        /\ <<p, "pin">> \in DOMAIN Asked(s) /\ Asked(s)[<<p, "pin">>] = s.values[<<p, "pin">>]
    BY DEF Asked
  <2>2. IsFiniteSet(DOMAIN Asked(s))
    BY <1>1, FS_Subset
  <2> QED BY <1>4, <2>1, <2>2, CountNat
<1> QED BY <1>2, <1>3, <1>4

Shows(s, t, shown) ==
  /\ t \in State /\ t.nodes = s.nodes /\ t.edges = s.edges /\ t.run = s.run /\ t.held = s.held
  /\ t.codes = s.codes /\ t.modules = s.modules /\ t.inputs = s.inputs /\ t.results = s.results
  /\ \A k \in Paths \X Roles : t.values[k] = IF k[2] = "current" THEN shown[k[1]] ELSE s.values[k]
  /\ Balances(t) /\ \A c \in t.low : c \in s.low \/ Unclaimed(t, c)

LEMMA ShowFacts ==
  ASSUME NEW s \in State, Balances(s), NEW shown \in [Paths -> Maybe]
  PROVE  Shows(s, Show(s, shown), shown)
<1> DEFINE moved == {p \in Paths : s.values[<<p, "current">>] # shown[p]}
           a == [p \in moved |-> s.values[<<p, "current">>]]
           b == [p \in moved |-> shown[p]]
           stay == [p \in Paths \ moved |-> shown[p]]
           values2 == [k \in Paths \X Roles |-> IF k[2] = "current" THEN shown[k[1]] ELSE s.values[k]]
           u == ReleaseEach(s, a)
           v == RetainEach(u, b)
           t == Show(s, shown)
<1>1. t = [v EXCEPT !.values = values2]
  BY DEF Show
<1>2. /\ DOMAIN a = moved /\ DOMAIN b = moved /\ DOMAIN stay = Paths \ moved /\ moved \subseteq Paths
      /\ \A p \in moved : a[p] = Showing(s)[p] /\ b[p] = shown[p]
      /\ \A p \in Paths \ moved : stay[p] = shown[p] /\ stay[p] = Showing(s)[p]
      /\ DOMAIN Showing(s) = Paths /\ DOMAIN shown = Paths
  BY DEF Showing
<1>3. values2 \in [Paths \X Roles -> Maybe]
  BY Parts
<1>4. \A k \in Paths \X Roles : values2[k] = IF k[2] = "current" THEN shown[k[1]] ELSE s.values[k]
  OBVIOUS
<1> HIDE DEF moved, a, b, stay, values2
<1>5. ASSUME NEW c
      PROVE  /\ Count(a, c) \in Nat /\ Count(b, c) \in Nat /\ Count(stay, c) \in Nat
             /\ Count(Showing(s), c) = Count(a, c) + Count(stay, c)
             /\ Count(shown, c) = Count(b, c) + Count(stay, c)
  <2>1. /\ DOMAIN a \cup DOMAIN stay = Paths /\ DOMAIN a \cap DOMAIN stay = {}
        /\ DOMAIN b \cup DOMAIN stay = Paths /\ DOMAIN b \cap DOMAIN stay = {}
    BY <1>2
  <2>2. Count(Showing(s), c) = Count(a, c) + Count(stay, c) /\ Count(a, c) \in Nat /\ Count(stay, c) \in Nat
    BY <1>2, <2>1, Finite, CountSplit
  <2>3. Count(shown, c) = Count(b, c) + Count(stay, c) /\ Count(b, c) \in Nat
    BY <1>2, <2>1, Finite, CountSplit
  <2> QED BY <2>2, <2>3
<1>6. ReleasedEach(s, u, a)
  BY <1>5, ReleaseEachFacts
<1> HIDE DEF u
<1>7. u \in State /\ Alike(s, u) /\ Sinks(s, u) /\ \A d \in Checksums : u.refs[d] = s.refs[d] - Count(a, d)
  BY <1>6 DEF ReleasedEach
<1>8. RetainedEach(u, v, b)
  BY <1>5, <1>7, RetainEachFacts
<1> HIDE DEF v
<1>9. v \in State /\ Alike(u, v) /\ v.low = u.low /\ \A d \in Checksums : v.refs[d] = u.refs[d] + Count(b, d)
  BY <1>8 DEF RetainedEach
<1> HIDE DEF t
<1>10. /\ t.nodes = s.nodes /\ t.edges = s.edges /\ t.run = s.run /\ t.held = s.held
       /\ t.codes = s.codes /\ t.modules = s.modules /\ t.inputs = s.inputs /\ t.results = s.results
       /\ t.refs = v.refs /\ t.low = u.low /\ t.values = values2
  <2>1. Alike(s, v)
    BY <1>7, <1>9 DEF Alike
  <2> QED BY <1>1, <1>9, <2>1 DEF State, Alike
<1>11. t \in State
  BY <1>1, <1>3, <1>9 DEF State
<1>12. Showing(t) = shown /\ Asked(t) = Asked(s)
  <2>1. \A p \in Paths : /\ <<p, "current">> \in Paths \X Roles /\ <<p, "root">> \in Paths \X Roles
                         /\ <<p, "pin">> \in Paths \X Roles
    BY DEF Roles
  <2>2. \A k \in Paths \X {"root", "pin"} : values2[k] = s.values[k]
    BY <1>4 DEF Roles
  <2>3. \A p \in Paths : values2[<<p, "current">>] = shown[p]
    BY <1>4, <2>1
  <2> QED BY <1>10, <2>2, <2>3 DEF Showing, Asked
<1>13. ASSUME NEW c \in Checksums PROVE t.refs[c] = Total(t, c)
  <2>1. Total(t, c) = Count(Asked(s), c) + Count(shown, c) + Count(s.codes, c) + Count(s.modules, c)
                      + Count(s.inputs, c) + Count(s.results, c)
    BY <1>10, <1>12, LiteralsSplit DEF Total
  <2>2. Total(s, c) = Count(Asked(s), c) + Count(Showing(s), c) + Count(s.codes, c) + Count(s.modules, c)
                      + Count(s.inputs, c) + Count(s.results, c)
    BY LiteralsSplit DEF Total
  <2>3. Count(Asked(s), c) \in Nat
    BY LiteralsSplit
  <2>4. t.refs[c] = Total(s, c) - Count(a, c) + Count(b, c)
    BY <1>7, <1>9, <1>10 DEF Balances
  <2> QED BY <1>5, <2>1, <2>2, <2>3, <2>4, TotalNat
<1>14. ASSUME NEW c \in t.low PROVE c \in s.low \/ Unclaimed(t, c)
  <2>1. c \in Checksums /\ (c \in s.low \/ u.refs[c] <= 0)
    BY <1>7, <1>10, Parts DEF Sinks
  <2>2. ASSUME u.refs[c] <= 0 PROVE Unclaimed(t, c)
    <3>1. Total(s, c) <= Count(a, c)
      BY <1>5, <1>7, <2>1, <2>2, TotalNat DEF Balances
    <3>2. Total(s, c) = Count(Asked(s), c) + Count(Showing(s), c) + Count(s.codes, c) + Count(s.modules, c)
                        + Count(s.inputs, c) + Count(s.results, c)
      BY LiteralsSplit DEF Total
    <3>3. Count(Asked(s), c) \in Nat
      BY LiteralsSplit
    <3>4. Count(Asked(s), c) = 0 /\ Count(s.codes, c) = 0 /\ Count(s.modules, c) = 0
      BY <1>5, <3>1, <3>2, <3>3, TotalNat
    <3>5. Asked(t) = Asked(s)
      BY <1>12
    <3>6. \A p \in Paths : t.values[<<p, "root">>] # c /\ t.values[<<p, "pin">>] # c
      BY <3>4, <3>5, LiteralsSplit
    <3>7. \A p \in Paths : s.codes[p] # c /\ s.modules[p] # c
      BY <3>4, Domains, CountNat
    <3> QED BY <1>10, <3>6, <3>7 DEF Unclaimed
  <2> QED BY <2>1, <2>2
<1>15. Shows(s, t, shown)
  BY <1>4, <1>10, <1>11, <1>13, <1>14 DEF Shows, Balances
<1> QED BY <1>15 DEF t

(***************************************************************************)
(* The runs.                                                               *)
(***************************************************************************)
\* A queue of runs made from another by leaving some out.
Thins(q, r) ==
  /\ r \in Seq(Run) /\ Len(r) <= Len(q) /\ Apart(r)
  /\ \A i \in DOMAIN r : \E j \in DOMAIN q : r[i] = q[j]

LEMMA SubThins ==
  ASSUME NEW q \in Seq(Run), Apart(q), NEW m \in Nat, m <= Len(q)
  PROVE  Thins(q, SubSeq(q, m + 1, Len(q)))
<1> DEFINE r == SubSeq(q, m + 1, Len(q))
<1>1. r \in Seq(Run) /\ Len(r) = Len(q) - m /\ \A i \in 1 .. Len(r) : r[i] = q[i + m]
  OBVIOUS
<1> HIDE DEF r
<1>2. DOMAIN r = 1 .. Len(r) /\ DOMAIN q = 1 .. Len(q) /\ Len(q) \in Nat /\ Len(r) \in Nat
  BY <1>1
<1>3. \A i \in DOMAIN r : i + m \in DOMAIN q /\ r[i] = q[i + m]
  BY <1>1, <1>2
<1>4. Apart(r)
  <2>1. ASSUME NEW i \in DOMAIN r, NEW j \in DOMAIN r, Demand(r[i]) = Demand(r[j]) PROVE i = j
    <3>1. i + m = j + m
      BY <1>3, <2>1 DEF Apart
    <3> QED BY <1>2, <3>1
  <2> QED BY <2>1 DEF Apart
<1>5. Thins(q, r)
  BY <1>1, <1>2, <1>3, <1>4 DEF Thins
<1> QED BY <1>5 DEF r

LEMMA LastOfThins ==
  ASSUME NEW q \in Seq(Run), Apart(q), NEW n \in Nat
  PROVE  Thins(q, LastOf(q, n)) /\ Len(LastOf(q, n)) <= n
<1>1. CASE Len(q) <= n
  BY <1>1 DEF LastOf, Thins
<1>2. CASE Len(q) > n
  <2> DEFINE m == Len(q) - n
  <2>1. m \in Nat /\ m <= Len(q) /\ LastOf(q, n) = SubSeq(q, m + 1, Len(q))
    BY <1>2 DEF LastOf
  <2>2. Len(SubSeq(q, m + 1, Len(q))) = Len(q) - m
    BY <2>1
  <2>3. Len(q) - m = n
    BY <1>2
  <2> HIDE DEF m
  <2> QED BY <2>1, <2>2, <2>3, SubThins
<1> QED BY <1>1, <1>2

LEMMA Concat ==
  ASSUME NEW a \in Seq(Run), NEW b \in Seq(Run)
  PROVE  /\ a \o b \in Seq(Run) /\ Len(a \o b) = Len(a) + Len(b) /\ DOMAIN (a \o b) = 1 .. Len(a) + Len(b)
         /\ \A i \in 1 .. Len(a) + Len(b) : (a \o b)[i] = IF i <= Len(a) THEN a[i] ELSE b[i - Len(a)]
OBVIOUS

LEMMA RemoveThins ==
  ASSUME NEW q \in Seq(Run), Apart(q), NEW k \in DOMAIN q
  PROVE  /\ Thins(q, RemoveAt(q, k))
         /\ \A i \in DOMAIN RemoveAt(q, k) : Demand(RemoveAt(q, k)[i]) # Demand(q[k])
<1> DEFINE a == SubSeq(q, 1, k - 1)
           b == SubSeq(q, k + 1, Len(q))
           r == a \o b
           from(i) == IF i < k THEN i ELSE i + 1
<1>1. k \in 1 .. Len(q) /\ Len(q) \in Nat /\ DOMAIN q = 1 .. Len(q)
  OBVIOUS
<1>2. a \in Seq(Run) /\ Len(a) = k - 1 /\ \A i \in 1 .. k - 1 : a[i] = q[i]
  BY <1>1
<1>3. b \in Seq(Run) /\ Len(b) = Len(q) - k /\ \A i \in 1 .. Len(q) - k : b[i] = q[i + k]
  BY <1>1
<1> HIDE DEF a, b
<1>4. r \in Seq(Run) /\ Len(r) = Len(a) + Len(b) /\ DOMAIN r = 1 .. Len(r)
  BY <1>2, <1>3, Concat
<1>5. \A i \in 1 .. Len(r) : r[i] = IF i <= Len(a) THEN a[i] ELSE b[i - Len(a)]
  BY <1>2, <1>3, Concat
<1>6. r = RemoveAt(q, k)
  BY DEF RemoveAt, a, b
<1> HIDE DEF r
<1>7. \A i \in DOMAIN r : from(i) \in DOMAIN q /\ from(i) # k /\ r[i] = q[from(i)]
  <2>1. ASSUME NEW i \in DOMAIN r, i < k PROVE r[i] = q[i] /\ i \in DOMAIN q
    BY <1>1, <1>2, <1>3, <1>4, <1>5, <2>1
  <2>2. ASSUME NEW i \in DOMAIN r, ~(i < k) PROVE r[i] = q[i + 1] /\ i + 1 \in DOMAIN q /\ i + 1 # k
    <3>1. i - (k - 1) \in 1 .. Len(q) - k /\ i - (k - 1) + k = i + 1
      BY <1>1, <1>2, <1>3, <1>4, <2>2
    <3>2. r[i] = b[i - (k - 1)]
      BY <1>1, <1>2, <1>3, <1>4, <1>5, <2>2
    <3> QED BY <1>1, <1>3, <1>4, <2>2, <3>1, <3>2
  <2>3. \A i \in DOMAIN r : i # k => from(i) # k
    BY <1>1, <1>4
  <2> QED BY <2>1, <2>2
<1>8. \A i \in DOMAIN r, j \in DOMAIN r : from(i) = from(j) => i = j
  BY <1>1, <1>4
<1> HIDE DEF from
<1>9. Apart(r)
  BY <1>7, <1>8 DEF Apart
<1>10. \A i \in DOMAIN r : Demand(r[i]) # Demand(q[k])
  BY <1>7 DEF Apart
<1>11. Thins(q, r)
  BY <1>1, <1>2, <1>3, <1>4, <1>7, <1>9 DEF Thins
<1> QED BY <1>6, <1>10, <1>11

LEMMA WithoutThins ==
  ASSUME NEW q \in Seq(Run), Apart(q), NEW demand
  PROVE  /\ Thins(q, Without(q, demand))
         /\ \A i \in DOMAIN Without(q, demand) : Demand(Without(q, demand)[i]) # demand
<1> DEFINE found == {i \in DOMAIN q : Demand(q[i]) = demand}
           k == CHOOSE i \in found : TRUE
<1>1. CASE found = {}
  <2>1. Without(q, demand) = q
    BY <1>1 DEF Without
  <2> QED BY <1>1, <2>1 DEF Thins
<1>2. CASE found # {}
  <2>1. k \in DOMAIN q /\ Demand(q[k]) = demand
    BY <1>2
  <2>2. Without(q, demand) = RemoveAt(q, k)
    BY <1>2 DEF Without
  <2> HIDE DEF k, found
  <2> QED BY <2>1, <2>2, RemoveThins
<1> QED BY <1>1, <1>2

LEMMA InputTyped ==
  ASSUME NEW s \in State, NEW current, NEW p \in Paths, NEW slot \in Slots
  PROVE  Input(s, current, p, slot) \in Maybe
<1>1. s.values[<<p, slot>>] \in Maybe
  BY Parts DEF Slots, Roles
<1>2. Shown(current[s.edges[<<p, slot>>]]) \in Maybe
  BY DEF Shown, Maybe
<1> QED BY <1>1, <1>2 DEF Input

LEMMA OutcomeTyped ==
  ASSUME NEW s \in State, NEW current, NEW p \in Paths
  PROVE  Outcome(s, current, p) \in Maybe
<1>1. Input(s, current, p, "root") \in Maybe
  BY InputTyped DEF Slots
<1>2. Shown(s.run[p].out) \in Maybe
  BY DEF Shown, Maybe
<1> QED BY <1>1, <1>2 DEF Outcome, Maybe

Faithful(queue) == \A i \in DOMAIN queue : Right(queue[i]) /\ Demand(queue[i]) \in Checksums \X Checksums

LEMMA DemandTyped ==
  ASSUME NEW r \in Run
  PROVE  Demand(r) \in Checksums \X Checksums /\ Demand(r) # Demand(NoRun) /\ r # NoRun
<1>1. r.code \in Checksums /\ r.pin \in Checksums /\ None \notin Checksums
  BY ChecksumsAssumption DEF Run
<1>2. Demand(NoRun) = <<None, None>> /\ NoRun.code = None
  BY DEF Demand, NoRun
<1> QED BY <1>1, <1>2 DEF Demand

\* The runs that a transformer suspends.
LEMMA SuspendedFits ==
  ASSUME NEW s \in State, RunsOK(s), NEW p \in Paths
  PROVE  /\ Suspended(s, p) \in Seq(Run) /\ Len(Suspended(s, p)) <= Cap /\ Apart(Suspended(s, p))
         /\ Faithful(Suspended(s, p))
<1> DEFINE q == Queue(s, p)
           r == Suspended(s, p)
<1>1. s.held[p] \in Seq(Run) /\ s.run[p] \in Run \cup {NoRun} /\ RunsAt(s.nodes[p], s.run[p], s.held[p])
  BY Parts DEF RunsOK
<1>2. q \in Seq(Run) /\ Apart(q) /\ \A i \in DOMAIN q : Right(q[i])
  <2>1. CASE s.run[p] = NoRun
    BY <1>1, <2>1 DEF Queue, RunsAt
  <2>2. CASE s.run[p] # NoRun
    <3> DEFINE h == s.held[p]
               x == s.run[p]
    <3>1. h \in Seq(Run) /\ x \in Run /\ q = Append(h, x) /\ RunsAt(s.nodes[p], x, h)
      BY <1>1, <2>2 DEF Queue
    <3> HIDE DEF h, x
    <3>2. /\ Append(h, x) \in Seq(Run) /\ DOMAIN Append(h, x) = 1 .. Len(h) + 1 /\ DOMAIN h = 1 .. Len(h)
          /\ Len(h) \in Nat
          /\ Append(h, x)[Len(h) + 1] = x /\ \A i \in 1 .. Len(h) : Append(h, x)[i] = h[i]
      BY <3>1
    <3>3. \A i \in DOMAIN q : (i \in DOMAIN h /\ q[i] = h[i]) \/ (i = Len(h) + 1 /\ q[i] = x)
      BY <3>1, <3>2
    <3> HIDE DEF q
    <3>4. Apart(q)
      BY <3>1, <3>3 DEF Apart, RunsAt
    <3>5. \A i \in DOMAIN q : Right(q[i])
      BY <3>1, <3>3 DEF RunsAt
    <3> QED BY <3>1, <3>2, <3>4, <3>5
  <2> QED BY <2>1, <2>2
<1>3. r = LastOf(q, Cap)
  BY DEF Suspended
<1> HIDE DEF q, r
<1>4. Thins(q, r) /\ Len(r) <= Cap
  BY <1>2, <1>3, LastOfThins, BoundsAssumption
<1>5. r \in Seq(Run) /\ Apart(r) /\ \A i \in DOMAIN r : Right(r[i])
  BY <1>2, <1>4 DEF Thins
<1>6. Faithful(r)
  BY <1>5, DemandTyped DEF Faithful
<1> QED BY <1>4, <1>5, <1>6 DEF r

\* The run and the held runs that the derivation leaves.
LEMMA DerivedRuns ==
  ASSUME NEW s \in State, RunsOK(s), NEW p \in Paths, NEW current
  PROVE  /\ RunOf(s, current, p) \in Run \cup {NoRun} /\ HeldOf(s, current, p) \in Seq(Run)
         /\ RunsAt(s.nodes[p], RunOf(s, current, p), HeldOf(s, current, p))
<1> DEFINE x == RunOf(s, current, p)
           h == HeldOf(s, current, p)
           code == Input(s, current, p, "code")
           pin == Input(s, current, p, "pin")
           q == Suspended(s, p)
<1>1. s.held[p] \in Seq(Run) /\ s.run[p] \in Run \cup {NoRun} /\ RunsAt(s.nodes[p], s.run[p], s.held[p])
  BY Parts DEF RunsOK
<1>2. code \in Maybe /\ pin \in Maybe
  BY InputTyped DEF Slots
<1>3. q \in Seq(Run) /\ Len(q) <= Cap /\ Apart(q) /\ Faithful(q)
  BY SuspendedFits
<1>4. Right(NoRun) /\ None \notin Checksums /\ Demand(NoRun) = <<None, None>>
  BY ChecksumsAssumption DEF Right, NoRun, Demand
<1>5. Blocked(s, current, p) <=> None \in {code, pin}
  BY DEF Blocked
<1>6. p \in Transformers(s) <=> s.nodes[p] = "transformer"
  BY DEF Transformers
<1> HIDE DEF q
<1>7. CASE p \notin Transformers(s)
  <2>1. x = NoRun /\ h = << >>
    BY <1>7 DEF RunOf, HeldOf
  <2>2. RunsAt(s.nodes[p], NoRun, << >>)
    BY <1>4, BoundsAssumption DEF RunsAt, Apart
  <2> QED BY <2>1, <2>2
<1>8. CASE p \in Transformers(s) /\ Blocked(s, current, p)
  <2>1. x = NoRun /\ h = q
    BY <1>8 DEF RunOf, HeldOf, q
  <2>2. \A i \in DOMAIN q : Right(q[i]) /\ Demand(q[i]) # Demand(NoRun)
    BY <1>3, <1>4 DEF Faithful
  <2>3. RunsAt(s.nodes[p], NoRun, q)
    BY <1>3, <1>4, <1>6, <1>8, <2>2 DEF RunsAt
  <2> QED BY <1>3, <2>1, <2>3
<1>9. CASE p \in Transformers(s) /\ ~Blocked(s, current, p) /\ Keeps(s, current, p)
  <2>1. x = s.run[p] /\ h = s.held[p]
    BY <1>9 DEF RunOf, HeldOf
  <2> QED BY <1>1, <2>1
<1>10. CASE p \in Transformers(s) /\ ~Blocked(s, current, p) /\ ~Keeps(s, current, p)
  <2> DEFINE d == Demanded(s, current, p)
             w == Without(q, d)
  <2>1. x = [code |-> code, pin |-> pin, out |-> None] /\ h = w
    BY <1>10 DEF RunOf, HeldOf, q
  <2>2. code \in Checksums /\ pin \in Checksums
    BY <1>2, <1>5, <1>10 DEF Maybe
  <2>3. x \in Run /\ x.out = None
    BY <2>1, <2>2 DEF Run, Maybe
  <2>4. Demand(x) = d
    BY <2>1 DEF Demand, Demanded
  <2> HIDE DEF d, code, pin, x, h
  <2>5. Thins(q, w) /\ \A i \in DOMAIN w : Demand(w[i]) # d
    BY <1>3, WithoutThins
  <2> HIDE DEF w
  <2>6. w \in Seq(Run) /\ Len(w) <= Cap /\ Apart(w) /\ \A i \in DOMAIN w : Right(w[i])
    <3>1. Len(w) \in Nat /\ Len(q) \in Nat /\ Len(w) <= Len(q) /\ Cap \in Nat
      BY <1>3, <2>5, BoundsAssumption DEF Thins
    <3> QED BY <1>3, <2>5, <3>1 DEF Thins, Faithful
  <2>7. Right(x)
    BY <1>4, <2>3 DEF Right
  <2>8. RunsAt(s.nodes[p], x, w)
    BY <1>6, <1>10, <2>4, <2>5, <2>6, <2>7 DEF RunsAt
  <2> QED BY <2>1, <2>3, <2>6, <2>8 DEF x, h
<1> QED BY <1>7, <1>8, <1>9, <1>10

(***************************************************************************)
(* The derivation.                                                         *)
(***************************************************************************)
LEMMA DeriveFacts ==
  ASSUME NEW s, Base(s), Spared(s), NEW current
  PROVE  Base(DeriveWith(s, current)) /\ Synced(DeriveWith(s, current)) /\ Spared(DeriveWith(s, current))
<1> DEFINE shown == [p \in Paths |-> Outcome(s, current, p)]
           given == [k \in Paths \X Sockets |-> IF k[1] \in Transformers(s) /\ Wired(s, k[1], k[2])
                                                THEN Input(s, current, k[1], k[2]) ELSE None]
           run2 == [p \in Paths |-> RunOf(s, current, p)]
           held2 == [p \in Paths |-> HeldOf(s, current, p)]
           u1 == SyncModules(s)
           u2 == Show(u1, shown)
           u3 == Sync(u2, s.inputs, given)
           u4 == [u3 EXCEPT !.inputs = given, !.run = run2, !.held = held2]
           t == SyncResults(u4)
<1>1. t = DeriveWith(s, current)
  BY DEF DeriveWith
<1>2. /\ s \in State /\ Balances(s) /\ NodesOK(s) /\ EdgesOK(s) /\ RunsOK(s) /\ ResultsOK(s)
  BY DEF Base
<1>3. /\ shown \in [Paths -> Maybe] /\ \A p \in Paths : s.nodes[p] = "none" => shown[p] = None
  BY <1>2, OutcomeTyped DEF Outcome
<1>4. given \in [Paths \X Sockets -> Maybe]
  <2>1. \A p \in Paths, slot \in Sockets : Input(s, current, p, slot) \in Maybe
    BY <1>2, InputTyped DEF Sockets, Slots
  <2> QED BY <2>1 DEF Maybe
<1>5. /\ run2 \in [Paths -> Run \cup {NoRun}] /\ held2 \in [Paths -> Seq(Run)]
      /\ \A p \in Paths : RunsAt(s.nodes[p], run2[p], held2[p])
  BY <1>2, DerivedRuns
<1> HIDE DEF shown, given, run2, held2
<1>6. Remoduled(s, u1)
  BY <1>2, SyncModulesFacts
<1> HIDE DEF u1
<1>7. /\ u1 \in State /\ u1.nodes = s.nodes /\ u1.values = s.values /\ u1.edges = s.edges
      /\ u1.codes = s.codes /\ u1.inputs = s.inputs /\ u1.results = s.results
      /\ ModulesSynced(u1) /\ \A c \in u1.low : c \in s.low \/ u1.refs[c] <= 0
  BY <1>6 DEF Remoduled
<1>8. Balances(u1)
  <2>1. ASSUME NEW c \in Checksums PROVE u1.refs[c] = Total(u1, c)
    <3>1. u1.refs[c] - Total(u1, c) = s.refs[c] - Total(s, c) /\ s.refs[c] = Total(s, c)
      BY <1>2, <1>6 DEF Remoduled, Balances
    <3>2. u1.refs[c] \in Int /\ s.refs[c] \in Int /\ Total(u1, c) \in Int
      BY <1>2, <1>7, Parts, TotalNat
    <3> QED BY <3>1, <3>2
  <2> QED BY <2>1 DEF Balances
<1>9. Shows(u1, u2, shown)
  BY <1>3, <1>7, <1>8, ShowFacts
<1> HIDE DEF u2
<1>10. /\ u2 \in State /\ u2.nodes = s.nodes /\ u2.edges = s.edges /\ u2.codes = s.codes
       /\ u2.modules = u1.modules /\ u2.inputs = s.inputs /\ u2.results = s.results
       /\ \A k \in Paths \X Roles : u2.values[k] = IF k[2] = "current" THEN shown[k[1]] ELSE s.values[k]
       /\ Balances(u2) /\ \A c \in u2.low : c \in u1.low \/ Unclaimed(u2, c)
  BY <1>7, <1>9 DEF Shows
<1>11. \A p \in Paths, role \in Roles \ {"current"} : u2.values[<<p, role>>] = s.values[<<p, role>>]
  BY <1>10
<1>12. /\ \A d \in Checksums : Count(s.inputs, d) \in Nat /\ Count(given, d) \in Nat
       /\ \A k \in DOMAIN s.inputs : s.inputs[k] \in Maybe
  <2>1. DOMAIN given = Paths \X Sockets
    BY <1>4
  <2> QED BY <1>2, <2>1, Parts, Finite, CountNat, TotalNat
<1>13. Synchronized(u2, u3, s.inputs, given)
  BY <1>10, <1>12, SyncFacts
<1> HIDE DEF u3
<1>14. /\ u3 \in State /\ Alike(u2, u3) /\ \A c \in u3.low : c \in u2.low \/ u3.refs[c] <= 0
       /\ \A d \in Checksums : u3.refs[d] = u2.refs[d] + Count(given, d) - Count(s.inputs, d)
  BY <1>13 DEF Synchronized
<1>15. /\ u4.nodes = s.nodes /\ u4.values = u2.values /\ u4.edges = s.edges /\ u4.run = run2
       /\ u4.held = held2 /\ u4.codes = s.codes /\ u4.modules = u1.modules /\ u4.inputs = given
       /\ u4.results = s.results /\ u4.refs = u3.refs /\ u4.low = u3.low
  BY <1>10, <1>14 DEF State, Alike
<1>16. u4 \in State
  BY <1>4, <1>5, <1>14 DEF State
<1> HIDE DEF u4
<1>17. Balances(u4)
  <2>1. ASSUME NEW c \in Checksums PROVE u4.refs[c] = Total(u4, c)
    <3>1. Literals(u4) = Literals(u2)
      BY <1>15 DEF Literals
    <3>2. Total(u4, c) = Count(Literals(u2), c) + Count(u2.codes, c) + Count(u2.modules, c)
                         + Count(given, c) + Count(u2.results, c)
      BY <1>10, <1>15, <3>1 DEF Total
    <3>3. Total(u2, c) = Count(Literals(u2), c) + Count(u2.codes, c) + Count(u2.modules, c)
                         + Count(s.inputs, c) + Count(u2.results, c)
      BY <1>10 DEF Total
    <3>4. u4.refs[c] = Total(u2, c) + Count(given, c) - Count(s.inputs, c)
      BY <1>10, <1>14, <1>15 DEF Balances
    <3> QED BY <1>10, <1>12, <3>2, <3>3, <3>4, TotalNat
  <2> QED BY <2>1 DEF Balances
<1>18. RunsOK(u4) /\ ResultsOK(u4)
  BY <1>2, <1>5, <1>15 DEF RunsOK, ResultsOK
<1>19. Reresulted(u4, t)
  BY <1>16, <1>18, SyncResultsFacts
<1> HIDE DEF t
<1>20. /\ t \in State /\ t.nodes = s.nodes /\ t.values = u2.values /\ t.edges = s.edges /\ t.run = run2
       /\ t.held = held2 /\ t.codes = s.codes /\ t.modules = u1.modules /\ t.inputs = given
       /\ ResultsOK(t) /\ ResultsSynced(t) /\ \A c \in t.low : c \in u4.low \/ Unclaimed(t, c)
  BY <1>15, <1>17, <1>19 DEF Reresulted
<1>21. Balances(t)
  <2>1. ASSUME NEW c \in Checksums PROVE t.refs[c] = Total(t, c)
    <3>1. t.refs[c] - Total(t, c) = u4.refs[c] - Total(u4, c) /\ u4.refs[c] = Total(u4, c)
      BY <1>17, <1>19 DEF Reresulted, Balances
    <3>2. t.refs[c] \in Int /\ u4.refs[c] \in Int /\ Total(t, c) \in Int
      BY <1>16, <1>20, Parts, TotalNat
    <3> QED BY <3>1, <3>2
  <2> QED BY <2>1 DEF Balances
<1>22. /\ \A p \in Paths, role \in Roles \ {"current"} : t.values[<<p, role>>] = s.values[<<p, role>>]
       /\ \A p \in Paths : t.values[<<p, "current">>] = shown[p]
  BY <1>10, <1>11, <1>20 DEF Roles
<1>23. NodesOK(t)
  <2>1. ASSUME NEW p \in Paths
        PROVE  /\ t.codes[p] = t.values[<<p, "code">>]
               /\ t.nodes[p] # "transformer" => t.values[<<p, "module">>] = None
               /\ t.nodes[p] = "none" => \A role \in Roles : t.values[<<p, role>>] = None
    BY <1>2, <1>3, <1>20, <1>22 DEF NodesOK, Roles
  <2> QED BY <2>1 DEF NodesOK
<1>24. EdgesOK(t)
  <2>1. \A p \in Paths, slot \in Slots : Wired(t, p, slot) <=> Wired(s, p, slot)
    BY <1>20 DEF Wired
  <2> QED BY <1>2, <1>20, <1>22, <2>1 DEF EdgesOK, Roles
<1>25. RunsOK(t)
  BY <1>5, <1>20 DEF RunsOK
<1>26. ModulesSynced(t)
  BY <1>7, <1>20, <1>22 DEF ModulesSynced, Roles
<1>27. Spared(t)
  <2>1. UserValues(t) = UserValues(s)
    BY <1>20, <1>22, SameUserValues
  <2>2. \A c : /\ Unclaimed(u1, c) => Unclaimed(t, c)
               /\ Unclaimed(u2, c) => Unclaimed(t, c)
               /\ Unclaimed(u4, c) => Unclaimed(t, c)
    BY <1>7, <1>10, <1>11, <1>15, <1>20, <1>22 DEF Unclaimed, Roles
  <2>3. \A c \in Checksums : u1.refs[c] <= 0 => Unclaimed(u1, c)
    BY <1>7, <1>8, ClaimCounts DEF Balances
  <2>4. \A c \in Checksums : u3.refs[c] <= 0 => Unclaimed(u4, c)
    BY <1>15, <1>16, <1>17, ClaimCounts DEF Balances
  <2>5. ASSUME NEW c \in t.low PROVE c \notin UserValues(t)
    <3>1. c \in Checksums
      BY <1>20, Parts
    <3>2. c \in s.low \/ Unclaimed(t, c)
      BY <1>7, <1>10, <1>14, <1>15, <1>20, <2>2, <2>3, <2>4, <2>5, <3>1
    <3>3. c \in s.low => c \notin UserValues(s)
      BY DEF Spared
    <3>4. Unclaimed(t, c) => c \notin UserValues(t)
      BY <1>20, <1>23, <1>26, <3>1, UnclaimedValue
    <3> QED BY <2>1, <3>2, <3>3, <3>4
  <2> QED BY <2>5 DEF Spared
<1>28. Base(t) /\ Synced(t)
  BY <1>20, <1>21, <1>23, <1>24, <1>25, <1>26 DEF Base, Synced
<1> QED BY <1>1, <1>27, <1>28

(***************************************************************************)
(* The turns.                                                              *)
(***************************************************************************)
\* What the operations leave for the derivation.
Sound(s) == Base(s) /\ Synced(s) /\ Sunk(s)

LEMMA SoundSpared ==
  ASSUME NEW s, Sound(s)
  PROVE  Spared(s)
BY SunkSpared DEF Sound, Base, Synced

\* A working state with nothing noted as low.
Rest(t) == [nodes |-> t.nodes, values |-> t.values, edges |-> t.edges, run |-> t.run, held |-> t.held,
            codes |-> t.codes, modules |-> t.modules, inputs |-> t.inputs, results |-> t.results,
            refs |-> t.refs, low |-> {}]

LEMMA RestFacts ==
  ASSUME NEW t, Base(t), Synced(t)
  PROVE  Base(Rest(t)) /\ Synced(Rest(t))
<1> DEFINE u == Rest(t)
<1>1. t \in State
  BY DEF Base
<1>2. u \in State /\ Alike(t, u) /\ u.refs = t.refs /\ u.low = {}
  <2>1. u \in State
    BY <1>1, Parts DEF State, Rest
  <2> QED BY <2>1 DEF Alike, Rest
<1> HIDE DEF u
<1>3. Base(u)
  <2>1. NodesOK(u) /\ EdgesOK(u) /\ RunsOK(u) /\ ResultsOK(u)
    BY <1>2, FitSame DEF Base, Fit, Alike
  <2>2. Balances(u)
    BY <1>2, AlikeTotal DEF Base, Balances
  <2> QED BY <1>2, <2>1, <2>2 DEF Base
<1>4. Synced(u)
  <2>1. Done(u) = Done(t) /\ \A h : KeyOf(u, h) = KeyOf(t, h)
    BY <1>2 DEF Alike, Done, KeyOf
  <2> QED BY <1>2, <2>1 DEF Synced, ModulesSynced, ResultsSynced, Alike
<1> QED BY <1>3, <1>4 DEF u

\* The end of a turn is the beginning of the next.
LEMMA CommitFacts ==
  ASSUME NEW t, Base(t), Synced(t), Spared(t), Commit(t), lapsed = {}
  PROVE  Base(Now') /\ Synced(Now') /\ lapsed' = {}
<1>1. Now' = Rest(t)
  BY DEF Now, Rest, Commit
<1>2. lapsed' = {}
  BY DEF Commit, Spared
<1> QED BY <1>1, <1>2, RestFacts

LEMMA TurnFacts ==
  ASSUME NEW s, Base(s), Spared(s), Turn(s), lapsed = {}
  PROVE  Base(Now') /\ Synced(Now') /\ lapsed' = {}
<1>1. PICK t \in {Derive(s)} : Commit(t)
  BY DEF Turn
<1>2. Base(t) /\ Synced(t) /\ Spared(t)
  BY <1>1, DeriveFacts DEF Derive
<1> QED BY <1>1, <1>2, CommitFacts

\* The state between two turns.
LEMMA NowFacts ==
  ASSUME RefholdsInv
  PROVE  /\ Sound(Now) /\ Now \in State /\ Now.low = {}
         /\ Now.nodes = nodes /\ Now.values = values /\ Now.edges = edges /\ Now.run = run
         /\ Now.held = held /\ Now.codes = codes /\ Now.modules = modules /\ Now.inputs = inputs
         /\ Now.results = results /\ Now.refs = refs
BY DEF RefholdsInv, Base, Sound, Sunk, Now

\* An operation that is a turn.
LEMMA OpFacts ==
  ASSUME RefholdsInv, NEW s, Sound(s), Op(s)
  PROVE  RefholdsInv'
<1>1. Base(s) /\ Spared(s) /\ Turn(s) /\ lapsed = {} /\ Called
  BY SoundSpared DEF Sound, Op, RefholdsInv
<1>2. Base(Now') /\ Synced(Now') /\ lapsed' = {}
  BY <1>1, TurnFacts
<1>3. calls' \in 0 .. MaxCalls
  BY <1>1, BoundsAssumption DEF Called, RefholdsInv
<1> QED BY <1>2, <1>3 DEF RefholdsInv

(***************************************************************************)
(* The list of claims.                                                     *)
(***************************************************************************)
\* All roles of all nodes: the literals, the codes and the modules.
LEMMA RolesSplit ==
  ASSUME NEW f, DOMAIN f = Paths \X Roles, NEW a, DOMAIN a = Shelf, \A k \in Shelf : a[k] = f[k],
         NEW x, DOMAIN x = Paths, \A p \in Paths : f[<<p, "code">>] = x[p],
         NEW y, DOMAIN y = Paths, \A p \in Paths : f[<<p, "module">>] = y[p], NEW c
  PROVE  Count(f, c) = Count(a, c) + Count(x, c) + Count(y, c)
<1> DEFINE g == [k \in Paths \X {"code"} |-> f[k]]
           h == [k \in Paths \X {"module"} |-> f[k]]
           rest == [k \in Paths \X {"code", "module"} |-> f[k]]
<1>1. /\ DOMAIN g = Paths \X {"code"} /\ DOMAIN h = Paths \X {"module"}
      /\ DOMAIN rest = Paths \X {"code", "module"}
      /\ \A k \in DOMAIN g : g[k] = rest[k] /\ g[k] = f[k]
      /\ \A k \in DOMAIN h : h[k] = rest[k] /\ h[k] = f[k]
      /\ \A k \in DOMAIN rest : rest[k] = f[k]
  OBVIOUS
<1> HIDE DEF g, h, rest
<1>2. Count(g, c) = Count(x, c)
  <2>1. IsColumn(g, "code", x, Paths)
    BY <1>1 DEF IsColumn
  <2> QED BY <2>1, Column
<1>3. Count(h, c) = Count(y, c)
  <2>1. IsColumn(h, "module", y, Paths)
    BY <1>1 DEF IsColumn
  <2> QED BY <2>1, Column
<1>4. Count(f, c) = Count(a, c) + Count(rest, c) /\ Count(rest, c) \in Nat /\ IsFiniteSet(DOMAIN rest)
  <2>1. DOMAIN a \cup DOMAIN rest = DOMAIN f /\ DOMAIN a \cap DOMAIN rest = {}
    BY <1>1 DEF Shelf, Roles
  <2>2. IsFiniteSet(DOMAIN f)
    BY Finite
  <2>3. IsFiniteSet(DOMAIN rest)
    BY <2>1, <2>2, FS_Subset
  <2>4. /\ \A k \in DOMAIN a : a[k] = f[k]
        /\ \A k \in DOMAIN rest : rest[k] = f[k]
    BY <1>1
  <2>5. Count(f, c) = Count(a, c) + Count(rest, c) /\ Count(rest, c) \in Nat
    <3>1. \A k \in DOMAIN a : a[k] = f[k]
      BY <2>4
    <3>2. \A k \in DOMAIN rest : rest[k] = f[k]
      BY <2>4
    <3>3. DOMAIN a \cup DOMAIN rest = DOMAIN f /\ DOMAIN a \cap DOMAIN rest = {}
      BY <2>1
    <3>4. /\ Count(f, c) = Count(a, c) + Count(rest, c)
          /\ Count(a, c) \in Nat /\ Count(rest, c) \in Nat
      BY <2>2, <3>1, <3>2, <3>3, CountSplit
    <3> QED BY <3>4
  <2> QED BY <2>3, <2>5
<1>5. Count(rest, c) = Count(g, c) + Count(h, c)
  <2>1. DOMAIN g \cup DOMAIN h = DOMAIN rest /\ DOMAIN g \cap DOMAIN h = {}
    BY <1>1
  <2> QED BY <1>1, <1>4, <2>1, CountSplit
<1>6. Count(a, c) \in Nat /\ Count(g, c) \in Nat /\ Count(h, c) \in Nat
  BY <1>1, <1>2, <1>3, Finite, CountNat
<1> QED BY <1>2, <1>3, <1>4, <1>5, <1>6

\* The list counts what the tables hold: the held runs that have a result, one
\* for each key of the results.
LEMMA OutsCount ==
  ASSUME NEW s \in State, RunsOK(s), ResultsOK(s), ResultsSynced(s), NEW c \in Checksums
  PROVE  Count(Outs(s), c) = Count(s.results, c)
<1> DEFINE f == Outs(s)
           b == [h \in At(f, c) |-> KeyOf(s, h)]
<1>1. \A h \in At(f, c) : h \in Done(s) /\ s.held[h[1]][h[2]].out = c
  BY DEF At, Outs, Done
<1>2. \A h \in Done(s) : s.held[h[1]][h[2]].out = c => h \in At(f, c)
  BY DEF At, Outs, Done
<1>3. DOMAIN s.results = {KeyOf(s, h) : h \in Done(s)} /\ \A k \in DOMAIN s.results : s.results[k] = Result[k[2]]
  BY DEF ResultsOK, ResultsSynced
<1>4. \A k : k \in At(s.results, c) <=> k \in DOMAIN s.results /\ s.results[k] = c
  BY DEF At
<1>5. IsFiniteSet(DOMAIN s.results)
  BY Domains
<1> HIDE DEF f
<1>6. b \in [At(f, c) -> At(s.results, c)]
  <2>1. ASSUME NEW h \in At(f, c) PROVE KeyOf(s, h) \in At(s.results, c)
    <3>1. h \in Done(s) /\ s.held[h[1]][h[2]].out = c
      BY <1>1
    <3>2. KeyOf(s, h) \in DOMAIN s.results /\ c = Result[KeyOf(s, h)[2]]
      BY <1>3, <3>1, DoneFacts
    <3> QED BY <1>3, <1>4, <3>2
  <2> QED BY <2>1
<1>7. ASSUME NEW j \in At(f, c), NEW k \in At(f, c), b[j] = b[k] PROVE j = k
  <2>1. j \in Done(s) /\ k \in Done(s) /\ KeyOf(s, j) = KeyOf(s, k)
    BY <1>1, <1>7
  <2>2. /\ j[1] \in Paths /\ j[2] \in DOMAIN s.held[j[1]] /\ j = <<j[1], j[2]>>
        /\ KeyOf(s, j) = <<j[1], Demand(s.held[j[1]][j[2]])>>
    BY <2>1, DoneFacts
  <2>3. /\ k[1] \in Paths /\ k[2] \in DOMAIN s.held[k[1]] /\ k = <<k[1], k[2]>>
        /\ KeyOf(s, k) = <<k[1], Demand(s.held[k[1]][k[2]])>>
    BY <2>1, DoneFacts
  <2>4. j[1] = k[1] /\ Demand(s.held[j[1]][j[2]]) = Demand(s.held[j[1]][k[2]])
    <3>1. <<j[1], Demand(s.held[j[1]][j[2]])>> = <<k[1], Demand(s.held[k[1]][k[2]])>>
      BY <2>1, <2>2, <2>3
    <3>2. j[1] = k[1] /\ Demand(s.held[j[1]][j[2]]) = Demand(s.held[k[1]][k[2]])
      BY <3>1
    <3> QED BY <3>2
  <2>5. Apart(s.held[j[1]])
    BY <2>2 DEF RunsOK, RunsAt
  <2>6. j[2] = k[2]
    BY <2>2, <2>3, <2>4, <2>5 DEF Apart
  <2> QED BY <2>2, <2>3, <2>4, <2>6
<1>8. ASSUME NEW k \in At(s.results, c) PROVE \E h \in At(f, c) : b[h] = k
  <2>1. PICK h \in Done(s) : KeyOf(s, h) = k
    BY <1>3, <1>4
  <2>2. s.held[h[1]][h[2]].out = c
    BY <1>3, <1>4, <2>1, DoneFacts
  <2>3. h \in At(f, c)
    BY <1>2, <2>2
  <2> QED BY <2>1, <2>3
<1> HIDE DEF b
<1>9. Count(f, c) = Count(s.results, c)
  BY <1>5, <1>6, <1>7, <1>8, CountPaired
<1> QED BY <1>9 DEF f

LEMMA ListedTotal ==
  ASSUME NEW s \in State, NodesOK(s), EdgesOK(s), RunsOK(s), ResultsOK(s), Synced(s), NEW c \in Checksums
  PROVE  /\ Listed(s, c) = Total(s, c)
         /\ Count(Listing(s), c) \in Nat /\ Count(s.inputs, c) \in Nat /\ Count(Outs(s), c) \in Nat
<1> DEFINE f == Listing(s)
           a == Literals(s)
<1>1. DOMAIN f = Paths \X Roles /\ DOMAIN a = Shelf
  BY DEF Listing, Literals
<1>2. \A k \in Shelf : a[k] = f[k]
  BY DEF Listing, Literals, Shelf, Roles
<1>3. \A p \in Paths : f[<<p, "code">>] = s.codes[p]
  <2>1. ASSUME NEW p \in Paths PROVE f[<<p, "code">>] = s.codes[p]
    <3>1. f[<<p, "code">>] = IF Wired(s, p, "code") THEN None ELSE s.values[<<p, "code">>]
      BY DEF Listing, Roles
    <3>2. Wired(s, p, "code") => s.values[<<p, "code">>] = None
      BY DEF EdgesOK, Slots
    <3>3. s.codes[p] = s.values[<<p, "code">>]
      BY DEF NodesOK
    <3> QED BY <3>1, <3>2, <3>3
  <2> QED BY <2>1
<1>4. \A p \in Paths : f[<<p, "module">>] = s.modules[p]
  BY DEF Listing, Roles, Synced, ModulesSynced
<1>5. DOMAIN s.codes = Paths /\ DOMAIN s.modules = Paths
  BY Parts
<1> HIDE DEF f, a
<1>6. Count(f, c) = Count(a, c) + Count(s.codes, c) + Count(s.modules, c)
  BY <1>1, <1>2, <1>3, <1>4, <1>5, RolesSplit
<1>7. Count(Outs(s), c) = Count(s.results, c)
  BY OutsCount DEF Synced
<1>8. /\ Count(a, c) \in Nat /\ Count(s.codes, c) \in Nat /\ Count(s.modules, c) \in Nat
      /\ Count(s.inputs, c) \in Nat /\ Count(s.results, c) \in Nat
  BY TotalNat DEF a
<1> QED BY <1>6, <1>7, <1>8 DEF Listed, Total, f, a

(***************************************************************************)
(* The parts that operations share.                                        *)
(***************************************************************************)
\* The books of a state are those of another, the tables of literals, codes
\* and modules having changed as the references have.
LEMMA Rebalanced ==
  ASSUME NEW s \in State, NEW t \in State, Balances(s), t.inputs = s.inputs, t.results = s.results,
         \A c \in Checksums :
           t.refs[c] - s.refs[c] = (Count(Literals(t), c) - Count(Literals(s), c))
                                   + (Count(t.codes, c) - Count(s.codes, c))
                                   + (Count(t.modules, c) - Count(s.modules, c))
  PROVE  Balances(t)
<1>1. ASSUME NEW c \in Checksums PROVE t.refs[c] = Total(t, c)
  <2>1. /\ Count(Literals(s), c) \in Nat /\ Count(s.codes, c) \in Nat /\ Count(s.modules, c) \in Nat
        /\ Count(s.inputs, c) \in Nat /\ Count(s.results, c) \in Nat
        /\ Count(Literals(t), c) \in Nat /\ Count(t.codes, c) \in Nat /\ Count(t.modules, c) \in Nat
    BY TotalNat
  <2>2. s.refs[c] \in Int /\ t.refs[c] \in Int
    BY Parts
  <2>3. s.refs[c] = Count(Literals(s), c) + Count(s.codes, c) + Count(s.modules, c)
                    + Count(s.inputs, c) + Count(s.results, c)
    BY DEF Balances, Total
  <2>4. Total(t, c) = Count(Literals(t), c) + Count(t.codes, c) + Count(t.modules, c)
                      + Count(s.inputs, c) + Count(s.results, c)
    BY DEF Total
  <2> QED BY <2>1, <2>2, <2>3, <2>4
<1> QED BY <1>1 DEF Balances

LEMMA StaySound ==
  ASSUME NEW s, Sound(s), NEW t \in State, t.held = s.held, t.results = s.results,
         Sunk(t), NodesOK(t), EdgesOK(t), RunsOK(t), ModulesSynced(t), Balances(t)
  PROVE  Sound(t)
<1>1. ResultsOK(t)
  BY DEF Sound, Base, ResultsOK
<1>2. ResultsSynced(t)
  <2>1. Done(t) = Done(s) /\ \A h : KeyOf(t, h) = KeyOf(s, h)
    BY DEF Done, KeyOf
  <2> QED BY <2>1 DEF Sound, Synced, ResultsSynced
<1> QED BY <1>1, <1>2 DEF Sound, Base, Synced

\* A new node.
Grown(s, t, p, kind) ==
  /\ Sound(t) /\ t.low = s.low /\ t.values = s.values /\ t.edges = s.edges /\ t.codes = s.codes
  /\ t.nodes = [s.nodes EXCEPT ![p] = kind] /\ t.run = s.run /\ t.held = s.held
  /\ t.modules = s.modules /\ t.refs = s.refs /\ t.inputs = s.inputs /\ t.results = s.results

LEMMA WithFacts ==
  ASSUME NEW s, Sound(s), NEW p \in Paths, s.nodes[p] = "none", NEW kind \in {"cell", "transformer"}
  PROVE  Grown(s, With(s, {p}, kind), p, kind)
<1> DEFINE t == With(s, {p}, kind)
           nodes2 == [q \in Paths |-> IF q \in {p} THEN kind ELSE s.nodes[q]]
           values2 == [k \in Paths \X Roles |-> IF k[1] \in {p} THEN None ELSE s.values[k]]
<1>1. /\ s \in State /\ NodesOK(s) /\ EdgesOK(s) /\ RunsOK(s) /\ Balances(s) /\ ModulesSynced(s) /\ Sunk(s)
  BY DEF Sound, Base, Synced
<1>2. t = [s EXCEPT !.nodes = nodes2, !.values = values2]
  BY DEF With
<1>3. nodes2 = [s.nodes EXCEPT ![p] = kind] /\ nodes2 \in [Paths -> Kinds]
  BY <1>1, Parts DEF Kinds
<1>4. values2 = s.values
  <2>1. s.values \in [Paths \X Roles -> Maybe]
    BY <1>1, Parts
  <2>2. \A role \in Roles : s.values[<<p, role>>] = None
    BY <1>1 DEF NodesOK
  <2>3. \A k \in Paths \X Roles : values2[k] = s.values[k]
    BY <2>2
  <2> QED BY <2>1, <2>3
<1> HIDE DEF nodes2, values2, t
<1>5. t.nodes = nodes2 /\ t.values = s.values /\ t.edges = s.edges /\ t.run = s.run /\ t.held = s.held
      /\ t.codes = s.codes /\ t.modules = s.modules /\ t.inputs = s.inputs /\ t.results = s.results
      /\ t.refs = s.refs /\ t.low = s.low
  BY <1>1, <1>2, <1>4 DEF State
<1>6. t \in State
  BY <1>1, <1>2, <1>3, <1>4, Parts DEF State
<1>7. \A q \in Paths : t.nodes[q] = IF q = p THEN kind ELSE s.nodes[q]
  BY <1>1, <1>3, <1>5, Parts
<1>8. NodesOK(t) /\ ModulesSynced(t)
  <2>1. ASSUME NEW q \in Paths
        PROVE  /\ t.codes[q] = t.values[<<q, "code">>]
               /\ t.nodes[q] # "transformer" => t.values[<<q, "module">>] = None
               /\ t.nodes[q] = "none" => \A role \in Roles : t.values[<<q, role>>] = None
    BY <1>1, <1>5, <1>7 DEF NodesOK, Roles
  <2> QED BY <1>1, <1>5, <2>1 DEF NodesOK, ModulesSynced
<1>9. EdgesOK(t)
  <2>1. ASSUME NEW q \in Paths, NEW slot \in Slots, Wired(t, q, slot)
        PROVE  /\ t.nodes[q] # "none" /\ t.nodes[t.edges[<<q, slot>>]] # "none"
               /\ slot = "code" => t.values[<<q, "code">>] = None
    <3>1. Wired(s, q, slot) /\ t.edges[<<q, slot>>] = s.edges[<<q, slot>>]
      BY <1>5, <2>1 DEF Wired
    <3>2. s.edges[<<q, slot>>] \in Paths
      <4>1. s.edges \in [Paths \X Slots -> Paths \cup {None}]
        BY <1>1, Parts
      <4> QED BY <3>1, <4>1 DEF Wired
    <3>3. /\ s.nodes[q] # "none" /\ s.nodes[s.edges[<<q, slot>>]] # "none"
          /\ slot = "code" => s.values[<<q, "code">>] = None
      BY <1>1, <3>1 DEF EdgesOK
    <3> QED BY <1>5, <1>7, <3>1, <3>2, <3>3
  <2> QED BY <2>1 DEF EdgesOK
<1>10. RunsOK(t)
  <2>1. ASSUME NEW q \in Paths PROVE RunsAt(t.nodes[q], t.run[q], t.held[q])
    BY <1>1, <1>5, <1>7 DEF RunsOK, RunsAt
  <2> QED BY <2>1 DEF RunsOK
<1>11. Balances(t) /\ Sunk(t)
  <2>1. \A c : Total(t, c) = Total(s, c)
    BY <1>5 DEF Total, Literals
  <2> QED BY <1>1, <1>5, <2>1 DEF Balances, Sunk
<1>12. Sound(t)
  BY <1>5, <1>6, <1>8, <1>9, <1>10, <1>11, StaySound
<1>13. Grown(s, t, p, kind)
  BY <1>3, <1>5, <1>12 DEF Grown
<1> QED BY <1>13 DEF t

\* A literal, or what a node shows, replaced by another.
Put(s, k, c) == [Release(Retain(s, c), s.values[k]) EXCEPT !.values[k] = c]
Laid(s, t, k, c) ==
  /\ Sound(t) /\ t.values = [s.values EXCEPT ![k] = c] /\ t.nodes = s.nodes /\ t.edges = s.edges
  /\ t.run = s.run /\ t.held = s.held /\ t.codes = s.codes /\ t.modules = s.modules
  /\ t.inputs = s.inputs /\ t.results = s.results

LEMMA PutFacts ==
  ASSUME NEW s, Sound(s), NEW k \in Shelf, NEW c \in Maybe,
         c = None \/ (s.low = {} /\ s.nodes[k[1]] # "none")
  PROVE  Laid(s, Put(s, k, c), k, c)
<1> DEFINE u == Retain(s, c)
           v == Release(u, s.values[k])
           t == Put(s, k, c)
           values2 == [s.values EXCEPT ![k] = c]
<1>1. /\ s \in State /\ NodesOK(s) /\ EdgesOK(s) /\ RunsOK(s) /\ Balances(s) /\ ModulesSynced(s) /\ Sunk(s)
  BY DEF Sound, Base, Synced
<1>2. k \in Paths \X Roles /\ s.values \in [Paths \X Roles -> Maybe] /\ s.values[k] \in Maybe
      /\ values2 \in [Paths \X Roles -> Maybe]
      /\ k[1] \in Paths /\ k[2] \in {"root", "pin", "current"} /\ k = <<k[1], k[2]>>
  <2>1. k[1] \in Paths /\ k[2] \in {"root", "pin", "current"} /\ k = <<k[1], k[2]>>
    BY DEF Shelf
  <2>2. k \in Paths \X Roles
    BY <2>1 DEF Roles
  <2>3. s.values \in [Paths \X Roles -> Maybe]
    BY <1>1, Parts
  <2> QED BY <2>1, <2>2, <2>3
<1>3. t = [v EXCEPT !.values = [v.values EXCEPT ![k] = c]]
  <2>1. t = [Release(Retain(s, c), s.values[k]) EXCEPT !.values[k] = c]
    BY DEF Put
  <2> QED BY <2>1
<1>4. Retained(s, u, c)
  BY <1>1, RetainFacts
<1>5. Sunk(u)
  <2>1. CASE c = None
    BY <1>1, <2>1 DEF Retain
  <2>2. CASE s.low = {}
    BY <1>4, <2>2 DEF Retained, Sunk
  <2> QED BY <2>1, <2>2
<1> HIDE DEF u
<1>6. u \in State /\ Alike(s, u) /\ \A d \in Checksums : u.refs[d] = s.refs[d] + Ind(c, d)
  BY <1>4 DEF Retained
<1>7. Released(u, v, s.values[k])
  BY <1>2, <1>6, ReleaseFacts
<1> HIDE DEF v
<1>8. /\ v \in State /\ Alike(s, v) /\ Sunk(v)
      /\ \A d \in Checksums : v.refs[d] = s.refs[d] + Ind(c, d) - Ind(s.values[k], d)
  <2>1. v \in State /\ Alike(s, v) /\ Sunk(v)
    BY <1>5, <1>6, <1>7 DEF Released, Alike, Sinks
  <2>2. ASSUME NEW d \in Checksums PROVE v.refs[d] = s.refs[d] + Ind(c, d) - Ind(s.values[k], d)
    <3>1. v.refs[d] = u.refs[d] - Ind(s.values[k], d) /\ u.refs[d] = s.refs[d] + Ind(c, d)
      BY <1>6, <1>7 DEF Released
    <3>2. s.refs[d] \in Int /\ Ind(c, d) \in Int /\ Ind(s.values[k], d) \in Int
      BY <1>1, Parts DEF Ind
    <3> QED BY <3>1, <3>2
  <2> QED BY <2>1, <2>2
<1>9. t = [v EXCEPT !.values = values2]
  <2>1. v.values = s.values
    BY <1>8 DEF Alike
  <2> QED BY <1>3, <2>1
<1> HIDE DEF values2, t
<1>10. /\ t.values = values2 /\ t.nodes = s.nodes /\ t.edges = s.edges /\ t.run = s.run /\ t.held = s.held
       /\ t.codes = s.codes /\ t.modules = s.modules /\ t.inputs = s.inputs /\ t.results = s.results
       /\ t.refs = v.refs /\ t.low = v.low
  BY <1>8, <1>9 DEF State, Alike
<1>11. t \in State
  BY <1>2, <1>8, <1>9 DEF State
<1>12. values2[k] = c /\ \A j \in Paths \X Roles : j # k => values2[j] = s.values[j]
  BY <1>2 DEF values2
<1>13. \A q \in Paths : /\ values2[<<q, "code">>] = s.values[<<q, "code">>]
                        /\ values2[<<q, "module">>] = s.values[<<q, "module">>]
  BY <1>2, <1>12 DEF Roles
<1>14. NodesOK(t) /\ ModulesSynced(t)
  <2>1. ASSUME NEW q \in Paths, s.nodes[q] = "none" PROVE \A role \in Roles : values2[<<q, role>>] = None
    <3>1. \A role \in Roles : s.values[<<q, role>>] = None
      BY <1>1, <2>1 DEF NodesOK
    <3>2. \A role \in Roles : <<q, role>> = k => c = None
      BY <2>1
    <3> QED BY <1>12, <3>1, <3>2
  <2> QED BY <1>1, <1>10, <1>13, <2>1 DEF NodesOK, ModulesSynced
<1>15. EdgesOK(t)
  <2>1. \A q \in Paths, slot \in Slots : Wired(t, q, slot) <=> Wired(s, q, slot)
    BY <1>10 DEF Wired
  <2> QED BY <1>1, <1>10, <1>13, <2>1 DEF EdgesOK
<1>16. RunsOK(t)
  BY <1>1, <1>10 DEF RunsOK
<1>17. Balances(t)
  <2>1. \A d : Count(Literals(t), d) = Count(Literals(s), d) - Ind(s.values[k], d) + Ind(c, d)
    BY <1>1, <1>10, ShelfOff DEF values2
  <2>2. ASSUME NEW d \in Checksums
        PROVE  t.refs[d] - s.refs[d] = (Count(Literals(t), d) - Count(Literals(s), d))
                                       + (Count(t.codes, d) - Count(s.codes, d))
                                       + (Count(t.modules, d) - Count(s.modules, d))
    <3>1. t.refs[d] = s.refs[d] + Ind(c, d) - Ind(s.values[k], d)
      BY <1>8, <1>10
    <3>2. Ind(c, d) \in Int /\ Ind(s.values[k], d) \in Int /\ s.refs[d] \in Int
      BY <1>1, Parts DEF Ind
    <3>3. Count(Literals(s), d) \in Nat /\ Count(s.codes, d) \in Nat /\ Count(s.modules, d) \in Nat
      BY <1>1, TotalNat
    <3>4. t.codes = s.codes /\ t.modules = s.modules
      BY <1>10
    <3> QED BY <2>1, <3>1, <3>2, <3>3, <3>4
  <2> QED BY <1>1, <1>10, <1>11, <2>2, Rebalanced
<1>18. Sunk(t)
  BY <1>8, <1>10 DEF Sunk
<1>19. Sound(t)
  BY <1>10, <1>11, <1>14, <1>15, <1>16, <1>17, <1>18, StaySound
<1>20. Laid(s, t, k, c)
  BY <1>10, <1>19 DEF Laid, values2
<1> QED BY <1>20 DEF t

\* Edges that go, and one that comes.
Rewired(s, t) ==
  /\ Sound(t) /\ t.low = s.low /\ t.values = s.values /\ t.nodes = s.nodes /\ t.codes = s.codes
  /\ t.run = s.run /\ t.held = s.held /\ t.modules = s.modules /\ t.refs = s.refs
  /\ t.inputs = s.inputs /\ t.results = s.results

LEMMA RewireFacts ==
  ASSUME NEW s, Sound(s), NEW edges2 \in [Paths \X Slots -> Paths \cup {None}],
         \A p \in Paths, slot \in Slots : edges2[<<p, slot>>] # None =>
           /\ s.nodes[p] # "none" /\ s.nodes[edges2[<<p, slot>>]] # "none"
           /\ slot = "code" => s.values[<<p, "code">>] = None
  PROVE  Rewired(s, [s EXCEPT !.edges = edges2]) /\ [s EXCEPT !.edges = edges2].edges = edges2
<1> DEFINE t == [s EXCEPT !.edges = edges2]
<1>1. /\ s \in State /\ NodesOK(s) /\ RunsOK(s) /\ Balances(s) /\ ModulesSynced(s) /\ Sunk(s)
  BY DEF Sound, Base, Synced
<1>2. t = [s EXCEPT !.edges = edges2]
  OBVIOUS
<1> HIDE DEF t
<1>3. /\ t.edges = edges2 /\ t.values = s.values /\ t.nodes = s.nodes /\ t.run = s.run /\ t.held = s.held
      /\ t.codes = s.codes /\ t.modules = s.modules /\ t.inputs = s.inputs /\ t.results = s.results
      /\ t.refs = s.refs /\ t.low = s.low
  BY <1>1, <1>2 DEF State
<1>4. t \in State
  BY <1>1, <1>2 DEF State
<1>5. NodesOK(t) /\ RunsOK(t) /\ ModulesSynced(t) /\ Sunk(t)
  BY <1>1, <1>3 DEF NodesOK, RunsOK, ModulesSynced, Sunk
<1>6. EdgesOK(t)
  BY <1>3 DEF EdgesOK, Wired
<1>7. Balances(t)
  BY <1>1, <1>3 DEF Balances, Total, Literals
<1>8. Sound(t)
  BY <1>3, <1>4, <1>5, <1>6, <1>7, StaySound
<1>9. Rewired(s, t) /\ t.edges = edges2
  BY <1>3, <1>8 DEF Rewired
<1> QED BY <1>9 DEF t

LEMMA RemoveEdgesFacts ==
  ASSUME NEW s, Sound(s), NEW p \in Paths, NEW slots
  PROVE  /\ Rewired(s, RemoveEdges(s, p, slots))
         /\ \A q \in Paths, slot \in Slots :
              RemoveEdges(s, p, slots).edges[<<q, slot>>]
                = IF q = p /\ slot \in slots THEN None ELSE s.edges[<<q, slot>>]
<1> DEFINE edges2 == [k \in Paths \X Slots |-> IF k[1] = p /\ k[2] \in slots THEN None ELSE s.edges[k]]
<1>1. edges2 \in [Paths \X Slots -> Paths \cup {None}]
  BY Parts DEF Sound, Base
<1>2. \A q \in Paths, slot \in Slots :
        edges2[<<q, slot>>] = IF q = p /\ slot \in slots THEN None ELSE s.edges[<<q, slot>>]
  OBVIOUS
<1>3. RemoveEdges(s, p, slots) = [s EXCEPT !.edges = edges2]
  BY DEF RemoveEdges
<1> HIDE DEF edges2
<1>4. ASSUME NEW q \in Paths, NEW slot \in Slots, edges2[<<q, slot>>] # None
      PROVE  /\ s.nodes[q] # "none" /\ s.nodes[edges2[<<q, slot>>]] # "none"
             /\ slot = "code" => s.values[<<q, "code">>] = None
  BY <1>2, <1>4 DEF Sound, Base, EdgesOK, Wired
<1>5. Rewired(s, [s EXCEPT !.edges = edges2]) /\ [s EXCEPT !.edges = edges2].edges = edges2
  BY <1>1, <1>4, RewireFacts
<1> QED BY <1>2, <1>3, <1>5

LEMMA AddEdgeFacts ==
  ASSUME NEW s, Sound(s), NEW p \in Paths, NEW source \in Paths, NEW slot \in Slots,
         s.nodes[p] # "none", s.nodes[source] # "none", slot = "code" => s.values[<<p, "code">>] = None
  PROVE  Rewired(s, AddEdge(s, source, p, slot))
<1> DEFINE edges2 == [s.edges EXCEPT ![<<p, slot>>] = source]
<1>1. s.edges \in [Paths \X Slots -> Paths \cup {None}] /\ edges2 \in [Paths \X Slots -> Paths \cup {None}]
  BY Parts DEF Sound, Base
<1>2. \A q \in Paths, other \in Slots :
        edges2[<<q, other>>] = IF q = p /\ other = slot THEN source ELSE s.edges[<<q, other>>]
  BY <1>1
<1>3. AddEdge(s, source, p, slot) = [s EXCEPT !.edges = edges2]
  BY DEF AddEdge
<1> HIDE DEF edges2
<1>4. ASSUME NEW q \in Paths, NEW other \in Slots, edges2[<<q, other>>] # None
      PROVE  /\ s.nodes[q] # "none" /\ s.nodes[edges2[<<q, other>>]] # "none"
             /\ other = "code" => s.values[<<q, "code">>] = None
  BY <1>2, <1>4 DEF Sound, Base, EdgesOK, Wired
<1>5. Rewired(s, [s EXCEPT !.edges = edges2])
  BY <1>1, <1>4, RewireFacts
<1> QED BY <1>3, <1>5

\* What a transformer holds replaced: its code, its module and its pin.
Held(t, p, code, module, pin) ==
  /\ t.values[<<p, "code">>] = code /\ t.values[<<p, "module">>] = module /\ t.values[<<p, "pin">>] = pin
  /\ t.codes[p] = code /\ t.modules[p] = module
Besides(s, t, p) ==
  /\ \A q \in Paths, role \in Roles :
       (q = p => role \notin {"code", "module", "pin"}) => t.values[<<q, role>>] = s.values[<<q, role>>]
  /\ \A q \in Paths \ {p} : t.codes[q] = s.codes[q] /\ t.modules[q] = s.modules[q]
  /\ t.nodes = s.nodes /\ t.run = s.run /\ t.held = s.held /\ t.inputs = s.inputs /\ t.results = s.results

LEMMA HeldFacts ==
  ASSUME NEW s, Sound(s), NEW t \in State, NEW p \in Paths, s.nodes[p] = "transformer",
         NEW code \in Maybe, NEW module \in Maybe, NEW pin \in Maybe,
         Held(t, p, code, module, pin), Besides(s, t, p), EdgesOK(t), Sunk(t),
         \A d \in Checksums : t.refs[d] = s.refs[d] + Ind(code, d) + Ind(module, d) + Ind(pin, d)
           - Ind(s.codes[p], d) - Ind(s.modules[p], d) - Ind(s.values[<<p, "pin">>], d)
  PROVE  Sound(t)
<1>1. /\ s \in State /\ NodesOK(s) /\ RunsOK(s) /\ Balances(s) /\ ModulesSynced(s)
  BY DEF Sound, Base, Synced
<1>2. t.nodes = s.nodes /\ t.run = s.run /\ t.held = s.held /\ t.inputs = s.inputs /\ t.results = s.results
  BY DEF Besides
<1>3. \A q \in Paths : /\ t.codes[q] = IF q = p THEN code ELSE s.codes[q]
                       /\ t.modules[q] = IF q = p THEN module ELSE s.modules[q]
                       /\ t.values[<<q, "code">>] = IF q = p THEN code ELSE s.values[<<q, "code">>]
                       /\ t.values[<<q, "module">>] = IF q = p THEN module ELSE s.values[<<q, "module">>]
  BY DEF Held, Besides, Roles
<1>4. NodesOK(t) /\ ModulesSynced(t)
  <2>1. ASSUME NEW q \in Paths, t.nodes[q] = "none", NEW role \in Roles PROVE t.values[<<q, role>>] = None
    <3>1. q # p /\ s.nodes[q] = "none"
      BY <1>2, <2>1
    <3> QED BY <1>1, <2>1, <3>1 DEF Besides, NodesOK
  <2>2. ASSUME NEW q \in Paths, t.nodes[q] # "transformer" PROVE t.values[<<q, "module">>] = None
    BY <1>1, <1>2, <1>3, <2>2 DEF NodesOK
  <2>3. ASSUME NEW q \in Paths
        PROVE  t.codes[q] = t.values[<<q, "code">>] /\ t.modules[q] = t.values[<<q, "module">>]
    BY <1>1, <1>3 DEF NodesOK, ModulesSynced
  <2> QED BY <2>1, <2>2, <2>3 DEF NodesOK, ModulesSynced
<1>5. RunsOK(t)
  BY <1>1, <1>2 DEF RunsOK
<1>6. ASSUME NEW d
      PROVE  Count(Literals(t), d) = Count(Literals(s), d) - Ind(s.values[<<p, "pin">>], d) + Ind(pin, d)
  <2> DEFINE f == Literals(s)
             g == Literals(t)
             j == <<p, "pin">>
  <2>1. DOMAIN f = Shelf /\ DOMAIN g = Shelf /\ j \in DOMAIN f /\ IsFiniteSet(DOMAIN f)
    BY Finite DEF Literals, Shelf
  <2>2. f[j] = s.values[<<p, "pin">>] /\ g[j] = pin
    BY DEF Literals, Shelf, Held
  <2>3. ASSUME NEW k \in DOMAIN f, k # j PROVE g[k] = f[k]
    <3>1. PICK q \in Paths, role \in {"root", "pin", "current"} : k = <<q, role>>
      BY DEF Literals, Shelf
    <3>2. t.values[<<q, role>>] = s.values[<<q, role>>]
      BY <2>3, <3>1 DEF Besides, Roles
    <3> QED BY <2>1, <3>1, <3>2 DEF Literals, Shelf
  <2> HIDE DEF f, g, j
  <2>4. Count(g, d) = Count(f, d) - Ind(f[j], d) + Ind(g[j], d)
    BY <2>1, <2>3, CountOff
  <2> QED BY <2>2, <2>4 DEF f, g
<1>7. ASSUME NEW d
      PROVE  /\ Count(t.codes, d) = Count(s.codes, d) - Ind(s.codes[p], d) + Ind(code, d)
             /\ Count(t.modules, d) = Count(s.modules, d) - Ind(s.modules[p], d) + Ind(module, d)
  <2>1. /\ s.codes \in [Paths -> Maybe] /\ s.modules \in [Paths -> Maybe]
        /\ t.codes \in [Paths -> Maybe] /\ t.modules \in [Paths -> Maybe]
    BY <1>1, Parts
  <2>2. /\ DOMAIN s.codes = Paths /\ DOMAIN t.codes = Paths /\ IsFiniteSet(Paths)
        /\ \A q \in Paths : q # p => t.codes[q] = s.codes[q]
    BY <1>3, <2>1, Finite
  <2>3. /\ DOMAIN s.modules = Paths /\ DOMAIN t.modules = Paths /\ IsFiniteSet(Paths)
        /\ \A q \in Paths : q # p => t.modules[q] = s.modules[q]
    BY <1>3, <2>1, Finite
  <2>4. Count(t.codes, d) = Count(s.codes, d) - Ind(s.codes[p], d) + Ind(t.codes[p], d)
    BY <2>2, CountOff
  <2>5. Count(t.modules, d) = Count(s.modules, d) - Ind(s.modules[p], d) + Ind(t.modules[p], d)
    BY <2>3, CountOff
  <2> QED BY <1>3, <2>4, <2>5
<1>8. Balances(t)
  <2>1. ASSUME NEW d \in Checksums
        PROVE  t.refs[d] - s.refs[d] = (Count(Literals(t), d) - Count(Literals(s), d))
                                       + (Count(t.codes, d) - Count(s.codes, d))
                                       + (Count(t.modules, d) - Count(s.modules, d))
    <3>1. /\ Ind(code, d) \in Int /\ Ind(module, d) \in Int /\ Ind(pin, d) \in Int
          /\ Ind(s.codes[p], d) \in Int /\ Ind(s.modules[p], d) \in Int /\ Ind(s.values[<<p, "pin">>], d) \in Int
      BY DEF Ind
    <3>2. s.refs[d] \in Int
      BY <1>1, Parts
    <3>3. Count(Literals(s), d) \in Nat /\ Count(s.codes, d) \in Nat /\ Count(s.modules, d) \in Nat
      BY <1>1, TotalNat
    <3> QED BY <1>6, <1>7, <3>1, <3>2, <3>3
  <2> QED BY <1>1, <1>2, <2>1, Rebalanced
<1> QED BY <1>2, <1>4, <1>5, <1>8, StaySound

LEMMA LiteralFacts ==
  ASSUME NEW s, Sound(s), NEW p \in Paths, NEW slot \in {"root", "pin"}, NEW c \in Maybe,
         s.nodes[p] # "none", c = None \/ s.low = {}
  PROVE  /\ Sound(SetLiteral(s, p, slot, c)) /\ SetLiteral(s, p, slot, c).nodes = s.nodes
         /\ SetLiteral(s, p, slot, c).run = s.run
<1> DEFINE k == <<p, slot>>
           t == Put(s, k, c)
<1>1. k \in Shelf /\ k[1] = p
  BY DEF Shelf
<1>2. SetLiteral(s, p, slot, c) = RemoveEdges(t, p, {slot})
  BY DEF SetLiteral, Put
<1> HIDE DEF k
<1>3. Laid(s, t, k, c)
  BY <1>1, PutFacts
<1> HIDE DEF t
<1>4. Sound(t) /\ t.nodes = s.nodes /\ t.run = s.run
  BY <1>3 DEF Laid
<1>5. Rewired(t, RemoveEdges(t, p, {slot}))
  BY <1>4, RemoveEdgesFacts
<1> QED BY <1>2, <1>4, <1>5 DEF Rewired

LEMMA EndpointFacts ==
  ASSUME NEW s, Sound(s), NEW p \in Paths, NEW source \in Paths, NEW slot \in {"root", "pin"},
         s.nodes[p] # "none", s.nodes[source] # "none"
  PROVE  Sound(AddEndpointEdge(s, source, p, slot))
<1> DEFINE k == <<p, slot>>
           u == AddEdge(s, source, p, slot)
<1>1. k \in Shelf /\ None \in Maybe /\ slot \in Slots /\ slot # "code"
  BY DEF Shelf, Maybe, Slots
<1>2. Rewired(s, u)
  BY <1>1, AddEdgeFacts
<1>3. AddEndpointEdge(s, source, p, slot) = [Release(u, s.values[k]) EXCEPT !.values[k] = None]
  BY DEF AddEndpointEdge
<1> HIDE DEF u, k
<1>4. Sound(u) /\ u.values = s.values
  BY <1>2 DEF Rewired
<1>5. Put(u, k, None) = [Release(u, s.values[k]) EXCEPT !.values[k] = None]
  BY <1>4 DEF Put, Retain
<1>6. Laid(u, Put(u, k, None), k, None)
  BY <1>1, <1>4, PutFacts
<1> QED BY <1>3, <1>5, <1>6 DEF Laid

(***************************************************************************)
(* The operations.                                                         *)
(***************************************************************************)
LEMMA CreateCellStep ==
  ASSUME RefholdsInv, NEW p \in Paths, NEW c \in Maybe, CreateCell(p, c)
  PROVE  RefholdsInv'
<1> DEFINE u == With(Now, {p}, "cell")
           t == SetLiteral(u, p, "root", c)
<1>1. Sound(Now) /\ Now \in State /\ Now.low = {} /\ Now.nodes[p] = "none"
  BY NowFacts DEF CreateCell
<1>2. Grown(Now, u, p, "cell")
  BY <1>1, WithFacts
<1> HIDE DEF u
<1>3. Sound(u) /\ u.low = {} /\ u.nodes[p] = "cell"
  BY <1>1, <1>2, Parts DEF Grown
<1>4. Sound(t)
  BY <1>3, LiteralFacts
<1>5. Op(t)
  BY DEF CreateCell, u
<1> HIDE DEF t
<1> QED BY <1>4, <1>5, OpFacts

LEMMA SetRootStep ==
  ASSUME RefholdsInv, NEW p \in Paths, NEW c \in Maybe, SetRoot(p, c)
  PROVE  RefholdsInv'
<1>1. Sound(Now) /\ Now.low = {} /\ Now.nodes[p] # "none"
  BY NowFacts DEF SetRoot
<1>2. Sound(SetLiteral(Now, p, "root", c))
  BY <1>1, LiteralFacts
<1>3. Op(SetLiteral(Now, p, "root", c))
  BY DEF SetRoot
<1> QED BY <1>2, <1>3, OpFacts

LEMMA SetPinStep ==
  ASSUME RefholdsInv, NEW p \in Paths, NEW c \in Maybe, SetPin(p, c)
  PROVE  RefholdsInv'
<1>1. Sound(Now) /\ Now.low = {} /\ Now.nodes[p] # "none"
  BY NowFacts DEF SetPin
<1>2. Sound(SetLiteral(Now, p, "pin", c))
  BY <1>1, LiteralFacts
<1>3. Op(SetLiteral(Now, p, "pin", c))
  BY DEF SetPin
<1> QED BY <1>2, <1>3, OpFacts

LEMMA ConnectPinStep ==
  ASSUME RefholdsInv, NEW p \in Paths, NEW source \in Paths, ConnectPin(p, source)
  PROVE  RefholdsInv'
<1>1. Sound(Now) /\ Now.nodes[p] # "none" /\ Now.nodes[source] # "none"
  BY NowFacts DEF ConnectPin, CanFeed
<1>2. Sound(AddEndpointEdge(Now, source, p, "pin"))
  BY <1>1, EndpointFacts
<1>3. Op(AddEndpointEdge(Now, source, p, "pin"))
  BY DEF ConnectPin
<1> QED BY <1>2, <1>3, OpFacts

LEMMA ReplaceNestedStep ==
  ASSUME RefholdsInv, NEW p \in Paths, NEW c \in Maybe, NEW e \in BOOLEAN, ReplaceNested(p, c, e)
  PROVE  RefholdsInv'
<1> DEFINE u == With(Now, {Helper}, "cell")
           v == SetLiteral(u, Helper, "root", c)
           bare == IF e THEN SetLiteral(v, p, "root", None) ELSE v
           t == AddEdge(bare, Helper, p, "root")
<1>1. /\ Sound(Now) /\ Now \in State /\ Now.low = {} /\ Helper \in Paths
      /\ Now.nodes[p] = "cell" /\ Now.nodes[Helper] = "none"
  BY NowFacts, PathsAssumption DEF ReplaceNested
<1>2. Op(t)
  BY DEF ReplaceNested
<1>3. Grown(Now, u, Helper, "cell")
  BY <1>1, WithFacts
<1> HIDE DEF u
<1>4. Sound(u) /\ u.low = {} /\ u.nodes[Helper] = "cell" /\ u.nodes[p] = "cell"
  BY <1>1, <1>3, Parts DEF Grown
<1>5. Sound(v) /\ v.nodes = u.nodes
  BY <1>1, <1>4, LiteralFacts
<1> HIDE DEF v
<1>6. Sound(bare) /\ bare.nodes = u.nodes
  <2>1. Sound(SetLiteral(v, p, "root", None)) /\ SetLiteral(v, p, "root", None).nodes = v.nodes
    BY <1>4, <1>5, LiteralFacts DEF Maybe
  <2> QED BY <1>5, <2>1
<1> HIDE DEF bare
<1>7. Rewired(bare, t)
  BY <1>1, <1>4, <1>6, AddEdgeFacts DEF Slots
<1> HIDE DEF t
<1> QED BY <1>2, <1>7, OpFacts DEF Rewired

\* The code of a transformer.
Coded(s, t, p, c) ==
  /\ t \in State /\ t.values = [s.values EXCEPT ![<<p, "code">>] = c] /\ t.codes = [s.codes EXCEPT ![p] = c]
  /\ t.nodes = s.nodes /\ t.edges = s.edges /\ t.run = s.run /\ t.held = s.held
  /\ t.modules = s.modules /\ t.inputs = s.inputs /\ t.results = s.results /\ t.low = s.low
  /\ \A d \in Checksums : t.refs[d] = s.refs[d] + Ind(c, d)

LEMMA RetainCodeFacts ==
  ASSUME NEW s \in State, NEW p \in Paths, NEW c \in Checksums
  PROVE  Coded(s, RetainCode([s EXCEPT !.values[<<p, "code">>] = c], p, c), p, c)
<1> DEFINE values2 == [s.values EXCEPT ![<<p, "code">>] = c]
           u == [s EXCEPT !.values = values2]
           v == Retain(u, c)
           codes2 == [s.codes EXCEPT ![p] = c]
           t == RetainCode([s EXCEPT !.values[<<p, "code">>] = c], p, c)
<1>1. c # None /\ c \in Maybe
  BY ChecksumsAssumption DEF Maybe
<1>2. t = [v EXCEPT !.codes = [v.codes EXCEPT ![p] = c]]
  BY <1>1 DEF RetainCode
<1>3. values2 \in [Paths \X Roles -> Maybe] /\ codes2 \in [Paths -> Maybe]
  BY <1>1, Parts
<1> HIDE DEF values2
<1>4. /\ u \in State /\ u.values = values2 /\ u.nodes = s.nodes /\ u.edges = s.edges /\ u.run = s.run
      /\ u.held = s.held /\ u.codes = s.codes /\ u.modules = s.modules /\ u.inputs = s.inputs
      /\ u.results = s.results /\ u.refs = s.refs /\ u.low = s.low
  BY <1>3 DEF State
<1> HIDE DEF u
<1>5. Retained(u, v, c)
  BY <1>1, <1>4, RetainFacts
<1> HIDE DEF v
<1>6. /\ v \in State /\ Alike(u, v) /\ v.low = u.low /\ v.codes = s.codes
      /\ \A d \in Checksums : v.refs[d] = u.refs[d] + Ind(c, d)
  BY <1>4, <1>5 DEF Retained, Alike
<1>7. t = [v EXCEPT !.codes = codes2]
  BY <1>2, <1>6
<1> HIDE DEF codes2, t
<1>8. t \in State
  BY <1>3, <1>6, <1>7 DEF State
<1>9. /\ t.values = values2 /\ t.codes = codes2 /\ t.nodes = s.nodes /\ t.edges = s.edges
      /\ t.run = s.run /\ t.held = s.held /\ t.modules = s.modules /\ t.inputs = s.inputs
      /\ t.results = s.results /\ t.low = s.low /\ t.refs = v.refs
  BY <1>4, <1>6, <1>7 DEF State, Alike
<1>10. Coded(s, t, p, c)
  BY <1>4, <1>6, <1>8, <1>9 DEF Coded, values2, codes2
<1> QED BY <1>10 DEF t

\* What a transformer holds when its code has changed.
LEMMA CodedHeld ==
  ASSUME NEW s \in State, NEW t, NEW p \in Paths, NEW c,
         t.values = [s.values EXCEPT ![<<p, "code">>] = c], t.codes = [s.codes EXCEPT ![p] = c],
         t.modules = s.modules, ModulesSynced(s),
         t.nodes = s.nodes, t.run = s.run, t.held = s.held, t.inputs = s.inputs, t.results = s.results
  PROVE  Held(t, p, c, s.modules[p], s.values[<<p, "pin">>]) /\ Besides(s, t, p)
<1>1. s.values \in [Paths \X Roles -> Maybe] /\ s.codes \in [Paths -> Maybe] /\ s.modules \in [Paths -> Maybe]
  BY Parts
<1>2. \A q \in Paths, role \in Roles :
        t.values[<<q, role>>] = IF q = p /\ role = "code" THEN c ELSE s.values[<<q, role>>]
  BY <1>1
<1>3. Held(t, p, c, s.modules[p], s.values[<<p, "pin">>])
  BY <1>1, <1>2 DEF Held, ModulesSynced, Roles
<1>4. Besides(s, t, p)
  BY <1>1, <1>2 DEF Besides
<1> QED BY <1>3, <1>4

LEMMA CreatedFacts ==
  ASSUME RefholdsInv, NEW p \in Paths, NEW code \in Checksums, nodes[p] = "none"
  PROVE  Sound(Created(p, code)) /\ Created(p, code).low = {}
         /\ Created(p, code).nodes = [nodes EXCEPT ![p] = "transformer"]
<1> DEFINE s == With(Now, {p}, "transformer")
           t == Created(p, code)
<1>1. Sound(Now) /\ Now \in State /\ Now.low = {} /\ Now.nodes = nodes
  BY NowFacts
<1>2. t = RetainCode([s EXCEPT !.values[<<p, "code">>] = code], p, code)
  BY DEF Created
<1>3. Grown(Now, s, p, "transformer")
  BY <1>1, WithFacts
<1> HIDE DEF s
<1>4. /\ Sound(s) /\ s.low = {} /\ s.nodes = [nodes EXCEPT ![p] = "transformer"] /\ s.values = Now.values
      /\ s.edges = Now.edges /\ s.codes = Now.codes /\ s.modules = Now.modules
  BY <1>1, <1>3 DEF Grown
<1>5. s \in State /\ NodesOK(s) /\ EdgesOK(s) /\ ModulesSynced(s) /\ s.nodes[p] = "transformer"
  BY <1>1, <1>4, Parts DEF Sound, Base, Synced
<1>6. Coded(s, t, p, code)
  BY <1>2, <1>5, RetainCodeFacts
<1> HIDE DEF t
<1>7. /\ t \in State /\ t.low = {} /\ t.nodes = s.nodes /\ t.edges = s.edges
      /\ t.values = [s.values EXCEPT ![<<p, "code">>] = code]
      /\ \A d \in Checksums : t.refs[d] = s.refs[d] + Ind(code, d)
  BY <1>4, <1>6 DEF Coded
<1>8. Held(t, p, code, s.modules[p], s.values[<<p, "pin">>]) /\ Besides(s, t, p)
  BY <1>5, <1>6, CodedHeld DEF Coded
<1>9. ~Wired(Now, p, "code") /\ Now.values[<<p, "code">>] = None /\ s.codes[p] = None
  BY <1>1, <1>4, <1>5 DEF Sound, Base, EdgesOK, NodesOK, Slots, Roles
<1>10. EdgesOK(t)
  <2>1. ASSUME NEW q \in Paths, NEW slot \in Slots, Wired(t, q, slot)
        PROVE  /\ t.nodes[q] # "none" /\ t.nodes[t.edges[<<q, slot>>]] # "none"
               /\ slot = "code" => t.values[<<q, "code">>] = None
    <3>1. Wired(s, q, slot) /\ (slot = "code" => q # p)
      BY <1>4, <1>7, <1>9, <2>1 DEF Wired
    <3>2. q # p => t.values[<<q, "code">>] = s.values[<<q, "code">>]
      BY <1>8 DEF Besides, Roles
    <3> QED BY <1>5, <1>7, <3>1, <3>2 DEF EdgesOK
  <2> QED BY <2>1 DEF EdgesOK
<1>11. Sunk(t)
  BY <1>7 DEF Sunk
<1>12. s.modules[p] \in Maybe /\ s.values[<<p, "pin">>] \in Maybe /\ code \in Maybe
  BY <1>5, Parts DEF Roles, Maybe
<1>13. ASSUME NEW d \in Checksums
       PROVE  t.refs[d] = s.refs[d] + Ind(code, d) + Ind(s.modules[p], d) + Ind(s.values[<<p, "pin">>], d)
                - Ind(s.codes[p], d) - Ind(s.modules[p], d) - Ind(s.values[<<p, "pin">>], d)
  <2>1. Ind(s.codes[p], d) = 0
    BY <1>9, ChecksumsAssumption DEF Ind
  <2>2. /\ s.refs[d] \in Int /\ Ind(code, d) \in Int /\ Ind(s.modules[p], d) \in Int
        /\ Ind(s.values[<<p, "pin">>], d) \in Int
    BY <1>5, Parts DEF Ind
  <2>3. t.refs[d] = s.refs[d] + Ind(code, d)
    BY <1>7
  <2> QED BY <2>1, <2>2, <2>3
<1>14. Sound(t)
  BY <1>4, <1>5, <1>7, <1>8, <1>10, <1>11, <1>12, <1>13, HeldFacts
<1> QED BY <1>4, <1>7, <1>14 DEF t

LEMMA CreateTransformerStep ==
  ASSUME RefholdsInv, NEW p \in Paths, NEW code \in Checksums, NEW input, CreateTransformer(p, code, input)
  PROVE  RefholdsInv'
<1> DEFINE s == Created(p, code)
<1>1. nodes[p] = "none"
  BY DEF CreateTransformer
<1>2. Sound(s) /\ s.low = {} /\ s.nodes = [nodes EXCEPT ![p] = "transformer"]
  BY <1>1, CreatedFacts
<1>3. nodes \in [Paths -> Kinds]
  BY NowFacts, Parts
<1>4. s.nodes[p] = "transformer" /\ \A q \in Paths : nodes[q] # "none" => s.nodes[q] # "none"
  BY <1>2, <1>3
<1>5. CASE input \in Maybe /\ Op(SetLiteral(s, p, "pin", input))
  <2> HIDE DEF s
  <2>1. Sound(SetLiteral(s, p, "pin", input))
    BY <1>2, <1>4, <1>5, LiteralFacts
  <2> QED BY <1>5, <2>1, OpFacts
<1>6. CASE input \in Present(Now) /\ Op(AddEndpointEdge(s, input, p, "pin"))
  <2> HIDE DEF s
  <2>1. input \in Paths /\ s.nodes[input] # "none"
    BY <1>4, <1>6, NowFacts DEF Present
  <2>2. Sound(AddEndpointEdge(s, input, p, "pin"))
    BY <1>2, <1>4, <2>1, EndpointFacts
  <2> QED BY <1>6, <2>2, OpFacts
<1> QED BY <1>5, <1>6 DEF CreateTransformer

LEMMA SetCodeStep ==
  ASSUME RefholdsInv, NEW p \in Paths, NEW c \in Checksums, SetCode(p, c)
  PROVE  RefholdsInv'
<1> DEFINE s == Now
           r == [Now EXCEPT !.values[<<p, "code">>] = c]
           u == RetainCode(r, p, c)
           v == Release(u, s.codes[p])
           edges2 == [k \in Paths \X Slots |-> IF k[1] = p /\ k[2] \in {"code"} THEN None ELSE v.edges[k]]
           t == RemoveEdges(v, p, {"code"})
<1>1. /\ Sound(s) /\ s \in State /\ s.low = {} /\ s.nodes[p] = "transformer"
      /\ EdgesOK(s) /\ ModulesSynced(s)
  BY NowFacts DEF SetCode, Sound, Base, Synced
<1>2. Op(t)
  <2>1. r.codes = s.codes
    BY DEF Now
  <2>2. ReplaceCode(r, p, c) = v
    BY <2>1 DEF ReplaceCode
  <2>3. Op(RemoveEdges(ReplaceCode(r, p, c), p, {"code"}))
    BY DEF SetCode
  <2> QED BY <2>2, <2>3
<1>3. t = [v EXCEPT !.edges = edges2]
  BY DEF RemoveEdges
<1> HIDE DEF s
<1>4. Coded(s, u, p, c)
  BY <1>1, RetainCodeFacts DEF s
<1> HIDE DEF u
<1>5. /\ u \in State /\ u.low = {} /\ u.values = [s.values EXCEPT ![<<p, "code">>] = c]
      /\ u.codes = [s.codes EXCEPT ![p] = c] /\ u.nodes = s.nodes /\ u.edges = s.edges
      /\ u.run = s.run /\ u.held = s.held /\ u.modules = s.modules /\ u.inputs = s.inputs
      /\ u.results = s.results /\ \A d \in Checksums : u.refs[d] = s.refs[d] + Ind(c, d)
  BY <1>1, <1>4 DEF Coded
<1>6. s.codes[p] \in Maybe /\ s.modules[p] \in Maybe /\ s.values[<<p, "pin">>] \in Maybe /\ c \in Maybe
  BY <1>1, Parts DEF Roles, Maybe
<1>7. Released(u, v, s.codes[p])
  BY <1>5, <1>6, ReleaseFacts
<1> HIDE DEF v
<1>8. /\ v \in State /\ Alike(u, v) /\ Sinks(u, v)
      /\ \A d \in Checksums : v.refs[d] = u.refs[d] - Ind(s.codes[p], d)
  BY <1>7 DEF Released
<1>9. v.edges = s.edges /\ edges2 \in [Paths \X Slots -> Paths \cup {None}]
  BY <1>5, <1>8, Parts DEF Alike
<1>10. \A q \in Paths, slot \in Slots :
         edges2[<<q, slot>>] = IF q = p /\ slot = "code" THEN None ELSE s.edges[<<q, slot>>]
  BY <1>9
<1> HIDE DEF edges2, t
<1>11. /\ t.edges = edges2 /\ t.values = u.values /\ t.codes = u.codes /\ t.nodes = s.nodes
       /\ t.run = s.run /\ t.held = s.held /\ t.modules = s.modules /\ t.inputs = s.inputs
       /\ t.results = s.results /\ t.refs = v.refs /\ t.low = v.low
  BY <1>3, <1>5, <1>8 DEF State, Alike
<1>12. t \in State
  BY <1>3, <1>8, <1>9 DEF State
<1>13. Held(t, p, c, s.modules[p], s.values[<<p, "pin">>]) /\ Besides(s, t, p)
  BY <1>1, <1>5, <1>11, CodedHeld
<1>14. EdgesOK(t)
  <2>1. ASSUME NEW q \in Paths, NEW slot \in Slots, Wired(t, q, slot)
        PROVE  /\ t.nodes[q] # "none" /\ t.nodes[t.edges[<<q, slot>>]] # "none"
               /\ slot = "code" => t.values[<<q, "code">>] = None
    <3>1. Wired(s, q, slot) /\ t.edges[<<q, slot>>] = s.edges[<<q, slot>>] /\ (slot = "code" => q # p)
      BY <1>10, <1>11, <2>1 DEF Wired
    <3>2. q # p => t.values[<<q, "code">>] = s.values[<<q, "code">>]
      BY <1>13 DEF Besides, Roles
    <3> QED BY <1>1, <1>11, <3>1, <3>2 DEF EdgesOK
  <2> QED BY <2>1 DEF EdgesOK
<1>15. Sunk(t)
  BY <1>5, <1>8, <1>11 DEF Sunk, Sinks
<1>16. ASSUME NEW d \in Checksums
       PROVE  t.refs[d] = s.refs[d] + Ind(c, d) + Ind(s.modules[p], d) + Ind(s.values[<<p, "pin">>], d)
                - Ind(s.codes[p], d) - Ind(s.modules[p], d) - Ind(s.values[<<p, "pin">>], d)
  <2>1. /\ s.refs[d] \in Int /\ Ind(c, d) \in Int /\ Ind(s.modules[p], d) \in Int
        /\ Ind(s.values[<<p, "pin">>], d) \in Int /\ Ind(s.codes[p], d) \in Int
    BY <1>1, Parts DEF Ind
  <2>2. t.refs[d] = s.refs[d] + Ind(c, d) - Ind(s.codes[p], d)
    <3>1. u.refs[d] = s.refs[d] + Ind(c, d)
      BY <1>5
    <3>2. t.refs[d] = u.refs[d] - Ind(s.codes[p], d)
      BY <1>8, <1>11
    <3> QED BY <2>1, <3>1, <3>2
  <2> QED BY <2>1, <2>2
<1>17. Sound(t)
  BY <1>1, <1>6, <1>12, <1>13, <1>14, <1>15, <1>16, HeldFacts
<1> QED BY <1>2, <1>17, OpFacts DEF t

LEMMA ConnectCodeStep ==
  ASSUME RefholdsInv, NEW p \in Paths, NEW source \in Paths, ConnectCode(p, source)
  PROVE  RefholdsInv'
<1> DEFINE s == Now
           edges2 == [s.edges EXCEPT ![<<p, "code">>] = source]
           r == AddEdge(s, source, p, "code")
           u == Release(r, s.codes[p])
           codes2 == [s.codes EXCEPT ![p] = None]
           values2 == [s.values EXCEPT ![<<p, "code">>] = None]
           t == [ReleaseCode(r, p) EXCEPT !.values[<<p, "code">>] = None]
<1>1. /\ Sound(s) /\ s \in State /\ s.low = {} /\ s.nodes[p] = "transformer" /\ s.nodes[source] # "none"
      /\ EdgesOK(s) /\ ModulesSynced(s)
  BY NowFacts DEF ConnectCode, CanFeed, Sound, Base, Synced
<1>2. Op(t)
  BY DEF ConnectCode
<1> HIDE DEF s
<1>3. r = [s EXCEPT !.edges = edges2] /\ edges2 \in [Paths \X Slots -> Paths \cup {None}]
  BY <1>1, Parts DEF AddEdge
<1>4. \A q \in Paths, slot \in Slots :
        edges2[<<q, slot>>] = IF q = p /\ slot = "code" THEN source ELSE s.edges[<<q, slot>>]
  BY <1>1, Parts DEF Slots
<1>5. codes2 \in [Paths -> Maybe] /\ values2 \in [Paths \X Roles -> Maybe]
  BY <1>1, Parts DEF Maybe
<1> HIDE DEF r, edges2
<1>6. /\ r.edges = edges2 /\ r.values = s.values /\ r.codes = s.codes /\ r.nodes = s.nodes
      /\ r.run = s.run /\ r.held = s.held /\ r.modules = s.modules /\ r.inputs = s.inputs
      /\ r.results = s.results /\ r.refs = s.refs /\ r.low = {}
  BY <1>1, <1>3 DEF State
<1>7. r \in State
  BY <1>1, <1>3 DEF State
<1>8. s.codes[p] \in Maybe /\ s.modules[p] \in Maybe /\ s.values[<<p, "pin">>] \in Maybe /\ None \in Maybe
  BY <1>1, Parts DEF Roles, Maybe
<1>9. Released(r, u, s.codes[p])
  BY <1>7, <1>8, ReleaseFacts
<1>10. t = [[u EXCEPT !.codes[p] = None] EXCEPT !.values[<<p, "code">>] = None]
  BY <1>6 DEF ReleaseCode
<1> HIDE DEF u
<1>11. /\ u \in State /\ Alike(r, u) /\ Sinks(r, u)
       /\ \A d \in Checksums : u.refs[d] = s.refs[d] - Ind(s.codes[p], d)
  BY <1>6, <1>9 DEF Released
<1>12. t = [u EXCEPT !.codes = codes2, !.values = values2]
  <2>1. u.codes = s.codes /\ u.values = s.values
    BY <1>6, <1>11 DEF Alike
  <2> QED BY <1>10, <1>11, <2>1 DEF State
<1> HIDE DEF t, codes2, values2
<1>13. /\ t.edges = edges2 /\ t.values = values2 /\ t.codes = codes2 /\ t.nodes = s.nodes
       /\ t.run = s.run /\ t.held = s.held /\ t.modules = s.modules /\ t.inputs = s.inputs
       /\ t.results = s.results /\ t.refs = u.refs /\ t.low = u.low
  BY <1>6, <1>11, <1>12 DEF State, Alike
<1>14. t \in State
  BY <1>5, <1>11, <1>12 DEF State
<1>15. Held(t, p, None, s.modules[p], s.values[<<p, "pin">>]) /\ Besides(s, t, p)
  BY <1>1, <1>13, CodedHeld DEF values2, codes2
<1>16. EdgesOK(t)
  <2>1. ASSUME NEW q \in Paths, NEW slot \in Slots, Wired(t, q, slot)
        PROVE  /\ t.nodes[q] # "none" /\ t.nodes[t.edges[<<q, slot>>]] # "none"
               /\ slot = "code" => t.values[<<q, "code">>] = None
    <3>1. CASE q = p /\ slot = "code"
      BY <1>1, <1>4, <1>13, <1>15, <3>1 DEF Held
    <3>2. CASE ~(q = p /\ slot = "code")
      <4>1. Wired(s, q, slot) /\ t.edges[<<q, slot>>] = s.edges[<<q, slot>>]
        BY <1>4, <1>13, <2>1, <3>2 DEF Wired
      <4>2. q # p => t.values[<<q, "code">>] = s.values[<<q, "code">>]
        BY <1>15 DEF Besides, Roles
      <4> QED BY <1>1, <1>13, <3>2, <4>1, <4>2 DEF EdgesOK
    <3> QED BY <3>1, <3>2
  <2> QED BY <2>1 DEF EdgesOK
<1>17. Sunk(t)
  BY <1>6, <1>11, <1>13 DEF Sunk, Sinks
<1>18. ASSUME NEW d \in Checksums
       PROVE  t.refs[d] = s.refs[d] + Ind(None, d) + Ind(s.modules[p], d) + Ind(s.values[<<p, "pin">>], d)
                - Ind(s.codes[p], d) - Ind(s.modules[p], d) - Ind(s.values[<<p, "pin">>], d)
  <2>1. Ind(None, d) = 0
    BY ChecksumsAssumption DEF Ind
  <2>2. /\ s.refs[d] \in Int /\ Ind(s.modules[p], d) \in Int
        /\ Ind(s.values[<<p, "pin">>], d) \in Int /\ Ind(s.codes[p], d) \in Int
    BY <1>1, Parts DEF Ind
  <2>3. t.refs[d] = s.refs[d] - Ind(s.codes[p], d)
    BY <1>11, <1>13
  <2> QED BY <2>1, <2>2, <2>3
<1>19. Sound(t)
  BY <1>1, <1>8, <1>14, <1>15, <1>16, <1>17, <1>18, HeldFacts
<1> QED BY <1>2, <1>19, OpFacts DEF t

\* All but the edges.
Unwired(s, t) ==
  /\ t \in State /\ t.values = s.values /\ t.nodes = s.nodes /\ t.codes = s.codes
  /\ t.run = s.run /\ t.held = s.held /\ t.modules = s.modules /\ t.refs = s.refs
  /\ t.inputs = s.inputs /\ t.results = s.results /\ t.low = s.low

LEMMA UnwireFacts ==
  ASSUME NEW s \in State, NEW p \in Paths, NEW slots
  PROVE  /\ Unwired(s, RemoveEdges(s, p, slots))
         /\ \A q \in Paths, slot \in Slots :
              RemoveEdges(s, p, slots).edges[<<q, slot>>]
                = IF q = p /\ slot \in slots THEN None ELSE s.edges[<<q, slot>>]
<1> DEFINE edges2 == [k \in Paths \X Slots |-> IF k[1] = p /\ k[2] \in slots THEN None ELSE s.edges[k]]
           t == RemoveEdges(s, p, slots)
<1>1. edges2 \in [Paths \X Slots -> Paths \cup {None}]
  BY Parts
<1>2. \A q \in Paths, slot \in Slots :
        edges2[<<q, slot>>] = IF q = p /\ slot \in slots THEN None ELSE s.edges[<<q, slot>>]
  OBVIOUS
<1>3. t = [s EXCEPT !.edges = edges2]
  BY DEF RemoveEdges
<1> HIDE DEF edges2, t
<1>4. t.edges = edges2 /\ t.values = s.values /\ t.nodes = s.nodes /\ t.codes = s.codes
      /\ t.run = s.run /\ t.held = s.held /\ t.modules = s.modules /\ t.refs = s.refs
      /\ t.inputs = s.inputs /\ t.results = s.results /\ t.low = s.low
  BY <1>3 DEF State
<1>5. t \in State
  BY <1>1, <1>3 DEF State
<1>6. Unwired(s, t)
  BY <1>4, <1>5 DEF Unwired
<1> QED BY <1>2, <1>4, <1>6 DEF t

\* _replace_transformer_from_builder, up to the connection of the pin.
ReplacedFrom(s, p, code, module, input) ==
  LET pin == IF input \in Checksums THEN input ELSE None
      given == input # None
      new == [s.values EXCEPT ![<<p, "code">>] = code, ![<<p, "module">>] = module,
                              ![<<p, "pin">>] = IF given THEN pin ELSE @]
      published == [Retain(Retain(Retain(s, pin), code), module) EXCEPT
                      !.values = new, !.codes[p] = code, !.modules[p] = module]
      cut == RemoveEdges(Release(published, IF given THEN s.values[<<p, "pin">>] ELSE None), p,
                         IF given THEN {"pin", "code"} ELSE {"code"})
  IN  Release(Release(cut, s.codes[p]), s.modules[p])

LEMMA ReplacedFacts ==
  ASSUME NEW s, Sound(s), s.low = {}, NEW p \in Paths, s.nodes[p] = "transformer", NEW code \in Checksums,
         NEW module \in Maybe, NEW input
  PROVE  Sound(ReplacedFrom(s, p, code, module, input)) /\ ReplacedFrom(s, p, code, module, input).nodes = s.nodes
<1> DEFINE pin == IF input \in Checksums THEN input ELSE None
           given == input # None
           old == IF given THEN s.values[<<p, "pin">>] ELSE None
           taken == IF given THEN pin ELSE s.values[<<p, "pin">>]
           slots == IF given THEN {"pin", "code"} ELSE {"code"}
           values2 == [s.values EXCEPT ![<<p, "code">>] = code, ![<<p, "module">>] = module,
                                       ![<<p, "pin">>] = IF given THEN pin ELSE @]
           codes2 == [s.codes EXCEPT ![p] = code]
           modules2 == [s.modules EXCEPT ![p] = module]
           u1 == Retain(s, pin)
           u2 == Retain(u1, code)
           u3 == Retain(u2, module)
           u4 == [u3 EXCEPT !.values = values2, !.codes[p] = code, !.modules[p] = module]
           u5 == Release(u4, old)
           u6 == RemoveEdges(u5, p, slots)
           u7 == Release(u6, s.codes[p])
           t == Release(u7, s.modules[p])
<1>1. s \in State /\ EdgesOK(s) /\ ModulesSynced(s)
  BY DEF Sound, Base, Synced
<1>2. /\ s.codes[p] \in Maybe /\ s.modules[p] \in Maybe /\ s.values[<<p, "pin">>] \in Maybe
      /\ code \in Maybe /\ pin \in Maybe
  BY <1>1, Parts DEF Roles, Maybe
<1>3. old \in Maybe /\ taken \in Maybe
  BY <1>2 DEF Maybe
<1>4. \A d \in Checksums : Ind(taken, d) + Ind(old, d) = Ind(pin, d) + Ind(s.values[<<p, "pin">>], d)
  BY ChecksumsAssumption DEF Ind
<1>5. /\ values2 \in [Paths \X Roles -> Maybe] /\ codes2 \in [Paths -> Maybe] /\ modules2 \in [Paths -> Maybe]
      /\ values2[<<p, "code">>] = code /\ values2[<<p, "module">>] = module /\ values2[<<p, "pin">>] = taken
      /\ \A q \in Paths, role \in Roles : (q = p => role \notin {"code", "module", "pin"}) =>
           values2[<<q, role>>] = s.values[<<q, role>>]
  <2>1. s.values \in [Paths \X Roles -> Maybe] /\ s.codes \in [Paths -> Maybe] /\ s.modules \in [Paths -> Maybe]
    BY <1>1, Parts
  <2>2. values2 = [s.values EXCEPT ![<<p, "code">>] = code, ![<<p, "module">>] = module, ![<<p, "pin">>] = taken]
    BY <2>1 DEF Roles
  <2> HIDE DEF values2, taken
  <2>3. /\ values2 \in [Paths \X Roles -> Maybe]
        /\ values2[<<p, "code">>] = code /\ values2[<<p, "module">>] = module /\ values2[<<p, "pin">>] = taken
    BY <1>2, <1>3, <2>1, <2>2 DEF Roles
  <2>4. \A q \in Paths, role \in Roles : (q = p => role \notin {"code", "module", "pin"}) =>
          values2[<<q, role>>] = s.values[<<q, role>>]
    BY <2>1, <2>2
  <2>5. codes2 \in [Paths -> Maybe] /\ modules2 \in [Paths -> Maybe]
    BY <1>2, <2>1
  <2> QED BY <2>3, <2>4, <2>5
<1>6. ReplacedFrom(s, p, code, module, input) = t
  BY DEF ReplacedFrom
<1>7. /\ u4 = [u3 EXCEPT !.values = values2, !.codes = [u3.codes EXCEPT ![p] = code],
                         !.modules = [u3.modules EXCEPT ![p] = module]]
      /\ codes2 = [s.codes EXCEPT ![p] = code] /\ modules2 = [s.modules EXCEPT ![p] = module]
  OBVIOUS
<1>8. "code" \in slots
  OBVIOUS
<1> HIDE DEF pin, old, taken, slots, values2, codes2, modules2
<1>9. Retained(s, u1, pin)
  BY <1>1, <1>2, RetainFacts
<1> HIDE DEF u1
<1>10. /\ u1 \in State /\ Alike(s, u1) /\ u1.low = {}
       /\ \A d \in Checksums : u1.refs[d] = s.refs[d] + Ind(pin, d)
  BY <1>9 DEF Retained
<1>11. Retained(u1, u2, code)
  BY <1>2, <1>10, RetainFacts
<1> HIDE DEF u2
<1>12. /\ u2 \in State /\ Alike(s, u2) /\ u2.low = {}
       /\ \A d \in Checksums : u2.refs[d] = s.refs[d] + Ind(pin, d) + Ind(code, d)
  BY <1>10, <1>11 DEF Retained, Alike
<1>13. Retained(u2, u3, module)
  BY <1>12, RetainFacts
<1> HIDE DEF u3
<1>14. /\ u3 \in State /\ Alike(s, u3) /\ u3.low = {}
       /\ \A d \in Checksums : u3.refs[d] = s.refs[d] + Ind(pin, d) + Ind(code, d) + Ind(module, d)
  BY <1>12, <1>13 DEF Retained, Alike
<1>15. u4 = [u3 EXCEPT !.values = values2, !.codes = codes2, !.modules = modules2]
  BY <1>7, <1>14 DEF Alike
<1> HIDE DEF u4
<1>16. /\ u4.edges = s.edges /\ u4.values = values2 /\ u4.codes = codes2 /\ u4.nodes = s.nodes
       /\ u4.run = s.run /\ u4.held = s.held /\ u4.modules = modules2 /\ u4.inputs = s.inputs
       /\ u4.results = s.results /\ u4.refs = u3.refs /\ u4.low = {}
  BY <1>14, <1>15 DEF State, Alike
<1>17. u4 \in State
  BY <1>5, <1>14, <1>15 DEF State
<1>18. Released(u4, u5, old)
  BY <1>3, <1>17, ReleaseFacts
<1> HIDE DEF u5
<1>19. /\ u5 \in State /\ Alike(u4, u5) /\ Sunk(u5)
       /\ \A d \in Checksums : u5.refs[d] = u3.refs[d] - Ind(old, d)
  BY <1>16, <1>18 DEF Released, Sinks, Sunk
<1>20. /\ Unwired(u5, u6)
       /\ \A q \in Paths, slot \in Slots :
            u6.edges[<<q, slot>>] = IF q = p /\ slot \in slots THEN None ELSE u5.edges[<<q, slot>>]
  BY <1>19, UnwireFacts
<1> HIDE DEF u6
<1>21. /\ u6 \in State /\ u6.values = values2 /\ u6.codes = codes2 /\ u6.nodes = s.nodes
       /\ u6.run = s.run /\ u6.held = s.held /\ u6.modules = modules2 /\ u6.inputs = s.inputs
       /\ u6.results = s.results /\ Sunk(u6) /\ u6.refs = u5.refs
       /\ \A q \in Paths, slot \in Slots :
            u6.edges[<<q, slot>>] = IF q = p /\ slot \in slots THEN None ELSE s.edges[<<q, slot>>]
  BY <1>16, <1>19, <1>20 DEF Unwired, Alike, Sunk
<1>22. Released(u6, u7, s.codes[p])
  BY <1>2, <1>21, ReleaseFacts
<1> HIDE DEF u7
<1>23. /\ u7 \in State /\ Alike(u6, u7) /\ Sunk(u7)
       /\ \A d \in Checksums : u7.refs[d] = u5.refs[d] - Ind(s.codes[p], d)
  BY <1>21, <1>22 DEF Released, Sinks
<1>24. Released(u7, t, s.modules[p])
  BY <1>2, <1>23, ReleaseFacts
<1> HIDE DEF t
<1>25. /\ t \in State /\ Sunk(t) /\ Alike(u6, t)
       /\ \A d \in Checksums : t.refs[d] = u7.refs[d] - Ind(s.modules[p], d)
  BY <1>23, <1>24 DEF Released, Sinks, Alike
<1>26. /\ t.values = values2 /\ t.codes = codes2 /\ t.nodes = s.nodes
       /\ t.run = s.run /\ t.held = s.held /\ t.modules = modules2 /\ t.inputs = s.inputs
       /\ t.results = s.results
       /\ \A q \in Paths, slot \in Slots :
            t.edges[<<q, slot>>] = IF q = p /\ slot \in slots THEN None ELSE s.edges[<<q, slot>>]
  BY <1>21, <1>25 DEF Alike
<1>27. Held(t, p, code, module, taken)
  BY <1>1, <1>5, <1>7, <1>26, Parts DEF Held
<1>28. Besides(s, t, p)
  BY <1>1, <1>5, <1>7, <1>26, Parts DEF Besides
<1>29. EdgesOK(t)
  <2>1. ASSUME NEW q \in Paths, NEW slot \in Slots, Wired(t, q, slot)
        PROVE  /\ t.nodes[q] # "none" /\ t.nodes[t.edges[<<q, slot>>]] # "none"
               /\ slot = "code" => t.values[<<q, "code">>] = None
    <3>1. Wired(s, q, slot) /\ t.edges[<<q, slot>>] = s.edges[<<q, slot>>] /\ (slot = "code" => q # p)
      BY <1>8, <1>26, <2>1 DEF Wired
    <3>2. q # p => t.values[<<q, "code">>] = s.values[<<q, "code">>]
      BY <1>28 DEF Besides, Roles
    <3> QED BY <1>1, <1>26, <3>1, <3>2 DEF EdgesOK
  <2> QED BY <2>1 DEF EdgesOK
<1>30. ASSUME NEW d \in Checksums
       PROVE  t.refs[d] = s.refs[d] + Ind(code, d) + Ind(module, d) + Ind(taken, d)
                - Ind(s.codes[p], d) - Ind(s.modules[p], d) - Ind(s.values[<<p, "pin">>], d)
  <2>1. /\ s.refs[d] \in Int /\ Ind(code, d) \in Int /\ Ind(module, d) \in Int /\ Ind(taken, d) \in Int
        /\ Ind(s.codes[p], d) \in Int /\ Ind(s.modules[p], d) \in Int
        /\ Ind(s.values[<<p, "pin">>], d) \in Int /\ Ind(pin, d) \in Int /\ Ind(old, d) \in Int
    BY <1>1, Parts DEF Ind
  <2>2. u3.refs[d] = s.refs[d] + Ind(pin, d) + Ind(code, d) + Ind(module, d)
    BY <1>14
  <2>3. u5.refs[d] = u3.refs[d] - Ind(old, d)
    BY <1>19
  <2>4. u7.refs[d] = u5.refs[d] - Ind(s.codes[p], d)
    BY <1>23
  <2>5. t.refs[d] = u7.refs[d] - Ind(s.modules[p], d)
    BY <1>25
  <2>6. Ind(taken, d) + Ind(old, d) = Ind(pin, d) + Ind(s.values[<<p, "pin">>], d)
    BY <1>4
  <2>7. t.refs[d] = s.refs[d] + Ind(pin, d) + Ind(code, d) + Ind(module, d)
                      - Ind(old, d) - Ind(s.codes[p], d) - Ind(s.modules[p], d)
    <3>1. u5.refs[d] = s.refs[d] + Ind(pin, d) + Ind(code, d) + Ind(module, d) - Ind(old, d)
      BY <2>1, <2>2, <2>3
    <3>2. u7.refs[d] = s.refs[d] + Ind(pin, d) + Ind(code, d) + Ind(module, d)
                         - Ind(old, d) - Ind(s.codes[p], d)
      BY <2>1, <2>4, <3>1
    <3> QED BY <2>1, <2>5, <3>2
  <2> DEFINE i1 == Ind(pin, d)
             i2 == Ind(code, d)
             i3 == Ind(module, d)
             i4 == Ind(old, d)
             i5 == Ind(s.codes[p], d)
             i6 == Ind(s.modules[p], d)
             i7 == Ind(taken, d)
             i8 == Ind(s.values[<<p, "pin">>], d)
             n == s.refs[d]
  <2>8. /\ i1 \in Int /\ i2 \in Int /\ i3 \in Int /\ i4 \in Int /\ i5 \in Int /\ i6 \in Int
        /\ i7 \in Int /\ i8 \in Int /\ n \in Int /\ i7 + i4 = i1 + i8
    BY <2>1, <2>6
  <2>9. t.refs[d] = n + i1 + i2 + i3 - i4 - i5 - i6
    BY <2>7
  <2> HIDE DEF i1, i2, i3, i4, i5, i6, i7, i8, n
  <2>10. n + i1 + i2 + i3 - i4 - i5 - i6 = n + i2 + i3 + i7 - i5 - i6 - i8
    BY <2>8
  <2>11. t.refs[d] = n + i2 + i3 + i7 - i5 - i6 - i8
    BY <2>9, <2>10
  <2> QED BY <2>11 DEF i2, i3, i5, i6, i7, i8, n
<1>31. Sound(t)
  BY <1>2, <1>3, <1>25, <1>27, <1>28, <1>29, <1>30, HeldFacts
<1> QED BY <1>6, <1>26, <1>31

LEMMA ReplaceTransformerStep ==
  ASSUME RefholdsInv, NEW p \in Paths, NEW code \in Checksums, NEW module \in Maybe, NEW input,
         ReplaceTransformer(p, code, module, input)
  PROVE  RefholdsInv'
<1> DEFINE t == ReplacedFrom(Now, p, code, module, input)
<1>1. Sound(Now) /\ Now.low = {} /\ Now.nodes[p] = "transformer" /\ Now.nodes = nodes
  BY NowFacts DEF ReplaceTransformer
<1>2. Sound(t) /\ t.nodes = nodes
  BY <1>1, ReplacedFacts
<1>3. \/ input \in Maybe /\ Op(t)
      \/ input \in Paths /\ CanFeed(input, p) /\ Op(AddEndpointEdge(t, input, p, "pin"))
  <2>1. Now.values = values /\ Now.codes = codes /\ Now.modules = modules
    BY DEF Now
  <2> QED BY <2>1 DEF ReplaceTransformer, ReplacedFrom, Staged
<1> HIDE DEF t
<1>4. CASE input \in Maybe /\ Op(t)
  BY <1>2, <1>4, OpFacts
<1>5. CASE input \in Paths /\ CanFeed(input, p) /\ Op(AddEndpointEdge(t, input, p, "pin"))
  <2>1. t.nodes[p] # "none" /\ t.nodes[input] # "none"
    BY <1>1, <1>2, <1>5 DEF CanFeed
  <2>2. Sound(AddEndpointEdge(t, input, p, "pin"))
    BY <1>2, <1>5, <2>1, EndpointFacts
  <2> QED BY <1>5, <2>2, OpFacts
<1> QED BY <1>3, <1>4, <1>5

LEMMA ReplaceFailsStep ==
  ASSUME RefholdsInv, NEW p \in Paths, NEW code \in Checksums, ReplaceFails(p, code)
  PROVE  RefholdsInv'
<1> DEFINE s == Now
           u1 == Retain(s, code)
           u2 == Retain(u1, code)
           u3 == Release(u2, code)
           t == Release(u3, code)
<1>1. Sound(s) /\ s \in State /\ s.low = {} /\ Base(s) /\ Synced(s) /\ code \in Maybe
  BY NowFacts DEF Sound, Maybe
<1>2. Op(t)
  <2>1. Staged(code, code, None) = u2
    BY DEF Staged, Retain
  <2> QED BY <2>1 DEF ReplaceFails
<1> HIDE DEF s
<1>3. Retained(s, u1, code)
  BY <1>1, RetainFacts
<1> HIDE DEF u1
<1>4. u1 \in State /\ Alike(s, u1) /\ u1.low = {} /\ \A d \in Checksums : u1.refs[d] = s.refs[d] + Ind(code, d)
  BY <1>1, <1>3 DEF Retained
<1>5. Retained(u1, u2, code)
  BY <1>1, <1>4, RetainFacts
<1> HIDE DEF u2
<1>6. u2 \in State /\ Alike(s, u2) /\ u2.low = {} /\ \A d \in Checksums : u2.refs[d] = u1.refs[d] + Ind(code, d)
  BY <1>4, <1>5 DEF Retained, Alike
<1>7. Released(u2, u3, code)
  BY <1>1, <1>6, ReleaseFacts
<1> HIDE DEF u3
<1>8. u3 \in State /\ Alike(s, u3) /\ Sunk(u3) /\ \A d \in Checksums : u3.refs[d] = u2.refs[d] - Ind(code, d)
  BY <1>6, <1>7 DEF Released, Alike, Sunk, Sinks
<1>9. Released(u3, t, code)
  BY <1>1, <1>8, ReleaseFacts
<1> HIDE DEF t
<1>10. t \in State /\ Alike(s, t) /\ Sunk(t) /\ \A d \in Checksums : t.refs[d] = u3.refs[d] - Ind(code, d)
  BY <1>8, <1>9 DEF Released, Alike, Sinks
<1>11. Balances(t)
  <2>1. ASSUME NEW d \in Checksums PROVE t.refs[d] = s.refs[d]
    <3>1. s.refs[d] \in Int /\ Ind(code, d) \in Int
      BY <1>1, Parts DEF Ind
    <3>2. /\ u1.refs[d] = s.refs[d] + Ind(code, d) /\ u2.refs[d] = u1.refs[d] + Ind(code, d)
          /\ u3.refs[d] = u2.refs[d] - Ind(code, d) /\ t.refs[d] = u3.refs[d] - Ind(code, d)
      BY <1>4, <1>6, <1>8, <1>10
    <3> QED BY <3>1, <3>2
  <2>2. \A c : Total(t, c) = Total(s, c)
    BY <1>10, AlikeTotal
  <2> QED BY <1>1, <2>1, <2>2 DEF Base, Balances
<1>12. NodesOK(t) /\ EdgesOK(t) /\ RunsOK(t) /\ ModulesSynced(t)
  <2>1. Fit(s)
    BY <1>1 DEF Base, Fit
  <2>2. Fit(t)
    BY <1>10, <2>1, FitSame DEF Alike
  <2> QED BY <1>1, <1>10, <2>2 DEF Fit, Alike, Synced, ModulesSynced
<1>13. Sound(t)
  BY <1>1, <1>10, <1>11, <1>12, StaySound DEF Alike
<1> QED BY <1>2, <1>13, OpFacts

\* An operation that leaves the modules to the derivation.
LEMMA LooseOpFacts ==
  ASSUME RefholdsInv, NEW s, Base(s), s.low = {}, Op(s)
  PROVE  RefholdsInv'
<1>1. Spared(s) /\ Turn(s) /\ lapsed = {} /\ Called
  BY DEF Op, Spared, RefholdsInv
<1>2. Base(Now') /\ Synced(Now') /\ lapsed' = {}
  BY <1>1, TurnFacts
<1>3. calls' \in 0 .. MaxCalls
  BY <1>1, BoundsAssumption DEF Called, RefholdsInv
<1> QED BY <1>2, <1>3 DEF RefholdsInv

LEMMA PublishConfigStep ==
  ASSUME RefholdsInv, Regular, NEW p \in Paths, NEW m \in Maybe, NEW code, PublishConfig(p, m, code)
  PROVE  RefholdsInv'
<1> DEFINE s == Now
           values2 == [s.values EXCEPT ![<<p, "module">>] = m]
           t == [s EXCEPT !.values = values2]
<1>1. /\ s \in State /\ NodesOK(s) /\ EdgesOK(s) /\ RunsOK(s) /\ ResultsOK(s) /\ Balances(s)
      /\ s.low = {} /\ s.nodes[p] = "transformer"
  BY NowFacts DEF PublishConfig, Sound, Base
<1>2. s.values \in [Paths \X Roles -> Maybe] /\ values2 \in [Paths \X Roles -> Maybe]
  BY <1>1, Parts
<1>3. Op(t)
  <2>1. code = values[<<p, "code">>] /\ Now.values = values
    BY DEF PublishConfig, Regular, Now
  <2>2. [values EXCEPT ![<<p, "module">>] = m, ![<<p, "code">>] = code] = values2
    BY <1>2, <2>1 DEF Roles
  <2> QED BY <2>2 DEF PublishConfig
<1>4. \A q \in Paths, role \in Roles :
        values2[<<q, role>>] = IF q = p /\ role = "module" THEN m ELSE s.values[<<q, role>>]
  BY <1>2
<1> HIDE DEF s, values2, t
<1>5. /\ t.edges = s.edges /\ t.values = values2 /\ t.codes = s.codes /\ t.nodes = s.nodes
      /\ t.run = s.run /\ t.held = s.held /\ t.modules = s.modules /\ t.inputs = s.inputs
      /\ t.results = s.results /\ t.refs = s.refs /\ t.low = {}
  BY <1>1 DEF t, State
<1>6. t \in State
  BY <1>1, <1>2 DEF t, State
<1>7. NodesOK(t)
  <2>1. ASSUME NEW q \in Paths
        PROVE  /\ t.codes[q] = t.values[<<q, "code">>]
               /\ t.nodes[q] # "transformer" => t.values[<<q, "module">>] = None
               /\ t.nodes[q] = "none" => \A role \in Roles : t.values[<<q, role>>] = None
    BY <1>1, <1>4, <1>5 DEF NodesOK, Roles
  <2> QED BY <2>1 DEF NodesOK
<1>8. EdgesOK(t) /\ RunsOK(t) /\ ResultsOK(t)
  <2>1. \A q \in Paths : t.values[<<q, "code">>] = s.values[<<q, "code">>]
    BY <1>4, <1>5 DEF Roles
  <2>2. \A q \in Paths, slot \in Slots : Wired(t, q, slot) <=> Wired(s, q, slot)
    BY <1>5 DEF Wired
  <2>3. EdgesOK(t)
    BY <1>1, <1>5, <2>1, <2>2 DEF EdgesOK
  <2> QED BY <1>1, <1>5, <2>3 DEF RunsOK, ResultsOK
<1>9. Balances(t)
  <2>1. \A k \in Shelf : t.values[k] = s.values[k]
    <3>1. ASSUME NEW k \in Shelf PROVE t.values[k] = s.values[k]
      <4>1. PICK q \in Paths, role \in {"root", "pin", "current"} : k = <<q, role>>
        BY DEF Shelf
      <4> QED BY <1>4, <1>5, <4>1 DEF Roles
    <3> QED BY <3>1
  <2>2. Literals(t) = Literals(s)
    BY <2>1, SameLiterals
  <2> QED BY <1>1, <1>5, <2>2 DEF Balances, Total
<1>10. Base(t)
  BY <1>6, <1>7, <1>8, <1>9 DEF Base
<1> QED BY <1>3, <1>5, <1>10, LooseOpFacts

LEMMA ClearExceptionStep ==
  ASSUME RefholdsInv, NEW p \in Paths, ClearException(p)
  PROVE  RefholdsInv'
<1> DEFINE s == Now
           run2 == [s.run EXCEPT ![p] = NoRun]
           t == [s EXCEPT !.run = run2]
<1>1. /\ Sound(s) /\ s \in State /\ NodesOK(s) /\ EdgesOK(s) /\ RunsOK(s) /\ Balances(s)
      /\ ModulesSynced(s) /\ s.low = {}
  BY NowFacts DEF Sound, Base, Synced
<1>2. Op(t)
  BY DEF ClearException
<1>3. s.run \in [Paths -> Run \cup {NoRun}] /\ s.held \in [Paths -> Seq(Run)]
  BY <1>1, Parts
<1>4. run2 \in [Paths -> Run \cup {NoRun}] /\ \A q \in Paths : run2[q] = IF q = p THEN NoRun ELSE s.run[q]
  BY <1>3
<1> HIDE DEF s, run2, t
<1>5. /\ t.edges = s.edges /\ t.values = s.values /\ t.codes = s.codes /\ t.nodes = s.nodes
      /\ t.run = run2 /\ t.held = s.held /\ t.modules = s.modules /\ t.inputs = s.inputs
      /\ t.results = s.results /\ t.refs = s.refs /\ t.low = {}
  BY <1>1 DEF t, State
<1>6. t \in State
  BY <1>1, <1>4 DEF t, State
<1>7. RunsOK(t)
  <2>1. ASSUME NEW q \in Paths PROVE RunsAt(s.nodes[q], run2[q], s.held[q])
    <3>1. RunsAt(s.nodes[q], s.run[q], s.held[q])
      BY <1>1 DEF RunsOK
    <3>2. \A i \in DOMAIN s.held[q] : s.held[q][i] \in Run
      BY <1>3
    <3>3. \A i \in DOMAIN s.held[q] : Demand(s.held[q][i]) # Demand(NoRun)
      BY <3>2, DemandTyped
    <3>4. Right(NoRun)
      BY ChecksumsAssumption DEF Right, NoRun
    <3> QED BY <1>4, <3>1, <3>3, <3>4 DEF RunsAt
  <2> QED BY <1>5, <2>1 DEF RunsOK
<1>8. NodesOK(t) /\ EdgesOK(t) /\ ModulesSynced(t) /\ Sunk(t)
  BY <1>1, <1>5 DEF NodesOK, EdgesOK, Wired, ModulesSynced, Sunk
<1>9. Balances(t)
  BY <1>1, <1>5 DEF Balances, Total, Literals
<1>10. Sound(t)
  BY <1>1, <1>5, <1>6, <1>7, <1>8, <1>9, StaySound
<1> QED BY <1>2, <1>10, OpFacts

(***************************************************************************)
(* The runs that come and go.                                              *)
(***************************************************************************)
LEMMA ResultedFacts ==
  ASSUME NEW s \in State, NodesOK(s), EdgesOK(s), RunsOK(s), ResultsOK(s), Balances(s), ModulesSynced(s),
         s.low = {}
  PROVE  Base(SyncResults(s)) /\ Synced(SyncResults(s)) /\ Spared(SyncResults(s))
<1> DEFINE t == SyncResults(s)
<1>1. Reresulted(s, t)
  BY SyncResultsFacts
<1> HIDE DEF t
<1>2. /\ t \in State /\ t.nodes = s.nodes /\ t.values = s.values /\ t.edges = s.edges /\ t.run = s.run
      /\ t.held = s.held /\ t.codes = s.codes /\ t.modules = s.modules
      /\ ResultsOK(t) /\ ResultsSynced(t) /\ \A c \in t.low : Unclaimed(t, c)
  BY <1>1 DEF Reresulted
<1>3. Balances(t)
  <2>1. ASSUME NEW c \in Checksums PROVE t.refs[c] = Total(t, c)
    <3>1. t.refs[c] - Total(t, c) = s.refs[c] - Total(s, c) /\ s.refs[c] = Total(s, c)
      BY <1>1 DEF Reresulted, Balances
    <3>2. t.refs[c] \in Int /\ s.refs[c] \in Int /\ Total(t, c) \in Int
      BY <1>2, Parts, TotalNat
    <3> QED BY <3>1, <3>2
  <2> QED BY <2>1 DEF Balances
<1>4. NodesOK(t) /\ ModulesSynced(t) /\ RunsOK(t)
  BY <1>2 DEF NodesOK, ModulesSynced, RunsOK
<1>5. EdgesOK(t)
  BY <1>2 DEF EdgesOK, Wired
<1>6. Spared(t)
  <2>1. ASSUME NEW c \in t.low PROVE c \notin UserValues(t)
    <3>1. c \in Checksums
      BY <1>2, Parts
    <3> QED BY <1>2, <1>4, <3>1, UnclaimedValue
  <2> QED BY <2>1 DEF Spared
<1>7. Base(t) /\ Synced(t)
  BY <1>2, <1>3, <1>4, <1>5 DEF Base, Synced
<1> QED BY <1>6, <1>7 DEF t

\* The runs and the held runs replaced.
LEMMA RerunFacts ==
  ASSUME NEW s, Sound(s), s.low = {}, NEW run2 \in [Paths -> Run \cup {NoRun}], NEW held2 \in [Paths -> Seq(Run)],
         \A p \in Paths : RunsAt(s.nodes[p], run2[p], held2[p]),
         NEW t, t = SyncResults([s EXCEPT !.run = run2, !.held = held2])
  PROVE  Base(t) /\ Synced(t) /\ Spared(t)
<1> DEFINE u == [s EXCEPT !.run = run2, !.held = held2]
<1>1. /\ s \in State /\ NodesOK(s) /\ EdgesOK(s) /\ ResultsOK(s) /\ Balances(s) /\ ModulesSynced(s)
  BY DEF Sound, Base, Synced
<1>2. t = SyncResults(u) /\ u = [s EXCEPT !.run = run2, !.held = held2]
  OBVIOUS
<1> HIDE DEF u
<1>3. /\ u.edges = s.edges /\ u.values = s.values /\ u.codes = s.codes /\ u.nodes = s.nodes
      /\ u.run = run2 /\ u.held = held2 /\ u.modules = s.modules /\ u.inputs = s.inputs
      /\ u.results = s.results /\ u.refs = s.refs /\ u.low = {}
  BY <1>1, <1>2 DEF State
<1>4. u \in State
  BY <1>1, <1>2 DEF State
<1>5. RunsOK(u)
  BY <1>3 DEF RunsOK
<1>6. NodesOK(u) /\ EdgesOK(u) /\ ResultsOK(u) /\ ModulesSynced(u)
  BY <1>1, <1>3 DEF NodesOK, EdgesOK, Wired, ResultsOK, ModulesSynced
<1>7. Balances(u)
  BY <1>1, <1>3 DEF Balances, Total, Literals
<1> QED BY <1>2, <1>3, <1>4, <1>5, <1>6, <1>7, ResultedFacts

\* A run that has come to its end.
LEMMA EndedRun ==
  ASSUME NEW r \in Run, NEW ok \in BOOLEAN, NEW e, e = [r EXCEPT !.out = IF ok THEN Result[Demand(r)] ELSE Failed]
  PROVE  e \in Run /\ Demand(e) = Demand(r) /\ Right(e)
<1> DEFINE x == IF ok THEN Result[Demand(r)] ELSE Failed
<1>1. Demand(r) \in Checksums \X Checksums
  BY DemandTyped
<1>2. x \in Maybe \cup {Failed} /\ (x \in Checksums => x = Result[Demand(r)])
  BY <1>1, ChecksumsAssumption DEF Maybe
<1>3. e = [r EXCEPT !.out = x]
  OBVIOUS
<1> HIDE DEF x
<1>4. e \in Run /\ e.code = r.code /\ e.pin = r.pin /\ e.out = x
  BY <1>2, <1>3 DEF Run
<1> QED BY <1>2, <1>4 DEF Demand, Right

LEMMA FinishStep ==
  ASSUME RefholdsInv, NEW p \in Paths, NEW ok \in BOOLEAN, Finish(p, ok)
  PROVE  RefholdsInv'
<1> DEFINE s == Now
           out(r) == IF ok THEN Result[Demand(r)] ELSE Failed
<1>1. /\ Sound(s) /\ s \in State /\ s.low = {} /\ s.run = run /\ s.held = held /\ RunsOK(s)
  BY NowFacts DEF Sound, Base
<1>2. run \in [Paths -> Run \cup {NoRun}] /\ held \in [Paths -> Seq(Run)]
  BY <1>1, Parts
<1>3. \A q \in Paths : RunsAt(s.nodes[q], run[q], held[q])
  BY <1>1 DEF RunsOK
<1>4. ASSUME NEW t, Base(t), Spared(t), Turn(t) PROVE RefholdsInv'
  <2>1. lapsed = {} /\ calls' = calls /\ calls \in 0 .. MaxCalls
    BY DEF RefholdsInv, Finish
  <2>2. Base(Now') /\ Synced(Now') /\ lapsed' = {}
    BY <1>4, <2>1, TurnFacts
  <2> QED BY <2>1, <2>2 DEF RefholdsInv
<1> HIDE DEF s
<1>5. CASE run[p] # NoRun /\ Turn(SyncResults([s EXCEPT !.run[p].out = out(run[p])]))
  <2> DEFINE e == [run[p] EXCEPT !.out = out(run[p])]
             run2 == [run EXCEPT ![p] = e]
             t == SyncResults([s EXCEPT !.run = run2, !.held = held])
  <2>1. run[p] \in Run
    BY <1>2, <1>5
  <2>2. e \in Run /\ Demand(e) = Demand(run[p]) /\ Right(e)
    BY <2>1, EndedRun
  <2>3. [s EXCEPT !.run[p].out = out(run[p])] = [s EXCEPT !.run = run2, !.held = held]
    <3>1. [s EXCEPT !.run[p].out = out(run[p])] = [s EXCEPT !.run = run2]
      BY <1>1
    <3>2. [s EXCEPT !.run = run2] = [s EXCEPT !.run = run2, !.held = held]
      <4> HIDE DEF run2
      <4> QED BY <1>1 DEF State
    <3> QED BY <3>1, <3>2
  <2> HIDE DEF e
  <2>4. run2 \in [Paths -> Run \cup {NoRun}] /\ \A q \in Paths : run2[q] = IF q = p THEN e ELSE run[q]
    BY <1>2, <2>2
  <2> HIDE DEF run2
  <2>5. ASSUME NEW q \in Paths PROVE RunsAt(s.nodes[q], run2[q], held[q])
    BY <1>3, <1>5, <2>2, <2>4 DEF RunsAt
  <2>6. Turn(t)
    BY <1>5, <2>3
  <2>7. t = SyncResults([s EXCEPT !.run = run2, !.held = held])
    OBVIOUS
  <2> HIDE DEF t
  <2>8. Base(t) /\ Spared(t)
    BY <1>1, <1>2, <2>4, <2>5, <2>7, RerunFacts
  <2> QED BY <1>4, <2>6, <2>8
<1>6. ASSUME NEW i \in DOMAIN held[p], Turn(SyncResults([s EXCEPT !.held[p][i].out = out(held[p][i])]))
      PROVE  RefholdsInv'
  <2> DEFINE h == held[p]
             e == [h[i] EXCEPT !.out = out(h[i])]
             h2 == [h EXCEPT ![i] = e]
             held2 == [held EXCEPT ![p] = h2]
             t == SyncResults([s EXCEPT !.run = run, !.held = held2])
  <2>1. h \in Seq(Run) /\ h[i] \in Run /\ i \in DOMAIN h
    BY <1>2
  <2>2. e \in Run /\ Demand(e) = Demand(h[i]) /\ Right(e)
    BY <2>1, EndedRun
  <2>3. [s EXCEPT !.held[p][i].out = out(held[p][i])] = [s EXCEPT !.run = run, !.held = held2]
    <3>1. [s EXCEPT !.held[p][i].out = out(held[p][i])] = [s EXCEPT !.held = held2]
      BY <1>1
    <3>2. [s EXCEPT !.held = held2] = [s EXCEPT !.run = run, !.held = held2]
      <4> HIDE DEF held2
      <4> QED BY <1>1 DEF State
    <3> QED BY <3>1, <3>2
  <2>4. Turn(t)
    BY <1>6, <2>3
  <2> HIDE DEF e
  <2>5. h2 \in Seq(Run) /\ Len(h2) = Len(h) /\ DOMAIN h2 = DOMAIN h
        /\ \A j \in DOMAIN h : h2[j] = IF j = i THEN e ELSE h[j]
    <3> HIDE DEF h
    <3> QED BY <2>1, <2>2
  <2> HIDE DEF h2
  <2>6. held2 \in [Paths -> Seq(Run)] /\ \A q \in Paths : held2[q] = IF q = p THEN h2 ELSE held[q]
    BY <1>2, <2>5
  <2> HIDE DEF held2
  <2>7. ASSUME NEW q \in Paths PROVE RunsAt(s.nodes[q], run[q], held2[q])
    <3>1. CASE q # p
      BY <1>3, <2>6, <3>1
    <3>2. CASE q = p
      <4>1. RunsAt(s.nodes[p], run[p], h) /\ held2[q] = h2
        BY <1>3, <2>6, <3>2
      <4> HIDE DEF h
      <4>2. \A j \in DOMAIN h2 : Demand(h2[j]) = Demand(h[j]) /\ j \in DOMAIN h
        BY <2>2, <2>5
      <4>3. s.nodes[p] = "transformer"
        <5>1. h # << >>
          BY <2>1
        <5> QED BY <4>1, <5>1 DEF RunsAt
      <4>4. Apart(h2)
        BY <4>1, <4>2 DEF Apart, RunsAt
      <4>5. \A j \in DOMAIN h2 : Right(h2[j]) /\ Demand(h2[j]) # Demand(run[p])
        BY <2>2, <2>5, <4>1, <4>2 DEF RunsAt
      <4>6. Len(h2) <= Cap /\ Right(run[p])
        BY <2>5, <4>1 DEF RunsAt
      <4>7. RunsAt(s.nodes[p], run[p], h2)
        BY <4>3, <4>4, <4>5, <4>6 DEF RunsAt
      <4> QED BY <3>2, <4>1, <4>7
    <3> QED BY <3>1, <3>2
  <2>8. t = SyncResults([s EXCEPT !.run = run, !.held = held2])
    OBVIOUS
  <2> HIDE DEF t
  <2>9. Base(t) /\ Spared(t)
    BY <1>1, <1>2, <2>6, <2>7, <2>8, RerunFacts
  <2> QED BY <1>4, <2>4, <2>9
<1> QED BY <1>5, <1>6 DEF Finish, s

LEMMA ExpireStep ==
  ASSUME RefholdsInv, NEW p \in Paths, Expire(p)
  PROVE  RefholdsInv'
<1> DEFINE s == Now
<1>1. /\ Sound(s) /\ s \in State /\ s.low = {} /\ s.run = run /\ s.held = held /\ RunsOK(s)
  BY NowFacts DEF Sound, Base
<1>2. run \in [Paths -> Run \cup {NoRun}] /\ held \in [Paths -> Seq(Run)]
  BY <1>1, Parts
<1>3. PICK i \in DOMAIN held[p] : Commit(SyncResults([s EXCEPT !.held[p] = RemoveAt(@, i)]))
  BY DEF Expire
<1> DEFINE h == held[p]
           h2 == RemoveAt(h, i)
           held2 == [held EXCEPT ![p] = h2]
           t == SyncResults([s EXCEPT !.run = run, !.held = held2])
<1>4. [s EXCEPT !.held[p] = RemoveAt(@, i)] = [s EXCEPT !.held = held2]
  BY <1>1
<1> HIDE DEF s
<1>5. RunsAt(s.nodes[p], run[p], h) /\ h \in Seq(Run)
  BY <1>1, <1>2 DEF RunsOK
<1>6. h2 \in Seq(Run) /\ RunsAt(s.nodes[p], run[p], h2)
  <2> HIDE DEF h
  <2>1. Thins(h, h2) /\ i \in DOMAIN h /\ Apart(h)
    BY <1>5, RemoveThins DEF RunsAt, h
  <2>2. h # << >>
    BY <1>5, <2>1
  <2> HIDE DEF h2
  <2>3. h2 \in Seq(Run) /\ Apart(h2) /\ Len(h2) <= Cap
    <3>1. Len(h2) \in Nat /\ Len(h) \in Nat /\ Cap \in Nat
      BY <1>5, <2>1, BoundsAssumption DEF Thins
    <3> QED BY <1>5, <2>1, <3>1 DEF Thins, RunsAt
  <2>4. \A j \in DOMAIN h2 : Right(h2[j]) /\ Demand(h2[j]) # Demand(run[p])
    BY <1>5, <2>1 DEF Thins, RunsAt
  <2>5. s.nodes[p] = "transformer" /\ Right(run[p])
    BY <1>5, <2>2 DEF RunsAt
  <2> QED BY <2>3, <2>4, <2>5 DEF RunsAt
<1> HIDE DEF h, h2
<1>7. held2 \in [Paths -> Seq(Run)] /\ \A q \in Paths : held2[q] = IF q = p THEN h2 ELSE held[q]
  BY <1>2, <1>6
<1> HIDE DEF held2
<1>8. \A q \in Paths : RunsAt(s.nodes[q], run[q], held2[q])
  BY <1>1, <1>6, <1>7 DEF RunsOK
<1>9. [s EXCEPT !.held = held2] = [s EXCEPT !.run = run, !.held = held2]
  BY <1>1 DEF State
<1>10. t = SyncResults([s EXCEPT !.run = run, !.held = held2]) /\ Commit(t)
  BY <1>3, <1>4, <1>9 DEF s
<1> HIDE DEF t
<1>11. Base(t) /\ Synced(t) /\ Spared(t)
  BY <1>1, <1>2, <1>7, <1>8, <1>10, RerunFacts
<1>12. lapsed = {} /\ calls' = calls /\ calls \in 0 .. MaxCalls
  BY DEF RefholdsInv, Expire
<1>13. Base(Now') /\ Synced(Now') /\ lapsed' = {}
  BY <1>10, <1>11, <1>12, CommitFacts
<1> QED BY <1>12, <1>13 DEF RefholdsInv

LEMMA PruneStep ==
  ASSUME RefholdsInv, Prune
  PROVE  RefholdsInv'
<1> DEFINE s == Now
           t == SyncResults([s EXCEPT !.run = run, !.held = NoRuns])
<1>1. /\ Sound(s) /\ s \in State /\ s.low = {} /\ s.run = run /\ s.held = held /\ RunsOK(s)
  BY NowFacts DEF Sound, Base
<1>2. run \in [Paths -> Run \cup {NoRun}] /\ NoRuns \in [Paths -> Seq(Run)]
      /\ \A q \in Paths : NoRuns[q] = << >>
  BY <1>1, Parts DEF NoRuns
<1>3. Commit(SyncResults([s EXCEPT !.held = NoRuns]))
  BY DEF Prune
<1> HIDE DEF s
<1>4. [s EXCEPT !.held = NoRuns] = [s EXCEPT !.run = run, !.held = NoRuns]
  BY <1>1 DEF State
<1>5. \A q \in Paths : RunsAt(s.nodes[q], run[q], NoRuns[q])
  BY <1>1, <1>2, BoundsAssumption DEF RunsOK, RunsAt, Apart
<1>6. t = SyncResults([s EXCEPT !.run = run, !.held = NoRuns]) /\ Commit(t)
  BY <1>3, <1>4
<1> HIDE DEF t
<1>7. Base(t) /\ Synced(t) /\ Spared(t)
  BY <1>1, <1>2, <1>5, <1>6, RerunFacts
<1>8. lapsed = {} /\ calls' \in 0 .. MaxCalls
  BY BoundsAssumption DEF RefholdsInv, Prune, Called
<1>9. Base(Now') /\ Synced(Now') /\ lapsed' = {}
  BY <1>6, <1>7, <1>8, CommitFacts
<1> QED BY <1>8, <1>9 DEF RefholdsInv

(***************************************************************************)
(* A graph that is loaded, and the end.                                    *)
(***************************************************************************)
LEMMA Empty ==
  DOMAIN << >> = {} /\ << >> \in Results /\ \A c : Count(<< >>, c) = 0
<1>1. DOMAIN << >> = {}
  OBVIOUS
<1>2. << >> \in [{} -> Checksums]
  OBVIOUS
<1>3. << >> \in Results
  <2>1. {} \in SUBSET Demands
    OBVIOUS
  <2> QED BY <1>2, <2>1 DEF Results
<1>4. ASSUME NEW c PROVE Count(<< >>, c) = 0
  <2>1. {k \in DOMAIN << >> : << >>[k] = c} = {}
    BY <1>1
  <2> QED BY <2>1, FS_EmptySet DEF Count
<1> QED BY <1>1, <1>3, <1>4

\* What set_graph and close release: all that the graph lists.
Returned(u, t, s) ==
  t \in State /\ Sinks(u, t) /\ \A c \in Checksums : t.refs[c] = u.refs[c] - Total(s, c)

LEMMA ReturnedFacts ==
  ASSUME NEW s, Base(s), Synced(s), NEW u \in State, Alike(s, u)
  PROVE  Returned(u, ReleaseListed(u), s)
<1> DEFINE v1 == ReleaseEach(u, Listing(s))
           v2 == ReleaseEach(v1, s.inputs)
           t == ReleaseEach(v2, Outs(s))
<1>1. s \in State /\ NodesOK(s) /\ EdgesOK(s) /\ RunsOK(s) /\ ResultsOK(s)
  BY DEF Base
<1>2. \A c \in Checksums :
        /\ Listed(s, c) = Total(s, c)
        /\ Count(Listing(s), c) \in Nat /\ Count(s.inputs, c) \in Nat /\ Count(Outs(s), c) \in Nat
  BY <1>1, ListedTotal
<1>3. ReleaseListed(u) = t
  <2>1. Listing(u) = Listing(s) /\ u.inputs = s.inputs /\ Outs(u) = Outs(s)
    BY DEF Alike, Listing, Wired, Outs
  <2> QED BY <2>1 DEF ReleaseListed
<1>4. ReleasedEach(u, v1, Listing(s))
  BY <1>2, ReleaseEachFacts
<1> HIDE DEF v1
<1>5. v1 \in State /\ Sinks(u, v1) /\ \A c \in Checksums : v1.refs[c] = u.refs[c] - Count(Listing(s), c)
  BY <1>4 DEF ReleasedEach
<1>6. ReleasedEach(v1, v2, s.inputs)
  BY <1>2, <1>5, ReleaseEachFacts
<1> HIDE DEF v2
<1>7. v2 \in State /\ Sinks(v1, v2) /\ \A c \in Checksums : v2.refs[c] = v1.refs[c] - Count(s.inputs, c)
  BY <1>6 DEF ReleasedEach
<1>8. ReleasedEach(v2, t, Outs(s))
  BY <1>2, <1>7, ReleaseEachFacts
<1> HIDE DEF t
<1>9. t \in State /\ Sinks(v2, t) /\ \A c \in Checksums : t.refs[c] = v2.refs[c] - Count(Outs(s), c)
  BY <1>8 DEF ReleasedEach
<1>10. ASSUME NEW c \in Checksums PROVE t.refs[c] = u.refs[c] - Total(s, c)
  <2>1. u.refs[c] \in Int
    BY Parts
  <2>2. Total(s, c) = Count(Listing(s), c) + Count(s.inputs, c) + Count(Outs(s), c)
    BY <1>2 DEF Listed
  <2>3. v1.refs[c] = u.refs[c] - Count(Listing(s), c) /\ v2.refs[c] = v1.refs[c] - Count(s.inputs, c)
        /\ t.refs[c] = v2.refs[c] - Count(Outs(s), c)
    BY <1>5, <1>7, <1>9
  <2> QED BY <1>2, <2>1, <2>2, <2>3
<1>11. \A c \in Checksums : /\ u.refs[c] \in Int /\ v1.refs[c] \in Int /\ v2.refs[c] \in Int /\ t.refs[c] \in Int
                            /\ v1.refs[c] <= u.refs[c] /\ v2.refs[c] <= v1.refs[c] /\ t.refs[c] <= v2.refs[c]
  BY <1>2, <1>5, <1>7, <1>9, Parts
<1>12. Sinks(u, t)
  <2>1. u.low \subseteq Checksums /\ v1.low \subseteq Checksums /\ v2.low \subseteq Checksums /\ t.low \subseteq Checksums
    BY <1>5, <1>7, <1>9, Parts
  <2>2. \A c \in t.low : c \in u.low \/ t.refs[c] <= 0
    BY <1>5, <1>7, <1>9, <1>11, <2>1 DEF Sinks
  <2>3. Sunk(u) => Sunk(t)
    BY <1>5, <1>7, <1>9 DEF Sinks
  <2> QED BY <2>2, <2>3 DEF Sinks
<1> QED BY <1>3, <1>9, <1>10, <1>12 DEF Returned

\* A graph on its own, with the claims of its literals, codes and modules.
Graphic(t) ==
  /\ t.run = [p \in Paths |-> NoRun] /\ t.held = NoRuns /\ t.inputs = [k \in Paths \X Sockets |-> None]
  /\ t.results = << >>
  /\ t.codes = [p \in Paths |-> t.values[<<p, "code">>]]
  /\ t.modules = [p \in Paths |-> t.values[<<p, "module">>]]
  /\ \A p \in Paths :
       /\ t.nodes[p] # "transformer" => t.values[<<p, "module">>] = None
       /\ t.nodes[p] = "none" => \A role \in Roles : t.values[<<p, role>>] = None

Typed(t) ==
  /\ t.nodes \in [Paths -> Kinds] /\ t.values \in [Paths \X Roles -> Maybe]
  /\ t.edges \in [Paths \X Slots -> Paths \cup {None}]
  /\ t.refs \in [Checksums -> Int] /\ t.low \in SUBSET Checksums
  /\ t = [nodes |-> t.nodes, values |-> t.values, edges |-> t.edges, run |-> t.run, held |-> t.held,
           codes |-> t.codes, modules |-> t.modules, inputs |-> t.inputs, results |-> t.results,
           refs |-> t.refs, low |-> t.low]

LEMMA GraphicFacts ==
  ASSUME NEW t, Typed(t), EdgesOK(t), Graphic(t), Sunk(t), \A c \in Checksums : t.refs[c] = Count(t.values, c)
  PROVE  Sound(t)
<1>1. /\ t.run \in [Paths -> Run \cup {NoRun}] /\ t.held \in [Paths -> Seq(Run)]
      /\ t.inputs \in [Paths \X Sockets -> Maybe] /\ t.results \in Results
      /\ \A p \in Paths : t.run[p] = NoRun /\ t.held[p] = << >>
      /\ DOMAIN t.results = {}
  <2>1. /\ t.run = [p \in Paths |-> NoRun] /\ t.held = NoRuns
        /\ t.inputs = [k \in Paths \X Sockets |-> None] /\ t.results = << >>
    BY DEF Graphic
  <2>2. t.run \in [Paths -> Run \cup {NoRun}] /\ \A p \in Paths : t.run[p] = NoRun
    BY <2>1
  <2>3. t.held \in [Paths -> Seq(Run)] /\ \A p \in Paths : t.held[p] = << >>
    BY <2>1 DEF NoRuns
  <2>4. t.inputs \in [Paths \X Sockets -> Maybe]
    BY <2>1 DEF Maybe
  <2> QED BY <2>1, <2>2, <2>3, <2>4, Empty
<1>2. /\ t.codes \in [Paths -> Maybe] /\ t.modules \in [Paths -> Maybe]
      /\ \A p \in Paths : t.codes[p] = t.values[<<p, "code">>] /\ t.modules[p] = t.values[<<p, "module">>]
  <2>1. /\ t.codes = [p \in Paths |-> t.values[<<p, "code">>]]
        /\ t.modules = [p \in Paths |-> t.values[<<p, "module">>]]
    BY DEF Graphic
  <2>2. \A p \in Paths : t.values[<<p, "code">>] \in Maybe /\ t.values[<<p, "module">>] \in Maybe
    BY DEF Typed, Roles
  <2> QED BY <2>1, <2>2
<1>3. t \in State
  BY <1>1, <1>2 DEF Typed, State
<1>4. NodesOK(t) /\ ModulesSynced(t)
  BY <1>2 DEF NodesOK, ModulesSynced, Graphic
<1>5. RunsOK(t)
  <2>1. Right(NoRun)
    BY ChecksumsAssumption DEF Right, NoRun
  <2> QED BY <1>1, <2>1, BoundsAssumption DEF RunsOK, RunsAt, Apart
<1>6. ResultsOK(t) /\ ResultsSynced(t)
  <2>1. Done(t) = {}
    BY <1>1 DEF Done
  <2> QED BY <1>1, <2>1 DEF ResultsOK, ResultsSynced
<1>7. Balances(t)
  <2>1. ASSUME NEW c \in Checksums PROVE t.refs[c] = Total(t, c)
    <3> DEFINE f == t.values
               a == Literals(t)
    <3>1. /\ DOMAIN f = Paths \X Roles /\ DOMAIN a = Shelf /\ \A k \in Shelf : a[k] = f[k]
          /\ DOMAIN t.codes = Paths /\ DOMAIN t.modules = Paths
          /\ \A p \in Paths : f[<<p, "code">>] = t.codes[p]
          /\ \A p \in Paths : f[<<p, "module">>] = t.modules[p]
      BY <1>2 DEF Typed, Literals
    <3> HIDE DEF f, a
    <3>2. Count(f, c) = Count(a, c) + Count(t.codes, c) + Count(t.modules, c)
      BY <3>1, RolesSplit
    <3>3. Count(t.inputs, c) = 0
      <4>1. \A k \in DOMAIN t.inputs : t.inputs[k] # c
        BY ChecksumsAssumption DEF Graphic
      <4>2. IsFiniteSet(DOMAIN t.inputs)
        BY <1>3, Domains
      <4> QED BY <4>1, <4>2, CountNat
    <3>4. Count(t.results, c) = 0
      BY Empty DEF Graphic
    <3>5. t.refs[c] = Count(f, c)
      BY DEF f
    <3>6. /\ Count(a, c) \in Nat /\ Count(t.codes, c) \in Nat /\ Count(t.modules, c) \in Nat
      BY <1>3, TotalNat DEF a
    <3> QED BY <3>2, <3>3, <3>4, <3>5, <3>6 DEF Total, a
  <2> QED BY <2>1 DEF Balances
<1> QED BY <1>3, <1>4, <1>5, <1>6, <1>7 DEF Sound, Base, Synced

LEMMA FreshFacts ==
  Sound(Fresh) /\ Fresh.low = {}
<1> DEFINE t == Fresh
           nodes2 == [p \in Paths |-> "none"]
           values2 == [k \in Paths \X Roles |-> None]
           edges2 == [k \in Paths \X Slots |-> None]
           refs2 == [c \in Checksums |-> 0]
<1>1. /\ nodes2 \in [Paths -> Kinds] /\ values2 \in [Paths \X Roles -> Maybe]
      /\ edges2 \in [Paths \X Slots -> Paths \cup {None}] /\ refs2 \in [Checksums -> Int]
      /\ \A k \in Paths \X Roles : values2[k] = None
      /\ \A k \in Paths \X Slots : edges2[k] = None
      /\ \A c \in Checksums : refs2[c] = 0
  BY DEF Kinds, Maybe
<1>2. /\ t.nodes = nodes2 /\ t.values = values2 /\ t.edges = edges2 /\ t.refs = refs2 /\ t.low = {}
      /\ t.run = [p \in Paths |-> NoRun] /\ t.held = NoRuns /\ t.inputs = [k \in Paths \X Sockets |-> None]
      /\ t.results = << >> /\ t.codes = Unheld /\ t.modules = Unheld
  BY DEF Fresh
<1>3. Typed(t)
  <2>1. t = [nodes |-> t.nodes, values |-> t.values, edges |-> t.edges, run |-> t.run, held |-> t.held,
             codes |-> t.codes, modules |-> t.modules, inputs |-> t.inputs, results |-> t.results,
             refs |-> t.refs, low |-> t.low]
    BY DEF Fresh
  <2> HIDE DEF t, nodes2, values2, edges2, refs2
  <2> QED BY <1>1, <1>2, <2>1 DEF Typed
<1> HIDE DEF nodes2, values2, edges2, refs2, t
<1>4. EdgesOK(t)
  BY <1>1, <1>2 DEF EdgesOK, Wired
<1>5. \A p \in Paths, role \in Roles : t.values[<<p, role>>] = None
  BY <1>1, <1>2
<1>6. Graphic(t)
  <2>1. /\ t.codes = [p \in Paths |-> t.values[<<p, "code">>]]
        /\ t.modules = [p \in Paths |-> t.values[<<p, "module">>]]
    <3>1. \A p \in Paths : t.values[<<p, "code">>] = None /\ t.values[<<p, "module">>] = None
      BY <1>5 DEF Roles
    <3>2. t.codes = [p \in Paths |-> None] /\ t.modules = [p \in Paths |-> None]
      BY <1>2 DEF Unheld
    <3> QED BY <3>1, <3>2
  <2>2. \A p \in Paths : t.values[<<p, "module">>] = None
    BY <1>5 DEF Roles
  <2> QED BY <1>2, <1>5, <2>1, <2>2 DEF Graphic
<1>7. Sunk(t)
  BY <1>2 DEF Sunk
<1>8. ASSUME NEW c \in Checksums PROVE t.refs[c] = Count(t.values, c)
  <2>1. DOMAIN t.values = Paths \X Roles /\ \A k \in DOMAIN t.values : t.values[k] # c
    BY <1>1, <1>2, ChecksumsAssumption
  <2> QED BY <1>1, <1>2, <2>1, Finite, CountNat
<1>9. Sound(t)
  BY <1>3, <1>4, <1>6, <1>7, <1>8, GraphicFacts
<1> QED BY <1>2, <1>9 DEF t

LEMMA LoadableFacts ==
  ASSUME NEW g \in Loadable
  PROVE  /\ g.nodes \in [Paths -> Kinds] /\ g.values \in [Paths \X Roles -> Maybe]
         /\ g.edges \in [Paths \X Slots -> Paths \cup {None}]
         /\ \A p \in Paths, slot \in Slots : g.edges[<<p, slot>>] # None =>
              g.nodes[p] # "none" /\ g.nodes[g.edges[<<p, slot>>]] # "none" /\ slot # "code"
         /\ \A p \in Paths :
              /\ g.nodes[p] # "transformer" => g.values[<<p, "module">>] = None
              /\ g.nodes[p] = "none" => \A role \in Roles : g.values[<<p, role>>] = None
<1>1. PICK site \in Sites, c \in Checksums, k \in Checksums, wired \in BOOLEAN :
        g = Graph(site[1], site[2], c, k, wired)
  BY DEF Loadable
<1> DEFINE a == site[1]
           t == site[2]
<1>2. a \in Paths /\ t \in Paths /\ a # t /\ c \in Maybe /\ k \in Maybe /\ None \in Maybe
  BY PathsAssumption DEF Maybe
<1> HIDE DEF a, t
<1>3. /\ g.nodes = [p \in Paths |-> IF p = a THEN "cell" ELSE IF p = t THEN "transformer" ELSE "none"]
      /\ g.values = [q \in Paths \X Roles |->
                 IF q = <<a, "root">> \/ (q = <<t, "pin">> /\ ~wired) THEN c
                 ELSE IF q = <<t, "code">> \/ (q = <<t, "module">> /\ ~wired) THEN k ELSE None]
      /\ g.edges = [q \in Paths \X Slots |-> IF q = <<t, "pin">> /\ wired THEN a ELSE None]
  BY <1>1 DEF Graph, a, t
<1>4. g.nodes \in [Paths -> Kinds]
  BY <1>3 DEF Kinds
<1>5. g.values \in [Paths \X Roles -> Maybe]
  BY <1>2, <1>3
<1>6. g.edges \in [Paths \X Slots -> Paths \cup {None}]
  BY <1>2, <1>3
<1>7. ASSUME NEW p \in Paths, NEW slot \in Slots, g.edges[<<p, slot>>] # None
      PROVE  g.nodes[p] # "none" /\ g.nodes[g.edges[<<p, slot>>]] # "none" /\ slot # "code"
  <2>1. p = t /\ slot = "pin" /\ g.edges[<<p, slot>>] = a
    BY <1>3, <1>7
  <2> QED BY <1>2, <1>3, <2>1
<1>8. ASSUME NEW p \in Paths, NEW role \in Roles, p # a, p # t PROVE g.values[<<p, role>>] = None
  BY <1>3, <1>8
<1>9. ASSUME NEW p \in Paths, p # t PROVE g.values[<<p, "module">>] = None
  BY <1>3, <1>9 DEF Roles
<1>10. \A p \in Paths : /\ g.nodes[p] # "transformer" => p # t
                        /\ g.nodes[p] = "none" => p # a /\ p # t
  BY <1>2, <1>3
<1> QED BY <1>4, <1>5, <1>6, <1>7, <1>8, <1>9, <1>10

LEMMA LoadFacts ==
  ASSUME NEW s, Sound(s), s.low = {}, NEW g \in Loadable
  PROVE  Sound(Load(s, g))
<1> DEFINE u == RetainEach(s, g.values)
           r == ReleaseListed(u)
           t == Load(s, g)
<1>1. s \in State /\ Base(s) /\ Synced(s) /\ Balances(s)
  BY DEF Sound, Base
<1>2. /\ g.nodes \in [Paths -> Kinds] /\ g.values \in [Paths \X Roles -> Maybe]
      /\ g.edges \in [Paths \X Slots -> Paths \cup {None}]
      /\ \A p \in Paths, slot \in Slots : g.edges[<<p, slot>>] # None =>
           g.nodes[p] # "none" /\ g.nodes[g.edges[<<p, slot>>]] # "none" /\ slot # "code"
      /\ \A p \in Paths :
           /\ g.nodes[p] # "transformer" => g.values[<<p, "module">>] = None
           /\ g.nodes[p] = "none" => \A role \in Roles : g.values[<<p, role>>] = None
  BY LoadableFacts
<1>3. \A c \in Checksums : Count(g.values, c) \in Nat
  <2>1. IsFiniteSet(DOMAIN g.values)
    BY <1>2, Finite
  <2> QED BY <2>1, CountNat
<1>4. RetainedEach(s, u, g.values)
  BY <1>1, <1>3, RetainEachFacts
<1>5. t = [Fresh EXCEPT !.refs = r.refs, !.low = r.low,
                        !.nodes = g.nodes, !.values = g.values, !.edges = g.edges,
                        !.codes = [p \in Paths |-> g.values[<<p, "code">>]],
                        !.modules = [p \in Paths |-> g.values[<<p, "module">>]]]
  BY DEF Load
<1> HIDE DEF u
<1>6. u \in State /\ Alike(s, u) /\ u.low = {} /\ \A c \in Checksums : u.refs[c] = s.refs[c] + Count(g.values, c)
  BY <1>4 DEF RetainedEach
<1>7. Returned(u, r, s)
  BY <1>1, <1>6, ReturnedFacts
<1> HIDE DEF r, t
<1>8. r \in State /\ Sunk(r) /\ \A c \in Checksums : r.refs[c] = u.refs[c] - Total(s, c)
  BY <1>6, <1>7 DEF Returned, Sinks, Sunk
<1>9. \A c \in Checksums : r.refs[c] = Count(g.values, c)
  <2>1. ASSUME NEW c \in Checksums PROVE r.refs[c] = Count(g.values, c)
    <3>1. s.refs[c] = Total(s, c) /\ s.refs[c] \in Int
      BY <1>1, Parts DEF Balances
    <3>2. u.refs[c] = s.refs[c] + Count(g.values, c) /\ r.refs[c] = u.refs[c] - Total(s, c)
      BY <1>6, <1>8
    <3> QED BY <1>3, <3>1, <3>2
  <2> QED BY <2>1
<1>10. /\ t.nodes = g.nodes /\ t.values = g.values /\ t.edges = g.edges /\ t.refs = r.refs /\ t.low = r.low
       /\ t.run = [p \in Paths |-> NoRun] /\ t.held = NoRuns /\ t.inputs = [k \in Paths \X Sockets |-> None]
       /\ t.results = << >>
       /\ t.codes = [p \in Paths |-> g.values[<<p, "code">>]]
       /\ t.modules = [p \in Paths |-> g.values[<<p, "module">>]]
       /\ t = [nodes |-> t.nodes, values |-> t.values, edges |-> t.edges, run |-> t.run, held |-> t.held,
               codes |-> t.codes, modules |-> t.modules, inputs |-> t.inputs, results |-> t.results,
               refs |-> t.refs, low |-> t.low]
  BY <1>5 DEF Fresh
<1>11. Typed(t)
  BY <1>2, <1>8, <1>10, Parts DEF Typed
<1>12. EdgesOK(t)
  BY <1>2, <1>10 DEF EdgesOK, Wired
<1>13. Graphic(t)
  BY <1>2, <1>10 DEF Graphic
<1>14. Sunk(t) /\ \A c \in Checksums : t.refs[c] = Count(t.values, c)
  BY <1>8, <1>9, <1>10 DEF Sunk
<1>15. Sound(t)
  BY <1>11, <1>12, <1>13, <1>14, GraphicFacts
<1> QED BY <1>15 DEF t

LEMMA SetGraphStep ==
  ASSUME RefholdsInv, NEW g \in Loadable, SetGraph(g)
  PROVE  RefholdsInv'
<1>1. Sound(Now) /\ Now.low = {}
  BY NowFacts
<1>2. Sound(Load(Now, g))
  BY <1>1, LoadFacts
<1>3. Op(Load(Now, g))
  BY DEF SetGraph
<1> QED BY <1>2, <1>3, OpFacts

LEMMA CloseStep ==
  ASSUME RefholdsInv, Close
  PROVE  RefholdsInv'
<1> DEFINE s == Now
           r == ReleaseListed(s)
           t == [Fresh EXCEPT !.refs = r.refs, !.low = r.low]
<1>1. Sound(s) /\ s \in State /\ Base(s) /\ Synced(s) /\ Balances(s) /\ s.low = {}
  BY NowFacts DEF Sound, Base
<1>2. Commit(t)
  BY DEF Close
<1>3. Alike(s, s)
  BY DEF Alike
<1> HIDE DEF s
<1>4. Returned(s, r, s)
  BY <1>1, <1>3, ReturnedFacts
<1> HIDE DEF r
<1>5. r \in State /\ Sunk(r) /\ \A c \in Checksums : r.refs[c] = 0
  <2>1. r \in State /\ Sunk(r)
    BY <1>1, <1>4 DEF Returned, Sinks, Sunk
  <2>2. ASSUME NEW c \in Checksums PROVE r.refs[c] = 0
    <3>1. r.refs[c] = s.refs[c] - Total(s, c) /\ s.refs[c] = Total(s, c) /\ s.refs[c] \in Int
      BY <1>1, <1>4, Parts DEF Returned, Balances
    <3> QED BY <3>1
  <2> QED BY <2>1, <2>2
<1>6. r.refs = Fresh.refs
  <2>1. r.refs \in [Checksums -> Int]
    BY <1>5, Parts
  <2> QED BY <1>5, <2>1 DEF Fresh
<1>7. Sound(Fresh) /\ Fresh \in State
  BY FreshFacts DEF Sound, Base
<1>8. t = [Fresh EXCEPT !.low = r.low]
  BY <1>6, <1>7 DEF State
<1> HIDE DEF t
<1>9. /\ Alike(Fresh, t) /\ t.refs = Fresh.refs /\ t.low = r.low
  BY <1>7, <1>8 DEF State, Alike
<1>10. t \in State
  BY <1>5, <1>7, <1>8, Parts DEF State
<1>11. Sound(t)
  <2>1. Fit(Fresh)
    BY <1>7 DEF Sound, Base, Fit
  <2>2. Fit(t)
    BY <1>9, <2>1, FitSame DEF Alike
  <2>3. Balances(t)
    BY <1>7, <1>9, AlikeTotal DEF Sound, Base, Balances
  <2>4. ModulesSynced(t)
    BY <1>7, <1>9 DEF Sound, Synced, ModulesSynced, Alike
  <2>5. Sunk(t)
    BY <1>5, <1>6, <1>9 DEF Sunk
  <2>6. NodesOK(t) /\ EdgesOK(t) /\ RunsOK(t) /\ t.held = Fresh.held /\ t.results = Fresh.results
    BY <1>9, <2>2 DEF Fit, Alike
  <2> QED BY <1>7, <1>10, <2>3, <2>4, <2>5, <2>6, StaySound
<1>12. lapsed = {} /\ calls' \in 0 .. MaxCalls
  BY BoundsAssumption DEF RefholdsInv, Close
<1>13. Base(Now') /\ Synced(Now') /\ lapsed' = {}
  BY <1>2, <1>11, <1>12, CommitFacts, SoundSpared DEF Sound
<1> QED BY <1>12, <1>13 DEF RefholdsInv

LEMMA InitFacts ==
  ASSUME Init
  PROVE  RefholdsInv
<1>1. ASSUME NEW t, Base(t), Synced(t), Is(t) PROVE Base(Now) /\ Synced(Now)
  <2>1. Now = Rest(t)
    BY <1>1 DEF Now, Rest, Is
  <2> QED BY <1>1, <2>1, RestFacts
<1>2. CASE Is(Fresh)
  <2>1. Base(Now) /\ Synced(Now)
    BY <1>1, <1>2, FreshFacts DEF Sound
  <2> QED BY <2>1, BoundsAssumption DEF Init, RefholdsInv
<1>3. ASSUME NEW g \in Loadable, Is(Derive(Load(Fresh, g))) PROVE RefholdsInv
  <2>1. Sound(Load(Fresh, g))
    BY FreshFacts, LoadFacts
  <2>2. Base(Load(Fresh, g)) /\ Spared(Load(Fresh, g))
    BY <2>1, SoundSpared DEF Sound
  <2>3. Base(Derive(Load(Fresh, g))) /\ Synced(Derive(Load(Fresh, g)))
    BY <2>2, DeriveFacts DEF Derive
  <2>4. Base(Now) /\ Synced(Now)
    BY <1>1, <1>3, <2>3
  <2> QED BY <2>4, BoundsAssumption DEF Init, RefholdsInv
<1> QED BY <1>2, <1>3 DEF Init

(***************************************************************************)
(* Nodes that go.                                                          *)
(***************************************************************************)
\* A table of which a part is cleared.
Clears(f, g, h) ==
  /\ DOMAIN f = DOMAIN g /\ IsFiniteSet(DOMAIN f) /\ DOMAIN h \subseteq DOMAIN f
  /\ \A k \in DOMAIN h : h[k] = f[k] /\ g[k] = None
  /\ \A k \in DOMAIN f \ DOMAIN h : g[k] = f[k]

LEMMA ClearedCount ==
  ASSUME NEW f, NEW g, NEW h, Clears(f, g, h), NEW c \in Checksums
  PROVE  Count(f, c) = Count(g, c) + Count(h, c) /\ Count(g, c) \in Nat /\ Count(h, c) \in Nat
<1> DEFINE rest == [k \in DOMAIN f \ DOMAIN h |-> f[k]]
           gone == [k \in DOMAIN h |-> None]
<1>1. /\ DOMAIN rest = DOMAIN f \ DOMAIN h /\ DOMAIN gone = DOMAIN h
      /\ \A k \in DOMAIN rest : rest[k] = f[k] /\ rest[k] = g[k]
      /\ \A k \in DOMAIN h : h[k] = f[k] /\ gone[k] = g[k] /\ gone[k] = None
  BY DEF Clears
<1>2. /\ IsFiniteSet(DOMAIN f) /\ IsFiniteSet(DOMAIN g) /\ DOMAIN g = DOMAIN f /\ DOMAIN h \subseteq DOMAIN f
  BY DEF Clears
<1> HIDE DEF rest, gone
<1>3. Count(f, c) = Count(h, c) + Count(rest, c) /\ Count(h, c) \in Nat /\ Count(rest, c) \in Nat
  <2>1. DOMAIN h \cup DOMAIN rest = DOMAIN f /\ DOMAIN h \cap DOMAIN rest = {}
    BY <1>1, <1>2
  <2>2. (\A k \in DOMAIN h : h[k] = f[k]) /\ (\A k \in DOMAIN rest : rest[k] = f[k])
    BY <1>1
  <2>3. IsFiniteSet(DOMAIN f)
    BY <1>2
  <2> QED BY <2>1, <2>2, <2>3, CountSplit
<1>4. Count(g, c) = Count(gone, c) + Count(rest, c) /\ Count(gone, c) \in Nat /\ Count(rest, c) \in Nat
  <2>1. DOMAIN gone \cup DOMAIN rest = DOMAIN g /\ DOMAIN gone \cap DOMAIN rest = {}
    BY <1>1, <1>2
  <2>2. \A k \in DOMAIN gone : gone[k] = g[k]
    BY <1>1
  <2>4. \A k \in DOMAIN rest : rest[k] = g[k]
    BY <1>1
  <2>3. IsFiniteSet(DOMAIN g)
    BY <1>2
  <2> QED BY <2>1, <2>2, <2>3, <2>4, CountSplit
<1>5. Count(gone, c) = 0
  <2>1. \A k \in DOMAIN gone : gone[k] # c
    BY <1>1, ChecksumsAssumption
  <2>2. IsFiniteSet(DOMAIN gone)
    BY <1>1, <1>2, FS_Subset
  <2> QED BY <2>1, <2>2, CountNat
<1> QED BY <1>3, <1>4, <1>5

\* Nodes that hold nothing any more, and are gone or another kind.
Bared(s, t, ps, kind) ==
  /\ t \in State /\ t.modules = s.modules /\ t.inputs = s.inputs /\ t.results = s.results /\ Sunk(t)
  /\ \A q \in Paths :
       /\ t.nodes[q] = IF q \in ps THEN kind ELSE s.nodes[q]
       /\ t.run[q] = IF q \in ps THEN NoRun ELSE s.run[q]
       /\ t.held[q] = IF q \in ps THEN << >> ELSE s.held[q]
       /\ t.codes[q] = IF q \in ps THEN None ELSE s.codes[q]
  /\ \A q \in Paths, role \in Roles : t.values[<<q, role>>] = IF q \in ps THEN None ELSE s.values[<<q, role>>]
  /\ \A q \in Paths, slot \in Slots : t.edges[<<q, slot>>] # None =>
       q \notin ps /\ t.edges[<<q, slot>>] = s.edges[<<q, slot>>] /\ (kind # "none" \/ t.edges[<<q, slot>>] \notin ps)

LEMMA BaredFacts ==
  ASSUME NEW s, Sound(s), NEW ps \in SUBSET Paths, NEW kind \in {"none", "cell"}, NEW t, Bared(s, t, ps, kind),
         \A c \in Checksums : t.refs[c] - s.refs[c] = (Count(Literals(t), c) - Count(Literals(s), c))
                                                      + (Count(t.codes, c) - Count(s.codes, c))
  PROVE  /\ Sound(SyncResults(SyncModules(t)))
         /\ SyncResults(SyncModules(t)).nodes = t.nodes
<1> DEFINE u == SyncModules(t)
           v == SyncResults(u)
<1>1. /\ s \in State /\ NodesOK(s) /\ EdgesOK(s) /\ RunsOK(s) /\ ResultsOK(s) /\ Balances(s)
      /\ ModulesSynced(s) /\ ResultsSynced(s)
  BY DEF Sound, Base, Synced
<1>2. t \in State /\ t.modules = s.modules /\ t.inputs = s.inputs /\ t.results = s.results /\ Sunk(t)
  BY DEF Bared
<1>3. \A q \in Paths, role \in Roles : t.values[<<q, role>>] = IF q \in ps THEN None ELSE s.values[<<q, role>>]
  BY DEF Bared
<1>4. \A q \in Paths :
        /\ t.nodes[q] = IF q \in ps THEN kind ELSE s.nodes[q]
        /\ t.run[q] = IF q \in ps THEN NoRun ELSE s.run[q]
        /\ t.held[q] = IF q \in ps THEN << >> ELSE s.held[q]
        /\ t.codes[q] = IF q \in ps THEN None ELSE s.codes[q]
  BY DEF Bared
<1>5. NodesOK(t)
  <2>1. ASSUME NEW q \in Paths
        PROVE  /\ t.codes[q] = t.values[<<q, "code">>]
               /\ t.nodes[q] # "transformer" => t.values[<<q, "module">>] = None
               /\ t.nodes[q] = "none" => \A role \in Roles : t.values[<<q, role>>] = None
    BY <1>1, <1>3, <1>4 DEF NodesOK, Roles
  <2> QED BY <2>1 DEF NodesOK
<1>6. EdgesOK(t)
  <2>1. ASSUME NEW q \in Paths, NEW slot \in Slots, Wired(t, q, slot)
        PROVE  /\ t.nodes[q] # "none" /\ t.nodes[t.edges[<<q, slot>>]] # "none"
               /\ slot = "code" => t.values[<<q, "code">>] = None
    <3> DEFINE e == t.edges[<<q, slot>>]
    <3>1. q \notin ps /\ e = s.edges[<<q, slot>>] /\ (kind # "none" \/ e \notin ps) /\ e # None
      BY <2>1 DEF Bared, Wired
    <3>2. e \in Paths
      <4>1. s.edges \in [Paths \X Slots -> Paths \cup {None}]
        BY <1>1, Parts
      <4> QED BY <3>1, <4>1
    <3> HIDE DEF e
    <3>3. s.nodes[q] # "none" /\ s.nodes[e] # "none" /\ (slot = "code" => s.values[<<q, "code">>] = None)
      BY <1>1, <3>1 DEF EdgesOK, Wired
    <3>4. t.nodes[q] # "none" /\ t.nodes[e] # "none"
      BY <1>4, <3>1, <3>2, <3>3
    <3> QED BY <1>3, <3>1, <3>3, <3>4 DEF Roles, e
  <2> QED BY <2>1 DEF EdgesOK
<1>7. RunsOK(t)
  <2>1. Right(NoRun)
    BY ChecksumsAssumption DEF Right, NoRun
  <2>2. ASSUME NEW q \in Paths PROVE RunsAt(t.nodes[q], t.run[q], t.held[q])
    <3>1. CASE q \in ps
      BY <1>4, <2>1, <3>1, BoundsAssumption DEF RunsAt, Apart
    <3>2. CASE q \notin ps
      BY <1>1, <1>4, <3>2 DEF RunsOK
    <3> QED BY <3>1, <3>2
  <2> QED BY <2>2 DEF RunsOK
<1>8. ResultsOK(t)
  BY <1>1, <1>2 DEF ResultsOK
<1>9. Balances(t)
  <2>1. ASSUME NEW c \in Checksums
        PROVE  t.refs[c] - s.refs[c] = (Count(Literals(t), c) - Count(Literals(s), c))
                                       + (Count(t.codes, c) - Count(s.codes, c))
                                       + (Count(t.modules, c) - Count(s.modules, c))
    <3>1. /\ Count(Literals(t), c) \in Nat /\ Count(Literals(s), c) \in Nat /\ Count(t.codes, c) \in Nat
          /\ Count(s.codes, c) \in Nat /\ Count(s.modules, c) \in Nat
      BY <1>1, <1>2, TotalNat
    <3>2. Count(t.modules, c) = Count(s.modules, c)
      BY <1>2
    <3>3. t.refs[c] - s.refs[c] = (Count(Literals(t), c) - Count(Literals(s), c))
                                  + (Count(t.codes, c) - Count(s.codes, c))
      OBVIOUS
    <3> QED BY <3>1, <3>2, <3>3
  <2> QED BY <1>1, <1>2, <2>1, Rebalanced
<1>10. Remoduled(t, u)
  BY <1>2, <1>5, SyncModulesFacts
<1> HIDE DEF u
<1>11. /\ u \in State /\ u.nodes = t.nodes /\ u.values = t.values /\ u.edges = t.edges /\ u.run = t.run
       /\ u.held = t.held /\ u.codes = t.codes /\ u.inputs = t.inputs /\ u.results = t.results
       /\ ModulesSynced(u) /\ \A c \in u.low : c \in t.low \/ u.refs[c] <= 0
       /\ \A c \in Checksums : u.refs[c] - Total(u, c) = t.refs[c] - Total(t, c)
       /\ \A c \in Checksums : u.refs[c] = t.refs[c] + Count(u.modules, c) - Count(t.modules, c)
  BY <1>10 DEF Remoduled
<1>12. \A c \in Checksums : u.refs[c] <= t.refs[c]
  <2> DEFINE h == [q \in ps |-> s.modules[q]]
  <2>1. Clears(s.modules, u.modules, h)
    <3>1. DOMAIN s.modules = Paths /\ DOMAIN u.modules = Paths /\ IsFiniteSet(Paths)
      BY <1>1, <1>11, Parts, Finite
    <3>2. \A q \in Paths : u.modules[q] = IF q \in ps THEN None ELSE s.modules[q]
      <4>1. ASSUME NEW q \in Paths PROVE u.modules[q] = IF q \in ps THEN None ELSE s.modules[q]
        <5>1. u.modules[q] = t.values[<<q, "module">>] /\ s.modules[q] = s.values[<<q, "module">>]
          BY <1>1, <1>11 DEF ModulesSynced
        <5> QED BY <1>3, <5>1 DEF Roles
      <4> QED BY <4>1
    <3>3. DOMAIN h = ps /\ \A q \in ps : h[q] = s.modules[q]
      OBVIOUS
    <3> HIDE DEF h
    <3> QED BY <3>1, <3>2, <3>3 DEF Clears
  <2> HIDE DEF h
  <2>2. ASSUME NEW c \in Checksums PROVE u.refs[c] <= t.refs[c]
    <3>1. Count(s.modules, c) = Count(u.modules, c) + Count(h, c) /\ Count(u.modules, c) \in Nat /\ Count(h, c) \in Nat
      BY <2>1, ClearedCount
    <3>2. t.refs[c] \in Int
      BY <1>2, Parts
    <3>3. u.refs[c] = t.refs[c] + Count(u.modules, c) - Count(s.modules, c)
      BY <1>2, <1>11
    <3> QED BY <3>1, <3>2, <3>3
  <2> QED BY <2>2
<1>13. Sunk(u)
  <2>1. \A c \in u.low : c \in Checksums /\ u.refs[c] \in Int
    BY <1>11, Parts
  <2>2. \A c \in t.low : c \in Checksums /\ t.refs[c] \in Int /\ t.refs[c] <= 0
    BY <1>2, Parts DEF Sunk
  <2> QED BY <1>11, <1>12, <2>1, <2>2 DEF Sunk
<1>14. Balances(u)
  <2>1. ASSUME NEW c \in Checksums PROVE u.refs[c] = Total(u, c)
    <3>1. u.refs[c] - Total(u, c) = t.refs[c] - Total(t, c) /\ t.refs[c] = Total(t, c)
      BY <1>9, <1>11 DEF Balances
    <3>2. u.refs[c] \in Int /\ t.refs[c] \in Int /\ Total(u, c) \in Int
      BY <1>2, <1>11, Parts, TotalNat
    <3> QED BY <3>1, <3>2
  <2> QED BY <2>1 DEF Balances
<1>15. Fit(u)
  BY <1>5, <1>6, <1>7, <1>8, <1>11, FitSame DEF Fit
<1>16. Reresulted(u, v)
  BY <1>11, <1>15, SyncResultsFacts DEF Fit
<1> HIDE DEF v
<1>17. {KeyOf(u, h) : h \in Done(u)} \subseteq DOMAIN u.results
  <2>1. ASSUME NEW h \in Done(u) PROVE KeyOf(u, h) \in DOMAIN u.results
    <3>1. h[1] \in Paths /\ h[2] \in DOMAIN u.held[h[1]] /\ h = <<h[1], h[2]>> /\ u.held[h[1]][h[2]].out \in Checksums
      BY <1>11, <1>15, <2>1, DoneFacts DEF Fit
    <3>2. u.held[h[1]] = s.held[h[1]]
      BY <1>4, <1>11, <3>1
    <3>3. h \in Done(s) /\ KeyOf(s, h) = KeyOf(u, h)
      BY <3>1, <3>2 DEF Done, KeyOf
    <3> QED BY <1>1, <1>2, <1>11, <3>3 DEF ResultsSynced
  <2> QED BY <2>1
<1>18. /\ v \in State /\ v.nodes = t.nodes /\ v.values = u.values /\ v.edges = u.edges /\ v.run = u.run
       /\ v.held = u.held /\ v.codes = u.codes /\ v.modules = u.modules /\ ResultsOK(v) /\ ResultsSynced(v)
       /\ \A c \in Checksums : v.refs[c] - Total(v, c) = u.refs[c] - Total(u, c)
  BY <1>11, <1>16 DEF Reresulted
<1>19. Balances(v)
  <2>1. ASSUME NEW c \in Checksums PROVE v.refs[c] = Total(v, c)
    <3>1. v.refs[c] - Total(v, c) = u.refs[c] - Total(u, c) /\ u.refs[c] = Total(u, c)
      BY <1>14, <1>18 DEF Balances
    <3>2. v.refs[c] \in Int /\ u.refs[c] \in Int /\ Total(v, c) \in Int
      BY <1>11, <1>18, Parts, TotalNat
    <3> QED BY <3>1, <3>2
  <2> QED BY <2>1 DEF Balances
<1>20. Sunk(v)
  BY <1>13, <1>16, <1>17 DEF Reresulted, Sinks
<1>21. NodesOK(v) /\ EdgesOK(v) /\ RunsOK(v) /\ ModulesSynced(v)
  BY <1>11, <1>15, <1>18 DEF Fit, NodesOK, EdgesOK, Wired, RunsOK, ModulesSynced
<1>22. Sound(v)
  BY <1>18, <1>19, <1>20, <1>21 DEF Sound, Base, Synced
<1> QED BY <1>18, <1>22 DEF u, v

\* What the nodes of ps hold on the shelf, and their codes.
Curs(s, ps) == [k \in ps \X {"current"} |-> s.values[k]]
Prods(s, ps) == [k \in ps \X {"root", "pin"} |-> s.values[k]]
Cods(s, ps) == [p \in ps |-> s.codes[p]]
Vacant(s, t, ps) == \A q \in Paths, role \in Roles :
  t.values[<<q, role>>] = IF q \in ps THEN None ELSE s.values[<<q, role>>]

LEMMA ShelfGone ==
  ASSUME NEW s \in State, NEW t \in State, NEW ps \in SUBSET Paths, Vacant(s, t, ps), NEW c \in Checksums
  PROVE  /\ Count(Literals(s), c) = Count(Literals(t), c) + Count(Curs(s, ps), c) + Count(Prods(s, ps), c)
         /\ Count(Curs(s, ps), c) \in Nat /\ Count(Prods(s, ps), c) \in Nat
<1> DEFINE h == [k \in ps \X {"root", "pin", "current"} |-> s.values[k]]
<1>1. /\ DOMAIN Literals(s) = Shelf /\ DOMAIN Literals(t) = Shelf /\ IsFiniteSet(Shelf)
      /\ DOMAIN h \subseteq Shelf
  BY Finite DEF Literals, Shelf
<1>2. \A k \in Shelf : Literals(s)[k] = s.values[k] /\ Literals(t)[k] = t.values[k]
  BY DEF Literals
<1>3. \A k \in Shelf : t.values[k] = IF k[1] \in ps THEN None ELSE s.values[k]
  <2>1. ASSUME NEW k \in Shelf PROVE t.values[k] = IF k[1] \in ps THEN None ELSE s.values[k]
    <3>1. PICK q \in Paths, role \in {"root", "pin", "current"} : k = <<q, role>>
      BY DEF Shelf
    <3> QED BY <3>1 DEF Vacant, Roles
  <2> QED BY <2>1
<1>4. \A k \in Shelf : (k \in DOMAIN h <=> k[1] \in ps) /\ (k \in DOMAIN h => h[k] = s.values[k])
  BY DEF Shelf
<1>5. /\ DOMAIN Curs(s, ps) \cup DOMAIN Prods(s, ps) = DOMAIN h /\ DOMAIN Curs(s, ps) \cap DOMAIN Prods(s, ps) = {}
      /\ \A k \in DOMAIN Curs(s, ps) : Curs(s, ps)[k] = h[k]
      /\ \A k \in DOMAIN Prods(s, ps) : Prods(s, ps)[k] = h[k]
  BY DEF Curs, Prods
<1> HIDE DEF h
<1>6. Clears(Literals(s), Literals(t), h)
  BY <1>1, <1>2, <1>3, <1>4 DEF Clears
<1>7. Count(Literals(s), c) = Count(Literals(t), c) + Count(h, c) /\ Count(Literals(t), c) \in Nat /\ Count(h, c) \in Nat
  BY <1>6, ClearedCount
<1>8. IsFiniteSet(DOMAIN h)
  BY <1>1, FS_Subset
<1>9. Count(h, c) = Count(Curs(s, ps), c) + Count(Prods(s, ps), c)
      /\ Count(Curs(s, ps), c) \in Nat /\ Count(Prods(s, ps), c) \in Nat
  BY <1>5, <1>8, CountSplit
<1> QED BY <1>7, <1>9

LEMMA CodesGone ==
  ASSUME NEW s \in State, NEW t \in State, NEW ps \in SUBSET Paths, NEW c \in Checksums,
         \A q \in Paths : t.codes[q] = IF q \in ps THEN None ELSE s.codes[q]
  PROVE  Count(s.codes, c) = Count(t.codes, c) + Count(Cods(s, ps), c) /\ Count(Cods(s, ps), c) \in Nat
<1> DEFINE h == Cods(s, ps)
<1>1. DOMAIN s.codes = Paths /\ DOMAIN t.codes = Paths /\ IsFiniteSet(Paths)
  BY Parts, Finite
<1>2. DOMAIN h = ps /\ \A q \in ps : h[q] = s.codes[q]
  BY DEF Cods
<1> HIDE DEF h
<1>3. Clears(s.codes, t.codes, h)
  BY <1>1, <1>2 DEF Clears
<1>4. Count(s.codes, c) = Count(t.codes, c) + Count(h, c) /\ Count(t.codes, c) \in Nat /\ Count(h, c) \in Nat
  BY <1>3, ClearedCount
<1> QED BY <1>4 DEF h

\* Releasing the codes of ps, forgetting its runs, and its nodes becoming others.
Revoked(s, t, ps) ==
  /\ t \in State /\ t.nodes = s.nodes /\ t.values = s.values /\ t.edges = s.edges /\ t.run = s.run /\ t.held = s.held
  /\ t.modules = s.modules /\ t.inputs = s.inputs /\ t.results = s.results /\ (Sunk(s) => Sunk(t))
  /\ \A q \in Paths : t.codes[q] = IF q \in ps THEN None ELSE s.codes[q]
Forgot(s, t, ps) ==
  /\ t \in State /\ t.nodes = s.nodes /\ t.values = s.values /\ t.edges = s.edges /\ t.codes = s.codes
  /\ t.modules = s.modules /\ t.inputs = s.inputs /\ t.results = s.results /\ t.refs = s.refs /\ t.low = s.low
  /\ \A q \in Paths : t.run[q] = (IF q \in ps THEN NoRun ELSE s.run[q]) /\ t.held[q] = (IF q \in ps THEN << >> ELSE s.held[q])
Dressed(s, t, ps, kind) ==
  /\ t \in State /\ t.edges = s.edges /\ t.run = s.run /\ t.held = s.held /\ t.codes = s.codes
  /\ t.modules = s.modules /\ t.inputs = s.inputs /\ t.results = s.results /\ t.refs = s.refs /\ t.low = s.low
  /\ Vacant(s, t, ps) /\ \A q \in Paths : t.nodes[q] = IF q \in ps THEN kind ELSE s.nodes[q]

LEMMA ReleaseCodesFacts ==
  ASSUME NEW s \in State, NEW ps \in SUBSET Paths
  PROVE  /\ Revoked(s, ReleaseCodes(s, ps), ps)
         /\ \A d \in Checksums : ReleaseCodes(s, ps).refs[d] = s.refs[d] - Count(Cods(s, ps), d)
<1> DEFINE t == ReleaseCodes(s, ps)
           u == ReleaseEach(s, Cods(s, ps))
           codes2 == [p \in Paths |-> IF p \in ps THEN None ELSE s.codes[p]]
<1>1. \A d \in Checksums : Count(Cods(s, ps), d) \in Nat
  <2>1. DOMAIN Cods(s, ps) = ps /\ IsFiniteSet(ps)
    BY Finite, FS_Subset DEF Cods
  <2> QED BY <2>1, CountNat
<1>2. ReleasedEach(s, u, Cods(s, ps))
  BY <1>1, ReleaseEachFacts
<1>3. t = [u EXCEPT !.codes = codes2]
  BY DEF ReleaseCodes, Cods
<1>4. codes2 \in [Paths -> Maybe]
  BY Parts DEF Maybe
<1> HIDE DEF u, t, codes2
<1>5. u \in State /\ Alike(s, u) /\ (Sunk(s) => Sunk(u)) /\ \A d \in Checksums : u.refs[d] = s.refs[d] - Count(Cods(s, ps), d)
  BY <1>2 DEF ReleasedEach, Sinks
<1>6. t \in State
  BY <1>3, <1>4, <1>5 DEF State
<1>7. t.nodes = s.nodes /\ t.values = s.values /\ t.edges = s.edges /\ t.run = s.run /\ t.held = s.held
      /\ t.modules = s.modules /\ t.inputs = s.inputs /\ t.results = s.results /\ t.codes = codes2
      /\ t.refs = u.refs /\ t.low = u.low
  BY <1>3, <1>5 DEF State, Alike
<1>8. Revoked(s, t, ps)
  BY <1>5, <1>6, <1>7 DEF Revoked, codes2, Sunk
<1>9. \A d \in Checksums : t.refs[d] = s.refs[d] - Count(Cods(s, ps), d)
  BY <1>5, <1>7
<1> QED BY <1>8, <1>9 DEF t

LEMMA ForgetRunsFacts ==
  ASSUME NEW s \in State, NEW ps
  PROVE  Forgot(s, ForgetRuns(s, ps), ps)
<1> DEFINE t == ForgetRuns(s, ps)
           run2 == [p \in Paths |-> IF p \in ps THEN NoRun ELSE s.run[p]]
           held2 == [p \in Paths |-> IF p \in ps THEN << >> ELSE s.held[p]]
<1>1. t = [s EXCEPT !.run = run2, !.held = held2]
  BY DEF ForgetRuns
<1>2. run2 \in [Paths -> Run \cup {NoRun}] /\ held2 \in [Paths -> Seq(Run)]
  BY Parts
<1>3. \A q \in Paths : run2[q] = (IF q \in ps THEN NoRun ELSE s.run[q]) /\ held2[q] = (IF q \in ps THEN << >> ELSE s.held[q])
  OBVIOUS
<1> HIDE DEF t, run2, held2
<1>4. t \in State
  BY <1>1, <1>2 DEF State
<1>5. t.nodes = s.nodes /\ t.values = s.values /\ t.edges = s.edges /\ t.codes = s.codes
      /\ t.modules = s.modules /\ t.inputs = s.inputs /\ t.results = s.results /\ t.refs = s.refs /\ t.low = s.low
      /\ t.run = run2 /\ t.held = held2
  BY <1>1 DEF State
<1>6. Forgot(s, t, ps)
  BY <1>3, <1>4, <1>5 DEF Forgot
<1> QED BY <1>6 DEF t

LEMMA WithTyped ==
  ASSUME NEW s \in State, NEW ps, NEW kind \in Kinds
  PROVE  Dressed(s, With(s, ps, kind), ps, kind)
<1> DEFINE t == With(s, ps, kind)
           nodes2 == [q \in Paths |-> IF q \in ps THEN kind ELSE s.nodes[q]]
           values2 == [k \in Paths \X Roles |-> IF k[1] \in ps THEN None ELSE s.values[k]]
<1>1. t = [s EXCEPT !.nodes = nodes2, !.values = values2]
  BY DEF With
<1>2. nodes2 \in [Paths -> Kinds] /\ values2 \in [Paths \X Roles -> Maybe]
  BY Parts DEF Maybe
<1>3. \A q \in Paths : nodes2[q] = IF q \in ps THEN kind ELSE s.nodes[q]
  OBVIOUS
<1>4. \A q \in Paths, role \in Roles : values2[<<q, role>>] = IF q \in ps THEN None ELSE s.values[<<q, role>>]
  OBVIOUS
<1> HIDE DEF t, nodes2, values2
<1>5. t \in State
  BY <1>1, <1>2 DEF State
<1>6. t.edges = s.edges /\ t.run = s.run /\ t.held = s.held /\ t.codes = s.codes
      /\ t.modules = s.modules /\ t.inputs = s.inputs /\ t.results = s.results /\ t.refs = s.refs /\ t.low = s.low
      /\ t.nodes = nodes2 /\ t.values = values2
  BY <1>1 DEF State
<1>7. Dressed(s, t, ps, kind)
  BY <1>3, <1>4, <1>5, <1>6 DEF Dressed, Vacant
<1> QED BY <1>7 DEF t

\* What the roots and pins hold, released one by one: the claims on the shelf.
Spent(s, t, ps) ==
  /\ t \in State /\ Alike(s, t) /\ (Sunk(s) => Sunk(t))
  /\ \A d \in Checksums : t.refs[d] = s.refs[d] - Count(Prods(s, ps), d)

LEMMA ReleaseProducersFacts ==
  ASSUME NEW s \in State, NEW ps \in SUBSET Paths
  PROVE  Spent(s, ReleaseProducers(s, ps), ps)
<1>1. \A d \in Checksums : Count(Prods(s, ps), d) \in Nat
  <2>1. DOMAIN Prods(s, ps) \subseteq Shelf
    BY DEF Prods, Shelf
  <2>2. IsFiniteSet(DOMAIN Prods(s, ps))
    BY <2>1, Finite, FS_Subset
  <2> QED BY <2>2, CountNat
<1>2. ReleaseProducers(s, ps) = ReleaseEach(s, Prods(s, ps))
  BY DEF ReleaseProducers, Prods
<1>3. ReleasedEach(s, ReleaseEach(s, Prods(s, ps)), Prods(s, ps))
  BY <1>1, ReleaseEachFacts
<1> QED BY <1>2, <1>3 DEF ReleasedEach, Sinks, Spent

LEMMA DeleteFacts ==
  ASSUME NEW s, Sound(s), NEW ps \in SUBSET Paths
  PROVE  Sound(DeleteSubtree(s, ps))
<1> DEFINE a == ReleaseCurrents(s, ps)
           b == ReleaseProducers(a, ps)
           c == ReleaseCodes(b, ps)
           d == ForgetRuns(c, ps)
           e == With(d, ps, "none")
           kept == [k \in Paths \X Slots |-> IF k[1] \in ps \/ s.edges[k] \in ps THEN None ELSE s.edges[k]]
           t == [e EXCEPT !.edges = kept]
<1>1. s \in State /\ Sunk(s)
  BY DEF Sound, Base
<1>2. DeleteSubtree(s, ps) = SyncResults(SyncModules(t))
  BY DEF DeleteSubtree
<1>3. /\ a \in State /\ Alike(s, a) /\ Sunk(a)
      /\ \A x \in Checksums : a.refs[x] = s.refs[x] - Count(Curs(s, ps), x)
  <2>1. \A x \in Checksums : Count(Curs(s, ps), x) \in Nat
    <3>1. DOMAIN Curs(s, ps) \subseteq Shelf
      BY DEF Curs, Shelf
    <3>2. IsFiniteSet(DOMAIN Curs(s, ps))
      BY <3>1, Finite, FS_Subset
    <3> QED BY <3>2, CountNat
  <2>2. a = ReleaseEach(s, Curs(s, ps))
    BY DEF ReleaseCurrents, Curs
  <2>3. ReleasedEach(s, ReleaseEach(s, Curs(s, ps)), Curs(s, ps))
    BY <1>1, <2>1, ReleaseEachFacts
  <2> QED BY <1>1, <2>2, <2>3 DEF ReleasedEach, Sinks
<1> HIDE DEF a
<1>4. /\ b \in State /\ Alike(s, b) /\ Sunk(b)
      /\ \A x \in Checksums : b.refs[x] = a.refs[x] - Count(Prods(s, ps), x)
  <2>1. Spent(a, b, ps)
    BY <1>3, ReleaseProducersFacts
  <2>2. Prods(a, ps) = Prods(s, ps)
    BY <1>3 DEF Prods, Alike
  <2> HIDE DEF b
  <2> QED BY <1>3, <2>1, <2>2 DEF Spent, Alike
<1> HIDE DEF b
<1>5. /\ c \in State /\ Sunk(c) /\ c.nodes = s.nodes /\ c.values = s.values /\ c.edges = s.edges /\ c.run = s.run
      /\ c.held = s.held /\ c.modules = s.modules /\ c.inputs = s.inputs /\ c.results = s.results
      /\ \A q \in Paths : c.codes[q] = IF q \in ps THEN None ELSE s.codes[q]
      /\ \A x \in Checksums : c.refs[x] = b.refs[x] - Count(Cods(s, ps), x)
  <2>1. Revoked(b, c, ps) /\ \A x \in Checksums : c.refs[x] = b.refs[x] - Count(Cods(b, ps), x)
    BY <1>4, ReleaseCodesFacts
  <2>2. Cods(b, ps) = Cods(s, ps)
    BY <1>4 DEF Cods, Alike
  <2> HIDE DEF c
  <2> QED BY <1>4, <2>1, <2>2 DEF Revoked, Alike
<1> HIDE DEF c
<1>6. Forgot(c, d, ps)
  BY <1>5, ForgetRunsFacts
<1> HIDE DEF d
<1>7. Dressed(d, e, ps, "none")
  BY <1>6, WithTyped DEF Forgot, Kinds
<1> HIDE DEF e
<1>8. kept \in [Paths \X Slots -> Paths \cup {None}]
      /\ \A q \in Paths, slot \in Slots : kept[<<q, slot>>] # None =>
           q \notin ps /\ kept[<<q, slot>>] = s.edges[<<q, slot>>] /\ kept[<<q, slot>>] \notin ps
  BY <1>1, Parts
<1> HIDE DEF kept
<1>9. t \in State
  BY <1>7, <1>8 DEF Dressed, State
<1>10. /\ t.edges = kept /\ t.nodes = e.nodes /\ t.values = e.values /\ t.run = e.run /\ t.held = e.held
       /\ t.codes = e.codes /\ t.modules = e.modules /\ t.inputs = e.inputs /\ t.results = e.results
       /\ t.refs = e.refs /\ t.low = e.low
  BY <1>7 DEF Dressed, State
<1> HIDE DEF t
<1>11. Vacant(s, t, ps)
  <2>1. t.values = e.values /\ d.values = s.values
    BY <1>5, <1>6, <1>10 DEF Forgot
  <2>2. Vacant(d, e, ps)
    BY <1>7 DEF Dressed
  <2> QED BY <2>1, <2>2 DEF Vacant
<1>12. Bared(s, t, ps, "none")
  <2>1. t.modules = s.modules /\ t.inputs = s.inputs /\ t.results = s.results /\ t.codes = c.codes
    BY <1>5, <1>6, <1>7, <1>10 DEF Forgot, Dressed
  <2>2. Sunk(t)
    BY <1>5, <1>6, <1>7, <1>10 DEF Forgot, Dressed, Sunk
  <2>3. \A q \in Paths :
          /\ t.nodes[q] = IF q \in ps THEN "none" ELSE s.nodes[q]
          /\ t.run[q] = IF q \in ps THEN NoRun ELSE s.run[q]
          /\ t.held[q] = IF q \in ps THEN << >> ELSE s.held[q]
    BY <1>5, <1>6, <1>7, <1>10 DEF Forgot, Dressed
  <2> QED BY <1>5, <1>8, <1>9, <1>10, <1>11, <2>1, <2>2, <2>3 DEF Bared, Vacant
<1>13. ASSUME NEW x \in Checksums
       PROVE  t.refs[x] - s.refs[x] = (Count(Literals(t), x) - Count(Literals(s), x))
                                      + (Count(t.codes, x) - Count(s.codes, x))
  <2>1. t.refs[x] = s.refs[x] - Count(Curs(s, ps), x) - Count(Prods(s, ps), x) - Count(Cods(s, ps), x)
    BY <1>3, <1>4, <1>5, <1>6, <1>7, <1>10 DEF Forgot, Dressed
  <2>2. /\ Count(Literals(s), x) = Count(Literals(t), x) + Count(Curs(s, ps), x) + Count(Prods(s, ps), x)
        /\ Count(Curs(s, ps), x) \in Nat /\ Count(Prods(s, ps), x) \in Nat
    BY <1>1, <1>9, <1>11, ShelfGone
  <2>3. Count(s.codes, x) = Count(t.codes, x) + Count(Cods(s, ps), x) /\ Count(Cods(s, ps), x) \in Nat
    <3>1. \A q \in Paths : t.codes[q] = IF q \in ps THEN None ELSE s.codes[q]
      BY <1>12 DEF Bared
    <3> QED BY <1>1, <1>9, <3>1, CodesGone
  <2>4. /\ Count(Literals(t), x) \in Nat /\ Count(t.codes, x) \in Nat /\ s.refs[x] \in Int
    BY <1>1, <1>9, TotalNat, Parts
  <2> QED BY <2>1, <2>2, <2>3, <2>4
<1>14. Sound(SyncResults(SyncModules(t)))
  BY <1>12, <1>13, BaredFacts
<1> QED BY <1>2, <1>14 DEF t

LEMMA DeleteStep ==
  ASSUME RefholdsInv, NEW ps, Delete(ps)
  PROVE  RefholdsInv'
<1> DEFINE qs == ps \cap Present(Now)
<1>1. qs \in SUBSET Paths
  BY DEF Present
<1>2. Op(DeleteSubtree(Now, qs))
  BY DEF Delete
<1> HIDE DEF qs
<1>3. Sound(DeleteSubtree(Now, qs))
  BY <1>1, NowFacts, DeleteFacts
<1> QED BY <1>2, <1>3, OpFacts

LEMMA CreateFailsStep ==
  ASSUME RefholdsInv, NEW p \in Paths, NEW code \in Checksums, CreateFails(p, code)
  PROVE  RefholdsInv'
<1>1. nodes[p] = "none" /\ Op(DeleteSubtree(Created(p, code), {p}))
  BY DEF CreateFails
<1>2. Sound(Created(p, code))
  BY <1>1, CreatedFacts
<1>3. Sound(DeleteSubtree(Created(p, code), {p}))
  BY <1>2, DeleteFacts
<1> QED BY <1>1, <1>3, OpFacts

LEMMA ReleaseCodeFacts ==
  ASSUME NEW s \in State, NEW p \in Paths
  PROVE  /\ Revoked(s, ReleaseCode(s, p), {p})
         /\ \A d \in Checksums : ReleaseCode(s, p).refs[d] - s.refs[d]
                                   = Count(ReleaseCode(s, p).codes, d) - Count(s.codes, d)
<1> DEFINE t == ReleaseCode(s, p)
           u == Release(s, s.codes[p])
           codes2 == [s.codes EXCEPT ![p] = None]
<1>1. s.codes \in [Paths -> Maybe] /\ s.codes[p] \in Maybe /\ None \in Maybe
  BY Parts DEF Maybe
<1>2. Released(s, u, s.codes[p])
  BY <1>1, ReleaseFacts
<1>3. t = [u EXCEPT !.codes = [u.codes EXCEPT ![p] = None]]
  BY DEF ReleaseCode
<1>4. codes2 \in [Paths -> Maybe] /\ \A q \in Paths : codes2[q] = IF q \in {p} THEN None ELSE s.codes[q]
  BY <1>1
<1>5. \A d : Count(codes2, d) = Count(s.codes, d) - Ind(s.codes[p], d) + Ind(None, d)
  BY <1>1, TableOff
<1> HIDE DEF u, t
<1>6. u \in State /\ Alike(s, u) /\ (Sunk(s) => Sunk(u)) /\ \A d \in Checksums : u.refs[d] = s.refs[d] - Ind(s.codes[p], d)
  BY <1>2 DEF Released, Sinks
<1>7. t = [u EXCEPT !.codes = codes2]
  BY <1>3, <1>6 DEF Alike
<1> HIDE DEF codes2
<1>8. t \in State
  BY <1>4, <1>6, <1>7 DEF State
<1>9. t.nodes = s.nodes /\ t.values = s.values /\ t.edges = s.edges /\ t.run = s.run /\ t.held = s.held
      /\ t.modules = s.modules /\ t.inputs = s.inputs /\ t.results = s.results /\ t.codes = codes2
      /\ t.refs = u.refs /\ t.low = u.low
  BY <1>6, <1>7 DEF State, Alike
<1>10. Revoked(s, t, {p})
  BY <1>4, <1>6, <1>8, <1>9 DEF Revoked, Sunk
<1>11. ASSUME NEW d \in Checksums PROVE t.refs[d] - s.refs[d] = Count(t.codes, d) - Count(s.codes, d)
  <2>1. Ind(None, d) = 0 /\ Ind(s.codes[p], d) \in Int
    BY ChecksumsAssumption DEF Ind
  <2>2. s.refs[d] \in Int /\ Count(s.codes, d) \in Nat
    BY Parts, TotalNat
  <2>3. t.refs[d] = s.refs[d] - Ind(s.codes[p], d)
    BY <1>6, <1>9
  <2>4. Count(t.codes, d) = Count(s.codes, d) - Ind(s.codes[p], d) + Ind(None, d)
    BY <1>5, <1>9
  <2> QED BY <2>1, <2>2, <2>3, <2>4
<1> QED BY <1>10, <1>11 DEF t

\* A transformer that shows nothing becomes a cell.
Recast(s, p) ==
  LET bare == ReleaseCode(ReleaseProducers(s, {p}), p)
  IN  ForgetRuns(RemoveEdges(With(bare, {p}, "cell"), p, Slots), {p})

LEMMA RecastFacts ==
  ASSUME NEW s, Sound(s), NEW p \in Paths, s.values[<<p, "current">>] = None
  PROVE  /\ Sound(SyncResults(SyncModules(Recast(s, p))))
         /\ \A q \in Paths : SyncResults(SyncModules(Recast(s, p))).nodes[q] = IF q = p THEN "cell" ELSE s.nodes[q]
<1> DEFINE b == ReleaseProducers(s, {p})
           c == ReleaseCode(b, p)
           e == With(c, {p}, "cell")
           r == RemoveEdges(e, p, Slots)
           t == ForgetRuns(r, {p})
<1>1. s \in State /\ Sunk(s) /\ {p} \in SUBSET Paths
  BY DEF Sound, Base
<1>2. Recast(s, p) = t
  BY DEF Recast
<1>3. Spent(s, b, {p})
  BY <1>1, ReleaseProducersFacts
<1> HIDE DEF b
<1>4. /\ b \in State /\ Alike(s, b) /\ Sunk(b)
      /\ \A x \in Checksums : b.refs[x] = s.refs[x] - Count(Prods(s, {p}), x)
  BY <1>1, <1>3 DEF Spent
<1>5. Revoked(b, c, {p}) /\ \A x \in Checksums : c.refs[x] - b.refs[x] = Count(c.codes, x) - Count(b.codes, x)
  BY <1>4, ReleaseCodeFacts
<1> HIDE DEF c
<1>6. /\ c \in State /\ Sunk(c) /\ c.nodes = s.nodes /\ c.values = s.values /\ c.edges = s.edges /\ c.run = s.run
      /\ c.held = s.held /\ c.modules = s.modules /\ c.inputs = s.inputs /\ c.results = s.results
      /\ \A q \in Paths : c.codes[q] = IF q \in {p} THEN None ELSE s.codes[q]
      /\ \A x \in Checksums : c.refs[x] - b.refs[x] = Count(c.codes, x) - Count(s.codes, x)
  BY <1>4, <1>5 DEF Revoked, Alike
<1>7. Dressed(c, e, {p}, "cell")
  BY <1>6, WithTyped DEF Kinds
<1> HIDE DEF e
<1>8. Unwired(e, r) /\ \A q \in Paths, slot \in Slots :
                         r.edges[<<q, slot>>] = IF q = p /\ slot \in Slots THEN None ELSE e.edges[<<q, slot>>]
  BY <1>7, UnwireFacts DEF Dressed
<1> HIDE DEF r
<1>9. Forgot(r, t, {p})
  BY <1>8, ForgetRunsFacts DEF Unwired
<1> HIDE DEF t
<1>10. t \in State /\ t.values = e.values /\ t.nodes = e.nodes /\ t.codes = c.codes /\ t.modules = s.modules
       /\ t.inputs = s.inputs /\ t.results = s.results /\ t.refs = c.refs /\ t.low = c.low
  BY <1>6, <1>7, <1>8, <1>9 DEF Dressed, Unwired, Forgot
<1>11. Vacant(s, t, {p})
  <2>1. Vacant(c, e, {p}) /\ c.values = s.values /\ t.values = e.values
    BY <1>6, <1>7, <1>10 DEF Dressed
  <2> QED BY <2>1 DEF Vacant
<1>12. Sunk(t)
  BY <1>6, <1>10 DEF Sunk
<1>13. \A q \in Paths : t.nodes[q] = IF q \in {p} THEN "cell" ELSE s.nodes[q]
  BY <1>6, <1>7, <1>10 DEF Dressed
<1>14. \A q \in Paths : /\ t.run[q] = IF q \in {p} THEN NoRun ELSE s.run[q]
                        /\ t.held[q] = IF q \in {p} THEN << >> ELSE s.held[q]
  <2>1. r.run = s.run /\ r.held = s.held
    BY <1>6, <1>7, <1>8 DEF Dressed, Unwired
  <2> QED BY <1>9, <2>1 DEF Forgot
<1>15. \A q \in Paths, slot \in Slots : t.edges[<<q, slot>>] # None =>
         q \notin {p} /\ t.edges[<<q, slot>>] = s.edges[<<q, slot>>]
  <2>1. t.edges = r.edges /\ e.edges = s.edges
    BY <1>6, <1>7, <1>9 DEF Forgot, Dressed
  <2> QED BY <1>8, <2>1
<1>16. Bared(s, t, {p}, "cell")
  BY <1>6, <1>10, <1>11, <1>12, <1>13, <1>14, <1>15 DEF Bared, Vacant
<1>17. ASSUME NEW x \in Checksums
       PROVE  t.refs[x] - s.refs[x] = (Count(Literals(t), x) - Count(Literals(s), x))
                                      + (Count(t.codes, x) - Count(s.codes, x))
  <2>1. t.refs[x] = c.refs[x] /\ b.refs[x] = s.refs[x] - Count(Prods(s, {p}), x)
        /\ c.refs[x] - b.refs[x] = Count(t.codes, x) - Count(s.codes, x)
    BY <1>4, <1>6, <1>10
  <2>2. /\ Count(Literals(s), x) = Count(Literals(t), x) + Count(Curs(s, {p}), x) + Count(Prods(s, {p}), x)
        /\ Count(Curs(s, {p}), x) \in Nat /\ Count(Prods(s, {p}), x) \in Nat
    BY <1>1, <1>10, <1>11, ShelfGone
  <2>3. Count(Curs(s, {p}), x) = 0
    <3>1. IsFiniteSet(DOMAIN Curs(s, {p}))
      <4>1. DOMAIN Curs(s, {p}) \subseteq Shelf
        BY DEF Curs, Shelf
      <4> QED BY <4>1, Finite, FS_Subset
    <3>2. \A k \in DOMAIN Curs(s, {p}) : Curs(s, {p})[k] # x
      BY ChecksumsAssumption DEF Curs
    <3> QED BY <3>1, <3>2, CountNat
  <2>4. /\ Count(Literals(t), x) \in Nat /\ Count(t.codes, x) \in Nat /\ Count(s.codes, x) \in Nat
        /\ s.refs[x] \in Int /\ b.refs[x] \in Int /\ c.refs[x] \in Int
    BY <1>1, <1>4, <1>6, <1>10, TotalNat, Parts
  <2> QED BY <2>1, <2>2, <2>3, <2>4
<1>18. Sound(SyncResults(SyncModules(t))) /\ SyncResults(SyncModules(t)).nodes = t.nodes
  BY <1>1, <1>16, <1>17, BaredFacts
<1> QED BY <1>2, <1>13, <1>18

LEMMA AssignSourceStep ==
  ASSUME RefholdsInv, NEW p \in Paths, NEW source \in Paths, AssignSource(p, source)
  PROVE  RefholdsInv'
<1>1. Sound(Now) /\ Now \in State /\ Now.low = {} /\ Now.nodes = nodes /\ nodes[source] # "none"
  BY NowFacts DEF AssignSource
<1>2. CASE nodes[p] = "none" /\ Op(AddEndpointEdge(With(Now, {p}, "cell"), source, p, "root"))
  <2> DEFINE u == With(Now, {p}, "cell")
  <2>1. Grown(Now, u, p, "cell")
    BY <1>1, <1>2, WithFacts
  <2> HIDE DEF u
  <2>2. Sound(u) /\ u.nodes[p] # "none" /\ u.nodes[source] # "none"
    BY <1>1, <2>1, Parts DEF Grown
  <2>3. Sound(AddEndpointEdge(u, source, p, "root"))
    BY <2>2, EndpointFacts
  <2> QED BY <1>2, <2>3, OpFacts DEF u
<1>3. CASE nodes[p] = "cell" /\ Op(AddEndpointEdge(Now, source, p, "root"))
  <2>1. Sound(AddEndpointEdge(Now, source, p, "root"))
    BY <1>1, <1>3, EndpointFacts
  <2> QED BY <1>3, <2>1, OpFacts
<1>4. CASE nodes[p] = "transformer"
           /\ Op(AddEndpointEdge(SyncResults(SyncModules(Recast(ReplaceCurrent(Now, p, None), p))), source, p, "root"))
  <2> DEFINE k == <<p, "current">>
             s == Put(Now, k, None)
             v == SyncResults(SyncModules(Recast(s, p)))
  <2>1. k \in Shelf /\ None \in Maybe
    BY DEF Shelf, Maybe
  <2>2. ReplaceCurrent(Now, p, None) = s
    BY DEF ReplaceCurrent, Put
  <2> HIDE DEF k
  <2>3. Laid(Now, s, k, None)
    BY <1>1, <2>1, PutFacts
  <2> HIDE DEF s
  <2>4. Sound(s) /\ s.nodes = nodes /\ s.values[k] = None
    <3>1. Now.values \in [Paths \X Roles -> Maybe] /\ k \in Paths \X Roles
      BY <1>1, Parts DEF k, Roles
    <3> QED BY <1>1, <2>3, <3>1 DEF Laid
  <2>5. Sound(v) /\ \A q \in Paths : v.nodes[q] = IF q = p THEN "cell" ELSE s.nodes[q]
    BY <2>4, RecastFacts DEF k
  <2> HIDE DEF v
  <2>6. Sound(AddEndpointEdge(v, source, p, "root"))
    <3>1. v.nodes[p] # "none" /\ v.nodes[source] # "none"
      BY <1>1, <2>4, <2>5
    <3> QED BY <2>5, <3>1, EndpointFacts
  <2> QED BY <1>4, <2>2, <2>6, OpFacts DEF v
<1> QED BY <1>2, <1>3, <1>4 DEF AssignSource, Recast

\* A copy of claims, one for one.
IsCopy(f, g, from, roles) ==
  /\ from \subseteq DOMAIN Copied /\ DOMAIN f = from \X roles
  /\ DOMAIN g = {Copied[p] : p \in from} \X roles /\ IsFiniteSet(DOMAIN g)
  /\ \A p \in from, role \in roles : g[<<Copied[p], role>>] = f[<<p, role>>]

LEMMA CopiedCount ==
  ASSUME NEW f, NEW g, NEW from, NEW roles, IsCopy(f, g, from, roles), NEW c
  PROVE  Count(f, c) = Count(g, c)
<1> USE DEF IsCopy
<1> DEFINE b == [k \in At(f, c) |-> <<Copied[k[1]], k[2]>>]
<1>1. ASSUME NEW k \in At(f, c)
      PROVE  k[1] \in from /\ k[2] \in roles /\ k = <<k[1], k[2]>> /\ <<Copied[k[1]], k[2]>> \in At(g, c)
  <2>1. k[1] \in from /\ k[2] \in roles /\ k = <<k[1], k[2]>> /\ f[k] = c
    BY DEF At
  <2>2. <<Copied[k[1]], k[2]>> \in DOMAIN g /\ g[<<Copied[k[1]], k[2]>>] = c
    BY <2>1
  <2> QED BY <2>1, <2>2 DEF At
<1>2. b \in [At(f, c) -> At(g, c)]
  BY <1>1
<1>3. ASSUME NEW j \in At(f, c), NEW k \in At(f, c), b[j] = b[k] PROVE j = k
  <2>1. Copied[j[1]] = Copied[k[1]] /\ j[2] = k[2]
    BY <1>3
  <2>2. j[1] = k[1]
    BY <1>1, <2>1, PathsAssumption
  <2> QED BY <1>1, <2>1, <2>2
<1>4. ASSUME NEW k \in At(g, c) PROVE \E j \in At(f, c) : b[j] = k
  <2>1. PICK p \in from, role \in roles : k = <<Copied[p], role>>
    BY DEF At
  <2>2. <<p, role>> \in DOMAIN f /\ f[<<p, role>>] = c
    BY <2>1 DEF At
  <2>3. <<p, role>> \in At(f, c)
    BY <2>2 DEF At
  <2> QED BY <2>1, <2>3
<1>5. IsFiniteSet(DOMAIN g)
  OBVIOUS
<1> HIDE DEF b, IsCopy
<1> QED BY <1>2, <1>3, <1>4, <1>5, CountPaired

\* What the new nodes hold: the claims, and the codes apart.
Holding(t, ps) == [k \in ps \X {"root", "pin", "current", "code"} |-> t.values[k]]

LEMMA HoldingCount ==
  ASSUME NEW t \in State, NodesOK(t), NEW ps \in SUBSET Paths, NEW c
  PROVE  Count(Holding(t, ps), c) = Count(Curs(t, ps), c) + Count(Prods(t, ps), c) + Count(Cods(t, ps), c)
<1> DEFINE g == Holding(t, ps)
           rest == [k \in ps \X {"current", "code"} |-> t.values[k]]
           col == [k \in ps \X {"code"} |-> t.values[k]]
<1>1. /\ DOMAIN g = ps \X {"root", "pin", "current", "code"} /\ DOMAIN rest = ps \X {"current", "code"}
      /\ DOMAIN col = ps \X {"code"} /\ DOMAIN Prods(t, ps) = ps \X {"root", "pin"}
      /\ DOMAIN Curs(t, ps) = ps \X {"current"}
      /\ \A k \in DOMAIN rest : rest[k] = g[k]
      /\ \A k \in DOMAIN Prods(t, ps) : Prods(t, ps)[k] = g[k]
      /\ \A k \in DOMAIN Curs(t, ps) : Curs(t, ps)[k] = rest[k]
      /\ \A k \in DOMAIN col : col[k] = rest[k]
      /\ \A q \in ps : col[<<q, "code">>] = t.values[<<q, "code">>]
  BY DEF Curs, Prods, Holding
<1> HIDE DEF g, rest, col
<1>2. IsFiniteSet(DOMAIN g) /\ IsFiniteSet(DOMAIN rest)
  <2>1. DOMAIN g \subseteq Paths \X Roles /\ DOMAIN rest \subseteq Paths \X Roles
    BY <1>1 DEF Roles
  <2> QED BY <2>1, Finite, FS_Subset
<1>3. Count(g, c) = Count(Prods(t, ps), c) + Count(rest, c) /\ Count(Prods(t, ps), c) \in Nat /\ Count(rest, c) \in Nat
  <2>1. DOMAIN Prods(t, ps) \cup DOMAIN rest = DOMAIN g /\ DOMAIN Prods(t, ps) \cap DOMAIN rest = {}
    BY <1>1
  <2>2. \A k \in DOMAIN Prods(t, ps) : Prods(t, ps)[k] = g[k]
    BY <1>1
  <2>3. \A k \in DOMAIN rest : rest[k] = g[k]
    BY <1>1
  <2>4. IsFiniteSet(DOMAIN g)
    BY <1>2
  <2> QED BY <2>1, <2>2, <2>3, <2>4, CountSplit
<1>4. Count(rest, c) = Count(Curs(t, ps), c) + Count(col, c) /\ Count(Curs(t, ps), c) \in Nat /\ Count(col, c) \in Nat
  <2>1. DOMAIN Curs(t, ps) \cup DOMAIN col = DOMAIN rest /\ DOMAIN Curs(t, ps) \cap DOMAIN col = {}
    BY <1>1
  <2>2. \A k \in DOMAIN Curs(t, ps) : Curs(t, ps)[k] = rest[k]
    BY <1>1
  <2>3. \A k \in DOMAIN col : col[k] = rest[k]
    BY <1>1
  <2>4. IsFiniteSet(DOMAIN rest)
    BY <1>2
  <2> QED BY <2>1, <2>2, <2>3, <2>4, CountSplit
<1>5. Count(col, c) = Count(Cods(t, ps), c)
  <2>1. \A q \in ps : Cods(t, ps)[q] = col[<<q, "code">>]
    BY <1>1 DEF Cods, NodesOK
  <2>2. DOMAIN Cods(t, ps) = ps
    BY DEF Cods
  <2>3. IsColumn(col, "code", Cods(t, ps), ps)
    BY <1>1, <2>1, <2>2 DEF IsColumn
  <2> QED BY <2>3, Column
<1> QED BY <1>3, <1>4, <1>5 DEF g

LEMMA CopySubcontextStep ==
  ASSUME RefholdsInv, Regular, CopySubcontext
  PROVE  RefholdsInv'
<1> DEFINE s == Now
           from == DOMAIN Copied \cap Present(Now)
           to == {Copied[p] : p \in from}
           origin == [q \in to |-> CHOOSE p \in from : Copied[p] = q]
           claims == [k \in from \X {"root", "pin", "current", "code"} |-> values[k]]
           inner(q, slot) == q \in to /\ edges[<<origin[q], slot>>] \in from
           nodes2 == [q \in Paths |-> IF q \in to THEN nodes[origin[q]] ELSE nodes[q]]
           values2 == [k \in Paths \X Roles |-> IF k[1] \in to THEN values[<<origin[k[1]], k[2]>>] ELSE values[k]]
           codes2 == [q \in Paths |-> IF q \in to /\ values[<<origin[q], "code">>] # None
                                      THEN values[<<origin[q], "code">>] ELSE codes[q]]
           edges2 == [k \in Paths \X Slots |-> IF inner(k[1], k[2]) THEN Copied[edges[<<origin[k[1]], k[2]>>]]
                                               ELSE edges[k]]
           u == RetainEach(s, claims)
           t == [u EXCEPT !.nodes = nodes2, !.values = values2, !.codes = codes2, !.edges = edges2]
<1>1. /\ s \in State /\ NodesOK(s) /\ EdgesOK(s) /\ RunsOK(s) /\ ResultsOK(s) /\ Balances(s) /\ s.low = {}
      /\ s.nodes = nodes /\ s.values = values /\ s.edges = edges /\ s.codes = codes
  BY NowFacts DEF Sound, Base
<1>2. Op(t) /\ to \cap Present(s) = {}
  BY DEF CopySubcontext, Regular
<1>3. /\ from \in SUBSET DOMAIN Copied /\ from \subseteq Paths /\ to \in SUBSET Paths
      /\ \A p \in from : nodes[p] # "none" /\ Copied[p] \in to /\ origin[Copied[p]] = p
      /\ \A q \in to : origin[q] \in from /\ Copied[origin[q]] = q /\ nodes[q] = "none"
  <2>1. /\ DOMAIN Copied \subseteq Paths /\ Copied \in [DOMAIN Copied -> Paths]
        /\ \A p \in DOMAIN Copied, q \in DOMAIN Copied : Copied[p] = Copied[q] => p = q
    BY PathsAssumption
  <2>2. from \in SUBSET DOMAIN Copied /\ from \subseteq Paths /\ to \in SUBSET Paths
        /\ \A p \in from : nodes[p] # "none" /\ Copied[p] \in to
    BY <1>1, <2>1 DEF Present
  <2>3. \A q \in to : origin[q] \in from /\ Copied[origin[q]] = q
    <3>1. ASSUME NEW q \in to PROVE origin[q] \in from /\ Copied[origin[q]] = q
      <4>1. origin[q] = CHOOSE p \in from : Copied[p] = q
        OBVIOUS
      <4>2. \E p \in from : Copied[p] = q
        OBVIOUS
      <4> HIDE DEF from, to, origin
      <4> QED BY <4>1, <4>2
    <3> HIDE DEF from, to, origin
    <3> QED BY <3>1
  <2>4. \A q \in to : nodes[q] = "none"
    BY <1>1, <1>2, <2>2 DEF Present
  <2>5. ASSUME NEW p \in from PROVE origin[Copied[p]] = p
    <3> HIDE DEF from, to, origin
    <3>1. Copied[p] \in to /\ origin[Copied[p]] \in from /\ Copied[origin[Copied[p]]] = Copied[p]
      BY <2>2, <2>3
    <3> QED BY <2>1, <2>2, <3>1
  <2> HIDE DEF from, to, origin
  <2> QED BY <2>2, <2>3, <2>4, <2>5
<1>4. /\ to = {Copied[p] : p \in from}
      /\ DOMAIN claims = from \X {"root", "pin", "current", "code"}
      /\ \A p \in from, role \in {"root", "pin", "current", "code"} : claims[<<p, role>>] = values[<<p, role>>]
  OBVIOUS
<1> HIDE DEF from, to, origin, s, u, t
<1>5. \A q \in Paths :
        /\ nodes2[q] = IF q \in to THEN nodes[origin[q]] ELSE nodes[q]
        /\ codes2[q] = IF q \in to /\ values[<<origin[q], "code">>] # None
                       THEN values[<<origin[q], "code">>] ELSE codes[q]
  OBVIOUS
<1>6. \A q \in Paths, role \in Roles :
        values2[<<q, role>>] = IF q \in to THEN values[<<origin[q], role>>] ELSE values[<<q, role>>]
  OBVIOUS
<1>7. \A q \in Paths, slot \in Slots :
        edges2[<<q, slot>>] = IF q \in to /\ edges[<<origin[q], slot>>] \in from
                              THEN Copied[edges[<<origin[q], slot>>]] ELSE edges[<<q, slot>>]
  OBVIOUS
<1>8. /\ \A F : (\A q \in Paths : nodes2[q] \in F) => nodes2 \in [Paths -> F]
      /\ \A F : (\A q \in Paths : codes2[q] \in F) => codes2 \in [Paths -> F]
      /\ \A F : (\A k \in Paths \X Roles : values2[k] \in F) => values2 \in [Paths \X Roles -> F]
      /\ \A F : (\A k \in Paths \X Slots : edges2[k] \in F) => edges2 \in [Paths \X Slots -> F]
  OBVIOUS
<1> HIDE DEF claims, nodes2, values2, codes2, edges2
<1>9. /\ nodes \in [Paths -> Kinds] /\ values \in [Paths \X Roles -> Maybe]
      /\ edges \in [Paths \X Slots -> Paths \cup {None}] /\ codes \in [Paths -> Maybe]
  BY <1>1, Parts
<1>10. nodes2 \in [Paths -> Kinds] /\ codes2 \in [Paths -> Maybe]
  <2>1. ASSUME NEW q \in Paths PROVE nodes2[q] \in Kinds /\ codes2[q] \in Maybe
    <3>1. q \in to => origin[q] \in Paths /\ values[<<origin[q], "code">>] \in Maybe
      BY <1>3, <1>9 DEF Roles
    <3> QED BY <1>5, <1>9, <3>1
  <2> QED BY <1>8, <2>1
<1>11. values2 \in [Paths \X Roles -> Maybe]
  <2>1. ASSUME NEW q \in Paths, NEW role \in Roles PROVE values2[<<q, role>>] \in Maybe
    <3>1. q \in to => origin[q] \in Paths
      BY <1>3
    <3> QED BY <1>6, <1>9, <3>1
  <2>2. \A k \in Paths \X Roles : values2[k] \in Maybe
    BY <2>1
  <2> QED BY <1>8, <2>2
<1>12. edges2 \in [Paths \X Slots -> Paths \cup {None}]
  <2>1. ASSUME NEW q \in Paths, NEW slot \in Slots PROVE edges2[<<q, slot>>] \in Paths \cup {None}
    <3>1. \A p \in from : Copied[p] \in Paths
      BY <1>3
    <3> QED BY <1>7, <1>9, <3>1
  <2>2. \A k \in Paths \X Slots : edges2[k] \in Paths \cup {None}
    BY <2>1
  <2> QED BY <1>8, <2>2
<1>13. RetainedEach(s, u, claims)
  <2>1. DOMAIN claims \subseteq Paths \X Roles
    BY <1>3, <1>4 DEF Roles
  <2>2. IsFiniteSet(DOMAIN claims)
    BY <2>1, Finite, FS_Subset
  <2>3. \A d \in Checksums : Count(claims, d) \in Nat
    BY <2>2, CountNat
  <2> QED BY <1>1, <2>3, RetainEachFacts DEF u
<1>14. u \in State /\ Alike(s, u) /\ u.low = {} /\ \A d \in Checksums : u.refs[d] = s.refs[d] + Count(claims, d)
  BY <1>1, <1>13 DEF RetainedEach
<1>15. t \in State
  BY <1>10, <1>11, <1>12, <1>14 DEF t, State
<1>16. /\ t.nodes = nodes2 /\ t.values = values2 /\ t.codes = codes2 /\ t.edges = edges2 /\ t.run = s.run
       /\ t.held = s.held /\ t.modules = s.modules /\ t.inputs = s.inputs /\ t.results = s.results
       /\ t.refs = u.refs /\ t.low = {}
  BY <1>14 DEF t, State, Alike
<1>17. \A q \in to : s.codes[q] = None /\ \A role \in Roles : s.values[<<q, role>>] = None
  BY <1>1, <1>3 DEF NodesOK, Roles
<1>18. NodesOK(t)
  <2>1. ASSUME NEW q \in Paths
        PROVE  /\ codes2[q] = values2[<<q, "code">>]
               /\ nodes2[q] # "transformer" => values2[<<q, "module">>] = None
               /\ nodes2[q] = "none" => \A role \in Roles : values2[<<q, role>>] = None
    <3>1. CASE q \in to
      <4>1. origin[q] \in Paths /\ nodes[origin[q]] # "none" /\ codes[q] = None
        BY <1>1, <1>3, <1>17, <3>1
      <4>2. nodes[origin[q]] # "transformer" => values[<<origin[q], "module">>] = None
        BY <1>1, <4>1 DEF NodesOK
      <4>3. codes2[q] = values[<<origin[q], "code">>] /\ nodes2[q] = nodes[origin[q]]
            /\ values2[<<q, "code">>] = values[<<origin[q], "code">>]
            /\ values2[<<q, "module">>] = values[<<origin[q], "module">>]
        BY <1>5, <1>6, <3>1, <4>1 DEF Roles
      <4> QED BY <4>1, <4>2, <4>3
    <3>2. CASE q \notin to
      <4>1. codes2[q] = codes[q] /\ nodes2[q] = nodes[q] /\ \A role \in Roles : values2[<<q, role>>] = values[<<q, role>>]
        BY <1>5, <1>6, <3>2
      <4> QED BY <1>1, <4>1 DEF NodesOK, Roles
    <3> QED BY <3>1, <3>2
  <2> QED BY <1>16, <2>1 DEF NodesOK
<1>19. EdgesOK(t)
  <2>1. ASSUME NEW q \in Paths, NEW slot \in Slots, edges2[<<q, slot>>] # None
        PROVE  /\ nodes2[q] # "none" /\ nodes2[edges2[<<q, slot>>]] # "none"
               /\ slot = "code" => values2[<<q, "code">>] = None
    <3>1. CASE q \in to /\ edges[<<origin[q], slot>>] \in from
      <4> DEFINE o == origin[q]
                 e == edges[<<o, slot>>]
      <4>1. o \in Paths /\ e \in from /\ e \in Paths /\ e # None /\ edges2[<<q, slot>>] = Copied[e]
        BY <1>3, <1>7, <3>1, ChecksumsAssumption
      <4> HIDE DEF e
      <4>2. nodes[o] # "none" /\ (slot = "code" => values[<<o, "code">>] = None)
        BY <1>1, <4>1 DEF EdgesOK, Wired, e
      <4> HIDE DEF o
      <4>3. nodes2[q] = nodes[o] /\ values2[<<q, "code">>] = values[<<o, "code">>]
        BY <1>5, <1>6, <3>1 DEF o, Roles
      <4>4. nodes2[Copied[e]] = nodes[e] /\ nodes[e] # "none"
        BY <1>3, <1>5, <4>1
      <4> QED BY <4>1, <4>2, <4>3, <4>4
    <3>2. CASE ~(q \in to /\ edges[<<origin[q], slot>>] \in from)
      <4> DEFINE e == edges[<<q, slot>>]
      <4>1. edges2[<<q, slot>>] = e /\ e # None /\ e \in Paths
        BY <1>7, <1>9, <2>1, <3>2
      <4>2. nodes[q] # "none" /\ nodes[e] # "none" /\ (slot = "code" => values[<<q, "code">>] = None)
        BY <1>1, <4>1 DEF EdgesOK, Wired
      <4> HIDE DEF e
      <4>3. q \notin to /\ e \notin to
        BY <1>3, <4>2
      <4> QED BY <1>5, <1>6, <4>1, <4>2, <4>3 DEF Roles
    <3> QED BY <3>1, <3>2
  <2> QED BY <1>16, <2>1 DEF EdgesOK, Wired
<1>20. RunsOK(t) /\ ResultsOK(t)
  <2>1. ASSUME NEW q \in Paths PROVE RunsAt(nodes2[q], s.run[q], s.held[q])
    <3>1. RunsAt(nodes[q], s.run[q], s.held[q])
      BY <1>1 DEF RunsOK
    <3>2. CASE q \in to
      BY <1>3, <3>1, <3>2 DEF RunsAt
    <3>3. CASE q \notin to
      BY <1>5, <3>1, <3>3
    <3> QED BY <3>2, <3>3
  <2> QED BY <1>1, <1>16, <2>1 DEF RunsOK, ResultsOK
<1>21. ASSUME NEW d \in Checksums
       PROVE  t.refs[d] - s.refs[d] = (Count(Literals(t), d) - Count(Literals(s), d))
                                      + (Count(t.codes, d) - Count(s.codes, d))
                                      + (Count(t.modules, d) - Count(s.modules, d))
  <2>1. Vacant(t, s, to)
    BY <1>1, <1>6, <1>16, <1>17 DEF Vacant
  <2>2. /\ Count(Literals(t), d) = Count(Literals(s), d) + Count(Curs(t, to), d) + Count(Prods(t, to), d)
        /\ Count(Curs(t, to), d) \in Nat /\ Count(Prods(t, to), d) \in Nat
    BY <1>1, <1>3, <1>15, <2>1, ShelfGone
  <2>3. Count(t.codes, d) = Count(s.codes, d) + Count(Cods(t, to), d) /\ Count(Cods(t, to), d) \in Nat
    <3>1. \A q \in Paths : s.codes[q] = IF q \in to THEN None ELSE t.codes[q]
      BY <1>1, <1>5, <1>16, <1>17
    <3> QED BY <1>1, <1>3, <1>15, <3>1, CodesGone
  <2>4. Count(claims, d) = Count(Holding(t, to), d)
    <3>1. /\ DOMAIN Holding(t, to) = to \X {"root", "pin", "current", "code"}
          /\ \A q \in to, role \in {"root", "pin", "current", "code"} : Holding(t, to)[<<q, role>>] = t.values[<<q, role>>]
      BY DEF Holding
    <3>2. IsFiniteSet(DOMAIN Holding(t, to))
      <4>1. DOMAIN Holding(t, to) \subseteq Paths \X Roles
        BY <1>3, <3>1 DEF Roles
      <4> QED BY <4>1, Finite, FS_Subset
    <3>3. ASSUME NEW p \in from, NEW role \in {"root", "pin", "current", "code"}
          PROVE  Holding(t, to)[<<Copied[p], role>>] = claims[<<p, role>>]
      <4>1. Copied[p] \in to /\ Copied[p] \in Paths /\ origin[Copied[p]] = p /\ role \in Roles
        BY <1>3 DEF Roles
      <4>2. Holding(t, to)[<<Copied[p], role>>] = values2[<<Copied[p], role>>]
        BY <1>16, <3>1, <4>1
      <4>3. values2[<<Copied[p], role>>] = values[<<p, role>>]
        BY <1>6, <4>1
      <4> QED BY <1>4, <4>2, <4>3
    <3>4. IsCopy(claims, Holding(t, to), from, {"root", "pin", "current", "code"})
      BY <1>3, <1>4, <3>1, <3>2, <3>3 DEF IsCopy
    <3> QED BY <3>4, CopiedCount
  <2>5. Count(Holding(t, to), d) = Count(Curs(t, to), d) + Count(Prods(t, to), d) + Count(Cods(t, to), d)
    BY <1>3, <1>15, <1>18, HoldingCount
  <2>6. t.refs[d] = s.refs[d] + Count(claims, d) /\ t.modules = s.modules
    BY <1>14, <1>16
  <2>7. /\ s.refs[d] \in Int /\ Count(Literals(s), d) \in Nat /\ Count(s.codes, d) \in Nat
        /\ Count(s.modules, d) \in Nat
    BY <1>1, TotalNat, Parts
  <2> QED BY <2>2, <2>3, <2>4, <2>5, <2>6, <2>7
<1>22. Balances(t)
  BY <1>1, <1>15, <1>16, <1>21, Rebalanced
<1>23. Base(t)
  BY <1>15, <1>18, <1>19, <1>20, <1>22 DEF Base
<1> QED BY <1>2, <1>16, <1>23, LooseOpFacts

LEMMA RequestStep ==
  ASSUME RefholdsInv, Regular, NEW p \in Paths, Request(p)
  PROVE  RefholdsInv'
<1>1. Checksums \subseteq Maybe
  BY DEF Maybe
<1>2. ASSUME NEW c \in Checksums,
             \/ CreateCell(p, c) \/ SetCode(p, c) \/ CreateFails(p, c) \/ ReplaceFails(p, c)
             \/ \E e \in BOOLEAN : ReplaceNested(p, c, e)
      PROVE  RefholdsInv'
  BY <1>1, <1>2, CreateCellStep, SetCodeStep, CreateFailsStep, ReplaceFailsStep, ReplaceNestedStep
<1>3. ASSUME NEW c \in Checksums, NEW input, CreateTransformer(p, c, input)
      PROVE  RefholdsInv'
  BY <1>3, CreateTransformerStep
<1>4. ASSUME NEW c \in Checksums, NEW m \in Maybe, NEW input, ReplaceTransformer(p, c, m, input)
      PROVE  RefholdsInv'
  BY <1>4, ReplaceTransformerStep
<1>5. ASSUME NEW c \in Maybe, SetRoot(p, c) \/ SetPin(p, c) \/ \E m \in Maybe : PublishConfig(p, m, c)
      PROVE  RefholdsInv'
  BY <1>5, SetRootStep, SetPinStep, PublishConfigStep
<1>6. ASSUME NEW source \in Paths, AssignSource(p, source) \/ ConnectCode(p, source) \/ ConnectPin(p, source)
      PROVE  RefholdsInv'
  BY <1>6, AssignSourceStep, ConnectCodeStep, ConnectPinStep
<1>7. ASSUME Delete({p}) \/ ClearException(p)
      PROVE  RefholdsInv'
  BY <1>7, DeleteStep, ClearExceptionStep
<1> QED BY <1>2, <1>3, <1>4, <1>5, <1>6, <1>7 DEF Request

LEMMA NextStep ==
  ASSUME RefholdsInv, Regular, [Next]_vars
  PROVE  RefholdsInv'
<1>1. ASSUME NEW p \in Named, Request(p) PROVE RefholdsInv'
  <2>1. p \in Paths
    BY PathsAssumption
  <2> QED BY <1>1, <2>1, RequestStep
<1>2. ASSUME NEW sub, Delete(sub) PROVE RefholdsInv'
  BY <1>2, DeleteStep
<1>3. ASSUME CopySubcontext \/ Prune \/ Close PROVE RefholdsInv'
  BY <1>3, CopySubcontextStep, PruneStep, CloseStep
<1>4. ASSUME NEW g \in Loadable, SetGraph(g) PROVE RefholdsInv'
  BY <1>4, SetGraphStep
<1>5. ASSUME NEW p \in Paths, Expire(p) \/ \E ok \in BOOLEAN : Finish(p, ok) PROVE RefholdsInv'
  BY <1>5, ExpireStep, FinishStep
<1>6. ASSUME UNCHANGED vars PROVE RefholdsInv'
  <2>1. Now' = Now /\ lapsed' = lapsed /\ calls' = calls
    BY <1>6 DEF vars, context, Now
  <2> QED BY <2>1 DEF RefholdsInv
<1> QED BY <1>1, <1>2, <1>3, <1>4, <1>5, <1>6 DEF Next

(***************************************************************************)
(* The theorems.                                                           *)
(***************************************************************************)
\* After every turn of the controller (Context._turn and what it runs) the
\* references are what the tables hold, the tables agree with the graph, and no
\* value of the users has lapsed.
THEOREM RefholdsInductive ==
  ASSUME Regular
  PROVE  Spec => []RefholdsInv
<1>1. Init => RefholdsInv
  BY InitFacts
<1>2. RefholdsInv /\ [Next]_vars => RefholdsInv'
  BY NextStep
<1> QED BY <1>1, <1>2, PTL DEF Spec

\* Type correctness: edges have two nodes, only transformers have runs, at most
\* superseded_cap of them are held, and results are those of their demands.
THEOREM RefholdsTyped ==
  ASSUME Regular
  PROVE  Spec => []TypeOK
<1>1. ASSUME RefholdsInv PROVE TypeOK
  <2>1. /\ Now \in State /\ EdgesOK(Now) /\ RunsOK(Now) /\ ResultsOK(Now)
        /\ Now.nodes = nodes /\ Now.edges = edges /\ Now.run = run /\ Now.held = held /\ Now.results = results
    BY <1>1, NowFacts DEF RefholdsInv, Base
  <2>2. /\ nodes \in [Paths -> Kinds] /\ values \in [Paths \X Roles -> Maybe]
        /\ edges \in [Paths \X Slots -> Paths \cup {None}] /\ run \in [Paths -> Run \cup {NoRun}]
        /\ held \in [Paths -> Seq(Run)] /\ codes \in [Paths -> Maybe] /\ modules \in [Paths -> Maybe]
        /\ inputs \in [Paths \X Sockets -> Maybe] /\ results \in Results /\ refs \in [Checksums -> Int]
    BY <1>1, NowFacts, Parts
  <2>3. ASSUME NEW k \in Paths \X Slots, edges[k] # None PROVE {k[1], edges[k]} \subseteq Present(Now)
    <3>1. k[1] \in Paths /\ k[2] \in Slots /\ k = <<k[1], k[2]>> /\ edges[k] \in Paths
      BY <2>2, <2>3
    <3>2. nodes[k[1]] # "none" /\ nodes[edges[k]] # "none"
      BY <2>1, <2>3, <3>1 DEF EdgesOK, Wired
    <3> QED BY <2>1, <3>1, <3>2 DEF Present
  <2>4. \A p \in Paths : Len(held[p]) <= Cap /\ (nodes[p] # "transformer" => run[p] = NoRun /\ held[p] = << >>)
    BY <2>1 DEF RunsOK, RunsAt
  <2>5. DOMAIN results \subseteq Demands /\ \A k \in DOMAIN results : results[k] = Result[k[2]]
    BY <2>1, <2>2 DEF ResultsOK, Results
  <2>6. calls \in 0 .. MaxCalls /\ lapsed \subseteq Checksums
    BY <1>1 DEF RefholdsInv
  <2> QED BY <2>2, <2>3, <2>4, <2>5, <2>6 DEF TypeOK
<1> QED BY <1>1, RefholdsInductive, PTL

\* incref_refholder and decref_refholder are in balance: what the Context has
\* acquired and not released is what _refheld_checksums lists, whatever edits,
\* deletions, replacements, copies, results and failures came before.
THEOREM BooksBalance ==
  ASSUME Regular
  PROVE  Spec => []Balanced
<1>1. ASSUME RefholdsInv PROVE Balanced
  <2>1. /\ Now \in State /\ NodesOK(Now) /\ EdgesOK(Now) /\ RunsOK(Now) /\ ResultsOK(Now) /\ Synced(Now)
        /\ Balances(Now) /\ Now.refs = refs
    BY <1>1, NowFacts DEF RefholdsInv, Base
  <2>2. ASSUME NEW c \in Checksums PROVE refs[c] = Listed(Now, c)
    <3>1. Listed(Now, c) = Total(Now, c)
      BY <2>1, ListedTotal
    <3> QED BY <2>1, <3>1 DEF Balances
  <2> QED BY <2>2 DEF Balanced
<1> QED BY <1>1, RefholdsInductive, PTL

\* No turn leaves a value of the users without a reference that is in the graph
\* before and after it: replacements are acquired before releases.
THEOREM ValuesKept ==
  ASSUME Regular
  PROVE  Spec => []KeptThroughout
<1>1. RefholdsInv => KeptThroughout
  BY DEF RefholdsInv, KeptThroughout
<1> QED BY <1>1, RefholdsInductive, PTL

=============================================================================
