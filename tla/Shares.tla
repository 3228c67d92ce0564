--------------------------------- MODULE Shares ---------------------------------
(***************************************************************************)
(* One namespace of the share server (attachments/share/): the routes it   *)
(* serves, the Contexts that own it one after the other, the sessions they *)
(* keep for their shared cells, and the clients that PUT values.           *)
(*                                                                         *)
(* When a Context closes, its routes are held for a while, so that a       *)
(* successor may take them over.  A PUT that meets a held route waits for  *)
(* it.  The server is one asyncio loop, which executes what the Contexts   *)
(* submit in that order; reservations are made under the server's lock by  *)
(* the threads of the callers.                                             *)
(*                                                                         *)
(* A fingerprint is the ws of its registration: both change together.      *)
(* Shares are writable, and their cells always have a value.               *)
(***************************************************************************)
EXTENDS Naturals, SequencesExt

CONSTANTS
  Contexts, Routes,
  Requests,   \* the PUT requests, each sent once
  Start,      \* Start[c][r]: the value that the cell of c for route r has first
  Drafts,     \* bound: the i-th edit of a cell assigns Drafts[i]
  Body,       \* Body[p]: the value of the PUT request p
  MaxRegs,    \* bound: registrations that are reserved
  Calls       \* what users do: "unshare", "load", "close"; "fail": an attachment raises

NoOwner == "no owner"
NoValue == "no value"
ASSUME SharesAssumption ==
  /\ NoOwner \notin Contexts /\ MaxRegs \in Nat
  /\ Calls \subseteq {"unshare", "load", "close", "fail"}

VARIABLES
  server,    \* ShareServer: the namespace, all registrations, the records, the marker floors
  loop,      \* the coroutines submitted to its event loop
  passed,    \* which deadlines of holds have passed: those up to this one
  holds,     \* the deadlines given out
  puts,      \* where the handler of each request is
  sessions,  \* the MountSession of each registration
  inbox,     \* the messages of the server in the queue of each controller
  cell,      \* the value of each shared cell
  op,        \* what is being done under shares._lock, or how far close() is
  edits,     \* how many edits there were
  shown      \* history: the values that routes have served, with their markers

users == <<cell, op, edits>>
registry == <<server, shown>>   \* they change together (Becomes)
vars == <<registry, loop, passed, holds, puts, sessions, inbox, users>>

Values == {Start[c][r] : c \in Contexts, r \in Routes}
            \cup {Drafts[k] : k \in DOMAIN Drafts} \cup {Body[p] : p \in Requests}
ASSUME ValuesAssumption == Start \in [Contexts -> [Routes -> Values]] /\ Drafts \in Seq(Values)
Ids == 1..MaxRegs
Registration ==
  [ctx: Contexts, route: Routes, staged: BOOLEAN, active: BOOLEAN, closed: BOOLEAN,
   held: BOOLEAN, reattaching: BOOLEAN, due: Nat, checksum: Values \cup {NoValue},
   marker: Nat, ws: Nat,
   from: {0} \cup Ids,      \* reattached_from
   future: {"none", "pending", "done"}, to: {0} \cup Ids]   \* reattach_future and its result
Namespace == [owner: Contexts \cup {NoOwner}, active: BOOLEAN, closing: BOOLEAN,
              due: Nat, task: BOOLEAN, wake: Nat, claim: BOOLEAN]
NoNamespace == [owner |-> NoOwner, active |-> FALSE, closing |-> FALSE,
                due |-> 0, task |-> FALSE, wake |-> 0, claim |-> FALSE]
Session == [on: BOOLEAN, known: Nat, disk: Values \cup {NoValue}, last: Values \cup {NoValue},
            pending: Values \cup {NoValue}, flight: Values \cup {NoValue}, initial: BOOLEAN]
NoSession == [on |-> FALSE, known |-> 0, disk |-> NoValue, last |-> NoValue,
              pending |-> NoValue, flight |-> NoValue, initial |-> FALSE]
Task == [do: {"activate", "complete", "deliver", "unregister", "hold",
              "begin_close", "hold_namespace", "release"},
         ctx: Contexts, reg: {0} \cup Ids, value: Values \cup {NoValue}, ws: Nat]
Message == [type: {"observed", "written", "conflict", "error", "begin_close"},
            reg: {0} \cup Ids, value: Values \cup {NoValue}, ws: Nat,
            request: Requests \cup {NoOwner}]
Handler == [at: {"unsent", "waiting", "reading", "accepted", "sent", "done"},
            reg: {0} \cup Ids, marker: SUBSET Nat, ws: Nat,   \* the marker asked for, if any
            reply: {"none", "200", "404", "409", "503"}]
Stages == {"idle", "share", "attached", "undo", "undone", "release", "unshare", "load",
           "unload", "unloading", "flagged", "begun", "refusing", "flushing", "finishing",
           "holding", "closed"}

Server == [ns: Namespace, regs: Seq(Registration),
           records: [Routes -> {0} \cup Ids], floor: [Routes -> Nat]]

TypeOK ==
  /\ server \in Server /\ Len(server.regs) <= MaxRegs
  /\ loop \in Seq(Task) /\ holds \in Nat /\ passed \in 0..holds
  /\ puts \in [Requests -> Handler]
  /\ sessions \in Seq(Session) /\ Len(sessions) = Len(server.regs)
  /\ inbox \in [Contexts -> Seq(Message)]
  /\ cell \in [Contexts -> [Routes -> Values]] /\ op \in [Contexts -> Stages]
  /\ edits \in 0..Len(Drafts) /\ shown \subseteq [route: Routes, marker: Nat, value: Values]

-----------------------------------------------------------------------------
(* The registry, as functions of the server. *)

Larger(m, n) == IF m > n THEN m ELSE n
Regs(s) == DOMAIN s.regs
Recorded(s) == {i \in Regs(s) : s.records[s.regs[i].route] = i}
Staged(s) == {i \in Regs(s) : s.regs[i].staged /\ ~s.regs[i].closed}
Serving(s, i) == LET reg == s.regs[i] IN (reg.active \/ reg.held \/ reg.reattaching) /\ ~reg.closed

CanTakeOver(s, c) == s.ns.owner \notin {NoOwner, c} /\ ~s.ns.active /\ s.ns.due > passed

\* the elements at I of a sequence
Changed(seq, I, Change(_)) ==
  [i \in DOMAIN seq |-> IF i \in I THEN Change(seq[i]) ELSE seq[i]]

\* _check_reservation_conflicts_locked
NoConflict(s, c, r, replaces, ignored) ==
  LET joins == CanTakeOver(s, c) \/ s.ns.owner = c IN
  /\ s.ns.owner = NoOwner \/ joins
  /\ {s.records[r]} \ ({0} \cup replaces) \subseteq {i \in Regs(s) : s.regs[i].held /\ joins}
  /\ \A i \in Staged(s) \ (replaces \cup ignored) : s.regs[i].route # r

Held(s, r) == {i \in Recorded(s) : s.regs[i].route = r /\ s.regs[i].held}

\* _adopt_held_registration_locked
Adopted(s, reg) ==
  IF Held(s, reg.route) = {} THEN reg
  ELSE LET h == s.records[reg.route] IN
       [reg EXCEPT !.checksum = s.regs[h].checksum, !.marker = Larger(@, s.regs[h].marker),
                   !.held = TRUE, !.reattaching = TRUE, !.from = h]

\* _remove_registration, of each in I
WithdrawAll(s, I) ==
  LET open == {i \in I : ~s.regs[i].closed}
      left(r) == {s.regs[i].marker : i \in {j \in open : s.regs[j].route = r}}
      gone(reg) == [reg EXCEPT !.closed = TRUE, !.active = FALSE]
  IN  [s EXCEPT !.regs = Changed(@, open, gone),
                !.records = [r \in Routes |-> IF @[r] \in open THEN 0 ELSE @[r]],
                !.floor = [r \in Routes |-> Max({@[r]} \cup left(r))]]
\* ... a claim of reservations only goes with the last of them
Withdraw(s, i) ==
  LET t == WithdrawAll(s, {i})
      last == s.regs[i].staged /\ s.ns.claim /\ Recorded(t) = {} /\ Staged(t) = {}
  IN  IF ~s.regs[i].closed /\ last THEN [t EXCEPT !.ns = NoNamespace] ELSE t

TakeOver(s, c) ==
  IF ~CanTakeOver(s, c) THEN s
  ELSE [s EXCEPT !.ns.owner = c, !.ns.active = TRUE, !.ns.closing = FALSE, !.ns.due = 0]

\* reserve: the registration is the last one
ReserveFrom(s, c, r, staged, marker) ==
  LET i == Len(s.regs) + 1
      new == [ctx |-> c, route |-> r, staged |-> staged, active |-> FALSE, closed |-> FALSE,
              held |-> FALSE, reattaching |-> FALSE, due |-> 0, checksum |-> NoValue,
              marker |-> marker, ws |-> 0, from |-> 0, future |-> "none", to |-> 0]
      ns == IF s.ns.owner # NoOwner THEN s.ns
            ELSE [NoNamespace EXCEPT !.owner = c, !.active = TRUE, !.claim = staged]
      t == [s EXCEPT !.ns = ns, !.regs = Append(@, new)]
  IN  IF staged THEN t
      ELSE [TakeOver(WithdrawAll(t, Held(t, r)), c) EXCEPT !.regs[i] = Adopted(t, @), !.records[r] = i]
\* Mutant: the marker starts anew.
ReserveAnew(s, c, r, staged) == ReserveFrom(s, c, r, staged, 0)
Reserve(s, c, r, staged) == ReserveFrom(s, c, r, staged, s.floor[r])

\* commit_reservations, of one of them ...
Published(s, reg) ==
  LET old == s.records[reg.route]
      passedOn == IF old = 0 THEN s.floor[reg.route] ELSE Larger(s.floor[reg.route], s.regs[old].marker)
  IN  [Adopted(s, reg) EXCEPT !.marker = Larger(@, passedOn), !.staged = FALSE]
\* ... and of all, which have different routes
Replaced(s, I) == {s.records[s.regs[i].route] : i \in I} \ {0}
CommitWithdrawing(s, c, I, old) ==
  LET t == TakeOver(s, c)
      published(reg) == Published(t, reg)
      new == [t EXCEPT !.ns.claim = @ /\ I = {}, !.regs = Changed(@, I, published),
                       !.records = [r \in Routes |-> IF \E i \in I : t.regs[i].route = r
                                                     THEN CHOOSE i \in I : t.regs[i].route = r ELSE @[r]]]
  IN  WithdrawAll(new, old)
\* Mutant: the registrations that were replaced stay open.
CommitOver(s, c, I) == CommitWithdrawing(s, c, I, {})
Commit(s, c, I) == CommitWithdrawing(s, c, I, Replaced(s, I))

Resolve(s, I, to) ==
  LET done(reg) == IF reg.future # "pending" THEN reg
                   ELSE [reg EXCEPT !.future = "done", !.to = to]
  IN  [s EXCEPT !.regs = Changed(s.regs, I, done)]
Expecting(reg) == [reg EXCEPT !.future = "pending"]
Holding(reg) == [Expecting(reg) EXCEPT !.active = FALSE, !.held = TRUE, !.reattaching = FALSE]
\* Mutant: only those that are active.
OwnActive(s, c) == {i \in Recorded(s) : s.regs[i].ctx = c /\ s.regs[i].active}
\* the records of c that are open, in its own namespace
Own(s, c) == {i \in Recorded(s) : s.regs[i].ctx = c /\ ~s.regs[i].closed}

-----------------------------------------------------------------------------
(* The sessions of the Contexts. *)

Closing(c) == op[c] \in {"flagged", "begun", "refusing", "flushing", "finishing", "holding", "closed"}
Accepting(c) == ~Closing(c) \/ op[c] \in {"flagged", "begun"}
Of(c) == {i \in Regs(server) : server.regs[i].ctx = c}
Attached(c) == {i \in Of(c) : sessions[i].on}
\* what a call has reserved and not attached yet
Prepared(c) == {i \in Of(c) : ~sessions[i].on /\ ~server.regs[i].closed}

\* Mutant: a value that comes while a delivery is in flight is not requested.
ActuateIdle(s, value) ==
  LET t == IF value = s.last THEN s
           ELSE [s EXCEPT !.last = value,
                          !.pending = IF value # s.disk /\ s.flight = NoValue THEN value ELSE @]
  IN  IF t.flight = NoValue /\ t.pending # NoValue /\ t.pending = t.disk
      THEN [t EXCEPT !.pending = NoValue, !.initial = TRUE] ELSE t
\* _mount_after_turn for one session, with its dispatch when that has nothing to do
Actuate(s, value) ==
  LET t == IF value = s.last THEN s
           ELSE [s EXCEPT !.last = value, !.pending = IF value # s.disk THEN value ELSE @]
  IN  IF t.flight = NoValue /\ t.pending # NoValue /\ t.pending = t.disk
      THEN [t EXCEPT !.pending = NoValue, !.initial = TRUE] ELSE t

\* _mount_attach of what is prepared: the value of the cell is to be written first
Attachment(value) == [NoSession EXCEPT !.on = TRUE, !.last = value, !.pending = value]
WithPrepared(c, all) ==
  [i \in DOMAIN all |-> IF i \in Prepared(c) THEN Attachment(cell[c][server.regs[i].route]) ELSE all[i]]

Todo(do, c, i) == [do |-> do, ctx |-> c, reg |-> i, value |-> NoValue, ws |-> 0]
Submit(tasks) == loop' = loop \o tasks
Each(do, c, I) == LET s == SetToSeq(I) IN [k \in DOMAIN s |-> Todo(do, c, s[k])]

\* A turn leaves session t for registration i.  Its future initial being done
\* completes a reattachment that waits for it (_activate: ready).
Turn(c, i, handled, value) ==
  LET t == IF Closing(c) THEN handled ELSE Actuate(handled, value)
      ready == /\ t.initial /\ ~sessions[i].initial
               /\ server.regs[i].active /\ server.regs[i].from # 0
  IN  /\ sessions' = [sessions EXCEPT ![i] = t]
      /\ cell' = [cell EXCEPT ![c][server.regs[i].route] = value]
      /\ Submit(IF ready THEN <<Todo("complete", c, i)>> ELSE <<>>)

-----------------------------------------------------------------------------
(* The calls of a Context.  Those that reserve hold shares._lock (op # idle). *)

Init ==
  /\ server = [ns |-> NoNamespace, regs |-> <<>>,
               records |-> [r \in Routes |-> 0], floor |-> [r \in Routes |-> 0]]
  /\ loop = <<>> /\ passed = 0 /\ holds = 0
  /\ puts = [p \in Requests |-> [at |-> "unsent", reg |-> 0, marker |-> {}, ws |-> 0, reply |-> "none"]]
  /\ sessions = <<>> /\ inbox = [c \in Contexts |-> <<>>]
  /\ cell = Start /\ op = [c \in Contexts |-> "idle"] /\ edits = 0 /\ shown = {}

\* What a route serves, with its marker.
Served(s) == {[route |-> s.regs[i].route, marker |-> s.regs[i].marker, value |-> s.regs[i].checksum] :
                i \in {j \in Recorded(s) : Serving(s, j) /\ s.regs[j].checksum # NoValue}}
Becomes(s) == server' = s /\ shown' = shown \cup Served(server')

Enters(c, stage) == op' = [op EXCEPT ![c] = stage]
CanReserve(c, r, replaces) ==
  Len(server.regs) < MaxRegs /\ NoConflict(server, c, r, replaces, {})
\* Mutant: a reservation that is only staged is not noted for its session.
ReserveInServer(c, r, staged) ==
  /\ Becomes(Reserve(server, c, r, staged))
  /\ sessions' = IF staged THEN sessions ELSE Append(sessions, NoSession)
ReserveIn(c, r, staged) ==
  /\ Becomes(Reserve(server, c, r, staged))
  /\ sessions' = Append(sessions, NoSession)

\* ShareHandle.__call__ up to reserve
Share(c, r) ==
  /\ op[c] = "idle"
  /\ \A i \in Attached(c) : server.regs[i].route # r
  /\ CanReserve(c, r, {}) /\ ReserveIn(c, r, FALSE)
  /\ Enters(c, "share")
  /\ UNCHANGED <<loop, passed, holds, puts, inbox, cell, edits>>

\* ... the turn of _mount_attach
Attach(c) ==
  /\ op[c] = "share"
  /\ sessions' = WithPrepared(c, sessions)
  /\ Submit(Each("activate", c, Prepared(c)))
  /\ Enters(c, "attached")
  /\ UNCHANGED <<registry, passed, holds, puts, inbox, cell, edits>>

\* ... that raises: unregister, then release_namespace
AttachFails(c) ==
  /\ op[c] = "share" /\ "fail" \in Calls
  /\ Submit(Each("unregister", c, Prepared(c)))
  /\ Enters(c, "undo")
  /\ UNCHANGED <<registry, passed, holds, puts, sessions, inbox, cell, edits>>
Release(c) ==
  /\ op[c] = "undone"
  /\ Submit(<<Todo("release", c, 0)>>)
  /\ Enters(c, "release")
  /\ UNCHANGED <<registry, passed, holds, puts, sessions, inbox, cell, edits>>

\* ... that waits for the session's initial; _load_graph does so for all its sessions
Return(c) ==
  /\ op[c] = "attached" /\ \A i \in Attached(c) : sessions[i].initial
  /\ Enters(c, "idle")
  /\ UNCHANGED <<registry, loop, passed, holds, puts, sessions, inbox, cell, edits>>

\* ShareHandle.unshare
Unshare(c, i) ==
  /\ op[c] = "idle" /\ "unshare" \in Calls /\ i \in Attached(c)
  /\ sessions' = [sessions EXCEPT ![i] = NoSession]
  /\ Submit(<<Todo("unregister", c, i)>>)
  /\ Enters(c, "unshare")
  /\ UNCHANGED <<registry, passed, holds, puts, inbox, cell, edits>>

\* _load_graph: the staged reservations of a graph, one after the other
LoadReserve(c, r) ==
  /\ op[c] \in {"idle", "load"} /\ "load" \in Calls
  /\ CanReserve(c, r, Attached(c)) /\ ReserveIn(c, r, TRUE)
  /\ Enters(c, "load")
  /\ UNCHANGED <<loop, passed, holds, puts, inbox, cell, edits>>

\* the namespace of a reservation may be gone, or somebody else's
Committable(c) ==
  /\ server.ns.owner # NoOwner
  /\ \A i \in Prepared(c) : NoConflict(server, c, server.regs[i].route, Attached(c), Prepared(c))

\* set_graph: the graph has the values that the cells have
LoadCommit(c) ==
  /\ op[c] = "load" /\ Committable(c)
  /\ Becomes(Commit(server, c, Prepared(c)))
  /\ sessions' = WithPrepared(c, Changed(sessions, Attached(c), LAMBDA s : NoSession))
  /\ Submit(Each("unregister", c, Attached(c)) \o Each("activate", c, Prepared(c)))
  /\ Enters(c, "attached")
  /\ UNCHANGED <<passed, holds, puts, inbox, cell, edits>>

\* ... or the load fails: it unregisters what it reserved, one by one
LoadFails(c) ==
  /\ op[c] = "load" /\ (~Committable(c) \/ "fail" \in Calls)
  /\ Enters(c, "unload")
  /\ UNCHANGED <<registry, loop, passed, holds, puts, sessions, inbox, cell, edits>>
Unload(c) ==
  /\ op[c] = "unload"
  /\ IF Prepared(c) = {} THEN Enters(c, "idle") /\ UNCHANGED loop
     ELSE Submit(Each("unregister", c, {Max(Prepared(c))})) /\ Enters(c, "unloading")
  /\ UNCHANGED <<registry, passed, holds, puts, sessions, inbox, cell, edits>>

\* close(), step by step: _begin_close_namespace, begin_close
Close(c) ==
  /\ op[c] = "idle" /\ "close" \in Calls
  /\ Submit(<<Todo("begin_close", c, 0)>>)
  /\ Enters(c, "flagged")
  /\ UNCHANGED <<registry, passed, holds, puts, sessions, inbox, cell, edits>>
Refuse(c) ==
  /\ op[c] = "begun"
  /\ inbox' = [inbox EXCEPT ![c] = Append(@, [type |-> "begin_close", reg |-> 0, value |-> NoValue,
                                              ws |-> 0, request |-> NoOwner])]
  /\ Enters(c, "refusing")
  /\ UNCHANGED <<registry, loop, passed, holds, puts, sessions, cell, edits>>

\* ... _mount_close_finish, when deliveries are done or the flush took too long
Finish(c) ==
  /\ op[c] = "flushing"
  /\ sessions' = Changed(sessions, Attached(c), LAMBDA s : NoSession)
  /\ Submit(Each("hold", c, Attached(c)))
  /\ Enters(c, "finishing")
  /\ UNCHANGED <<registry, passed, holds, puts, inbox, cell, edits>>
FlushOver(c) ==
  /\ \A i \in Attached(c) : sessions[i].pending = NoValue /\ sessions[i].flight = NoValue
  /\ Finish(c)
FlushTimeout(c) == Finish(c)

\* ... hold_namespace, when the sessions are detached
HoldNamespace(c) ==
  /\ op[c] = "finishing"
  /\ \A k \in DOMAIN loop : loop[k].do # "hold" \/ loop[k].ctx # c
  /\ Submit(<<Todo("hold_namespace", c, 0)>>)
  /\ Enters(c, "holding")
  /\ UNCHANGED <<registry, passed, holds, puts, sessions, inbox, cell, edits>>

-----------------------------------------------------------------------------
(* The turns of the controllers. *)

Edit(c, i) ==
  /\ Accepting(c) /\ i \in Attached(c) /\ edits < Len(Drafts)
  /\ edits' = edits + 1
  /\ Turn(c, i, sessions[i], Drafts[edits + 1])
  /\ UNCHANGED <<registry, passed, holds, puts, inbox, op>>

\* _mount_dispatch at the end of a turn, or by a timer after DELIVERY_INTERVAL, which
\* _mount_tick and _begin_close see to as well while the Context closes
Dispatch(i) ==
  LET s == sessions[i]  c == server.regs[i].ctx IN
  /\ s.on /\ s.pending # NoValue /\ s.flight = NoValue
  /\ sessions' = [sessions EXCEPT ![i].flight = s.pending, ![i].pending = NoValue]
  /\ Submit(<<[do |-> "deliver", ctx |-> c, reg |-> i, value |-> s.pending, ws |-> s.known]>>)
  /\ UNCHANGED <<registry, passed, holds, puts, inbox, users>>

Reply(p, code) == puts' = [puts EXCEPT ![p].at = "done", ![p].reply = code]
Pop(c) == inbox' = [inbox EXCEPT ![c] = Tail(@)]
HeadIs(c, types) == inbox[c] # <<>> /\ Head(inbox[c]).type \in types

\* _mount_observed: stale, unchanged, an echo of the delivery in flight, or foreign
Observed(c) ==
  LET m == Head(inbox[c])  i == m.reg  s == sessions[i]
      seen == [s EXCEPT !.known = m.ws, !.disk = m.value]
      sensed == [seen EXCEPT !.last = m.value, !.pending = NoValue]
      now == cell[c][server.regs[i].route]
  IN
  /\ HeadIs(c, {"observed"}) /\ Pop(c) /\ Reply(m.request, "200")
  /\ IF ~s.on THEN UNCHANGED <<sessions, cell, loop>>
     ELSE \/ m.ws <= s.known /\ Turn(c, i, s, now)
          \/ m.ws > s.known /\ m.value \in {s.disk, s.flight} /\ Turn(c, i, seen, now)
          \/ m.ws > s.known /\ m.value \notin {s.disk, s.flight} /\ Turn(c, i, sensed, m.value)
  /\ UNCHANGED <<registry, passed, holds, op, edits>>

\* _mount_delivered; an acknowledgement for a session that is gone is ignored
Delivered(c) ==
  LET m == Head(inbox[c])  i == m.reg  s == sessions[i]
      done == [s EXCEPT !.flight = NoValue, !.initial = TRUE]
      written == IF m.ws > s.known THEN [done EXCEPT !.known = m.ws, !.disk = m.value] ELSE done
      again == IF s.pending = NoValue THEN [done EXCEPT !.pending = s.flight] ELSE done
  IN
  /\ HeadIs(c, {"written", "conflict", "error"}) /\ Pop(c)
  /\ IF ~s.on THEN UNCHANGED <<sessions, cell, loop>>
     ELSE Turn(c, i, CASE m.type = "written" -> written
                       [] m.type = "error" -> again
                       [] m.type = "conflict" -> done, cell[c][server.regs[i].route])
  /\ UNCHANGED <<registry, passed, holds, puts, op, edits>>

\* _begin_close: dispatches go on for what is pending
BeginClose(c) ==
  /\ HeadIs(c, {"begin_close"}) /\ Pop(c)
  /\ Enters(c, "flushing")
  /\ UNCHANGED <<registry, loop, passed, holds, puts, sessions, cell, edits>>

-----------------------------------------------------------------------------
(* The event loop of the server. *)

Executes(do) == loop # <<>> /\ Head(loop).do = do
Done(tasks) == loop' = Tail(loop) \o tasks
Task1 == Head(loop)

\* Mutant: the predecessor's future is left alone.
CompletedQuietly(s, i) ==
  IF s.regs[i].closed \/ s.regs[i].from = 0 THEN s
  ELSE [s EXCEPT !.regs[i].held = FALSE, !.regs[i].reattaching = FALSE,
                 !.regs[i].due = 0, !.regs[i].from = 0]
\* _activate; the session may be done already (ready)
Completed(s, i) ==
  LET reg == s.regs[i] IN
  IF reg.closed \/ reg.from = 0 THEN s
  ELSE [Resolve(s, {reg.from}, i) EXCEPT
          !.regs[i].held = FALSE, !.regs[i].reattaching = FALSE,
          !.regs[i].due = 0, !.regs[i].from = 0]
Activate ==
  LET i == Task1.reg IN
  /\ Executes("activate") /\ Done(<<>>)
  /\ Becomes(IF server.regs[i].closed THEN server
             ELSE LET s == [server EXCEPT !.regs[i].active = TRUE]
                  IN IF sessions[i].initial THEN Completed(s, i) ELSE s)
  /\ UNCHANGED <<passed, holds, puts, sessions, inbox, users>>

\* _complete_reattach
CompleteReattach ==
  /\ Executes("complete") /\ Done(<<>>)
  /\ Becomes(Completed(server, Task1.reg))
  /\ UNCHANGED <<passed, holds, puts, sessions, inbox, users>>

\* What a registration gets: another value, a fingerprint of its own.
Install(s, i, value) ==
  LET reg == s.regs[i]
      marker == IF value = reg.checksum THEN reg.marker ELSE reg.marker + 1 IN
  [s EXCEPT !.regs[i].checksum = value, !.regs[i].marker = marker, !.regs[i].ws = @ + 1,
            !.floor[reg.route] = IF value = reg.checksum THEN @ ELSE marker]

\* Mutant: the fingerprint is not compared.
ExpectedAny(reg, ws) == TRUE
Expected(reg, ws) == reg.ws = ws
\* _deliver
Deliver ==
  LET i == Task1.reg  reg == server.regs[i]
      ack(type, s) == [type |-> type, reg |-> i, value |-> s.regs[i].checksum,
                       ws |-> s.regs[i].ws, request |-> NoOwner]
      answer(type, s) == /\ Becomes(s)
                         /\ inbox' = [inbox EXCEPT ![reg.ctx] = Append(@, ack(type, s))]
  IN
  /\ Executes("deliver") /\ Done(<<>>)
  /\ \/ (reg.closed \/ ~reg.active) /\ answer("error", server)
     \/ ~reg.closed /\ reg.active /\ ~Expected(reg, Task1.ws) /\ answer("conflict", server)
     \/ /\ ~reg.closed /\ reg.active /\ Expected(reg, Task1.ws)
        /\ answer("written", Install(server, i, Task1.value))
  /\ UNCHANGED <<passed, holds, puts, sessions, users>>

\* What a call does when the server is done with what it submitted.
After == [undo |-> "undone", unshare |-> "idle", unloading |-> "unload", release |-> "idle",
          flagged |-> "begun", holding |-> "closed"]
Awaited(c) == IF op[c] \in DOMAIN After THEN Enters(c, After[op[c]]) ELSE UNCHANGED op

\* _unregister
Unregister ==
  /\ Executes("unregister") /\ Done(<<>>)
  /\ Becomes(Withdraw(server, Task1.reg))
  /\ Awaited(Task1.ctx)
  /\ UNCHANGED <<passed, holds, puts, sessions, inbox, cell, edits>>

\* _hold_registration
HoldRegistration ==
  LET i == Task1.reg IN
  /\ Executes("hold") /\ Done(<<>>)
  /\ Becomes(IF server.regs[i].closed THEN server ELSE [server EXCEPT !.regs[i] = Holding(@)])
  /\ UNCHANGED <<passed, holds, puts, sessions, inbox, users>>

\* _begin_close_namespace
BeginCloseNamespace ==
  LET c == Task1.ctx IN
  /\ Executes("begin_close") /\ Done(<<>>)
  /\ Becomes(IF server.ns.owner # c THEN server
             ELSE [server EXCEPT !.ns.closing = TRUE,
                                 !.regs = Changed(server.regs, Own(server, c), Expecting)])
  /\ Awaited(c)
  /\ UNCHANGED <<passed, holds, puts, sessions, inbox, cell, edits>>

HeldNamespace(ns, until) ==
  [ns EXCEPT !.closing = FALSE, !.active = FALSE, !.due = until,
             !.task = TRUE, !.wake = IF ns.task THEN @ ELSE 0]
\* _hold_namespace: everything of c until the same deadline
Hold ==
  LET c == Task1.ctx
      until(reg) == [Holding(reg) EXCEPT !.due = holds + 1] IN
  /\ Executes("hold_namespace") /\ Done(<<>>)
  /\ IF server.ns.owner # c THEN UNCHANGED <<registry, holds>>
     ELSE /\ holds' = holds + 1
          /\ Becomes([server EXCEPT !.ns = HeldNamespace(@, holds + 1),
                                     !.regs = Changed(server.regs, Own(server, c), until)])
  /\ Awaited(c)
  /\ UNCHANGED <<passed, puts, sessions, inbox, cell, edits>>

\* _close_namespace, unless c has active shares
CloseNamespace ==
  LET c == Task1.ctx
      mine == {i \in Staged(server) : server.regs[i].ctx = c}
      all == Recorded(server) \cup mine IN
  /\ Executes("release") /\ Done(<<>>)
  /\ Becomes(IF server.ns.owner # c \/ \E i \in Own(server, c) : server.regs[i].active THEN server
             ELSE [WithdrawAll(Resolve(server, all, 0), all) EXCEPT !.ns = NoNamespace])
  /\ Awaited(c)
  /\ UNCHANGED <<passed, holds, puts, sessions, inbox, cell, edits>>

\* Time goes on to the next deadline.
Tick ==
  /\ passed < holds /\ passed' = passed + 1
  /\ UNCHANGED <<registry, loop, holds, puts, sessions, inbox, users>>

\* one round of _expire_holds, which sleeps until the first deadline that is left
ExpireHolds ==
  LET ns == server.ns
      over == {i \in Recorded(server) : LET reg == server.regs[i] IN
                 reg.held /\ reg.due # 0 /\ reg.due <= passed}
      s == WithdrawAll(Resolve(server, over, 0), over)
      due == IF ns.due <= passed THEN 0 ELSE ns.due
      dues == {s.regs[i].due : i \in {j \in Recorded(s) : s.regs[j].held}}
                \cup (IF ns.active THEN {} ELSE {due})
      left == dues \ {0}
  IN
  /\ ns.task /\ ns.wake <= passed
  /\ Becomes(IF ~ns.active /\ due = 0 /\ Recorded(s) = {} THEN [s EXCEPT !.ns = NoNamespace]
             ELSE [s EXCEPT !.ns = [@ EXCEPT !.due = due, !.task = left # {},
                                            !.wake = IF left = {} THEN 0 ELSE Min(left)]])
  /\ UNCHANGED <<loop, passed, holds, puts, sessions, inbox, users>>

-----------------------------------------------------------------------------
(* The handlers of PUT requests. *)

MustWait(s, i) == s.regs[i].held \/ s.regs[i].reattaching \/ s.ns.closing

\* _put, up to its first await
Enter(p, i, marker) ==
  LET waits == MustWait(server, i) IN
  /\ puts' = [puts EXCEPT ![p] = [at |-> IF waits THEN "waiting" ELSE "reading",
                                  reg |-> i, marker |-> marker, ws |-> 0, reply |-> "none"]]
  /\ Becomes(IF waits /\ server.regs[i].future = "none"
             THEN [server EXCEPT !.regs[i] = Expecting(@)] ELSE server)

\* A request for what is served; with the marker that its client saw, or without.
Arrive(p, r) ==
  LET i == server.records[r] IN
  /\ puts[p].at = "unsent"
  /\ i # 0 /\ Serving(server, i)
  /\ \E marker \in {{}, {server.regs[i].marker}} : Enter(p, i, marker)
  /\ UNCHANGED <<loop, passed, holds, sessions, inbox, users>>

\* the future of the registration is done: 404, or once more with its successor
Resume(p) ==
  LET reg == server.regs[puts[p].reg] IN
  /\ puts[p].at = "waiting" /\ reg.future = "done"
  /\ IF reg.to = 0 THEN Reply(p, "404") /\ UNCHANGED registry
     ELSE Enter(p, reg.to, puts[p].marker)
  /\ UNCHANGED <<loop, passed, holds, sessions, inbox, users>>

\* put_timeout
PutTimeout(p) ==
  /\ puts[p].at = "waiting" /\ Reply(p, "503")
  /\ UNCHANGED <<registry, loop, passed, holds, sessions, inbox, users>>

\* reg.sink: the Context may refuse it
Sink(p, i, ws) ==
  LET c == server.regs[i].ctx IN
  IF ~Accepting(c) THEN Reply(p, "503") /\ UNCHANGED inbox
  ELSE /\ puts' = [puts EXCEPT ![p].at = "sent", ![p].ws = ws]
       /\ inbox' = [inbox EXCEPT ![c] = Append(@,
             [type |-> "observed", reg |-> i, value |-> Body[p], ws |-> ws, request |-> p])]

\* Mutant: the registration may have been held meanwhile.
GoneClosed(reg) == reg.closed
Gone(reg) == reg.closed \/ ~reg.active
\* The body has been read: the value is installed, or refused.
Accept(p) ==
  LET i == puts[p].reg  reg == server.regs[i] IN
  /\ puts[p].at = "reading"
  /\ \/ Gone(reg) /\ Reply(p, "404") /\ UNCHANGED <<registry, inbox>>
     \/ /\ ~Gone(reg) /\ puts[p].marker \notin {{}, {reg.marker}}
        /\ Reply(p, "409") /\ UNCHANGED <<registry, inbox>>
     \/ /\ ~Gone(reg) /\ puts[p].marker \in {{}, {reg.marker}}
        /\ Becomes(Install(server, i, Body[p]))
        /\ IF Body[p] = reg.checksum THEN Sink(p, i, reg.ws + 1)
           ELSE /\ puts' = [puts EXCEPT ![p].at = "accepted", ![p].ws = reg.ws + 1]
                /\ UNCHANGED inbox
  /\ UNCHANGED <<loop, passed, holds, sessions, users>>

\* ... and sent to the Context after it was broadcast to the subscribers
Send(p) ==
  /\ puts[p].at = "accepted" /\ Sink(p, puts[p].reg, puts[p].ws)
  /\ UNCHANGED <<registry, loop, passed, holds, sessions, users>>

-----------------------------------------------------------------------------
Threads(c) == \/ Attach(c) \/ Release(c) \/ Return(c) \/ LoadCommit(c) \/ Unload(c)
              \/ (~Committable(c) /\ LoadFails(c))
              \/ Refuse(c) \/ FlushOver(c) \/ HoldNamespace(c)
Turns(c) == Observed(c) \/ Delivered(c) \/ BeginClose(c)
Loop == \/ Activate \/ CompleteReattach \/ Deliver \/ Unregister \/ HoldRegistration
        \/ BeginCloseNamespace \/ Hold \/ CloseNamespace
Handles(p) == Resume(p) \/ Accept(p) \/ Send(p)
Users == \/ \E c \in Contexts : Close(c) \/ AttachFails(c) \/ LoadFails(c) \/ FlushTimeout(c)
         \/ \E c \in Contexts, r \in Routes : Share(c, r) \/ LoadReserve(c, r)
         \/ \E c \in Contexts, i \in Regs(server) : Unshare(c, i) \/ Edit(c, i)
         \/ \E p \in Requests : PutTimeout(p) \/ \E r \in Routes : Arrive(p, r)

Next ==
  \/ \E c \in Contexts : Threads(c) \/ Turns(c)
  \/ \E i \in Regs(server) : Dispatch(i)
  \/ Loop \/ Tick \/ ExpireHolds
  \/ \E p \in Requests : Handles(p)
  \/ Users

Fairness ==
  /\ \A c \in Contexts : WF_vars(Threads(c)) /\ WF_vars(Turns(c))
  /\ \A i \in Ids : WF_vars(i \in Regs(server) /\ Dispatch(i))
  /\ WF_vars(Loop) /\ WF_vars(Tick) /\ WF_vars(ExpireHolds)
  /\ \A p \in Requests : WF_vars(Handles(p))
Spec == Init /\ [][Next]_vars /\ Fairness

-----------------------------------------------------------------------------
(* Properties. *)

\* A marker of a route never stands for two values, however often the route was
\* removed, held, taken over and registered again: a client that has the marker of
\* what it shows need not read again (_marker_floors, _adopt_held_registration_locked).
MarkerNamesValue ==
  \A x, y \in shown : x.route = y.route /\ x.marker = y.marker => x.value = y.value

\* Whoever serves a route, or is about to, owns the namespace, and is the only one who has the
\* route: takeover, failed attachments, loads and late coroutines never leave a route
\* with two masters, or with one that lost the namespace (reserve, commit_reservations).
OneOwner ==
  \A i \in Regs(server) : LET reg == server.regs[i] IN
    ~reg.closed /\ ~reg.staged /\ (reg.active \/ reg.reattaching)
      => i \in Recorded(server) /\ server.ns.owner = reg.ctx

\* A held route keeps the value and the marker it had when its Context went, until it is
\* released or taken over, whatever PUTs were under way (_put, _hold_registration).
HoldKeeps ==
  [][\A i \in Regs(server) : LET old == server.regs[i]  new == server'.regs[i] IN
       old.held /\ ~old.reattaching => new.checksum = old.checksum /\ new.marker = old.marker]_vars

\* Only another PUT ever overwrites an accepted one that the Context has not processed yet: a delivery does not
\* (_deliver compares the fingerprint that the session knew at its dispatch).
PutSafe ==
  [][\A p \in Requests :
       LET i == puts[p].reg IN
       /\ puts[p].at \in {"accepted", "sent"} /\ puts[p].ws = server.regs[i].ws
       /\ server'.regs[i].checksum # server.regs[i].checksum
       => \E q \in Requests : puts[q].reg = i /\ puts[q].at = "reading" /\ puts'[q].at = "accepted"]_vars

\* When nothing is under way, a share serves the value of its cell: no order of edits,
\* PUTs, deliveries and takeovers leaves them apart (_mount_observed, _mount_delivered).
AtRest(i) ==
  LET c == server.regs[i].ctx  s == sessions[i] IN
  /\ s.on /\ s.pending = NoValue /\ s.flight = NoValue
  /\ loop = <<>> /\ inbox[c] = <<>> /\ ~Closing(c)
  /\ \A p \in Requests : puts[p].at \notin {"accepted", "sent"}
AgreeAtRest ==
  \A i \in Regs(server) : AtRest(i) =>
    server.regs[i].checksum = cell[server.regs[i].ctx][server.regs[i].route]

\* A PUT that came while its share was being attached again waits for the future of the new
\* registration (server.py:1114), and _complete_reattach resolves the one of the predecessor
\* (server.py:579): until the share is held again nothing but the timeout wakes it up.
Stranded(p) ==
  LET reg == server.regs[puts[p].reg] IN
  /\ puts[p].at = "waiting" /\ reg.future = "pending"
  /\ reg.reattaching \/ (reg.active /\ ~reg.held /\ ~server.ns.closing)

\* Every PUT but those is answered, without its timeout: one that waits for a held route is woken
\* up by the successor or by the end of the hold (_complete_reattach, _expire_holds).
PutAnswered == \A p \in Requests : puts[p].at # "unsent" ~> puts[p].at = "done" \/ Stranded(p)

\* The namespace of a Context that has closed does not stay: it is taken over or released, with all
\* its routes (_expire_holds).
Released == \A c \in Contexts :
  op[c] = "closed" ~> /\ server.ns.owner # c
                      /\ \A i \in Recorded(server) : server.regs[i].ctx # c
=============================================================================
