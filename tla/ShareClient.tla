----------------------------- MODULE ShareClient -----------------------------
(***************************************************************************)
(* A browser page and the share server: seamless-client.js with the        *)
(* websocket, the GET and the PUT of attachments/share/server.py.           *)
(*                                                                         *)
(* The server tells its subscribers over the websocket that a value has     *)
(* changed and numbers the values of a key with markers; the page reads and *)
(* writes the values over HTTP, so that a reply may come before or after    *)
(* the announcement of what it answers.  The websocket may be lost at any   *)
(* moment, and the server may be restarted, which starts the markers anew.  *)
(*                                                                         *)
(* A key stands for one share with its entry on the page.  Keys are read    *)
(* automatically (they have no dot) and may be written.  A checksum is the  *)
(* value it names.  Other pages and the Context are one: they change a      *)
(* value, and the server announces it.  What is sent to the page over its   *)
(* websocket arrives in order.  Left out: binary shares, the state graph,    *)
(* a page that is closed or connects by hand.                               *)
(***************************************************************************)
EXTENDS Naturals, Sequences, FiniteSets

CONSTANTS
  Keys, Values,
  Blank,      \* whether a share may be seen before its cell has a value
  NoValue,    \* null: a share without a value
  Undefined,  \* the value of an entry that was never read
  NoEntry,    \* a key that the page does not list
  MaxSets,    \* bound: the edits on the page
  MaxChanges, \* bound: the changes of others
  MaxFaults   \* bound: what goes wrong, together: a lost websocket, a restart, a failed
              \* request, a share that is withdrawn

ASSUME NamesAssumption == Values # {} /\ Blank \in BOOLEAN

VARIABLES
  record,     \* the records of the server
  conn,       \* the websocket, with its _WsClient
  adopt,      \* adoptRestartSnapshot
  page,       \* entries, by key
  stray,      \* the PUT requests of entries that are gone
  stale,      \* history: why the value on the page may be another one: a request for the key
              \* "failed", the page "kept" its value over a restart that it suspects, or an
              \* answer came "late" that carries no marker
  life, known,\* history: how often the server was restarted; before the last snapshot
  used        \* how much of each bound is used up

Content == Values \cup {NoValue}
Record == [shared: BOOLEAN, value: Content, marker: Nat]
Get == [at: {"none", "asked", "answered"}, marker: Nat, reply: {"none", "gone", "empty", "ok"},
        value: Content, found: Nat, drains: BOOLEAN]
Put == [at: {"none", "asked", "answered", "refresh"}, value: Content, marker: Nat,
        current: BOOLEAN, latest: BOOLEAN, reply: {"none", "ok", "conflict", "error"},
        other: Content, found: Nat]
Entries == [value: Content \cup {Undefined}, checksum: Content, marker: Nat, own: Nat,
            read: BOOLEAN, unresolved: BOOLEAN, pending: Seq(Values), get: Get, put: Put]
Message == [type: {"update"}, key: Keys, value: Content, marker: Nat]
             \cup [type: {"shares"}, records: [Keys -> Record]]
ASSUME EntryAssumption == NoEntry \notin Entries

TypeOK ==
  /\ record \in [Keys -> Record] /\ life \in Nat /\ known \in 0..life /\ adopt \in BOOLEAN
  /\ conn \in [up: BOOLEAN, initializing: BOOLEAN, pending: Seq(Message), out: Seq(Message)]
  /\ page \in [Keys -> Entries \cup {NoEntry}] /\ stray \in [Keys -> SUBSET Put]
  /\ stale \in [Keys -> SUBSET {"failed", "kept", "late"}]
  /\ used \in [{"sets", "changes", "faults"} -> Nat]

server == <<record, life>>
vars == <<server, conn, adopt, page, stray, stale, known, used>>

NoGet == [at |-> "none", marker |-> 0, reply |-> "none", value |-> NoValue, found |-> 0, drains |-> FALSE]
NoPut == [at |-> "none", value |-> NoValue, marker |-> 0, current |-> TRUE, latest |-> TRUE,
          reply |-> "none", other |-> NoValue, found |-> 0]
NoConn == [up |-> FALSE, initializing |-> FALSE, pending |-> << >>, out |-> << >>]
Fresh == [shared |-> FALSE, value |-> NoValue, marker |-> 0]

Spend(bound, limit) == used[bound] < limit /\ used' = [used EXCEPT ![bound] = @ + 1]

Init ==
  /\ record = [k \in Keys |-> [shared |-> TRUE, value |-> CHOOSE v \in Values : TRUE, marker |-> 1]]
  /\ conn = NoConn /\ adopt = FALSE
  /\ page = [k \in Keys |-> NoEntry] /\ stray = [k \in Keys |-> {}]
  /\ stale = [k \in Keys |-> {}] /\ life = 0 /\ known = 0
  /\ used = [sets |-> 0, changes |-> 0, faults |-> 0]

-----------------------------------------------------------------------------
(* The server. *)

\* _queue_or_send
Broadcast(message) ==
  conn' = IF ~conn.up THEN conn
          ELSE IF conn.initializing THEN [conn EXCEPT !.pending = Append(@, message)]
          ELSE [conn EXCEPT !.out = Append(@, message)]

Update(k, rec) == [type |-> "update", key |-> k, value |-> rec.value, marker |-> rec.marker]
Snapshot(recs) == [type |-> "shares", records |-> recs]

\* What a delivery or an accepted PUT installs, and its announcement.
Install(k, v) ==
  LET rec == record[k]
      new == [rec EXCEPT !.value = v, !.marker = IF v = rec.value THEN @ ELSE @ + 1]
  IN  /\ record' = [record EXCEPT ![k] = new]
      /\ IF v = rec.value THEN UNCHANGED conn ELSE Broadcast(Update(k, new))

\* Another writer, or the first value of the cell.
Change(k, v) ==
  /\ record[k].shared /\ v # record[k].value
  /\ IF record[k].value = NoValue THEN UNCHANGED used ELSE Spend("changes", MaxChanges)
  /\ Install(k, v)
  /\ UNCHANGED <<life, adopt, page, stray, stale, known>>

\* _unregister; _activate of a new registration, with the marker floor of its route
Unshare(k) ==
  /\ record[k].shared /\ Spend("faults", MaxFaults)
  /\ record' = [record EXCEPT ![k] = [Fresh EXCEPT !.marker = record[k].marker]]
  /\ Broadcast(Snapshot(record'))
  /\ UNCHANGED <<life, adopt, page, stray, stale, known>>

Share(k) ==
  /\ ~record[k].shared
  /\ \E v \in Values, given \in {~Blank, TRUE} :
       record' = [record EXCEPT ![k] = IF given THEN [shared |-> TRUE, value |-> v, marker |-> @.marker + 1]
                                       ELSE [@ EXCEPT !.shared = TRUE]]
  /\ Broadcast(Snapshot(record'))
  /\ UNCHANGED <<life, adopt, page, stray, stale, known, used>>

\* _handle accepts the websocket of any namespace, also where nothing is active.
\* _websocket: the client is registered first, what is broadcast before its
\* snapshot is sent after it.
Connect ==
  /\ ~conn.up
  /\ conn' = [NoConn EXCEPT !.up = TRUE, !.initializing = TRUE]
  /\ UNCHANGED <<server, adopt, page, stray, stale, known, used>>

SnapshotSent ==
  /\ conn.initializing
  /\ conn' = [conn EXCEPT !.initializing = FALSE, !.pending = << >>,
                          !.out = <<Snapshot(record)>> \o conn.pending]
  /\ UNCHANGED <<server, adopt, page, stray, stale, known, used>>

\* _serve
ServeGet(k) ==
  LET rec == record[k] IN
  /\ page[k] # NoEntry /\ page[k].get.at = "asked"
  /\ page' = [page EXCEPT ![k].get = [@ EXCEPT !.at = "answered", !.value = rec.value, !.found = rec.marker,
                                        !.reply = IF ~rec.shared THEN "gone"
                                                  ELSE IF rec.value = NoValue THEN "empty" ELSE "ok"]]
  /\ UNCHANGED <<server, conn, adopt, stray, stale, known, used>>

\* _put: refused, or installed and announced before it is answered
Accepts(rec, marker) == rec.shared /\ rec.marker = marker
Answer(rec, put) ==
  IF ~rec.shared THEN "error" ELSE IF Accepts(rec, put.marker) THEN "ok" ELSE "conflict"

ServePut(k) ==
  LET rec == record[k]  put == page[k].put IN
  /\ page[k] # NoEntry /\ put.at = "asked"
  /\ IF Accepts(rec, put.marker) THEN Install(k, put.value) ELSE UNCHANGED <<record, conn>>
  /\ page' = [page EXCEPT ![k].put = [@ EXCEPT !.at = "answered", !.reply = Answer(rec, put),
                                               !.other = rec.value, !.found = record'[k].marker]]
  /\ UNCHANGED <<life, adopt, stray, stale, known, used>>

ServeStray(k) ==
  \E put \in stray[k] :
    /\ stray' = [stray EXCEPT ![k] = @ \ {put}]
    /\ IF Accepts(record[k], put.marker) THEN Install(k, put.value) ELSE UNCHANGED <<record, conn>>
    /\ UNCHANGED <<life, adopt, page, stale, known, used>>

\* What goes wrong: the websocket is lost with what was sent over it ...
Drop ==
  /\ conn.up /\ Spend("faults", MaxFaults)
  /\ conn' = NoConn /\ adopt' = TRUE
  /\ UNCHANGED <<server, page, stray, stale, known>>

\* ... or the whole server goes, and starts with nothing shared.
Restart ==
  /\ Spend("faults", MaxFaults) /\ life' = life + 1
  /\ record' = [k \in Keys |-> Fresh] /\ stray' = [k \in Keys |-> {}]
  /\ conn' = NoConn /\ adopt' = (adopt \/ conn.up)
  /\ UNCHANGED <<page, stale, known>>

-----------------------------------------------------------------------------
(* The page: one event at a time. *)

Entry(rec) ==
  [value |-> Undefined, checksum |-> rec.value, marker |-> rec.marker,
   own |-> 0,            \* ownPutMarker
   read |-> FALSE,       \* serverRead
   unresolved |-> FALSE, \* unresolvedDroppedChange
   pending |-> << >>, get |-> NoGet, put |-> NoPut]

\* fetchValue up to its request: an earlier one is ignored from now on (readGeneration)
Fetch(e) == [e EXCEPT !.get = [NoGet EXCEPT !.at = "asked", !.marker = e.marker]]
Unread(e) == [e EXCEPT !.get = NoGet]
\* serverRevision: the reply to a PUT that is under way says nothing new
Revised(e) == IF e.put.at = "none" THEN e ELSE [e EXCEPT !.put.current = FALSE]
Acknowledge(own, marker) == IF marker >= own THEN 0 ELSE own

\* drainWrites: the next request, or the end
Drain(e) ==
  IF e.pending = << >> THEN [e EXCEPT !.put = NoPut]
  ELSE [e EXCEPT !.pending = << >>,
                 !.put = [NoPut EXCEPT !.at = "asked", !.value = Head(e.pending), !.marker = e.marker]]

\* inspectRestartSnapshot: some marker is lower than the page has it, and not
\* just because the snapshot is older than the one PUT that the page made.
Listed(recs) == {k \in Keys : recs[k].shared}
Lower(recs) == {k \in Listed(recs) : page[k] # NoEntry /\ recs[k].marker < page[k].marker}
Tolerated(recs) ==
  /\ Cardinality(Lower(recs)) = 1
  /\ \A k \in Lower(recs) : page[k].own = page[k].marker /\ recs[k].marker = page[k].marker - 1
Restarted(recs) == Lower(recs) # {} /\ ~Tolerated(recs)

\* installSnapshot, of an entry that the page has
Adopted(e, rec) == [e EXCEPT !.marker = rec.marker, !.checksum = rec.value]
Live(e, rec) ==
  LET new == [Adopted(e, rec) EXCEPT !.own = 0]
      changed == rec.marker # e.marker \/ rec.value # e.checksum
  IN  IF rec.marker < e.marker THEN e
      ELSE IF changed THEN Fetch(Revised(new))
      ELSE IF e.value = Undefined THEN Fetch(new) ELSE new
Reconnected(e, rec) ==
  LET new == [Adopted(e, rec) EXCEPT !.own = Acknowledge(@, rec.marker)]
  IN  Fetch(Revised(IF rec.marker < e.marker THEN e ELSE new))
Unsure(e) == ~e.read \/ e.unresolved
Replaced(e, rec) ==
  LET new == Revised(Unread([e EXCEPT !.marker = rec.marker, !.own = 0]))
  IN  IF Unsure(e) THEN Fetch([new EXCEPT !.checksum = rec.value]) ELSE new

InstallSnapshot(recs) ==
  LET restarted == adopt /\ Restarted(recs)
      kept(k) == IF restarted THEN ~Unsure(page[k]) ELSE life # known /\ k \in Lower(recs)
      installed(k) ==
        IF k \notin Listed(recs) THEN NoEntry
        ELSE IF page[k] = NoEntry THEN Fetch(Entry(recs[k]))
        ELSE IF restarted THEN Replaced(page[k], recs[k])
        ELSE IF adopt THEN Reconnected(page[k], recs[k])
        ELSE Live(page[k], recs[k])
      asked(k) == page[k] # NoEntry /\ k \notin Listed(recs) /\ page[k].put.at = "asked"
  IN  /\ page' = [k \in Keys |-> installed(k)]
      /\ stray' = [k \in Keys |-> IF asked(k) THEN stray[k] \cup {page[k].put} ELSE stray[k]]
      /\ stale' = [k \in Keys |-> IF k \notin Listed(recs) \/ page[k] = NoEntry THEN {}
                                  ELSE IF kept(k) THEN stale[k] \cup {"kept"} ELSE stale[k]]
      /\ adopt' = FALSE /\ known' = life

\* updateMetadata, and the reading it calls for
Updated(e, value, marker) ==
  LET new == [e EXCEPT !.marker = marker, !.checksum = value, !.own = Acknowledge(@, marker)]
      changed == marker > e.marker \/ (marker = e.marker /\ value # e.checksum)
      told == IF changed THEN Revised(new) ELSE IF marker < e.marker THEN e ELSE new
  IN  IF changed \/ e.unresolved THEN Fetch(told) ELSE told

\* receiveMessage
Receive ==
  LET m == Head(conn.out) IN
  /\ conn.out # << >> /\ conn' = [conn EXCEPT !.out = Tail(@)]
  /\ \/ m.type = "shares" /\ InstallSnapshot(m.records)
     \/ /\ m.type = "update"
        /\ page' = IF page[m.key] = NoEntry THEN page
                   ELSE [page EXCEPT ![m.key] = Updated(@, m.value, m.marker)]
        /\ UNCHANGED <<adopt, stray, stale, known>>
  /\ UNCHANGED <<server, used>>

\* set: what is read from the server now is older than the edit
Edited(e, v) ==
  LET new == [Unread(e) EXCEPT !.value = v, !.pending = <<v>>, !.put.latest = FALSE]
  IN  IF e.put.at = "none" THEN Drain(new) ELSE new

Set(k, v) ==
  /\ page[k] # NoEntry /\ Spend("sets", MaxSets)
  /\ page' = [page EXCEPT ![k] = Edited(@, v)]
  /\ UNCHANGED <<server, conn, adopt, stray, stale, known>>

\* the reply to a GET
\* Mutant: a reply is shown whatever its marker.
CountsAnyMarker(e) == e.get.reply \in {"empty", "ok"}

Counts(e) == \/ e.get.reply = "empty"
             \/ (e.get.reply = "ok" /\ e.get.found >= e.get.marker /\ e.get.found >= e.marker)
\* An answer "share has no value" has no marker: it counts whatever has happened since.
Late(e) == e.get.found # e.marker /\ e.get.reply = "empty"
Read(e) ==
  LET g == e.get
      shown == [e EXCEPT !.value = g.value, !.read = TRUE, !.unresolved = FALSE]
  IN  IF ~Counts(e) THEN e
      ELSE IF g.reply = "empty" THEN shown
      ELSE [shown EXCEPT !.marker = g.found, !.checksum = g.value, !.own = Acknowledge(@, g.found)]

AfterGet(e) == LET over == Unread(e) IN IF e.get.drains THEN Drain(over) ELSE over

GetReturns(k) ==
  LET e == page[k] IN
  /\ e # NoEntry /\ e.get.at = "answered"
  /\ page' = [page EXCEPT ![k] = AfterGet(Read(e))]
  /\ stale' = [stale EXCEPT ![k] = IF ~Counts(e) THEN @ ELSE IF Late(e) THEN {"late"} ELSE {}]
  /\ UNCHANGED <<server, conn, adopt, stray, known, used>>

GetFails(k) ==
  /\ page[k] # NoEntry /\ page[k].get.at # "none" /\ Spend("faults", MaxFaults)
  /\ page' = [page EXCEPT ![k] = AfterGet(@)]
  /\ stale' = [stale EXCEPT ![k] = @ \cup {"failed"}]
  /\ UNCHANGED <<server, conn, adopt, stray, known>>

\* drainWrites waits for the reading that it began after a conflict; it is over, too, when
\* it is ignored, as a later one or an edit came.
\* Mutant: it waits until the conflict is resolved.
AwaitedResolved(e) == e.get.drains \/ e.unresolved

Awaited(e) == e.get.drains

RefreshOver(k) ==
  /\ page[k] # NoEntry /\ page[k].put.at = "refresh" /\ ~Awaited(page[k])
  /\ page' = [page EXCEPT ![k] = Drain(@)]
  /\ UNCHANGED <<server, conn, adopt, stray, stale, known, used>>

\* the reply to a PUT
Current(e) == e.put.current /\ e.put.found >= e.marker
Written(e) ==
  LET p == e.put
      told == [e EXCEPT !.marker = p.found, !.own = IF p.found > p.marker THEN p.found ELSE 0,
                        !.checksum = p.value, !.unresolved = FALSE,
                        !.value = IF p.latest THEN p.value ELSE @]
  IN  Drain(IF Current(e) THEN told ELSE e)
Refused(e) ==
  LET p == e.put
      told == [e EXCEPT !.marker = p.found, !.checksum = IF p.other = NoValue THEN @ ELSE p.other,
                        !.own = Acknowledge(@, p.found)]
      dropped == [(IF Current(e) THEN told ELSE e) EXCEPT !.pending = << >>, !.unresolved = TRUE,
                                                          !.put.at = "refresh"]
  IN  [Fetch(dropped) EXCEPT !.get.drains = TRUE]

PutReturns(k) ==
  LET e == page[k] IN
  /\ e # NoEntry /\ e.put.at = "answered"
  /\ page' = [page EXCEPT ![k] = CASE e.put.reply = "ok" -> Written(e)
                                   [] e.put.reply = "conflict" -> Refused(e)
                                   [] e.put.reply = "error" -> Drain(e)]
  /\ stale' = [stale EXCEPT ![k] = IF e.put.reply = "ok" /\ Current(e) /\ e.put.latest THEN {} ELSE @]
  /\ UNCHANGED <<server, conn, adopt, stray, known, used>>

PutFails(k) ==
  /\ page[k] # NoEntry /\ page[k].put.at \in {"asked", "answered"} /\ Spend("faults", MaxFaults)
  /\ page' = [page EXCEPT ![k] = Drain(@)]
  /\ stale' = [stale EXCEPT ![k] = @ \cup {"failed"}]
  /\ UNCHANGED <<server, conn, adopt, stray, known>>

-----------------------------------------------------------------------------
Serve(k) == ServeGet(k) \/ ServePut(k) \/ ServeStray(k)
Returns(k) == GetReturns(k) \/ PutReturns(k) \/ RefreshOver(k)

Next ==
  \/ Connect \/ SnapshotSent \/ Receive \/ Drop \/ Restart
  \/ \E k \in Keys : \/ Serve(k) \/ Returns(k) \/ GetFails(k) \/ PutFails(k)
                     \/ Share(k) \/ Unshare(k)
                     \/ \E v \in Values : Change(k, v) \/ Set(k, v)

Fairness ==
  /\ WF_vars(Connect) /\ WF_vars(SnapshotSent) /\ WF_vars(Receive)
  /\ \A k \in Keys : WF_vars(Serve(k)) /\ WF_vars(Returns(k)) /\ WF_vars(Share(k))

Spec == Init /\ [][Next]_vars /\ Fairness

-----------------------------------------------------------------------------
(* Properties. *)

Matches(k) == page[k].marker = record[k].marker /\ page[k].value = record[k].value
Agrees(k) ==
  IF ~record[k].shared THEN page[k] = NoEntry
  ELSE page[k] # NoEntry /\ (stale[k] # {} \/ Matches(k))

\* Nothing is under way: the websocket is up and read, and every reply is there.
AtRest ==
  /\ conn.up /\ ~conn.initializing /\ conn.out = << >>
  /\ \A k \in Keys : page[k] # NoEntry => page[k].get = NoGet /\ page[k].put = NoPut

\* At rest the page shows what the server has, unless a request for it failed, the value was kept
\* over what looks like a restart, or "no value" was answered before there was one: no order of
\* announcements, snapshots, replies, conflicts and edits leaves an edit on the page that the
\* server does not have, or hides a newer value (seamless-client.js).
AgreeAtRest == AtRest => \A k \in Keys : Agrees(k)

\* In the end the page and the server agree: the websocket is opened again, writes and conflicts
\* come to an end, and the last value is read (connect, drainWrites, fetchValue).
Converges == <>[](\A k \in Keys : Agrees(k))

=============================================================================
