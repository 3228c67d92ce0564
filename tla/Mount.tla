--------------------------------- MODULE Mount ---------------------------------
(***************************************************************************)
(* One cell mounted to one file (attachments/ of the package): the         *)
(* session that the Context keeps for it, the registration and its serial  *)
(* queue in the file system service, the file itself, the user who edits   *)
(* the cell, the others who edit the file, and close().                    *)
(*                                                                         *)
(* A content is a value, or the mark Absent or Invalid.  A fingerprint is  *)
(* a number, 0 when there is no file: a write gives the file one that      *)
(* nobody remembers, as a write of the program replaces the inode and a    *)
(* foreign one moves the times.  The counters ws and seq are left out: one serial queue feeds    *)
(* one message queue, so no observation is older than what was processed   *)
(* and no acknowledgement is of another delivery than the one in flight.   *)
(***************************************************************************)
EXTENDS Naturals, Sequences, FiniteSets

CONSTANTS
  Specs,         \* the mounts to try
  Roots,         \* the values the cell may have when it is mounted
  Contents,      \* the contents the file may have when it is mounted
  Edits,         \* bound: Edits[i] is what the i-th change of the cell may assign
  ForeignEdits,  \* bound: ForeignEdits[i] is what the i-th foreign write may leave
  Calls,         \* bound: what else the user does: "clear", "unmount", "close"
  Faults,        \* the steps of the service that may fail, "write" and "stamp"
  MaxFaults,     \* bound: how often they do
  MaxInbox,      \* bound: the broker polls while fewer messages are waiting
  Instants,      \* the instants inside an operation or a turn when others may act
  Threshold      \* reasserts that trip the detector (detector: threshold)

Null == "null"          \* canonical null, an empty file
Absent == "ABSENT"
Invalid == "INVALID"
NoValue == "no value"   \* a cell that is not complete; no delivery

Allowed == [mode: {"r", "w", "rw"}, authority: {"file", "cell", "file-strict"}, persistent: BOOLEAN]
ASSUME SpecsAssumption ==
  /\ Specs \subseteq Allowed
  /\ \A sp \in Specs : /\ sp.authority = "file-strict" => sp.mode # "w" /\ sp.persistent
                       /\ sp.mode = "w" => sp.authority = "cell"
ASSUME BoundsAssumption ==
  /\ MaxFaults \in Nat /\ MaxInbox \in Nat /\ Threshold \in Nat \ {0}
  /\ Instants \subseteq {"read", "replace", "stamp", "unlink", "reread", "turn"}
  /\ Calls \subseteq {"clear", "unmount", "close"}
  /\ Faults \subseteq {"write", "stamp"}

VARIABLES
  spec,      \* the AttachmentSpec
  disk,      \* the file: its value, whether it is not in canonical form, its fingerprint
  unseen,    \* the file is of somebody else and has not been shown to the session
  young,     \* the last write is within racy_window, and no poll has read it late enough
  work,      \* Registration.queue, with the operation being performed at its head
  at,        \* where in that operation the worker is
  baseline,  \* Registration.baseline
  active,    \* Registration.active
  inbox,     \* the messages in Controller.queue
  mounted,   \* "preparing", "attached" or "detached"
  session,   \* the MountSession
  timer,     \* _mount_wake_timer is armed
  root,      \* the value of the cell, sense errors apart
  turn,      \* a turn is "busy" between its handler and _after_turn
  effects,   \* Context._effects
  closer,    \* where the thread in close() is
  timedOut,  \* close() gave up waiting for the flush
  edits, foreigns, faults   \* how many there were

fileState == <<disk, unseen, young, foreigns>>
service == <<work, at, baseline, active, faults>>
context == <<mounted, session, timer, root, turn, effects, edits>>
vars == <<spec, fileState, service, inbox, context, closer, timedOut>>

Values == {Null} \cup Roots \cup UNION {Edits[i] : i \in DOMAIN Edits}
                 \cup {c.value : c \in Contents}
                 \cup UNION {{c.value : c \in ForeignEdits[i]} : i \in DOMAIN ForeignEdits}
Content == {c \in [value: Values \ {NoValue}, raw: BOOLEAN] : c.value = Absent => ~c.raw}
ASSUME ContentsAssumption ==
  /\ (Roots \cup UNION {Edits[i] : i \in DOMAIN Edits}) \cap {Absent, Invalid} = {}
  /\ Edits \in Seq(SUBSET Values)
  /\ Contents \subseteq Content /\ ForeignEdits \in Seq(SUBSET Content)

Prints == Nat
Delivery == [value: Values \cup {NoValue}, force: BOOLEAN, expected: Prints]
NoDelivery == [value |-> NoValue, force |-> FALSE, expected |-> 0]
\* force: of a poll, to read in any case; of a cleanup, to delete the file
Operation == [type: {"poll", "deliver", "cleanup", "activate"}, force: BOOLEAN, delivery: Delivery]
Message == [type: {"attach", "observed", "written", "error", "conflict", "begin_close"},
            value: Values \cup {Absent, NoValue}, print: Prints, raw: BOOLEAN]

TypeOK ==
  /\ spec \in Specs
  /\ disk \in [value: Values \cup {Absent}, raw: BOOLEAN, print: Prints]
  /\ unseen \in BOOLEAN /\ young \in BOOLEAN
  /\ work \in Seq(Operation) /\ baseline \in Prints /\ active \in BOOLEAN
  /\ at \in {"start", "read", "replace", "stamp", "unlink", "reread"}
  /\ inbox \in Seq(Message)
  /\ mounted \in {"preparing", "attached", "detached"} /\ root \in Values \cup {NoValue}
  /\ session.disk # NoValue \/ mounted = "preparing"
  /\ session \in [disk: Values \cup {Absent, NoValue}, print: Prints, synced: Values \cup {NoValue},
                  pending: Delivery, inFlight: Delivery, tripped: BOOLEAN, error: BOOLEAN,
                  senseError: BOOLEAN, backoff: BOOLEAN, cooling: BOOLEAN,
                  reasserts: 0..Threshold, initial: BOOLEAN]
  /\ timer \in BOOLEAN /\ turn \in {"idle", "busy"}
  /\ effects \in Seq(Operation)
  /\ closer \in {"open", "flagged", "refusing", "flushing", "finishing", "closed"}
  /\ timedOut \in BOOLEAN
  /\ edits \in 0..Len(Edits) /\ foreigns \in 0..Len(ForeignEdits) /\ faults \in 0..MaxFaults

-----------------------------------------------------------------------------
Senses == spec.mode \in {"r", "rw"}
Actuates == spec.mode \in {"w", "rw"}
Closing == closer # "open"                       \* Context._closing
Accepting == closer \in {"open", "flagged"}      \* Controller.accepting
\* What node.current_checksum is, NoValue unless the node is complete.
Cell == IF session.senseError THEN NoValue ELSE root
\* Other threads act inside an operation or a turn at the Instants only, except
\* that close() begins at any moment.
Calm == at \in {"start"} \cup Instants
Quiet == turn = "idle" \/ "turn" \in Instants

Remembered == {disk.print, baseline, session.print, session.inFlight.expected}
                \cup {work[i].delivery.expected : i \in DOMAIN work}
                \cup {inbox[i].print : i \in DOMAIN inbox}
NewPrint == CHOOSE n \in 1 .. Cardinality(Remembered) + 1 : n \notin Remembered

\* The session operations, as functions of the session.

Has(delivery) == delivery.value # NoValue

\* _mount_request
Request(s, value, force) ==
  IF s.tripped \/ value = NoValue THEN s
  ELSE [s EXCEPT !.pending = [value |-> value, force |-> force, expected |-> 0],
                 !.synced = value, !.backoff = FALSE]

\* _mount_dispatch; null and no file are the same on disk.
Equivalent(s, delivery) ==
  delivery.value = s.disk \/ (delivery.value = Null /\ s.disk = Absent)
Dispatch(s) ==
  IF Has(s.inFlight) \/ ~Has(s.pending) \/ s.tripped \/ s.backoff THEN s
  ELSE IF Equivalent(s, s.pending) /\ ~s.pending.force
       THEN [s EXCEPT !.pending = NoDelivery, !.initial = TRUE]
  ELSE IF s.cooling THEN s
  ELSE [s EXCEPT !.pending = NoDelivery, !.cooling = TRUE,
                 !.inFlight = [s.pending EXCEPT !.expected = s.print]]
\* the effect of a dispatch: service.deliver
Delivering(s, t) ==
  IF Has(s.inFlight) \/ ~Has(t.inFlight) THEN <<>>
  ELSE <<[type |-> "deliver", force |-> FALSE, delivery |-> t.inFlight]>>

\* _mount_after_turn, before it dispatches: a new value is noted in any case,
\* and requested unless the detector has tripped.
Noted(s, cell) == [s EXCEPT !.synced = cell]
Actuate(s, cell) ==
  IF ~Actuates \/ cell \in {NoValue, s.synced} THEN s
  ELSE IF cell = s.disk THEN Noted(s, cell)
  ELSE Request(Noted(s, cell), cell, FALSE)

\* _mount_sense
SenseKeepingPending(s, value) == [s EXCEPT !.synced = value, !.senseError = FALSE]
Sense(s, value) == [s EXCEPT !.synced = value, !.senseError = FALSE, !.pending = NoDelivery]

\* _mount_schedule_wakeup: is there a deadline to wake up for?
DeadlineOpen(s) == Has(s.pending) /\ ~s.tripped /\ ~Has(s.inFlight) /\ ~Closing
Deadline(s) == /\ Has(s.pending) /\ ~s.tripped /\ ~Has(s.inFlight)
               /\ Closing => spec.persistent /\ ~s.error
\* _mount_close_busy
Busy(s) == Has(s.inFlight) \/ (Has(s.pending) /\ ~s.error /\ spec.persistent)

Activation == [type |-> "activate", force |-> FALSE, delivery |-> NoDelivery]
\* An activation is the first effect of all.
Activates(ops) == ops # <<>> /\ Head(ops) = Activation
Submit(ops) == /\ work' = work \o IF Activates(ops) THEN Tail(ops) ELSE ops
               /\ active' = (active \/ Activates(ops))

\* At the end of a handler: its effects wait for _after_turn.
Later(s, ops) == /\ session' = s /\ effects' = effects \o ops
                 /\ UNCHANGED <<work, active, timer>>
\* Handlers that run while the Context closes dispatch what is to be flushed,
\* execute their effects at once, and set the timer.
Flushed(s) == IF spec.persistent /\ ~s.error THEN Dispatch(s) ELSE s
FlushNow(s) == /\ session' = Flushed(s)
               /\ Submit(effects \o Delivering(s, Flushed(s))) /\ effects' = <<>>
               /\ timer' = Deadline(Flushed(s))

-----------------------------------------------------------------------------
\* The turns of the controller.  A handler leaves the turn busy, AfterTurn ends it.

Begin == turn = "idle" /\ turn' = "busy" /\ Calm
Receive(type) == /\ Begin /\ inbox # <<>> /\ Head(inbox).type = type
                 /\ inbox' = Tail(inbox)
notController == <<spec, disk, young, foreigns, at, baseline, faults>>
notShown == <<notController, unseen, timedOut>>
Shown(o) == unseen' = (unseen /\ o.print # disk.print) /\ UNCHANGED timedOut

\* _mount_attach, with decide_initial
InitialWithValue(o) ==
  CASE o.value \in {Absent, Null} ->
         IF o.value = Absent /\ spec.authority = "file-strict" THEN "error"
         ELSE IF root # Null /\ Actuates THEN "write" ELSE "nothing"
    [] o.value \notin {Absent, Null} /\ spec.authority = "cell" ->
         IF Actuates /\ root # o.value THEN "write" ELSE "nothing"
    [] o.value \notin {Absent, Null} /\ spec.authority # "cell" ->
         IF o.value = Invalid THEN "error" ELSE IF o.value # root THEN "sense" ELSE "nothing"
InitialWithout(o) ==
  IF ~Senses THEN "nothing"
  ELSE CASE o.value = Invalid -> "error"
         [] o.value = Absent -> IF spec.authority = "file-strict" THEN "sense null, error" ELSE "sense null"
         [] OTHER -> "sense"
Attach ==
  /\ Receive("attach") /\ mounted = "preparing" /\ mounted' = "attached"
  /\ LET o == Head(inbox)
         action == IF root = NoValue THEN InitialWithout(o) ELSE InitialWithValue(o)
         found == [session EXCEPT !.disk = o.value, !.print = o.print, !.synced = root]
         acted == CASE action = "sense" -> Sense(found, o.value)
                    [] action = "sense null" -> [found EXCEPT !.synced = Null]
                    [] action = "sense null, error" -> [found EXCEPT !.synced = Null, !.senseError = TRUE]
                    [] action = "error" -> [found EXCEPT !.senseError = TRUE]
                    [] action = "write" -> Request(found, root, FALSE)
                    [] action = "nothing" -> found
         asked == IF spec.mode = "rw" /\ o.raw /\ action \in {"sense", "nothing"}
                  THEN Request(acted, acted.synced, TRUE) ELSE acted
     IN /\ root' = CASE action = "sense" -> o.value
                     [] action \in {"sense null", "sense null, error"} -> Null
                     [] OTHER -> root
        /\ Later([asked EXCEPT !.initial = ~Has(asked.pending)], <<Activation>>)
        /\ Shown(o)
  /\ UNCHANGED <<notController, edits, closer>>

\* classify_observation (without "stale", see above)
Classify(o, s) ==
  CASE o.value = s.disk /\ (o.value \in {Absent, Invalid} => o.print = s.print) -> "unchanged"
    [] o.value = Invalid /\ ~(o.value = s.disk /\ o.print = s.print) -> "rejected"
    [] o.value = Absent /\ ~(o.value = s.disk /\ o.print = s.print) -> "absent"
    [] o.value \notin {Absent, Invalid, s.disk} ->
         IF o.value = s.inFlight.value THEN "echo" ELSE "foreign"

\* reassert and detector; the earlier reasserts may have left the window of 20 s
Reasserts(s, kind) == /\ spec.mode = "w" /\ Cell # NoValue /\ ~s.tripped
                      /\ kind \in {"foreign", "rejected", "absent"}
Reassert(s, recent) ==
  IF recent + 1 >= Threshold
  THEN [s EXCEPT !.reasserts = recent + 1, !.tripped = TRUE, !.error = TRUE, !.pending = NoDelivery]
  ELSE Request([s EXCEPT !.reasserts = recent + 1], Cell, FALSE)

\* _mount_observed
Observed ==
  /\ Receive("observed")
  /\ Shown(Head(inbox))
  /\ IF mounted # "attached" THEN UNCHANGED root /\ Later(session, <<>>)
     ELSE \E recent \in 0..session.reasserts :
       LET o == Head(inbox)
           kind == Classify(o, session)
           seen == [session EXCEPT !.disk = o.value, !.print = o.print]
           sensed == \/ kind = "foreign" /\ Senses
                     \/ kind = "unchanged" /\ Senses /\ session.senseError /\ o.value \notin {Absent, Invalid}
           judged == IF sensed THEN Sense(seen, o.value)
                     ELSE IF (kind = "rejected" /\ Senses) \/ (kind = "absent" /\ spec.authority = "file-strict")
                     THEN [seen EXCEPT !.senseError = TRUE]
                     ELSE IF kind = "absent" THEN [seen EXCEPT !.senseError = FALSE]
                     ELSE seen
           canonical == IF kind = "foreign" \/ Cell = NoValue THEN o.value ELSE Cell
           asked == IF spec.mode = "rw" /\ o.raw /\ kind \in {"foreign", "unchanged"} /\ ~judged.senseError
                    THEN Request(judged, canonical, TRUE) ELSE judged
       IN /\ Reasserts(session, kind) \/ recent = session.reasserts
          /\ root' = IF sensed THEN o.value ELSE root
          /\ Later(IF Reasserts(session, kind) THEN Reassert(asked, recent) ELSE asked, <<>>)
  /\ UNCHANGED <<notController, mounted, edits, closer>>

\* _mount_delivered.  An error keeps the delivery for a retry, unless there is a
\* newer one; a conflict is left to the poll that follows it.
TakenSilently(s) == [s EXCEPT !.inFlight = NoDelivery]
Taken(s) == [s EXCEPT !.inFlight = NoDelivery, !.initial = TRUE]
RetryNothing(s) == s
Retry(s) == [s EXCEPT !.pending = [s.inFlight EXCEPT !.expected = 0], !.backoff = TRUE]
Believe(s, a) == [s EXCEPT !.disk = a.value, !.print = a.print, !.error = s.tripped]
BelieveAll(s, a) == Believe(s, a)
BelieveWritten(s, a) == IF a.type = "written" THEN Believe(s, a) ELSE s
Acknowledged(s, a) ==
  LET kept == IF Has(s.pending) \/ s.tripped THEN s ELSE Retry(s)
  IN IF a.type = "error" THEN [Taken(kept) EXCEPT !.error = TRUE] ELSE BelieveWritten(Taken(s), a)
Delivered ==
  /\ \E type \in {"written", "error", "conflict"} : Receive(type)
  /\ IF mounted # "attached" \/ ~Has(session.inFlight) THEN Later(session, <<>>)
     ELSE LET s == Acknowledged(session, Head(inbox))
          IN IF Closing THEN FlushNow(s) ELSE Later(Dispatch(s), Delivering(s, Dispatch(s)))
  /\ UNCHANGED <<notShown, mounted, root, edits, closer>>

\* The user assigns the cell, or, where the mount only writes, the nodes above
\* it are computing again (NoValue) or have come to a value.
Edit ==
  /\ Accepting /\ edits < Len(Edits) /\ edits' = edits + 1
  /\ Begin
  /\ \E value \in Edits[edits + 1] \ {root} :
       /\ value = NoValue => mounted # "preparing" /\ ~Senses
       /\ root' = value
  /\ Later([session EXCEPT !.senseError = FALSE], <<>>)
  /\ UNCHANGED <<notShown, inbox, mounted, closer>>

\* _mount_tick, from the timer or from the broker.  Every turn ends with
\* _mount_after_turn: a tick is of interest only when something is pending.
Tick ==
  /\ Begin /\ mounted = "attached" /\ Has(session.pending)
  /\ active \/ (timer /\ ~session.cooling /\ ~session.backoff)
  /\ IF Closing THEN FlushNow(session)
     ELSE timer' = FALSE /\ UNCHANGED <<session, effects, work, active>>
  /\ UNCHANGED <<notShown, inbox, mounted, root, edits, closer>>

\* clear_error of the mount
ClearError ==
  /\ "clear" \in Calls /\ Accepting /\ Begin /\ mounted = "attached" /\ session.error
  /\ LET s == [session EXCEPT !.error = FALSE, !.tripped = FALSE, !.reasserts = 0, !.backoff = FALSE]
     IN Later(IF Actuates THEN Request(s, Cell, FALSE) ELSE s, <<>>)
  /\ UNCHANGED <<notShown, inbox, mounted, root, edits, closer>>

\* _clear_exception of a cell with a sense error; bound: as in Broker
ForcedPoll == [type |-> "poll", force |-> TRUE, delivery |-> NoDelivery]
ClearException ==
  /\ "clear" \in Calls /\ Accepting /\ Begin /\ mounted = "attached" /\ session.senseError
  /\ Len(inbox) < MaxInbox /\ \A i \in DOMAIN work : work[i] # ForcedPoll
  /\ Later(session, <<ForcedPoll>>)
  /\ UNCHANGED <<notShown, inbox, mounted, root, edits, closer>>

\* _mount_detach, for unmount() and, of all sessions, for close()
Detach ==
  /\ mounted' = IF mounted = "attached" THEN "detached" ELSE mounted
  /\ IF mounted = "attached"
     THEN /\ session' = [session EXCEPT !.pending = NoDelivery, !.inFlight = NoDelivery,
                                        !.initial = TRUE, !.senseError = FALSE]
          /\ active' = FALSE
          /\ work' = Append(work, [type |-> "cleanup", force |-> ~spec.persistent,
                                   delivery |-> [NoDelivery EXCEPT !.expected = session.print]])
     ELSE UNCHANGED <<session, active, work>>
  /\ UNCHANGED <<timer, root, edits, effects, inbox, notController, unseen>>
Unmount == /\ "unmount" \in Calls /\ Accepting /\ mounted = "attached"
           /\ Begin /\ Detach /\ UNCHANGED <<closer, timedOut>>

\* _after_turn: with the flag of close() set it does nothing.
AfterTurn ==
  /\ turn = "busy" /\ turn' = "idle" /\ Calm
  /\ IF Closing \/ mounted # "attached"
     THEN /\ IF Closing THEN UNCHANGED <<effects, work, active>> ELSE Submit(effects) /\ effects' = <<>>
          /\ timer' = (Closing /\ timer) /\ UNCHANGED session
     ELSE LET s == Actuate(session, Cell)
              t == Dispatch(s)
          IN /\ session' = t /\ timer' = Deadline(t)
             /\ Submit(effects \o Delivering(s, t)) /\ effects' = <<>>
  /\ UNCHANGED <<notShown, inbox, mounted, root, edits, closer>>

\* DELIVERY_INTERVAL after a dispatch, and retry_delay after an error
CoolDown == session.cooling /\ session' = [session EXCEPT !.cooling = FALSE]
BackedOff == session.backoff /\ session' = [session EXCEPT !.backoff = FALSE]
TimePasses ==
  /\ Calm /\ Quiet /\ (CoolDown \/ BackedOff)
  /\ UNCHANGED <<spec, fileState, service, inbox, mounted, timer, root, turn, effects, edits, closer, timedOut>>

-----------------------------------------------------------------------------
\* The service: the broker, and the worker with the operation at the head of work.

notService == <<spec, mounted, session, timer, root, turn, effects, edits, closer, timedOut, foreigns>>
Working(type, stage) == Quiet /\ work # <<>> /\ Head(work).type = type /\ at = stage
Go(stage) == at' = stage /\ UNCHANGED work
Finish == at' = "start" /\ work' = Tail(work)

\* _send: the controller refuses an observation once close() has begun, and an
\* acknowledgement after it.
Send(type, value, print, raw) ==
  inbox' = IF (type = "observed" /\ ~Accepting) \/ closer = "closed" THEN inbox
           ELSE Append(inbox, [type |-> type, value |-> value, print |-> print, raw |-> raw])
Fail(fault) == fault \in Faults /\ faults < MaxFaults /\ faults' = faults + 1

\* _broker; a poll that would find nothing new is not queued
Poll == [type |-> "poll", force |-> FALSE, delivery |-> NoDelivery]
Broker ==
  /\ Quiet /\ Calm /\ active /\ Len(inbox) < MaxInbox /\ (disk.print # baseline \/ young)
  /\ \A i \in DOMAIN work : work[i] # Poll
  /\ work' = Append(work, Poll)
  /\ UNCHANGED <<notService, fileState, at, baseline, active, faults, inbox>>

\* _poll_locked: read if the fingerprint is new or the write is not two seconds
\* old.  A conflict polls too.
MustRead == Head(work).force \/ at = "reread" \/ disk.print # baseline \/ young
PollStarts ==
  /\ Working("poll", "start") \/ Working("deliver", "reread")
  /\ \/ ~active /\ Finish /\ UNCHANGED baseline
     \/ active /\ ~MustRead /\ Finish /\ UNCHANGED baseline
     \/ active /\ MustRead /\ Go("read") /\ baseline' = disk.print
  /\ UNCHANGED <<notService, fileState, active, faults, inbox>>
\* _read: the bytes between two equal fingerprints.  ASSUMED: of the polls, one
\* in poll_interval, at least one reads the file within racy_window of a write.
Read ==
  /\ Quiet /\ at = "read"
  /\ Send("observed", disk.value, disk.print, disk.raw)
  /\ Finish /\ young' \in {young, FALSE}
  /\ UNCHANGED <<notService, disk, unseen, baseline, active, faults>>

\* deliver and _atomic_write, up to the comparison with the expected fingerprint.
\* Without a file there is no mode to copy (os.stat raises).
ExpectedBaseline == baseline
Expected == Head(work).delivery.expected
DeliverStarts ==
  /\ Working("deliver", "start")
  /\ \/ Fail("write") /\ Send("error", NoValue, 0, FALSE) /\ Finish
     \/ /\ UNCHANGED faults
        /\ \/ Expected # 0 /\ disk.print = 0 /\ Send("error", NoValue, 0, FALSE) /\ Finish
           \/ Expected # disk.print /\ (Expected = 0 \/ disk.print # 0)
                /\ Send("conflict", NoValue, 0, FALSE) /\ Go("reread")
           \/ Expected = disk.print /\ Go("replace") /\ UNCHANGED inbox
  /\ UNCHANGED <<notService, fileState, baseline, active>>
\* os.replace
Replace ==
  /\ Working("deliver", "replace") /\ Go("stamp")
  /\ unseen' = FALSE /\ young' = TRUE
  /\ disk' = [value |-> Head(work).delivery.value, raw |-> FALSE, print |-> NewPrint]
  /\ UNCHANGED <<notService, baseline, active, faults, inbox>>
\* the fingerprint of what was written
Stamp ==
  /\ Working("deliver", "stamp") /\ Finish
  /\ \/ Fail("stamp") /\ Send("error", NoValue, 0, FALSE) /\ UNCHANGED baseline
     \/ Send("written", Head(work).delivery.value, disk.print, FALSE)
          /\ baseline' = disk.print /\ UNCHANGED faults
  /\ UNCHANGED <<notService, fileState, active>>

\* unregister: cleanup
CleanupStarts ==
  /\ Working("cleanup", "start")
  /\ IF Head(work).force /\ disk.print # 0 /\ disk.print = Head(work).delivery.expected
     THEN Go("unlink") ELSE Finish
  /\ UNCHANGED <<notService, fileState, baseline, active, faults, inbox>>
Unlink ==
  /\ Working("cleanup", "unlink") /\ Finish
  /\ disk' = [value |-> Absent, raw |-> FALSE, print |-> 0]
  /\ unseen' = FALSE /\ young' = FALSE
  /\ UNCHANGED <<notService, baseline, active, faults, inbox>>

-----------------------------------------------------------------------------
\* Somebody else writes or deletes the file.
Foreign ==
  /\ Quiet /\ Calm /\ foreigns < Len(ForeignEdits) /\ foreigns' = foreigns + 1
  /\ \E c \in ForeignEdits[foreigns + 1] :
       /\ c.value = Absent => disk.value # Absent
       /\ disk' = [value |-> c.value, raw |-> c.raw, print |-> IF c.value = Absent THEN 0 ELSE NewPrint]
  /\ unseen' = (disk'.value # Absent) /\ young' = unseen'
  /\ UNCHANGED <<spec, service, inbox, context, closer, timedOut>>

\* close(): its own thread sets _closing, whatever turn or operation is under
\* way; bound: not before the cell is mounted
FlagClose ==
  /\ "close" \in Calls /\ closer = "open" /\ mounted # "preparing" /\ closer' = "flagged"
  /\ UNCHANGED <<spec, fileState, service, inbox, context, timedOut>>
\* begin_close: refuse further messages, then queue the last but a few
RefuseMessages ==
  /\ closer = "flagged" /\ closer' = "refusing"
  /\ inbox' = Append(inbox, [type |-> "begin_close", value |-> NoValue, print |-> 0, raw |-> FALSE])
  /\ UNCHANGED <<spec, fileState, service, context, timedOut>>
\* _begin_close and _mount_close_prepare
BeginClose ==
  /\ Receive("begin_close") /\ closer' = "flushing"
  /\ LET s == IF mounted = "attached" THEN Flushed(session) ELSE session
     IN /\ session' = s /\ timer' = Deadline(s)
        /\ work' = work \o Delivering(session, s)
  /\ active' = FALSE /\ effects' = <<>>
  /\ UNCHANGED <<notShown, mounted, root, edits>>
\* the future of _mount_close_wait, or its timeout; then _mount_close_finish
FlushOver == /\ closer = "flushing" /\ (mounted = "attached" => ~Busy(session))
             /\ Begin /\ Detach /\ closer' = "finishing" /\ UNCHANGED timedOut
FlushTimeout == /\ closer = "flushing" /\ mounted = "attached" /\ Busy(session)
                /\ Begin /\ Detach /\ closer' = "finishing" /\ timedOut' = TRUE
\* close() waits for the cleanup, if there is time left, and for _finish_close
CloseEnds ==
  /\ Quiet /\ Calm /\ closer = "finishing" /\ turn = "idle"
  /\ timedOut \/ work = <<>>
  /\ closer' = "closed"
  /\ UNCHANGED <<spec, fileState, service, inbox, context, timedOut>>

-----------------------------------------------------------------------------
Init ==
  /\ spec \in Specs /\ root \in Roots
  /\ \E c \in Contents :
       disk = [value |-> c.value, raw |-> c.raw, print |-> IF c.value = Absent THEN 0 ELSE 1]
  /\ unseen = FALSE /\ young = (disk.value # Absent) /\ baseline = disk.print
  /\ inbox = <<[type |-> "attach", value |-> disk.value, print |-> disk.print, raw |-> disk.raw]>>
  /\ work = <<>> /\ at = "start" /\ active = FALSE
  /\ mounted = "preparing"
  /\ session = [disk |-> NoValue, print |-> 0, synced |-> NoValue, pending |-> NoDelivery,
                inFlight |-> NoDelivery, tripped |-> FALSE, error |-> FALSE, senseError |-> FALSE,
                backoff |-> FALSE, cooling |-> FALSE, reasserts |-> 0, initial |-> FALSE]
  /\ timer = FALSE /\ turn = "idle" /\ effects = <<>>
  /\ closer = "open" /\ timedOut = FALSE
  /\ edits = 0 /\ foreigns = 0 /\ faults = 0

Handle == Attach \/ Observed \/ Delivered \/ BeginClose
Worker == \/ PollStarts \/ Read \/ DeliverStarts \/ Replace \/ Stamp \/ CleanupStarts \/ Unlink
Close == RefuseMessages \/ FlushOver \/ CloseEnds
Next == \/ Handle \/ AfterTurn \/ Tick \/ Worker \/ Close \/ Broker \/ TimePasses
        \/ Edit \/ ClearError \/ ClearException \/ Unmount \/ Foreign \/ FlagClose \/ FlushTimeout

Spec == Init /\ [][Next]_vars
\* The controller, the worker, the broker, the timers and a thread in close()
\* go on; nobody has to edit, to unmount, to clear, to close, or to give up.
\* Strong fairness: Quiet and Calm, which keep a thread from acting inside the
\* step of another one, are the model's, and no thread of the code waits for them.
Fairness == /\ SF_vars(Handle) /\ SF_vars(AfterTurn) /\ SF_vars(Tick)
            /\ SF_vars(Worker) /\ SF_vars(Close) /\ SF_vars(Broker)
            /\ SF_vars(TimePasses)
FairSpec == Spec /\ Fairness

-----------------------------------------------------------------------------
\* Nothing is under way, and the service has read the file as it is.
AtRest == /\ mounted = "attached" /\ active /\ ~Closing /\ turn = "idle"
          /\ work = <<>> /\ inbox = <<>> /\ baseline = disk.print /\ ~young
          /\ ~Has(session.pending) /\ ~Has(session.inFlight)

\* A sense error is one of the present file.  A mount that writes shows the cell
\* in the file, but not while the cell is being computed or the detector has
\* tripped; and a file that was deleted is not written again under "rw".
InSync ==
  IF session.senseError THEN disk.value \in {Absent, Invalid}
  ELSE \/ ~Actuates \/ root = NoValue \/ session.tripped
       \/ disk.value = root
       \/ disk.value = Absent /\ (spec.mode = "rw" \/ root = Null)

\* When sensing and writing have come to rest the file and the cell agree, and
\* the session has seen the file, whatever user and others did meanwhile
\* (_mount_observed, _mount_after_turn, _mount_delivered).
InSyncAtRest == AtRest => InSync /\ ~unseen

\* What somebody else wrote to the file is not overwritten or deleted before
\* the session has seen it (the expected fingerprint of _atomic_write and of
\* the cleanup in unregister).
NoUnseenLoss == [][Replace \/ Unlink => ~unseen]_vars

\* Once the edits have ended, the file and the cell agree for good, as far as
\* the mount is left in place.
Converges == <>[](mounted # "attached" \/ Closing \/ (InSync /\ ~unseen))

\* mount() comes back after the first write or its failure.
MountReturns == (mounted = "attached") ~> session.initial

\* close() comes back without its timeout: the flush of what was requested ends
\* (_mount_close_prepare, _mount_delivered, _mount_tick).  At any moment but one:
\* the turn in progress must not have effects.  They are dropped (context.py:262,
\* 344), and a delivery among them stays in flight for ever (runtime.py:369).
CloseReturns == closer = "flagged" /\ effects = <<>> ~> closer = "closed"
=============================================================================
