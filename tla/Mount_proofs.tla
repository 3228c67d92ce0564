------------------------------ MODULE Mount_proofs ------------------------------
(***************************************************************************)
(* Mount for every mount, every value and any number of edits: types, that *)
(* nothing is overwritten before the session has seen it, that no foreign  *)
(* edit goes unnoticed, and, where what comes is new, that the file and    *)
(* the cell agree at rest.                                                 *)
(***************************************************************************)
EXTENDS Mount, FiniteSetTheorems, TLAPS

-----------------------------------------------------------------------------
(* The invariant behind TypeOK. *)

Sessions == [disk: Values \cup {Absent, NoValue}, print: Prints, synced: Values \cup {NoValue},
             pending: Delivery, inFlight: Delivery, tripped: BOOLEAN, error: BOOLEAN,
             senseError: BOOLEAN, backoff: BOOLEAN, cooling: BOOLEAN,
             reasserts: 0..Threshold, initial: BOOLEAN]

\* The detector trips at the threshold; what is believed of the disk is a content.
SessionOK(s) == s \in Sessions /\ (~s.tripped => s.reasserts < Threshold)

FileOK(d) == /\ d \in [value: (Values \ {NoValue}) \cup {Absent}, raw: BOOLEAN, print: Prints]
             /\ d.value = Absent => ~d.raw

\* An observation is of a content, an acknowledgement of a write of what was written.
Informs(m) == m.type \in {"attach", "observed", "written"}
MessageOK(m) == /\ m \in Message
                /\ Informs(m) => m.value # NoValue
                /\ m.value = Absent => ~m.raw
InboxOK == \A i \in DOMAIN inbox : MessageOK(inbox[i])

\* A delivery has a value; nothing else carries one.
OperationOK(w) == /\ w \in Operation
                  /\ w.type = "deliver" => Has(w.delivery)
                  /\ w.type \in {"poll", "activate"} => w.delivery = NoDelivery
\* What the service is given; what a turn has for it, an activation first.
Served(q) == q \in Seq(Operation) /\ \A i \in DOMAIN q : OperationOK(q[i]) /\ q[i].type # "activate"
Waiting(q) == /\ q \in Seq(Operation) /\ \A i \in DOMAIN q : OperationOK(q[i])
              /\ \A i \in DOMAIN q : q[i].type = "activate" => i = 1 /\ q[1] = Activation

\* Effects wait for the end of their turn, or for the flush of close().
EffectsWait == /\ closer = "open" /\ (turn = "idle" \/ mounted # "attached") => effects = <<>>
               /\ mounted = "preparing" => closer = "open"
CloseAsked == \A i \in DOMAIN inbox : inbox[i].type = "begin_close" => closer # "open"

\* What a turn has for the service is about the delivery in flight, if there is one.
Matched == mounted = "attached" =>
             \A i \in DOMAIN effects : effects[i].delivery \in {NoDelivery, session.inFlight}

Stages(type) == CASE type = "poll" -> {"start", "read"}
                  [] type = "deliver" -> {"start", "replace", "stamp", "reread", "read"}
                  [] type = "cleanup" -> {"start", "unlink"}
                  [] OTHER -> {}
WorkerOK == at # "start" => work # <<>> /\ at \in Stages(Head(work).type)

Typed == /\ TypeOK /\ SessionOK(session) /\ FileOK(disk)
         /\ InboxOK /\ Served(work) /\ Waiting(effects) /\ EffectsWait /\ Matched /\ WorkerOK /\ CloseAsked

-----------------------------------------------------------------------------
(* Sequences. *)

\* Queues are joined end to end.
LEMMA ConcatSeq ==
  ASSUME NEW S, NEW q \in Seq(S), NEW p \in Seq(S)
  PROVE  /\ q \o p \in Seq(S) /\ DOMAIN (q \o p) = 1 .. Len(q) + Len(p)
         /\ \A i \in DOMAIN (q \o p) :
              \/ i \in DOMAIN q /\ (q \o p)[i] = q[i]
              \/ i - Len(q) \in DOMAIN p /\ (q \o p)[i] = p[i - Len(q)]
         /\ \A i \in DOMAIN q : i \in DOMAIN (q \o p) /\ (q \o p)[i] = q[i]
         /\ p = <<>> => q \o p = q
OBVIOUS

LEMMA TailSeq ==
  ASSUME NEW S, NEW q \in Seq(S), q # <<>>
  PROVE  /\ Tail(q) \in Seq(S) /\ DOMAIN Tail(q) = 1 .. Len(q) - 1
         /\ \A i \in DOMAIN Tail(q) : i + 1 \in DOMAIN q /\ Tail(q)[i] = q[i + 1]
         /\ \A i \in DOMAIN q : i # 1 => i - 1 \in DOMAIN Tail(q) /\ Tail(q)[i - 1] = q[i]
         /\ 1 \in DOMAIN q /\ Head(q) = q[1] /\ Head(q) \in S
OBVIOUS

LEMMA AppendSeq ==
  ASSUME NEW S, NEW q \in Seq(S), NEW e \in S
  PROVE  /\ Append(q, e) \in Seq(S) /\ DOMAIN Append(q, e) = 1 .. Len(q) + 1
         /\ \A i \in DOMAIN Append(q, e) : (i \in DOMAIN q /\ Append(q, e)[i] = q[i]) \/ Append(q, e)[i] = e
         /\ \A i \in DOMAIN q : i \in DOMAIN Append(q, e) /\ Append(q, e)[i] = q[i]
         /\ Len(q) + 1 \in DOMAIN Append(q, e) /\ Append(q, e)[Len(q) + 1] = e
         /\ q # <<>> => Head(Append(q, e)) = Head(q) /\ Append(q, e) # <<>>
OBVIOUS

LEMMA NoSeq ==
  ASSUME NEW S
  PROVE  <<>> \in Seq(S) /\ \A i \in DOMAIN <<>> : FALSE
OBVIOUS

LEMMA OneSeq ==
  ASSUME NEW S, NEW e \in S
  PROVE  <<e>> \in Seq(S) /\ DOMAIN <<e>> = {1} /\ <<e>>[1] = e /\ <<e>> # <<>> /\ Head(<<e>>) = e
OBVIOUS

-----------------------------------------------------------------------------
(* Fingerprints. *)

LEMMA ValuesFinite ==
  ASSUME NEW n \in Nat, NEW f
  PROVE  IsFiniteSet({f[i] : i \in 1 .. n})
<1> DEFINE T == {f[i] : i \in 1 .. n}
           g == [i \in 1 .. n |-> f[i]]
<1>1. IsFiniteSet(1 .. n)
  BY FS_Interval
<1>2. g \in Surjection(1 .. n, T)
  BY DEF Surjection
<1> QED BY <1>1, <1>2, FS_Surjection

LEMMA RememberedFinite ==
  ASSUME TypeOK
  PROVE  IsFiniteSet(Remembered)
<1>1. /\ work \in Seq(Operation) /\ Len(work) \in Nat /\ DOMAIN work = 1 .. Len(work)
      /\ inbox \in Seq(Message) /\ Len(inbox) \in Nat /\ DOMAIN inbox = 1 .. Len(inbox)
  BY DEF TypeOK
<1> DEFINE W == {work[i].delivery.expected : i \in DOMAIN work}
           B == {inbox[i].print : i \in DOMAIN inbox}
           N == {disk.print, baseline, session.print, session.inFlight.expected}
<1>2. IsFiniteSet(W)
  <2> DEFINE f == [i \in 1 .. Len(work) |-> work[i].delivery.expected]
  <2>1. W = {f[i] : i \in 1 .. Len(work)}
    BY <1>1
  <2> HIDE DEF f
  <2> QED BY <1>1, <2>1, ValuesFinite
<1>3. IsFiniteSet(B)
  <2> DEFINE f == [i \in 1 .. Len(inbox) |-> inbox[i].print]
  <2>1. B = {f[i] : i \in 1 .. Len(inbox)}
    BY <1>1
  <2> HIDE DEF f
  <2> QED BY <1>1, <2>1, ValuesFinite
<1>4. IsFiniteSet(N)
  <2>1. IsFiniteSet({disk.print})
    BY FS_Singleton
  <2>2. IsFiniteSet({disk.print} \cup {baseline})
    BY <2>1, FS_AddElement
  <2>3. IsFiniteSet(({disk.print} \cup {baseline}) \cup {session.print})
    BY <2>2, FS_AddElement
  <2>4. IsFiniteSet((({disk.print} \cup {baseline}) \cup {session.print}) \cup {session.inFlight.expected})
    BY <2>3, FS_AddElement
  <2>5. N = (({disk.print} \cup {baseline}) \cup {session.print}) \cup {session.inFlight.expected}
    OBVIOUS
  <2> QED BY <2>4, <2>5
<1>5. IsFiniteSet((N \cup W) \cup B)
  <2> HIDE DEF N, W, B
  <2> QED BY <1>2, <1>3, <1>4, FS_Union
<1> QED BY <1>5 DEF Remembered

\* A write gives the file a fingerprint that nobody remembers.
LEMMA NewPrintFresh ==
  ASSUME TypeOK
  PROVE  /\ NewPrint \in Nat \ {0} /\ NewPrint # disk.print /\ NewPrint # baseline
         /\ NewPrint # session.print /\ NewPrint # session.inFlight.expected
         /\ \A i \in DOMAIN work : NewPrint # work[i].delivery.expected
         /\ \A i \in DOMAIN inbox : NewPrint # inbox[i].print
<1> DEFINE c == Cardinality(Remembered)
<1>1. IsFiniteSet(Remembered) /\ c \in Nat
  BY RememberedFinite, FS_CardinalityType
<1>2. \E n \in 1 .. c + 1 : n \notin Remembered
  <2> SUFFICES ASSUME \A n \in 1 .. c + 1 : n \in Remembered PROVE FALSE
    OBVIOUS
  <2>1. Cardinality(1 .. c + 1) <= c
    <3>1. 1 .. c + 1 \in SUBSET Remembered
      OBVIOUS
    <3> QED BY <1>1, <3>1, FS_Subset
  <2>2. Cardinality(1 .. c + 1) = c + 1
    <3>1. 1 \in Int /\ c + 1 \in Int /\ ~(1 > c + 1) /\ (c + 1) - 1 + 1 = c + 1
      BY <1>1
    <3> HIDE DEF c
    <3> QED BY <3>1, FS_Interval
  <2> HIDE DEF c
  <2> QED BY <1>1, <2>1, <2>2
<1>3. NewPrint \in 1 .. c + 1 /\ NewPrint \notin Remembered
  BY <1>2 DEF NewPrint
<1>4. NewPrint \in Nat \ {0}
  <2> HIDE DEF c
  <2> QED BY <1>1, <1>3
<1>5. /\ {disk.print, baseline, session.print, session.inFlight.expected} \subseteq Remembered
      /\ \A i \in DOMAIN work : work[i].delivery.expected \in Remembered
      /\ \A i \in DOMAIN inbox : inbox[i].print \in Remembered
  BY DEF Remembered
<1> QED BY <1>3, <1>4, <1>5

-----------------------------------------------------------------------------
(* The session operations. *)

LEMMA NoDeliveryIs ==
  /\ NoDelivery \in Delivery /\ ~Has(NoDelivery) /\ NoDelivery.expected = 0
  /\ Null \in Values /\ Null # NoValue /\ Null # Absent /\ Null # Invalid /\ Absent # NoValue
BY DEF NoDelivery, Delivery, Has, Values, Prints, Null, NoValue, Absent, Invalid

\* What the session knows of the disk, and what fingerprint it expects there.
Keeps(s, t) == t.disk = s.disk /\ t.print = s.print /\ t.inFlight.expected \in {0, s.print, s.inFlight.expected}
SameDisk(s, t) == t.disk = s.disk /\ t.print = s.print /\ t.inFlight = s.inFlight

LEMMA SameKeeps ==
  ASSUME NEW s, NEW t, NEW u, SameDisk(s, t), Keeps(t, u)
  PROVE  Keeps(s, u)
BY DEF SameDisk, Keeps

LEMMA RequestFits ==
  ASSUME NEW s, NEW v \in Values \cup {NoValue}, NEW f \in BOOLEAN, SessionOK(s)
  PROVE  SessionOK(Request(s, v, f)) /\ SameDisk(s, Request(s, v, f))
<1>1. [value |-> v, force |-> f, expected |-> 0] \in Delivery
  BY DEF Delivery, Prints
<1>2. CASE s.tripped \/ v = NoValue
  BY <1>2 DEF Request, SameDisk
<1>3. CASE ~(s.tripped \/ v = NoValue)
  <2> DEFINE t == [s EXCEPT !.pending = [value |-> v, force |-> f, expected |-> 0],
                            !.synced = v, !.backoff = FALSE]
  <2>1. Request(s, v, f) = t
    BY <1>3 DEF Request
  <2>2. t \in Sessions /\ t.tripped = s.tripped /\ t.reasserts = s.reasserts /\ SameDisk(s, t)
    BY <1>1 DEF SessionOK, Sessions, SameDisk
  <2> HIDE DEF t
  <2> QED BY <2>1, <2>2 DEF SessionOK
<1> QED BY <1>2, <1>3

LEMMA DispatchFits ==
  ASSUME NEW s, SessionOK(s)
  PROVE  /\ SessionOK(Dispatch(s)) /\ Keeps(s, Dispatch(s))
         /\ Has(s.inFlight) => Dispatch(s).inFlight = s.inFlight
         /\ Has(Dispatch(s).inFlight) /\ ~Has(s.inFlight) => Dispatch(s).inFlight.expected = s.print
<1> DEFINE t == [s EXCEPT !.pending = NoDelivery, !.initial = TRUE]
           d == [s.pending EXCEPT !.expected = s.print]
           u == [s EXCEPT !.pending = NoDelivery, !.cooling = TRUE, !.inFlight = d]
<1>1. s \in Sessions /\ s.pending \in Delivery /\ s.print \in Prints /\ Keeps(s, s)
  BY DEF SessionOK, Sessions, Keeps
<1>2. d \in Delivery /\ d.expected = s.print /\ d.value = s.pending.value
  BY <1>1 DEF Delivery
<1> HIDE DEF d
<1>3. t \in Sessions /\ t.tripped = s.tripped /\ t.reasserts = s.reasserts /\ Keeps(s, t) /\ t.inFlight = s.inFlight
  BY <1>1, NoDeliveryIs DEF Sessions, Keeps
<1>4. u \in Sessions /\ u.tripped = s.tripped /\ u.reasserts = s.reasserts /\ Keeps(s, u) /\ u.inFlight = d
  BY <1>1, <1>2, NoDeliveryIs DEF Sessions, Keeps
<1>5. Dispatch(s) \in {s, t, u} /\ (Dispatch(s) = u => ~Has(s.inFlight) \/ u = s \/ u = t)
  BY DEF Dispatch, d
<1> HIDE DEF t, u
<1> QED BY <1>1, <1>2, <1>3, <1>4, <1>5 DEF SessionOK

LEMMA DeliveringFits ==
  ASSUME NEW s, NEW t, SessionOK(t)
  PROVE  /\ Delivering(s, t) \in Seq(Operation)
         /\ \A i \in DOMAIN Delivering(s, t) :
              /\ OperationOK(Delivering(s, t)[i]) /\ Delivering(s, t)[i].type = "deliver"
              /\ Delivering(s, t)[i].delivery = t.inFlight /\ ~Has(s.inFlight)
<1> DEFINE e == [type |-> "deliver", force |-> FALSE, delivery |-> t.inFlight]
<1>1. e \in Operation /\ e.type = "deliver" /\ e.delivery = t.inFlight
  BY DEF SessionOK, Sessions, Operation
<1>2. CASE Has(s.inFlight) \/ ~Has(t.inFlight)
  <2>1. Delivering(s, t) = <<>>
    BY <1>2 DEF Delivering
  <2> QED BY <2>1, NoSeq
<1>3. CASE ~Has(s.inFlight) /\ Has(t.inFlight)
  <2>1. Delivering(s, t) = <<e>>
    BY <1>3 DEF Delivering
  <2>2. OperationOK(e)
    BY <1>1, <1>3 DEF OperationOK
  <2> HIDE DEF e
  <2> QED BY <1>1, <1>3, <2>1, <2>2, OneSeq
<1> QED BY <1>2, <1>3

LEMMA ActuateFits ==
  ASSUME NEW s, NEW v \in Values \cup {NoValue}, SessionOK(s)
  PROVE  SessionOK(Actuate(s, v)) /\ SameDisk(s, Actuate(s, v))
<1> DEFINE t == Noted(s, v)
<1>1. t \in Sessions /\ t.tripped = s.tripped /\ t.reasserts = s.reasserts /\ SameDisk(s, t)
  BY DEF SessionOK, Sessions, SameDisk, Noted
<1>2. SameDisk(s, s) /\ FALSE \in BOOLEAN
  BY DEF SameDisk
<1>3. Actuate(s, v) \in {s, t, Request(t, v, FALSE)}
  BY DEF Actuate
<1> HIDE DEF t
<1>4. SessionOK(s) /\ SessionOK(t)
  BY <1>1 DEF SessionOK
<1>5. SessionOK(Request(t, v, FALSE)) /\ SameDisk(t, Request(t, v, FALSE))
  BY <1>2, <1>4, RequestFits
<1> QED BY <1>1, <1>2, <1>3, <1>4, <1>5 DEF SameDisk

LEMMA SenseFits ==
  ASSUME NEW s, NEW v \in Values \cup {NoValue}, SessionOK(s)
  PROVE  SessionOK(Sense(s, v)) /\ SameDisk(s, Sense(s, v)) /\ Sense(s, v).synced = v
<1>1. /\ Sense(s, v) \in Sessions /\ Sense(s, v).tripped = s.tripped /\ Sense(s, v).reasserts = s.reasserts
      /\ SameDisk(s, Sense(s, v)) /\ Sense(s, v).synced = v
  BY NoDeliveryIs DEF Sense, SessionOK, Sessions, SameDisk
<1> QED BY <1>1 DEF SessionOK

LEMMA ReassertFits ==
  ASSUME TypeOK, NEW s, NEW n \in 0 .. Threshold, SessionOK(s), n < Threshold
  PROVE  SessionOK(Reassert(s, n)) /\ SameDisk(s, Reassert(s, n))
<1> DEFINE t == [s EXCEPT !.reasserts = n + 1, !.tripped = TRUE, !.error = TRUE, !.pending = NoDelivery]
           u == [s EXCEPT !.reasserts = n + 1]
<1>1. Threshold \in Nat /\ n \in Nat /\ n + 1 \in 0 .. Threshold
  BY BoundsAssumption
<1>2. t \in Sessions /\ t.tripped /\ SameDisk(s, t)
  BY <1>1, NoDeliveryIs DEF SessionOK, Sessions, SameDisk
<1>3. u \in Sessions /\ u.reasserts = n + 1 /\ SameDisk(s, u)
  BY <1>1 DEF SessionOK, Sessions, SameDisk
<1>4. Cell \in Values \cup {NoValue} /\ FALSE \in BOOLEAN
  BY DEF Cell, TypeOK
<1>5. Reassert(s, n) = IF n + 1 >= Threshold THEN t ELSE Request(u, Cell, FALSE)
  BY DEF Reassert
<1> HIDE DEF t, u
<1>6. CASE n + 1 >= Threshold
  BY <1>2, <1>5, <1>6 DEF SessionOK
<1>7. CASE ~(n + 1 >= Threshold)
  <2>1. SessionOK(u)
    BY <1>1, <1>3, <1>7 DEF SessionOK
  <2>2. SessionOK(Request(u, Cell, FALSE)) /\ SameDisk(u, Request(u, Cell, FALSE))
    BY <1>4, <2>1, RequestFits
  <2> QED BY <1>3, <1>5, <1>7, <2>2 DEF SameDisk
<1> QED BY <1>6, <1>7

\* An acknowledgement ends the delivery in flight.
LEMMA AcknowledgedFits ==
  ASSUME NEW s, SessionOK(s), NEW a, MessageOK(a)
  PROVE  /\ SessionOK(Acknowledged(s, a)) /\ Acknowledged(s, a).inFlight = NoDelivery
         /\ IF a.type = "written" THEN Acknowledged(s, a).disk = a.value /\ Acknowledged(s, a).print = a.print
            ELSE Acknowledged(s, a).disk = s.disk /\ Acknowledged(s, a).print = s.print
<1> DEFINE kept == IF Has(s.pending) \/ s.tripped THEN s ELSE Retry(s)
           d == [s.inFlight EXCEPT !.expected = 0]
<1>1. d \in Delivery
  BY DEF SessionOK, Sessions, Delivery, Prints
<1>2. SessionOK(kept) /\ kept.disk = s.disk /\ kept.print = s.print
  <2> DEFINE r == [s EXCEPT !.pending = d, !.backoff = TRUE]
  <2> HIDE DEF d
  <2>1. r \in Sessions /\ r.tripped = s.tripped /\ r.reasserts = s.reasserts /\ r.disk = s.disk /\ r.print = s.print
    BY <1>1 DEF SessionOK, Sessions
  <2>2. kept \in {s, r}
    BY DEF Retry, d
  <2> HIDE DEF r, kept
  <2> QED BY <2>1, <2>2 DEF SessionOK
<1> HIDE DEF kept
<1>3. ASSUME NEW u, SessionOK(u)
      PROVE  /\ SessionOK(Taken(u)) /\ Taken(u).inFlight = NoDelivery /\ Taken(u).disk = u.disk
             /\ Taken(u).print = u.print
  <2>1. /\ Taken(u) \in Sessions /\ Taken(u).tripped = u.tripped /\ Taken(u).reasserts = u.reasserts
        /\ Taken(u).inFlight = NoDelivery /\ Taken(u).disk = u.disk /\ Taken(u).print = u.print
    BY <1>3, NoDeliveryIs DEF Taken, SessionOK, Sessions
  <2> QED BY <1>3, <2>1 DEF SessionOK
<1>4. CASE a.type = "error"
  <2> DEFINE t == [Taken(kept) EXCEPT !.error = TRUE]
  <2>1. Acknowledged(s, a) = t
    BY <1>4 DEF Acknowledged, kept
  <2>2. SessionOK(Taken(kept)) /\ Taken(kept).inFlight = NoDelivery /\ Taken(kept).disk = s.disk
        /\ Taken(kept).print = s.print
    BY <1>2, <1>3
  <2>3. SessionOK(t) /\ t.inFlight = NoDelivery /\ t.disk = s.disk /\ t.print = s.print
    <3> DEFINE k == Taken(kept)
    <3>1. k \in Sessions /\ (~k.tripped => k.reasserts < Threshold)
      BY <2>2 DEF SessionOK
    <3> HIDE DEF k
    <3>2. /\ [k EXCEPT !.error = TRUE] \in Sessions /\ [k EXCEPT !.error = TRUE].tripped = k.tripped
          /\ [k EXCEPT !.error = TRUE].reasserts = k.reasserts /\ [k EXCEPT !.error = TRUE].inFlight = k.inFlight
          /\ [k EXCEPT !.error = TRUE].disk = k.disk /\ [k EXCEPT !.error = TRUE].print = k.print
      BY <3>1 DEF Sessions
    <3> QED BY <2>2, <3>1, <3>2 DEF SessionOK, k
  <2> HIDE DEF t
  <2> QED BY <1>4, <2>1, <2>3
<1>5. CASE a.type # "error"
  <2>1. Acknowledged(s, a) = BelieveWritten(Taken(s), a)
    BY <1>5 DEF Acknowledged
  <2> DEFINE k == Taken(s)
             b == [k EXCEPT !.disk = a.value, !.print = a.print, !.error = k.tripped]
  <2>2. SessionOK(k) /\ k.inFlight = NoDelivery /\ k.disk = s.disk /\ k.print = s.print
    BY <1>3
  <2>3. BelieveWritten(Taken(s), a) = IF a.type = "written" THEN b ELSE k
    BY DEF BelieveWritten, Believe
  <2> HIDE DEF k
  <2>4. /\ SessionOK(b) /\ b.inFlight = k.inFlight /\ b.disk = a.value /\ b.print = a.print
    <3>1. a.value \in Values \cup {Absent, NoValue} /\ a.print \in Prints
      BY DEF MessageOK, Message
    <3>2. /\ b \in Sessions /\ b.tripped = k.tripped /\ b.reasserts = k.reasserts
          /\ b.inFlight = k.inFlight /\ b.disk = a.value /\ b.print = a.print
      BY <2>2, <3>1 DEF SessionOK, Sessions
    <3> HIDE DEF b
    <3> QED BY <2>2, <3>2 DEF SessionOK
  <2> HIDE DEF b
  <2> QED BY <2>1, <2>2, <2>3, <2>4
<1> QED BY <1>4, <1>5

-----------------------------------------------------------------------------
(* What a turn does to the service. *)

LEMMA ActivationIs ==
  Activation \in Operation /\ OperationOK(Activation) /\ Activation.type = "activate"
BY NoDeliveryIs DEF Activation, Operation, OperationOK

LEMMA WaitingJoined ==
  ASSUME NEW p, Waiting(p), NEW q, Served(q)
  PROVE  /\ Waiting(p \o q)
         /\ \A i \in DOMAIN (p \o q) : \/ \E j \in DOMAIN p : (p \o q)[i] = p[j]
                                       \/ \E j \in DOMAIN q : (p \o q)[i] = q[j]
<1>1. p \in Seq(Operation) /\ q \in Seq(Operation)
  BY DEF Waiting, Served
<1> DEFINE r == p \o q
<1>2. /\ r \in Seq(Operation)
      /\ \A i \in DOMAIN r : \/ i \in DOMAIN p /\ r[i] = p[i]
                             \/ i - Len(p) \in DOMAIN q /\ r[i] = q[i - Len(p)]
      /\ \A i \in DOMAIN p : i \in DOMAIN r /\ r[i] = p[i]
  BY <1>1, ConcatSeq
<1> HIDE DEF r
<1>3. \A i \in DOMAIN r : OperationOK(r[i])
  BY <1>2 DEF Waiting, Served
<1>4. \A i \in DOMAIN r : r[i].type = "activate" => i = 1 /\ r[1] = Activation
  BY <1>2 DEF Waiting, Served
<1>5. \A i \in DOMAIN r : (\E j \in DOMAIN p : r[i] = p[j]) \/ (\E j \in DOMAIN q : r[i] = q[j])
  BY <1>2
<1> QED BY <1>2, <1>3, <1>4, <1>5 DEF Waiting, r

\* The effects of a turn join the queue of the service, but for the activation.
LEMMA SubmitFits ==
  ASSUME active \in BOOLEAN, NEW ops, Waiting(ops), Submit(ops)
  PROVE  /\ active' \in BOOLEAN
         /\ \E q : /\ Served(q) /\ work' = work \o q
                   /\ \A i \in DOMAIN q : \E j \in DOMAIN ops : q[i] = ops[j]
<1> DEFINE q == IF Activates(ops) THEN Tail(ops) ELSE ops
<1>1. active' \in BOOLEAN /\ work' = work \o q
  BY DEF Submit, Activates
<1>2. ops \in Seq(Operation)
  BY DEF Waiting
<1>3. /\ Served(q)
      /\ \A i \in DOMAIN q : \E j \in DOMAIN ops : q[i] = ops[j]
  <2>1. CASE Activates(ops)
    <3>1. /\ Tail(ops) \in Seq(Operation)
          /\ \A i \in DOMAIN Tail(ops) : i + 1 \in DOMAIN ops /\ Tail(ops)[i] = ops[i + 1] /\ i + 1 # 1
      <4>1. ops # <<>>
        BY <2>1 DEF Activates
      <4>2. /\ Tail(ops) \in Seq(Operation) /\ DOMAIN Tail(ops) = 1 .. Len(ops) - 1 /\ Len(ops) \in Nat
            /\ \A i \in DOMAIN Tail(ops) : i + 1 \in DOMAIN ops /\ Tail(ops)[i] = ops[i + 1]
        BY <1>2, <4>1, TailSeq
      <4> QED BY <4>2
    <3>2. q = Tail(ops)
      BY <2>1
    <3> HIDE DEF q
    <3> QED BY <3>1, <3>2 DEF Served, Waiting
  <2>2. CASE ~Activates(ops)
    <3>1. q = ops
      BY <2>2
    <3> HIDE DEF q
    <3>2. \A i \in DOMAIN ops : ops[i].type # "activate"
      <4> SUFFICES ASSUME NEW i \in DOMAIN ops, ops[i].type = "activate" PROVE FALSE
        OBVIOUS
      <4>1. 1 \in DOMAIN ops /\ ops[1] = Activation
        BY DEF Waiting
      <4>2. ops # <<>> /\ Head(ops) = ops[1]
        BY <1>2, <4>1
      <4> QED BY <2>2, <4>1, <4>2 DEF Activates
    <3> QED BY <3>1, <3>2 DEF Served, Waiting
  <2> QED BY <2>1, <2>2
<1> HIDE DEF q
<1> QED BY <1>1, <1>3

LEMMA ServedJoined ==
  ASSUME NEW p, Served(p), NEW q, Served(q)
  PROVE  /\ Served(p \o q)
         /\ p # <<>> => (p \o q) # <<>> /\ Head(p \o q) = Head(p)
         /\ \A i \in DOMAIN (p \o q) : \/ \E j \in DOMAIN p : (p \o q)[i] = p[j]
                                       \/ \E j \in DOMAIN q : (p \o q)[i] = q[j]
<1>1. p \in Seq(Operation) /\ q \in Seq(Operation)
  BY DEF Served
<1> DEFINE r == p \o q
<1>2. /\ r \in Seq(Operation)
      /\ \A i \in DOMAIN r : \/ i \in DOMAIN p /\ r[i] = p[i]
                             \/ i - Len(p) \in DOMAIN q /\ r[i] = q[i - Len(p)]
      /\ \A i \in DOMAIN p : i \in DOMAIN r /\ r[i] = p[i]
  BY <1>1, ConcatSeq
<1>3. p # <<>> => r # <<>> /\ Head(r) = Head(p)
  <2> HAVE p # <<>>
  <2>1. 1 \in DOMAIN p /\ Head(p) = p[1]
    BY <1>1, TailSeq
  <2>2. r # <<>> /\ r[1] = p[1]
    BY <1>2, <2>1, NoSeq
  <2> HIDE DEF r
  <2>3. Head(r) = r[1]
    BY <1>2, <2>2, TailSeq
  <2> QED BY <2>1, <2>2, <2>3
<1> HIDE DEF r
<1>4. \A i \in DOMAIN r : OperationOK(r[i]) /\ r[i].type # "activate"
  BY <1>2 DEF Served
<1>5. \A i \in DOMAIN r : (\E j \in DOMAIN p : r[i] = p[j]) \/ (\E j \in DOMAIN q : r[i] = q[j])
  BY <1>2
<1> QED BY <1>2, <1>3, <1>4, <1>5 DEF Served, r

-----------------------------------------------------------------------------
(* Types: the turns of the controller. *)

\* What the session learns of the disk comes from the message of the turn.
Reads == inbox # <<>> /\ inbox' = Tail(inbox)
Learns ==
  /\ unseen' => unseen
  /\ \/ inbox' = inbox /\ session'.print = session.print
     \/ /\ Reads
        /\ session'.print = session.print \/ (Informs(Head(inbox)) /\ session'.print = Head(inbox).print)
        /\ Head(inbox).type \in {"attach", "observed"} => (unseen' => Head(inbox).print # disk.print)
  /\ session'.inFlight.expected \in {0, session.print, session.inFlight.expected, session'.print}
Expecting(q) == \A i \in DOMAIN q :
  q[i].delivery.expected \in {0, session.print, session.inFlight.expected, session'.inFlight.expected}

\* What a turn leaves: a session, the rest of the inbox, and more work for the service.
Controls ==
  /\ UNCHANGED notController /\ unseen' \in BOOLEAN /\ timedOut' \in BOOLEAN
  /\ SessionOK(session') /\ (session'.disk # NoValue \/ mounted' = "preparing")
  /\ mounted' \in {"preparing", "attached", "detached"} /\ root' \in Values \cup {NoValue}
  /\ Learns
  /\ timer' \in BOOLEAN /\ turn' \in {"idle", "busy"} /\ active' \in BOOLEAN
  /\ closer' \in {closer, "flushing", "finishing"}
  /\ edits' \in 0 .. Len(Edits)
  /\ Waiting(effects') /\ EffectsWait' /\ Matched'
  /\ \E q : Served(q) /\ work' = work \o q /\ Expecting(q)

LEMMA Empties ==
  Served(<<>>) /\ Waiting(<<>>)
BY NoSeq DEF Served, Waiting

LEMMA TailInbox ==
  ASSUME Typed, Learns, closer # "open" => closer' # "open"
  PROVE  inbox' \in Seq(Message) /\ InboxOK' /\ CloseAsked'
<1>1. inbox \in Seq(Message) /\ InboxOK
  BY DEF Typed, TypeOK
<1>2. CASE inbox' = inbox
  BY <1>1, <1>2 DEF InboxOK, CloseAsked, Typed
<1>3. CASE Reads
  <2> DEFINE r == Tail(inbox)
  <2>1. r \in Seq(Message) /\ \A i \in DOMAIN r : i + 1 \in DOMAIN inbox /\ r[i] = inbox[i + 1]
    BY <1>1, <1>3, TailSeq DEF Reads
  <2>2. inbox' = r
    BY <1>3 DEF Reads
  <2> HIDE DEF r
  <2>3. \A i \in DOMAIN r : MessageOK(r[i])
    BY <1>1, <2>1 DEF InboxOK
  <2>4. \A i \in DOMAIN r : r[i].type = "begin_close" => closer # "open"
    BY <2>1 DEF CloseAsked, Typed
  <2>5. InboxOK'
    BY <2>2, <2>3 DEF InboxOK
  <2>6. CloseAsked'
    BY <2>2, <2>4 DEF CloseAsked
  <2> QED BY <2>1, <2>2, <2>5, <2>6
<1> QED BY <1>2, <1>3 DEF Learns

LEMMA ControlsTyped ==
  ASSUME Typed, Controls
  PROVE  Typed'
<1>1. PICK q : Served(q) /\ work' = work \o q
  BY DEF Controls
<1>2. Served(work') /\ (work # <<>> => work' # <<>> /\ Head(work') = Head(work))
  BY <1>1, ServedJoined DEF Typed
<1>3. WorkerOK'
  BY <1>2 DEF WorkerOK, Typed, Controls, notController
<1>4. inbox' \in Seq(Message) /\ InboxOK' /\ CloseAsked'
  BY TailInbox DEF Controls
<1>5. FileOK(disk') /\ spec' \in Specs /\ disk' = disk /\ at' = at /\ young' = young /\ foreigns' = foreigns
      /\ baseline' = baseline /\ faults' = faults
  BY DEF Typed, TypeOK, Controls, notController
<1>6. work' \in Seq(Operation) /\ effects' \in Seq(Operation) /\ session' \in Sessions
  BY <1>2 DEF Served, Controls, Waiting, SessionOK
<1>7. TypeOK'
  BY <1>4, <1>5, <1>6 DEF TypeOK, Typed, Controls, Sessions
<1> QED BY <1>2, <1>3, <1>4, <1>5, <1>7 DEF Typed, Controls

\* Effects are kept for the end of the turn.
LEMMA LaterFits ==
  ASSUME Typed, NEW s, NEW q, Served(q), Later(s, q)
  PROVE  /\ session' = s /\ Waiting(effects') /\ effects' = effects \o q
         /\ \A i \in DOMAIN effects' : \/ \E j \in DOMAIN effects : effects'[i] = effects[j]
                                       \/ \E j \in DOMAIN q : effects'[i] = q[j]
         /\ active' \in BOOLEAN /\ timer' \in BOOLEAN
         /\ \E r : Served(r) /\ work' = work \o r /\ Expecting(r)
<1> DEFINE e == effects \o q
<1>1. /\ Waiting(e)
      /\ \A i \in DOMAIN e : \/ \E j \in DOMAIN effects : e[i] = effects[j]
                             \/ \E j \in DOMAIN q : e[i] = q[j]
  <2>1. Waiting(effects)
    BY DEF Typed
  <2> QED BY <2>1, WaitingJoined
<1>3. effects' = e
  BY DEF Later
<1> HIDE DEF e
<1>2. work' = work \o <<>> /\ Expecting(<<>>)
  <2>1. work \in Seq(Operation) /\ work' = work
    BY DEF Typed, Served, Later
  <2>2. Expecting(<<>>)
    BY NoSeq DEF Expecting
  <2> QED BY <2>1, <2>2
<1>4. session' = s /\ active' \in BOOLEAN /\ timer' \in BOOLEAN
  BY DEF Later, Typed, TypeOK
<1>5. \E r : Served(r) /\ work' = work \o r /\ Expecting(r)
  BY <1>2, Empties
<1> QED BY <1>1, <1>3, <1>4, <1>5 DEF e

LEMMA DeadlineBoolean ==
  ASSUME NEW s
  PROVE  Deadline(s) \in BOOLEAN
BY DEF Deadline, Has, Closing

LEMMA FlushedFits ==
  ASSUME NEW s, SessionOK(s)
  PROVE  SessionOK(Flushed(s)) /\ Keeps(s, Flushed(s))
BY DispatchFits DEF Flushed, Keeps

LEMMA ServedDelivering ==
  ASSUME NEW s, NEW t, SessionOK(t)
  PROVE  Served(Delivering(s, t))
<1> DEFINE d == Delivering(s, t)
<1>1. d \in Seq(Operation) /\ \A i \in DOMAIN d : OperationOK(d[i]) /\ d[i].type = "deliver"
  BY DeliveringFits
<1> HIDE DEF d
<1>2. Served(d)
  BY <1>1 DEF Served
<1> QED BY <1>2 DEF d

LEMMA FlushNowFits ==
  ASSUME Typed, NEW s, SessionOK(s), FlushNow(s)
  PROVE  /\ session' = Flushed(s) /\ SessionOK(session') /\ Keeps(s, session') /\ effects' = <<>>
         /\ timer' \in BOOLEAN /\ active' \in BOOLEAN
         /\ \E q : /\ Served(q) /\ work' = work \o q
                   /\ \A i \in DOMAIN q : \/ \E j \in DOMAIN effects : q[i] = effects[j]
                                          \/ q[i].delivery = session'.inFlight
<1> DEFINE d == Delivering(s, Flushed(s))
           ops == effects \o d
<1>1. SessionOK(Flushed(s)) /\ Keeps(s, Flushed(s))
  BY FlushedFits
<1>2. /\ session' = Flushed(s) /\ Submit(ops) /\ effects' = <<>>
      /\ timer' = Deadline(Flushed(s))
  BY DEF FlushNow
<1>3. Served(d) /\ \A i \in DOMAIN d : d[i].delivery = Flushed(s).inFlight
  BY <1>1, ServedDelivering, DeliveringFits
<1>4. timer' \in BOOLEAN
  BY <1>2, DeadlineBoolean
<1> HIDE DEF d
<1>5. /\ Waiting(ops)
      /\ \A i \in DOMAIN ops : (\E j \in DOMAIN effects : ops[i] = effects[j]) \/ \E j \in DOMAIN d : ops[i] = d[j]
  <2>1. Waiting(effects) /\ Served(d)
    BY <1>3 DEF Typed
  <2> QED BY <2>1, WaitingJoined
<1> HIDE DEF ops
<1>6. /\ active' \in BOOLEAN
      /\ \E q : Served(q) /\ work' = work \o q /\ \A i \in DOMAIN q : \E j \in DOMAIN ops : q[i] = ops[j]
  BY <1>2, <1>5, SubmitFits DEF Typed, TypeOK
<1>7. PICK q : Served(q) /\ work' = work \o q /\ \A i \in DOMAIN q : \E j \in DOMAIN ops : q[i] = ops[j]
  BY <1>6
<1>8. \A i \in DOMAIN q : (\E j \in DOMAIN effects : q[i] = effects[j]) \/ q[i].delivery = session'.inFlight
  BY <1>2, <1>3, <1>5, <1>7
<1> QED BY <1>1, <1>2, <1>4, <1>6, <1>7, <1>8

\* A message at the head of the inbox.
LEMMA ReceiveFits ==
  ASSUME Typed, NEW type, Receive(type)
  PROVE  /\ Reads /\ turn = "idle" /\ turn' = "busy"
         /\ Head(inbox).type = type /\ MessageOK(Head(inbox)) /\ Head(inbox).print \in Prints
<1>1. inbox \in Seq(Message) /\ inbox # <<>> /\ inbox' = Tail(inbox) /\ turn = "idle" /\ turn' = "busy"
      /\ Head(inbox).type = type
  BY DEF Receive, Begin, Typed, TypeOK
<1>2. 1 \in DOMAIN inbox /\ Head(inbox) = inbox[1]
  BY <1>1, TailSeq
<1>3. MessageOK(Head(inbox))
  BY <1>2 DEF Typed, InboxOK
<1>4. Head(inbox).print \in Prints
  BY <1>3 DEF MessageOK, Message
<1> QED BY <1>1, <1>3, <1>4 DEF Reads

LEMMA InitialFits ==
  ASSUME NEW o, o.value # NoValue
  PROVE  InitialWithValue(o) = "sense" \/ InitialWithout(o) = "sense" => o.value # Absent
<1>1. InitialWithValue(o) = "sense" => o.value # Absent
  BY DEF InitialWithValue
<1>2. InitialWithout(o) = "sense" => o.value # Absent
  BY DEF InitialWithout, Absent, Invalid
<1> QED BY <1>1, <1>2

LEMMA AttachControls ==
  Typed /\ Attach => Controls
<1> SUFFICES ASSUME Typed, Attach PROVE Controls
  OBVIOUS
<1> DEFINE o == Head(inbox)
           action == IF root = NoValue THEN InitialWithout(o) ELSE InitialWithValue(o)
           found == [session EXCEPT !.disk = o.value, !.print = o.print, !.synced = root]
           acted == CASE action = "sense" -> Sense(found, o.value)
                      [] action = "sense null" -> [found EXCEPT !.synced = Null]
                      [] action = "sense null, error" -> [found EXCEPT !.synced = Null, !.senseError = TRUE]
                      [] action = "error" -> [found EXCEPT !.senseError = TRUE]
                      [] action = "write" -> Request(found, root, FALSE)
                      [] action = "nothing" -> found
           asked == IF spec.mode = "rw" /\ o.raw /\ action \in {"sense", "nothing"}
                    THEN Request(acted, acted.synced, TRUE) ELSE acted
           made == [asked EXCEPT !.initial = ~Has(asked.pending)]
<1>1. /\ Reads /\ turn = "idle" /\ turn' = "busy" /\ o.type = "attach" /\ MessageOK(o) /\ o.print \in Prints
      /\ o.value # NoValue /\ o.value \in Values \cup {Absent}
  <2>1. Receive("attach")
    BY DEF Attach
  <2>2. Reads /\ turn = "idle" /\ turn' = "busy" /\ o.type = "attach" /\ MessageOK(o) /\ o.print \in Prints
    BY <2>1, ReceiveFits
  <2> HIDE DEF o
  <2> QED BY <2>2 DEF MessageOK, Message, Informs
<1>2. /\ mounted = "preparing" /\ mounted' = "attached" /\ Later(made, <<Activation>>) /\ Shown(o)
      /\ root' = CASE action = "sense" -> o.value
                   [] action \in {"sense null", "sense null, error"} -> Null
                   [] OTHER -> root
      /\ UNCHANGED <<notController, edits, closer>>
  BY DEF Attach
<1>3. action = "sense" => o.value \in Values
  BY <1>1, InitialFits
<1>4. action \in {"sense", "sense null", "sense null, error", "error", "write", "nothing"}
  BY <1>1 DEF InitialWithValue, InitialWithout
<1> HIDE DEF action
<1>5. SessionOK(session) /\ root \in Values \cup {NoValue}
  BY DEF Typed, TypeOK
<1>6. SessionOK(found) /\ found.disk = o.value /\ found.print = o.print /\ found.inFlight = session.inFlight
  <2> HIDE DEF o
  <2>1. /\ found \in Sessions /\ found.tripped = session.tripped /\ found.reasserts = session.reasserts
        /\ found.disk = o.value /\ found.print = o.print /\ found.inFlight = session.inFlight
    BY <1>1, <1>5 DEF SessionOK, Sessions
  <2> QED BY <1>5, <2>1 DEF SessionOK
<1>7. SameDisk(found, found)
  BY DEF SameDisk
<1> HIDE DEF found
<1>8. SessionOK(acted) /\ SameDisk(found, acted)
  <2>1. CASE action = "sense"
    BY <1>3, <1>6, <2>1, SenseFits
  <2>2. CASE action = "write"
    BY <1>5, <1>6, <2>2, RequestFits
  <2>3. CASE action = "nothing"
    BY <1>6, <1>7, <2>3
  <2>4. CASE action \in {"sense null", "sense null, error", "error"}
    <3>1. /\ acted \in Sessions /\ acted.tripped = found.tripped /\ acted.reasserts = found.reasserts
          /\ SameDisk(found, acted)
      BY <1>6, <2>4, NoDeliveryIs DEF SessionOK, Sessions, SameDisk
    <3> HIDE DEF acted
    <3> QED BY <1>6, <3>1 DEF SessionOK
  <2> QED BY <1>4, <2>1, <2>2, <2>3, <2>4
<1>9. acted.synced \in Values \cup {NoValue}
  <2> HIDE DEF acted
  <2> QED BY <1>8 DEF SessionOK, Sessions
<1> HIDE DEF acted
<1>10. SessionOK(asked) /\ SameDisk(found, asked)
  <2>1. SessionOK(Request(acted, acted.synced, TRUE)) /\ SameDisk(acted, Request(acted, acted.synced, TRUE))
    BY <1>8, <1>9, RequestFits
  <2> QED BY <1>8, <2>1 DEF SameDisk
<1> HIDE DEF asked
<1>11. SessionOK(made) /\ SameDisk(found, made)
  <2>1. Has(asked.pending) \in BOOLEAN
    BY DEF Has
  <2>2. /\ made \in Sessions /\ made.tripped = asked.tripped /\ made.reasserts = asked.reasserts
        /\ SameDisk(found, made)
    BY <1>10, <2>1 DEF SessionOK, Sessions, SameDisk
  <2> HIDE DEF made
  <2> QED BY <1>10, <2>2 DEF SessionOK
<1> HIDE DEF made
<1>12. /\ effects' = <<Activation>> /\ session' = made /\ work' = work \o <<>> /\ active' \in BOOLEAN /\ timer' \in BOOLEAN
  <2>1. effects = <<>> /\ work \in Seq(Operation)
    BY <1>1, <1>2 DEF Typed, EffectsWait, Served
  <2>2. <<Activation>> \in Seq(Operation)
    BY ActivationIs, OneSeq
  <2>3. session' = made /\ effects' = effects \o <<Activation>> /\ UNCHANGED <<work, active, timer>>
    BY <1>2 DEF Later
  <2>4. effects' = <<Activation>>
    BY <2>1, <2>2, <2>3
  <2>5. work \o <<>> = work
    BY <2>1
  <2>6. active' \in BOOLEAN /\ timer' \in BOOLEAN
    BY <2>3 DEF Typed, TypeOK
  <2> QED BY <2>3, <2>4, <2>5, <2>6
<1>13. Waiting(effects') /\ \A i \in DOMAIN effects' : effects'[i].delivery = NoDelivery
  <2>1. Activation.delivery = NoDelivery
    BY DEF Activation
  <2>2. /\ <<Activation>> \in Seq(Operation) /\ DOMAIN <<Activation>> = {1} /\ <<Activation>>[1] = Activation
    BY ActivationIs, OneSeq
  <2> QED BY <1>12, <2>1, <2>2, ActivationIs DEF Waiting
<1>14. root' \in Values \cup {NoValue}
  BY <1>2, <1>3, <1>5, NoDeliveryIs
<1>15. /\ session'.disk # NoValue /\ Learns /\ unseen' \in BOOLEAN /\ timedOut' \in BOOLEAN
  <2>1. session'.disk = o.value /\ session'.print = o.print /\ session'.inFlight = session.inFlight
    BY <1>6, <1>11, <1>12 DEF SameDisk
  <2>2. (unseen' => unseen /\ o.print # disk.print) /\ unseen' \in BOOLEAN /\ timedOut' \in BOOLEAN
    BY <1>2 DEF Shown, Typed, TypeOK
  <2> QED BY <1>1, <2>1, <2>2 DEF Learns, Informs
<1>16. Served(<<>>) /\ Expecting(<<>>)
  BY Empties, NoSeq DEF Expecting
<1>17. EffectsWait' /\ Matched'
  BY <1>1, <1>2, <1>13 DEF EffectsWait, Matched
<1>18. closer' = closer /\ edits' = edits /\ UNCHANGED notController
  BY <1>2
<1>19. \E q : Served(q) /\ work' = work \o q /\ Expecting(q)
  BY <1>12, <1>16
<1> QED BY <1>1, <1>2, <1>11, <1>12, <1>13, <1>14, <1>15, <1>17, <1>18, <1>19 DEF Controls, Typed, TypeOK

\* A turn that leaves its effects to its end.
Keeping(s, q) ==
  /\ Later(s, q) /\ SessionOK(s) /\ Served(q)
  /\ turn' = "busy" /\ UNCHANGED <<notController, mounted, closer>>
  /\ root' \in Values \cup {NoValue} /\ edits' \in 0 .. Len(Edits)
  /\ unseen' \in BOOLEAN /\ timedOut' \in BOOLEAN
  /\ s.disk # NoValue \/ mounted = "preparing"
  /\ Learns
  /\ mounted = "attached" => /\ effects = <<>> \/ s.inFlight = session.inFlight
                             /\ \A i \in DOMAIN q : q[i].delivery \in {NoDelivery, s.inFlight}
  /\ mounted # "attached" => q = <<>>

LEMMA KeepingControls ==
  ASSUME Typed, NEW s, NEW q, Keeping(s, q)
  PROVE  Controls
<1>1. Later(s, q) /\ SessionOK(s) /\ Served(q)
  BY DEF Keeping
<1>2. /\ session' = s /\ Waiting(effects') /\ effects' = effects \o q
      /\ \A i \in DOMAIN effects' : \/ \E j \in DOMAIN effects : effects'[i] = effects[j]
                                    \/ \E j \in DOMAIN q : effects'[i] = q[j]
      /\ active' \in BOOLEAN /\ timer' \in BOOLEAN
      /\ \E r : Served(r) /\ work' = work \o r /\ Expecting(r)
  BY <1>1, LaterFits
<1>3. EffectsWait'
  <2>1. turn' = "busy" /\ mounted' = mounted /\ closer' = closer
    BY DEF Keeping
  <2>2. mounted # "attached" /\ closer = "open" => effects' = <<>>
    <3> HAVE mounted # "attached" /\ closer = "open"
    <3>1. effects = <<>> /\ q = <<>> /\ q \in Seq(Operation)
      BY DEF Typed, EffectsWait, Keeping, Served
    <3> QED BY <1>2, <3>1
  <2> QED BY <2>1, <2>2 DEF EffectsWait, Typed
<1>4. Matched'
  <2> SUFFICES ASSUME mounted = "attached", NEW i \in DOMAIN effects'
               PROVE  effects'[i].delivery \in {NoDelivery, s.inFlight}
    BY <1>2 DEF Matched, Keeping
  <2>1. CASE \E j \in DOMAIN q : effects'[i] = q[j]
    BY <2>1 DEF Keeping
  <2>2. CASE \E j \in DOMAIN effects : effects'[i] = effects[j]
    <3>1. PICK j \in DOMAIN effects : effects'[i] = effects[j]
      BY <2>2
    <3>2. effects # <<>>
      BY <3>1, NoSeq
    <3> QED BY <3>1, <3>2 DEF Typed, Matched, Keeping
  <2> QED BY <1>2, <2>1, <2>2
<1>5. session'.disk # NoValue \/ mounted' = "preparing"
  BY <1>2 DEF Keeping
<1>6. /\ UNCHANGED notController /\ mounted' = mounted /\ closer' = closer /\ turn' = "busy"
      /\ root' \in Values \cup {NoValue} /\ edits' \in 0 .. Len(Edits)
      /\ unseen' \in BOOLEAN /\ timedOut' \in BOOLEAN /\ Learns
  BY DEF Keeping
<1> QED BY <1>1, <1>2, <1>3, <1>4, <1>5, <1>6 DEF Controls, Typed, TypeOK

\* A turn that gives its effects to the service at once.
Flushing(s) ==
  /\ FlushNow(s) /\ SessionOK(s) /\ mounted = "attached" /\ turn' \in {"idle", "busy"}
  /\ UNCHANGED <<notController, mounted, closer, root, edits, unseen, timedOut>>
  /\ s.disk # NoValue /\ Learns
  /\ s.inFlight.expected \in {0, session.inFlight.expected}

LEMMA FlushingControls ==
  ASSUME Typed, NEW s, Flushing(s)
  PROVE  Controls
<1>1. SessionOK(s) /\ FlushNow(s) /\ mounted = "attached" /\ mounted' = mounted /\ closer' = closer
  BY DEF Flushing
<1>2. /\ session' = Flushed(s) /\ SessionOK(session') /\ Keeps(s, session') /\ effects' = <<>>
      /\ timer' \in BOOLEAN /\ active' \in BOOLEAN
      /\ \E q : /\ Served(q) /\ work' = work \o q
                /\ \A i \in DOMAIN q : \/ \E j \in DOMAIN effects : q[i] = effects[j]
                                       \/ q[i].delivery = session'.inFlight
  BY <1>1, FlushNowFits
<1>3. PICK q : /\ Served(q) /\ work' = work \o q
               /\ \A i \in DOMAIN q : \/ \E j \in DOMAIN effects : q[i] = effects[j]
                                      \/ q[i].delivery = session'.inFlight
  BY <1>2
<1>4. Expecting(q)
  <2> SUFFICES ASSUME NEW i \in DOMAIN q
               PROVE  q[i].delivery \in {NoDelivery, session.inFlight, session'.inFlight}
    BY NoDeliveryIs DEF Expecting
  <2>1. CASE q[i].delivery = session'.inFlight
    BY <2>1
  <2>2. CASE \E j \in DOMAIN effects : q[i] = effects[j]
    BY <1>1, <2>2 DEF Typed, Matched
  <2> QED BY <1>3, <2>1, <2>2
<1>5. session'.disk = s.disk
  BY <1>2 DEF Keeps
<1>6. Waiting(effects') /\ EffectsWait' /\ Matched'
  BY <1>1, <1>2, Empties, NoSeq DEF EffectsWait, Matched
<1>7. /\ UNCHANGED <<notController, root, edits, unseen, timedOut>> /\ turn' \in {"idle", "busy"}
      /\ Learns /\ s.disk # NoValue
  BY DEF Flushing
<1>8. \E r : Served(r) /\ work' = work \o r /\ Expecting(r)
  BY <1>3, <1>4
<1> QED BY <1>1, <1>2, <1>5, <1>6, <1>7, <1>8 DEF Controls, Typed, TypeOK

LEMMA ObservedControls ==
  Typed /\ Observed => Controls
<1> SUFFICES ASSUME Typed, Observed PROVE Controls
  OBVIOUS
<1> DEFINE o == Head(inbox)
<1>1. /\ Reads /\ turn = "idle" /\ turn' = "busy" /\ o.type = "observed" /\ MessageOK(o) /\ o.print \in Prints
      /\ o.value # NoValue /\ o.value \in Values \cup {Absent} /\ (o.value = Absent => ~o.raw)
  <2>1. Receive("observed")
    BY DEF Observed
  <2>2. Reads /\ turn = "idle" /\ turn' = "busy" /\ o.type = "observed" /\ MessageOK(o) /\ o.print \in Prints
    BY <2>1, ReceiveFits
  <2> HIDE DEF o
  <2> QED BY <2>2 DEF MessageOK, Message, Informs
<1>2. /\ Shown(o) /\ UNCHANGED <<notController, mounted, edits, closer>>
  BY DEF Observed
<1>3. (unseen' => unseen /\ o.print # disk.print) /\ unseen' \in BOOLEAN /\ timedOut' \in BOOLEAN
  BY <1>2 DEF Shown, Typed, TypeOK
<1>4. SessionOK(session) /\ root \in Values \cup {NoValue} /\ edits' \in 0 .. Len(Edits)
      /\ (session.disk # NoValue \/ mounted = "preparing")
  BY <1>2 DEF Typed, TypeOK
<1>5. CASE mounted # "attached"
  <2>1. Later(session, <<>>) /\ root' = root
    BY <1>5 DEF Observed
  <2>2. Learns
    <3>1. session' = session
      BY <2>1 DEF Later
    <3> QED BY <1>1, <1>3, <3>1 DEF Learns
  <2>3. Keeping(session, <<>>)
    BY <1>1, <1>2, <1>3, <1>4, <1>5, <2>1, <2>2, Empties DEF Keeping
  <2> QED BY <2>3, KeepingControls
<1>6. CASE mounted = "attached"
  <2> DEFINE kind == Classify(o, session)
             seen == [session EXCEPT !.disk = o.value, !.print = o.print]
             sensed == \/ kind = "foreign" /\ Senses
                       \/ kind = "unchanged" /\ Senses /\ session.senseError /\ o.value \notin {Absent, Invalid}
             judged == IF sensed THEN Sense(seen, o.value)
                       ELSE IF (kind = "rejected" /\ Senses) \/ (kind = "absent" /\ spec.authority = "file-strict")
                       THEN [seen EXCEPT !.senseError = TRUE]
                       ELSE IF kind = "absent" THEN [seen EXCEPT !.senseError = FALSE]
                       ELSE seen
             canonical == IF kind = "foreign" \/ Cell = NoValue THEN o.value ELSE Cell
             asked == IF spec.mode = "rw" /\ o.raw /\ kind \in {"foreign", "unchanged"} /\ ~judged.senseError
                      THEN Request(judged, canonical, TRUE) ELSE judged
  <2>1. PICK recent \in 0 .. session.reasserts :
          /\ Reasserts(session, kind) \/ recent = session.reasserts
          /\ root' = IF sensed THEN o.value ELSE root
          /\ Later(IF Reasserts(session, kind) THEN Reassert(asked, recent) ELSE asked, <<>>)
    BY <1>6 DEF Observed
  <2>2. sensed => o.value \in Values
    <3>1. kind = "foreign" => o.value # Absent
      BY <1>1, NoDeliveryIs DEF Classify, Absent, Invalid
    <3> HIDE DEF kind, o
    <3> QED BY <1>1, <3>1
  <2>3. SessionOK(seen) /\ seen.disk = o.value /\ seen.print = o.print /\ seen.inFlight = session.inFlight
    <3> HIDE DEF o
    <3>1. /\ seen \in Sessions /\ seen.tripped = session.tripped /\ seen.reasserts = session.reasserts
          /\ seen.disk = o.value /\ seen.print = o.print /\ seen.inFlight = session.inFlight
      BY <1>1, <1>4 DEF SessionOK, Sessions
    <3> HIDE DEF seen
    <3> QED BY <1>4, <3>1 DEF SessionOK
  <2> HIDE DEF seen, sensed, kind
  <2>4. SessionOK(judged) /\ SameDisk(seen, judged)
    <3>1. CASE sensed
      BY <2>2, <2>3, <3>1, SenseFits
    <3>2. ASSUME NEW b \in BOOLEAN
          PROVE  SessionOK([seen EXCEPT !.senseError = b]) /\ SameDisk(seen, [seen EXCEPT !.senseError = b])
      <4> DEFINE t == [seen EXCEPT !.senseError = b]
      <4>1. t \in Sessions /\ t.tripped = seen.tripped /\ t.reasserts = seen.reasserts /\ SameDisk(seen, t)
        BY <2>3 DEF SessionOK, Sessions, SameDisk
      <4> HIDE DEF t
      <4>2. SessionOK(t)
        BY <2>3, <4>1 DEF SessionOK
      <4> QED BY <4>1, <4>2 DEF t
    <3>3. SameDisk(seen, seen)
      BY DEF SameDisk
    <3>4. CASE ~sensed
      <4>1. judged \in {[seen EXCEPT !.senseError = TRUE], [seen EXCEPT !.senseError = FALSE], seen}
        BY <3>4
      <4> HIDE DEF judged
      <4> QED BY <2>3, <3>2, <3>3, <4>1
    <3> QED BY <3>1, <3>4
  <2> HIDE DEF judged
  <2>5. o.raw => canonical \in Values \cup {NoValue}
    BY <1>1 DEF Cell, Typed, TypeOK
  <2> HIDE DEF canonical
  <2>6. SessionOK(asked) /\ SameDisk(seen, asked)
    <3>1. CASE asked = judged
      BY <2>4, <3>1
    <3>2. CASE o.raw /\ asked = Request(judged, canonical, TRUE)
      <4>1. SessionOK(Request(judged, canonical, TRUE)) /\ SameDisk(judged, Request(judged, canonical, TRUE))
        BY <2>4, <2>5, <3>2, RequestFits
      <4> QED BY <2>4, <3>2, <4>1 DEF SameDisk
    <3> QED BY <3>1, <3>2
  <2> HIDE DEF asked
  <2> DEFINE s == IF Reasserts(session, kind) THEN Reassert(asked, recent) ELSE asked
  <2>7. SessionOK(s) /\ SameDisk(seen, s)
    <3>1. CASE Reasserts(session, kind)
      <4>1. recent \in 0 .. Threshold /\ recent < Threshold
        <5>1. ~session.tripped
          BY <3>1 DEF Reasserts
        <5>2. session.reasserts \in Nat /\ session.reasserts < Threshold /\ Threshold \in Nat
          BY <1>4, <5>1, BoundsAssumption DEF SessionOK, Sessions
        <5> QED BY <2>1, <5>2
      <4>2. SessionOK(Reassert(asked, recent)) /\ SameDisk(asked, Reassert(asked, recent))
        BY <2>6, <4>1, ReassertFits DEF Typed
      <4> QED BY <2>6, <3>1, <4>2 DEF SameDisk
    <3> QED BY <2>6, <3>1
  <2> HIDE DEF s
  <2>8. Later(s, <<>>)
    BY <2>1 DEF s
  <2>9. s.disk = o.value /\ s.print = o.print /\ s.inFlight = session.inFlight
    BY <2>3, <2>7 DEF SameDisk
  <2>10. Learns
    <3>1. session' = s
      BY <2>8 DEF Later
    <3> QED BY <1>1, <1>3, <2>9, <3>1 DEF Learns, Informs
  <2>11. root' \in Values \cup {NoValue}
    BY <1>4, <2>1, <2>2
  <2>12. Keeping(s, <<>>)
    BY <1>1, <1>2, <1>3, <1>4, <2>7, <2>8, <2>9, <2>10, <2>11, Empties, NoSeq DEF Keeping
  <2> QED BY <2>12, KeepingControls
<1> QED BY <1>5, <1>6

LEMMA DeliveredControls ==
  Typed /\ Delivered => Controls
<1> SUFFICES ASSUME Typed, Delivered PROVE Controls
  OBVIOUS
<1> DEFINE o == Head(inbox)
<1>1. /\ Reads /\ turn = "idle" /\ turn' = "busy" /\ MessageOK(o) /\ o.print \in Prints
      /\ o.type \in {"written", "error", "conflict"}
  BY ReceiveFits DEF Delivered
<1>2. UNCHANGED <<notShown, mounted, root, edits, closer>>
  BY DEF Delivered
<1>3. SessionOK(session) /\ root' \in Values \cup {NoValue} /\ edits' \in 0 .. Len(Edits)
      /\ (session.disk # NoValue \/ mounted = "preparing") /\ unseen' \in BOOLEAN /\ timedOut' \in BOOLEAN
  BY <1>2 DEF Typed, TypeOK, notShown
<1>4. ASSUME session' = session PROVE Learns
  BY <1>1, <1>2, <1>4 DEF Learns, notShown
<1>5. CASE mounted # "attached" \/ ~Has(session.inFlight)
  <2>1. Later(session, <<>>)
    BY <1>5 DEF Delivered
  <2>2. Learns
    BY <1>4, <2>1 DEF Later
  <2>3. Keeping(session, <<>>)
    BY <1>1, <1>2, <1>3, <2>1, <2>2, Empties, NoSeq DEF Keeping, notShown
  <2> QED BY <2>3, KeepingControls
<1>6. CASE mounted = "attached" /\ Has(session.inFlight)
  <2> DEFINE s == Acknowledged(session, o)
             t == Dispatch(s)
             d == Delivering(s, t)
  <2>1. IF Closing THEN FlushNow(s) ELSE Later(t, d)
    BY <1>6 DEF Delivered
  <2>2. /\ SessionOK(s) /\ s.inFlight = NoDelivery
        /\ IF o.type = "written" THEN s.disk = o.value /\ s.print = o.print
           ELSE s.disk = session.disk /\ s.print = session.print
    BY <1>1, <1>3, AcknowledgedFits
  <2>3. s.disk # NoValue
    BY <1>1, <1>3, <1>6, <2>2 DEF MessageOK, Informs
  <2> HIDE DEF s
  <2>4. s.inFlight.expected = 0
    BY <2>2, NoDeliveryIs
  <2>5. ASSUME NEW u, Keeps(s, u), session' = u PROVE Learns
    <3>1. u.print = s.print /\ u.inFlight.expected \in {0, s.print}
      BY <2>4, <2>5 DEF Keeps
    <3>2. s.print = session.print \/ (s.print = o.print /\ Informs(o))
      BY <1>1, <2>2 DEF Informs
    <3> QED BY <1>1, <1>2, <2>5, <3>1, <3>2 DEF Learns, notShown
  <2>6. CASE Closing
    <3>1. session' = Flushed(s) /\ Keeps(s, Flushed(s))
      BY <2>1, <2>2, <2>6, FlushedFits DEF FlushNow
    <3>2. Learns
      BY <2>5, <3>1
    <3>3. Flushing(s)
      BY <1>1, <1>2, <1>6, <2>1, <2>2, <2>3, <2>4, <2>6, <3>2 DEF Flushing, notShown
    <3> QED BY <3>3, FlushingControls
  <2>7. CASE ~Closing
    <3>1. SessionOK(t) /\ Keeps(s, t)
      BY <2>2, DispatchFits
    <3>2. Served(d) /\ \A i \in DOMAIN d : d[i].delivery = t.inFlight
      BY <3>1, ServedDelivering, DeliveringFits
    <3> HIDE DEF t, d
    <3>3. Later(t, d) /\ session' = t
      BY <2>1, <2>7 DEF Later
    <3>4. Learns
      BY <2>5, <3>1, <3>3
    <3>5. effects = <<>>
      BY <1>1, <2>7 DEF Closing, Typed, EffectsWait
    <3>6. t.disk # NoValue
      BY <2>3, <3>1 DEF Keeps
    <3>7. Keeping(t, d)
      BY <1>1, <1>2, <1>3, <1>6, <3>1, <3>2, <3>3, <3>4, <3>5, <3>6 DEF Keeping, notShown
    <3> QED BY <3>7, KeepingControls
  <2> QED BY <2>6, <2>7
<1> QED BY <1>5, <1>6

LEMMA EditControls ==
  Typed /\ Edit => Controls
<1> SUFFICES ASSUME Typed, Edit PROVE Controls
  OBVIOUS
<1> DEFINE s == [session EXCEPT !.senseError = FALSE]
<1>1. /\ turn = "idle" /\ turn' = "busy" /\ edits < Len(Edits) /\ edits' = edits + 1
      /\ Later(s, <<>>) /\ UNCHANGED <<notShown, inbox, mounted, closer>>
      /\ \E value \in Edits[edits + 1] : root' = value
  BY DEF Edit, Begin
<1>2. /\ SessionOK(session) /\ (session.disk # NoValue \/ mounted = "preparing")
      /\ unseen' \in BOOLEAN /\ timedOut' \in BOOLEAN /\ edits \in 0 .. Len(Edits)
  BY <1>1 DEF Typed, TypeOK, notShown
<1>3. edits' \in 0 .. Len(Edits) /\ root' \in Values \cup {NoValue}
  <2>1. Edits \in Seq(SUBSET Values)
    BY ContentsAssumption
  <2>2. edits' \in 1 .. Len(Edits) /\ Len(Edits) \in Nat
    BY <1>1, <1>2, <2>1
  <2>3. Edits[edits'] \in SUBSET Values
    BY <2>1, <2>2
  <2> QED BY <1>1, <2>2, <2>3
<1>4. /\ s \in Sessions /\ s.tripped = session.tripped /\ s.reasserts = session.reasserts
      /\ SameDisk(session, s)
  BY <1>2 DEF SessionOK, Sessions, SameDisk
<1> HIDE DEF s
<1>5. SessionOK(s)
  BY <1>2, <1>4 DEF SessionOK
<1>6. Learns
  BY <1>1, <1>4 DEF Learns, Later, SameDisk, notShown
<1>7. Keeping(s, <<>>)
  BY <1>1, <1>2, <1>3, <1>4, <1>5, <1>6, Empties, NoSeq DEF Keeping, SameDisk, notShown
<1> QED BY <1>7, KeepingControls

LEMMA TickControls ==
  Typed /\ Tick => Controls
<1> SUFFICES ASSUME Typed, Tick PROVE Controls
  OBVIOUS
<1>1. /\ turn = "idle" /\ turn' = "busy" /\ mounted = "attached"
      /\ UNCHANGED <<notShown, inbox, mounted, root, edits, closer>>
  BY DEF Tick, Begin
<1>2. /\ SessionOK(session) /\ session.disk # NoValue /\ root \in Values \cup {NoValue}
      /\ unseen' \in BOOLEAN /\ timedOut' \in BOOLEAN /\ edits \in 0 .. Len(Edits)
  BY <1>1 DEF Typed, TypeOK, notShown
<1>3. CASE Closing
  <2>1. FlushNow(session)
    BY <1>3 DEF Tick
  <2>2. session' = Flushed(session) /\ Keeps(session, Flushed(session))
    BY <1>2, <2>1, FlushedFits DEF FlushNow
  <2>3. Learns
    BY <1>1, <2>2 DEF Learns, Keeps, notShown
  <2>4. Flushing(session)
    BY <1>1, <1>2, <2>1, <2>3 DEF Flushing, notShown
  <2> QED BY <2>4, FlushingControls
<1>4. CASE ~Closing
  <2>1. timer' = FALSE /\ UNCHANGED <<session, effects, work, active>>
    BY <1>4 DEF Tick
  <2>2. Learns
    BY <1>1, <2>1 DEF Learns, notShown
  <2>3. work' = work \o <<>> /\ Served(<<>>) /\ Expecting(<<>>)
    <3>1. work \in Seq(Operation)
      BY DEF Typed, Served
    <3> QED BY <2>1, <3>1, Empties, NoSeq DEF Expecting
  <2>4. \E q : Served(q) /\ work' = work \o q /\ Expecting(q)
    BY <2>3
  <2>5. Waiting(effects') /\ EffectsWait' /\ Matched'
    BY <1>1, <2>1 DEF Typed, EffectsWait, Matched
  <2>6. SessionOK(session') /\ session'.disk # NoValue /\ timer' \in BOOLEAN /\ active' \in BOOLEAN
    BY <1>2, <2>1 DEF Typed, TypeOK
  <2> QED BY <1>1, <1>2, <2>2, <2>4, <2>5, <2>6 DEF Controls, Typed, TypeOK, notShown
<1> QED BY <1>3, <1>4

LEMMA ClearErrorControls ==
  Typed /\ ClearError => Controls
<1> SUFFICES ASSUME Typed, ClearError PROVE Controls
  OBVIOUS
<1> DEFINE s == [session EXCEPT !.error = FALSE, !.tripped = FALSE, !.reasserts = 0, !.backoff = FALSE]
           t == IF Actuates THEN Request(s, Cell, FALSE) ELSE s
<1>1. /\ turn = "idle" /\ turn' = "busy" /\ mounted = "attached" /\ Later(t, <<>>)
      /\ UNCHANGED <<notShown, inbox, mounted, root, edits, closer>>
  BY DEF ClearError, Begin
<1>2. /\ SessionOK(session) /\ session.disk # NoValue /\ root \in Values \cup {NoValue}
      /\ unseen' \in BOOLEAN /\ timedOut' \in BOOLEAN /\ edits \in 0 .. Len(Edits)
  BY <1>1 DEF Typed, TypeOK, notShown
<1>3. SessionOK(s) /\ SameDisk(session, s)
  <2>1. 0 \in 0 .. Threshold /\ 0 < Threshold
    BY BoundsAssumption
  <2>2. s \in Sessions /\ s.reasserts = 0 /\ SameDisk(session, s)
    BY <1>2, <2>1 DEF SessionOK, Sessions, SameDisk
  <2> HIDE DEF s
  <2> QED BY <2>1, <2>2 DEF SessionOK
<1> HIDE DEF s
<1>4. SessionOK(t) /\ SameDisk(session, t)
  <2>1. Cell \in Values \cup {NoValue}
    BY <1>2 DEF Cell
  <2>2. SessionOK(Request(s, Cell, FALSE)) /\ SameDisk(s, Request(s, Cell, FALSE))
    BY <1>3, <2>1, RequestFits
  <2> QED BY <1>3, <2>2 DEF SameDisk
<1> HIDE DEF t
<1>5. Learns
  BY <1>1, <1>4 DEF Learns, Later, SameDisk, notShown
<1>6. Keeping(t, <<>>)
  BY <1>1, <1>2, <1>4, <1>5, Empties, NoSeq DEF Keeping, SameDisk, notShown
<1> QED BY <1>6, KeepingControls

LEMMA PollsServed ==
  /\ Poll \in Operation /\ Served(<<Poll>>) /\ Poll.type = "poll" /\ Poll.delivery = NoDelivery
  /\ ForcedPoll \in Operation /\ Served(<<ForcedPoll>>) /\ ForcedPoll.delivery = NoDelivery
<1>1. Poll \in Operation /\ OperationOK(Poll) /\ Poll.type = "poll" /\ Poll.delivery = NoDelivery
  BY NoDeliveryIs DEF Poll, Operation, OperationOK
<1>2. ForcedPoll \in Operation /\ OperationOK(ForcedPoll) /\ ForcedPoll.type = "poll" /\ ForcedPoll.delivery = NoDelivery
  BY NoDeliveryIs DEF ForcedPoll, Operation, OperationOK
<1>3. Served(<<Poll>>)
  BY <1>1, OneSeq DEF Served
<1>4. Served(<<ForcedPoll>>)
  BY <1>2, OneSeq DEF Served
<1> QED BY <1>1, <1>2, <1>3, <1>4

LEMMA ClearExceptionControls ==
  Typed /\ ClearException => Controls
<1> SUFFICES ASSUME Typed, ClearException PROVE Controls
  OBVIOUS
<1>1. /\ turn = "idle" /\ turn' = "busy" /\ mounted = "attached" /\ Later(session, <<ForcedPoll>>)
      /\ UNCHANGED <<notShown, inbox, mounted, root, edits, closer>>
  BY DEF ClearException, Begin
<1>2. /\ SessionOK(session) /\ session.disk # NoValue /\ root \in Values \cup {NoValue}
      /\ unseen' \in BOOLEAN /\ timedOut' \in BOOLEAN /\ edits \in 0 .. Len(Edits)
  BY <1>1 DEF Typed, TypeOK, notShown
<1>3. Learns
  BY <1>1 DEF Learns, Later, notShown
<1>4. Served(<<ForcedPoll>>) /\ \A i \in DOMAIN <<ForcedPoll>> : <<ForcedPoll>>[i].delivery = NoDelivery
  BY PollsServed, OneSeq
<1>5. Keeping(session, <<ForcedPoll>>)
  BY <1>1, <1>2, <1>3, <1>4 DEF Keeping, notShown
<1> QED BY <1>5, KeepingControls

LEMMA DetachControls ==
  ASSUME Typed, Detach, turn = "idle", turn' = "busy", UNCHANGED timedOut \/ timedOut' = TRUE,
         closer' = closer \/ closer' = "finishing",
         mounted = "attached" \/ closer # "open"
  PROVE  Controls
<1>1. /\ UNCHANGED <<timer, root, edits, effects, inbox, notController, unseen>>
      /\ mounted' = IF mounted = "attached" THEN "detached" ELSE mounted
  BY DEF Detach
<1>2. /\ SessionOK(session) /\ (session.disk # NoValue \/ mounted = "preparing")
      /\ unseen' \in BOOLEAN /\ timedOut' \in BOOLEAN /\ edits' \in 0 .. Len(Edits)
      /\ root' \in Values \cup {NoValue} /\ timer' \in BOOLEAN
      /\ work \in Seq(Operation) /\ mounted # "preparing"
  BY <1>1 DEF Typed, TypeOK, EffectsWait
<1>3. Waiting(effects') /\ EffectsWait' /\ Matched'
  BY <1>1, <1>2 DEF Typed, EffectsWait, Matched
<1>4. CASE mounted # "attached"
  <2>1. UNCHANGED <<session, active, work>>
    BY <1>4 DEF Detach
  <2>2. work' = work \o <<>> /\ Served(<<>>) /\ Expecting(<<>>)
    BY <1>2, <2>1, Empties, NoSeq DEF Expecting
  <2>3. \E q : Served(q) /\ work' = work \o q /\ Expecting(q)
    BY <2>2
  <2>4. Learns
    BY <1>1, <2>1 DEF Learns
  <2> QED BY <1>1, <1>2, <1>3, <2>1, <2>3, <2>4 DEF Controls, Typed, TypeOK
<1>5. CASE mounted = "attached"
  <2> DEFINE s == [session EXCEPT !.pending = NoDelivery, !.inFlight = NoDelivery,
                                  !.initial = TRUE, !.senseError = FALSE]
             e == [type |-> "cleanup", force |-> ~spec.persistent,
                   delivery |-> [NoDelivery EXCEPT !.expected = session.print]]
  <2>1. session' = s /\ active' = FALSE /\ work' = Append(work, e)
    BY <1>5 DEF Detach
  <2>2. /\ s \in Sessions /\ s.tripped = session.tripped /\ s.reasserts = session.reasserts
        /\ s.disk = session.disk /\ s.print = session.print /\ s.inFlight = NoDelivery
    BY <1>2, NoDeliveryIs DEF SessionOK, Sessions
  <2> HIDE DEF s
  <2>3. SessionOK(s) /\ s.disk # NoValue
    BY <1>2, <1>5, <2>2 DEF SessionOK
  <2>4. Learns
    BY <1>1, <2>1, <2>2, NoDeliveryIs DEF Learns
  <2>5. e \in Operation /\ OperationOK(e) /\ e.type = "cleanup" /\ e.delivery.expected = session.print
    <3>1. session.print \in Prints /\ spec.persistent \in BOOLEAN
      BY <1>2, SpecsAssumption DEF SessionOK, Sessions, Typed, TypeOK, Allowed
    <3>2. /\ [NoDelivery EXCEPT !.expected = session.print] \in Delivery
          /\ [NoDelivery EXCEPT !.expected = session.print].expected = session.print
      BY <3>1, NoDeliveryIs DEF Delivery
    <3> QED BY <3>1, <3>2 DEF Operation, OperationOK
  <2> HIDE DEF e
  <2>6. Served(<<e>>) /\ Expecting(<<e>>)
    BY <2>5, OneSeq DEF Served, Expecting
  <2>7. work' = work \o <<e>>
    BY <1>2, <2>1, <2>5
  <2>8. \E q : Served(q) /\ work' = work \o q /\ Expecting(q)
    BY <2>6, <2>7
  <2> QED BY <1>1, <1>2, <1>3, <1>5, <2>1, <2>3, <2>4, <2>8 DEF Controls, Typed, TypeOK
<1> QED BY <1>4, <1>5

LEMMA DetachingControls ==
  Typed /\ (Unmount \/ FlushOver \/ FlushTimeout) => Controls
<1>1. Typed /\ Unmount => Controls
  BY DetachControls DEF Unmount, Begin
<1>2. Typed /\ FlushOver => Controls
  BY DetachControls DEF FlushOver, Begin
<1>3. Typed /\ FlushTimeout => Controls
  BY DetachControls DEF FlushTimeout, Begin
<1> QED BY <1>1, <1>2, <1>3

LEMMA AfterTurnControls ==
  Typed /\ AfterTurn => Controls
<1> SUFFICES ASSUME Typed, AfterTurn PROVE Controls
  OBVIOUS
<1>1. turn' = "idle" /\ UNCHANGED <<notShown, inbox, mounted, root, edits, closer>>
  BY DEF AfterTurn
<1>2. /\ SessionOK(session) /\ (session.disk # NoValue \/ mounted = "preparing")
      /\ unseen' \in BOOLEAN /\ timedOut' \in BOOLEAN /\ edits' \in 0 .. Len(Edits)
      /\ root \in Values \cup {NoValue} /\ work \in Seq(Operation) /\ timer \in BOOLEAN /\ active \in BOOLEAN
      /\ Closing \in BOOLEAN
  BY <1>1 DEF Typed, TypeOK, notShown, Closing
<1>3. CASE Closing \/ mounted # "attached"
  <2>1. session' = session /\ timer' = (Closing /\ timer)
        /\ (IF Closing THEN UNCHANGED <<effects, work, active>> ELSE Submit(effects) /\ effects' = <<>>)
    BY <1>3 DEF AfterTurn
  <2>2. /\ work' = work \o <<>> /\ active' \in BOOLEAN /\ Waiting(effects')
        /\ (closer = "open" => effects' = <<>>)
        /\ (mounted = "attached" => effects' = effects)
    <3>1. CASE Closing
      <4>1. work \o <<>> = work
        BY <1>2
      <4> QED BY <1>2, <2>1, <3>1, <4>1 DEF Typed, Closing
    <3>2. CASE ~Closing
      <4>1. effects = <<>>
        BY <1>3, <3>2 DEF Typed, EffectsWait, Closing
      <4>2. ~Activates(<<>>)
        BY DEF Activates
      <4>3. work' = work \o <<>> /\ active' = active /\ effects' = <<>>
        BY <1>2, <2>1, <3>2, <4>1, <4>2 DEF Submit
      <4> QED BY <1>2, <1>3, <3>2, <4>3, Empties
    <3> QED BY <1>2, <3>1, <3>2
  <2>3. Served(<<>>) /\ Expecting(<<>>)
    BY Empties, NoSeq DEF Expecting
  <2>4. \E q : Served(q) /\ work' = work \o q /\ Expecting(q)
    BY <2>2, <2>3
  <2>5. Learns
    BY <1>1, <2>1 DEF Learns, notShown
  <2>6. EffectsWait' /\ Matched'
    BY <1>1, <2>1, <2>2 DEF EffectsWait, Matched, Typed
  <2>7. timer' \in BOOLEAN
    BY <1>2, <2>1
  <2> QED BY <1>1, <1>2, <2>1, <2>2, <2>4, <2>5, <2>6, <2>7 DEF Controls, Typed, TypeOK, notShown
<1>4. CASE ~Closing /\ mounted = "attached"
  <2> DEFINE s == Actuate(session, Cell)
             t == Dispatch(s)
             d == Delivering(s, t)
             ops == effects \o d
  <2>1. session' = t /\ timer' = Deadline(t) /\ Submit(ops) /\ effects' = <<>>
    BY <1>4 DEF AfterTurn
  <2>2. SessionOK(s) /\ SameDisk(session, s)
    <3>1. Cell \in Values \cup {NoValue}
      BY <1>2 DEF Cell
    <3> QED BY <1>2, <3>1, ActuateFits
  <2> HIDE DEF s
  <2>3. SessionOK(t) /\ Keeps(session, t)
    BY <2>2, DispatchFits, SameKeeps
  <2> HIDE DEF t
  <2>4. Served(d) /\ \A i \in DOMAIN d : d[i].delivery = t.inFlight
    BY <2>3, ServedDelivering, DeliveringFits
  <2> HIDE DEF d
  <2>5. /\ Waiting(ops)
        /\ \A i \in DOMAIN ops : (\E j \in DOMAIN effects : ops[i] = effects[j]) \/ \E j \in DOMAIN d : ops[i] = d[j]
    <3>1. Waiting(effects)
      BY DEF Typed
    <3> QED BY <2>4, <3>1, WaitingJoined
  <2> HIDE DEF ops
  <2>6. /\ active' \in BOOLEAN
        /\ \E q : Served(q) /\ work' = work \o q /\ \A i \in DOMAIN q : \E j \in DOMAIN ops : q[i] = ops[j]
    BY <1>2, <2>1, <2>5, SubmitFits
  <2>7. PICK q : Served(q) /\ work' = work \o q /\ \A i \in DOMAIN q : \E j \in DOMAIN ops : q[i] = ops[j]
    BY <2>6
  <2>8. Expecting(q)
    <3> SUFFICES ASSUME NEW i \in DOMAIN q
                 PROVE  q[i].delivery \in {NoDelivery, session.inFlight, session'.inFlight}
      BY NoDeliveryIs DEF Expecting
    <3>1. PICK j \in DOMAIN ops : q[i] = ops[j]
      BY <2>7
    <3>2. CASE \E k \in DOMAIN d : ops[j] = d[k]
      BY <2>1, <2>4, <3>1, <3>2
    <3>3. CASE \E k \in DOMAIN effects : ops[j] = effects[k]
      BY <1>4, <3>1, <3>3 DEF Typed, Matched
    <3> QED BY <2>5, <3>2, <3>3
  <2>9. \E r : Served(r) /\ work' = work \o r /\ Expecting(r)
    BY <2>7, <2>8
  <2>10. timer' \in BOOLEAN
    BY <2>1, DeadlineBoolean
  <2>11. Learns
    BY <1>1, <2>1, <2>3 DEF Learns, Keeps, notShown
  <2>12. Waiting(effects') /\ EffectsWait' /\ Matched' /\ session'.disk # NoValue
    BY <1>1, <1>2, <1>4, <2>1, <2>3, Empties, NoSeq DEF EffectsWait, Matched, Keeps
  <2> QED BY <1>1, <1>2, <2>1, <2>3, <2>6, <2>9, <2>10, <2>11, <2>12 DEF Controls, Typed, TypeOK, notShown
<1> QED BY <1>2, <1>3, <1>4

LEMMA BeginCloseControls ==
  Typed /\ BeginClose => Controls
<1> SUFFICES ASSUME Typed, BeginClose PROVE Controls
  OBVIOUS
<1> DEFINE s == IF mounted = "attached" THEN Flushed(session) ELSE session
           d == Delivering(session, s)
<1>1. /\ Reads /\ turn = "idle" /\ turn' = "busy" /\ Head(inbox).type = "begin_close"
  BY ReceiveFits DEF BeginClose
<1>10. EffectsWait'
  <2>1. 1 \in DOMAIN inbox /\ inbox[1] = Head(inbox)
    BY <1>1, TailSeq DEF Reads, Typed, TypeOK
  <2>2. closer # "open"
    BY <1>1, <2>1 DEF Typed, CloseAsked
  <2>3. mounted # "preparing"
    BY <2>2 DEF Typed, EffectsWait
  <2> QED BY <2>3 DEF EffectsWait, BeginClose
<1>2. /\ session' = s /\ timer' = Deadline(s) /\ work' = work \o d /\ active' = FALSE /\ effects' = <<>>
      /\ closer' = "flushing" /\ UNCHANGED <<notShown, mounted, root, edits>>
  BY DEF BeginClose
<1>3. /\ SessionOK(session) /\ (session.disk # NoValue \/ mounted = "preparing")
      /\ unseen' \in BOOLEAN /\ timedOut' \in BOOLEAN /\ edits' \in 0 .. Len(Edits)
      /\ root' \in Values \cup {NoValue}
  BY <1>2 DEF Typed, TypeOK, notShown
<1>4. SessionOK(s) /\ Keeps(session, s)
  BY <1>3, FlushedFits DEF Keeps
<1> HIDE DEF s
<1>5. Served(d) /\ \A i \in DOMAIN d : d[i].delivery = s.inFlight
  BY <1>4, ServedDelivering, DeliveringFits
<1> HIDE DEF d
<1>6. \E q : Served(q) /\ work' = work \o q /\ Expecting(q)
  BY <1>2, <1>5 DEF Expecting
<1>7. timer' \in BOOLEAN
  BY <1>2, DeadlineBoolean
<1>8. Learns
  BY <1>1, <1>2, <1>4 DEF Learns, Keeps, notShown
<1>9. Waiting(effects') /\ Matched' /\ (session'.disk # NoValue \/ mounted' = "preparing")
  BY <1>2, <1>3, <1>4, Empties, NoSeq DEF Matched, Keeps
<1> QED BY <1>1, <1>2, <1>3, <1>4, <1>6, <1>7, <1>8, <1>9, <1>10 DEF Controls, Typed, TypeOK, notShown

\* Every turn.
Turns == Handle \/ AfterTurn \/ Tick \/ FlushOver \/ Edit \/ ClearError \/ ClearException \/ Unmount \/ FlushTimeout

LEMMA TurnsControls ==
  Typed /\ Turns => Controls
BY AttachControls, ObservedControls, DeliveredControls, BeginCloseControls, AfterTurnControls, TickControls,
   DetachingControls, EditControls, ClearErrorControls, ClearExceptionControls DEF Turns, Handle

-----------------------------------------------------------------------------
(* Types: the service, and the others. *)

Serves ==
  /\ UNCHANGED notService /\ FileOK(disk') /\ unseen' \in BOOLEAN /\ young' \in BOOLEAN
  /\ Served(work') /\ at' \in {"start", "read", "replace", "stamp", "unlink", "reread"} /\ WorkerOK'
  /\ baseline' \in Prints /\ active' \in BOOLEAN /\ faults' \in 0 .. MaxFaults
  /\ inbox' \in Seq(Message) /\ InboxOK' /\ CloseAsked'

LEMMA ServesTyped ==
  ASSUME Typed, Serves
  PROVE  Typed'
<1>1. /\ UNCHANGED notService
      /\ FileOK(disk') /\ Served(work') /\ WorkerOK' /\ inbox' \in Seq(Message) /\ InboxOK' /\ CloseAsked'
      /\ unseen' \in BOOLEAN /\ young' \in BOOLEAN /\ baseline' \in Prints /\ active' \in BOOLEAN
      /\ faults' \in 0 .. MaxFaults /\ at' \in {"start", "read", "replace", "stamp", "unlink", "reread"}
  BY DEF Serves
<1>2. work' \in Seq(Operation) /\ disk' \in [value: Values \cup {Absent}, raw: BOOLEAN, print: Prints]
  BY <1>1 DEF Served, FileOK
<1>3. TypeOK'
  BY <1>1, <1>2 DEF TypeOK, Typed, notService
<1>4. SessionOK(session') /\ Waiting(effects') /\ EffectsWait' /\ Matched'
  BY <1>1 DEF Typed, notService, EffectsWait, Matched
<1> QED BY <1>1, <1>3, <1>4 DEF Typed

LEMMA WorkHead ==
  ASSUME Typed, work # <<>>
  PROVE  /\ 1 \in DOMAIN work /\ Head(work) = work[1] /\ OperationOK(Head(work)) /\ Head(work) \in Operation
         /\ Head(work).type \in {"poll", "deliver", "cleanup"} /\ Served(Tail(work))
         /\ Head(work).delivery.expected \in Prints
<1>1. work \in Seq(Operation) /\ Served(work)
  BY DEF Typed, Served
<1>2. 1 \in DOMAIN work /\ Head(work) = work[1]
  BY <1>1, TailSeq
<1>3. OperationOK(Head(work)) /\ Head(work).type # "activate"
  BY <1>1, <1>2 DEF Served
<1>4. Served(Tail(work))
  <2> DEFINE r == Tail(work)
  <2>1. r \in Seq(Operation) /\ \A i \in DOMAIN r : i + 1 \in DOMAIN work /\ r[i] = work[i + 1]
    BY <1>1, TailSeq
  <2> HIDE DEF r
  <2>2. Served(r)
    BY <1>1, <2>1 DEF Served
  <2> QED BY <2>2 DEF r
<1>5. Head(work) \in Operation
  BY <1>3 DEF OperationOK
<1>6. Head(work).type \in {"poll", "deliver", "cleanup"} /\ Head(work).delivery.expected \in Prints
  BY <1>3, <1>5 DEF Operation, Delivery
<1> QED BY <1>2, <1>3, <1>4, <1>5, <1>6

LEMMA SendFits ==
  ASSUME Typed, NEW t, NEW v, NEW p, NEW r, Send(t, v, p, r), closer' = closer, t # "begin_close",
         MessageOK([type |-> t, value |-> v, print |-> p, raw |-> r])
  PROVE  /\ inbox' \in Seq(Message) /\ InboxOK' /\ CloseAsked'
         /\ \A i \in DOMAIN inbox' : \/ i \in DOMAIN inbox /\ inbox'[i] = inbox[i]
                                     \/ inbox'[i].type = t /\ inbox'[i].print = p
         /\ \A i \in DOMAIN inbox : i \in DOMAIN inbox' /\ inbox'[i] = inbox[i]
         /\ Accepting => \E i \in DOMAIN inbox' : inbox'[i].type = t /\ inbox'[i].print = p
<1> DEFINE m == [type |-> t, value |-> v, print |-> p, raw |-> r]
           q == Append(inbox, m)
<1>1. inbox \in Seq(Message) /\ InboxOK /\ CloseAsked
  BY DEF Typed, TypeOK
<1>2. MessageOK(m) /\ m.type # "begin_close" /\ m.type = t /\ m.print = p
  OBVIOUS
<1>3. m \in Message
  BY <1>2 DEF MessageOK
<1>4. inbox' = (IF (t = "observed" /\ ~Accepting) \/ closer = "closed" THEN inbox ELSE q)
  BY DEF Send
<1> HIDE DEF m
<1>5. CASE inbox' = inbox /\ ~Accepting
  BY <1>1, <1>5 DEF InboxOK, CloseAsked
<1>6. CASE inbox' = q
  <2>1. /\ q \in Seq(Message)
        /\ \A i \in DOMAIN q : (i \in DOMAIN inbox /\ q[i] = inbox[i]) \/ q[i] = m
        /\ \A i \in DOMAIN inbox : i \in DOMAIN q /\ q[i] = inbox[i]
        /\ \E i \in DOMAIN q : q[i] = m
    BY <1>1, <1>3, AppendSeq
  <2> HIDE DEF q
  <2>2. \A i \in DOMAIN q : MessageOK(q[i]) /\ (q[i].type = "begin_close" => closer # "open")
    BY <1>1, <1>2, <2>1 DEF InboxOK, CloseAsked
  <2>3. InboxOK' /\ CloseAsked'
    BY <1>6, <2>2 DEF InboxOK, CloseAsked
  <2> QED BY <1>2, <1>6, <2>1, <2>3
<1>7. closer = "closed" => ~Accepting
  BY DEF Accepting
<1> QED BY <1>4, <1>5, <1>6, <1>7

\* A step of the service, other than a write, as the session will see it: what was sent
\* stays sent, and the file is read while it is young.
Shows ==
  /\ UNCHANGED <<disk, unseen>>
  /\ \A i \in DOMAIN inbox : i \in DOMAIN inbox' /\ inbox'[i] = inbox[i]
  /\ young /\ Accepting =>
       young' \/ \E i \in DOMAIN inbox' : inbox'[i].type = "observed" /\ inbox'[i].print = disk.print
\* ... and as the file that nobody has seen is concerned: no write or removal of it is begun.
Guards == unseen =>
  /\ at' \notin {"replace", "stamp", "unlink"}
  /\ \A i \in DOMAIN work' : work'[i].delivery.expected = 0 \/ \E j \in DOMAIN work : work'[i] = work[j]
  /\ \A i \in DOMAIN inbox' : inbox'[i].type = "written" => \E j \in DOMAIN inbox : inbox'[i] = inbox[j]

\* What somebody else wrote has a fingerprint that nobody expects or has been told,
Fresh == unseen =>
  /\ disk.print \notin {0, session.print, session.inFlight.expected}
  /\ \A i \in DOMAIN work : work[i].delivery.expected # disk.print
  /\ \A i \in DOMAIN inbox : inbox[i].type = "written" => inbox[i].print # disk.print
\* ... so that a write that has begun is of a file that was seen.
Guarded == at \in {"replace", "stamp", "unlink"} => ~unseen

LEMMA Finishes ==
  ASSUME Typed, work # <<>>, Finish
  PROVE  /\ Served(work') /\ at' = "start" /\ WorkerOK'
         /\ \A i \in DOMAIN work' : \E j \in DOMAIN work : work'[i] = work[j]
<1>1. work' = Tail(work) /\ at' = "start"
  BY DEF Finish
<1>2. Served(Tail(work))
  BY WorkHead
<1>3. \A i \in DOMAIN Tail(work) : \E j \in DOMAIN work : Tail(work)[i] = work[j]
  <2>1. work \in Seq(Operation)
    BY DEF Typed, Served
  <2> QED BY <2>1, TailSeq
<1> QED BY <1>1, <1>2, <1>3 DEF WorkerOK

LEMMA Goes ==
  ASSUME Typed, work # <<>>, NEW stage \in Stages(Head(work).type), Go(stage)
  PROVE  /\ Served(work') /\ at' = stage /\ WorkerOK' /\ at' \in {"start", "read", "replace", "stamp", "unlink", "reread"}
         /\ work' = work /\ \A i \in DOMAIN work' : \E j \in DOMAIN work : work'[i] = work[j]
<1>1. work' = work /\ at' = stage /\ Served(work)
  BY DEF Go, Typed
<1>2. stage \in {"start", "read", "replace", "stamp", "unlink", "reread"}
  BY WorkHead DEF Stages
<1> QED BY <1>1, <1>2 DEF WorkerOK

\* The inbox is left alone.
LEMMA InboxRests ==
  ASSUME Typed, inbox' = inbox, closer' = closer
  PROVE  /\ inbox' \in Seq(Message) /\ InboxOK' /\ CloseAsked'
         /\ \A i \in DOMAIN inbox : i \in DOMAIN inbox' /\ inbox'[i] = inbox[i]
         /\ \A i \in DOMAIN inbox' : \E j \in DOMAIN inbox : inbox'[i] = inbox[j]
BY DEF Typed, TypeOK, InboxOK, CloseAsked

LEMMA BrokerServes ==
  Typed /\ Broker => Serves /\ Shows /\ (Guarded => Guards)
<1> SUFFICES ASSUME Typed, Broker PROVE Serves /\ Shows /\ (Guarded => Guards)
  OBVIOUS
<1>1. /\ work' = Append(work, Poll) /\ UNCHANGED <<notService, fileState, at, baseline, active, faults, inbox>>
  BY DEF Broker
<1>2. work \in Seq(Operation) /\ Served(work) /\ Poll \in Operation /\ Poll.delivery = NoDelivery
  BY PollsServed DEF Typed, Served
<1>3. /\ \A i \in DOMAIN work' : (i \in DOMAIN work /\ work'[i] = work[i]) \/ work'[i] = Poll
      /\ work # <<>> => work' # <<>> /\ Head(work') = Head(work)
  BY <1>1, <1>2, AppendSeq
<1>4. Served(work')
  <2>1. work' = work \o <<Poll>>
    BY <1>1, <1>2
  <2> QED BY <1>2, <2>1, ServedJoined, PollsServed
<1>5. WorkerOK'
  BY <1>1, <1>3 DEF WorkerOK, Typed
<1>6. /\ inbox' \in Seq(Message) /\ InboxOK' /\ CloseAsked'
      /\ \A i \in DOMAIN inbox : i \in DOMAIN inbox' /\ inbox'[i] = inbox[i]
  BY <1>1, InboxRests DEF notService
<1>7. Serves
  BY <1>1, <1>4, <1>5, <1>6 DEF Serves, Typed, TypeOK, fileState, notService
<1>8. Shows
  BY <1>1, <1>6 DEF Shows, fileState
<1>9. Guarded => Guards
  <2>1. \A i \in DOMAIN work' : work'[i].delivery.expected = 0 \/ \E j \in DOMAIN work : work'[i] = work[j]
    BY <1>2, <1>3, NoDeliveryIs
  <2>2. at' = at /\ inbox' = inbox
    BY <1>1
  <2> QED BY <2>1, <2>2 DEF Guarded, Guards
<1> QED BY <1>7, <1>8, <1>9

LEMMA PollStartsServes ==
  Typed /\ PollStarts => Serves /\ Shows /\ Guards
<1> SUFFICES ASSUME Typed, PollStarts PROVE Serves /\ Shows /\ Guards
  OBVIOUS
<1>1. /\ UNCHANGED <<notService, fileState, active, faults, inbox>>
      /\ work # <<>> /\ Head(work).type \in {"poll", "deliver"}
  BY DEF PollStarts, Working
<1>2. /\ inbox' \in Seq(Message) /\ InboxOK' /\ CloseAsked'
      /\ \A i \in DOMAIN inbox : i \in DOMAIN inbox' /\ inbox'[i] = inbox[i]
      /\ \A i \in DOMAIN inbox' : \E j \in DOMAIN inbox : inbox'[i] = inbox[j]
  BY <1>1, InboxRests DEF notService
<1>3. /\ Served(work') /\ WorkerOK' /\ at' \in {"start", "read"} /\ baseline' \in Prints
      /\ \A i \in DOMAIN work' : \E j \in DOMAIN work : work'[i] = work[j]
  <2>1. CASE Finish /\ baseline' = baseline
    BY <1>1, <2>1, Finishes DEF Typed, TypeOK
  <2>2. CASE Go("read") /\ baseline' = disk.print
    <3>1. "read" \in Stages(Head(work).type)
      BY <1>1 DEF Stages
    <3> QED BY <1>1, <2>2, <3>1, Goes DEF Typed, FileOK
  <2> QED BY <2>1, <2>2 DEF PollStarts
<1>4. Serves
  BY <1>1, <1>2, <1>3 DEF Serves, Typed, TypeOK, fileState, notService
<1>5. Shows
  BY <1>1, <1>2 DEF Shows, fileState
<1>6. Guards
  BY <1>2, <1>3 DEF Guards
<1> QED BY <1>4, <1>5, <1>6

LEMMA ReadServes ==
  Typed /\ Read => Serves /\ Shows /\ Guards
<1> SUFFICES ASSUME Typed, Read PROVE Serves /\ Shows /\ Guards
  OBVIOUS
<1> DEFINE m == [type |-> "observed", value |-> disk.value, print |-> disk.print, raw |-> disk.raw]
<1>1. /\ UNCHANGED <<notService, disk, unseen, baseline, active, faults>> /\ young' \in {young, FALSE}
      /\ at = "read" /\ Send("observed", disk.value, disk.print, disk.raw) /\ Finish /\ work # <<>>
  BY DEF Read, Typed, WorkerOK
<1>2. Served(work') /\ WorkerOK' /\ at' = "start" /\ \A i \in DOMAIN work' : \E j \in DOMAIN work : work'[i] = work[j]
  BY <1>1, Finishes
<1>3. MessageOK(m)
  <2>1. /\ disk.value \in Values \cup {Absent} /\ disk.value # NoValue /\ disk.raw \in BOOLEAN
        /\ disk.print \in Prints /\ (disk.value = Absent => ~disk.raw)
    BY NoDeliveryIs DEF Typed, FileOK
  <2>2. m \in Message /\ m.value = disk.value /\ m.raw = disk.raw
    BY <2>1 DEF Message
  <2> HIDE DEF m
  <2> QED BY <2>1, <2>2 DEF MessageOK
<1>4. /\ inbox' \in Seq(Message) /\ InboxOK' /\ CloseAsked'
      /\ \A i \in DOMAIN inbox' : (i \in DOMAIN inbox /\ inbox'[i] = inbox[i]) \/ inbox'[i].type = "observed"
      /\ \A i \in DOMAIN inbox : i \in DOMAIN inbox' /\ inbox'[i] = inbox[i]
      /\ Accepting => \E i \in DOMAIN inbox' : inbox'[i].type = "observed" /\ inbox'[i].print = disk.print
  BY <1>1, <1>3, SendFits DEF notService
<1>6. Serves
  BY <1>1, <1>2, <1>4 DEF Serves, Typed, TypeOK
<1>7. Shows
  BY <1>1, <1>4 DEF Shows
<1>8. Guards
  BY <1>2, <1>4 DEF Guards
<1> QED BY <1>6, <1>7, <1>8

LEMMA AckOK ==
  ASSUME NEW t \in {"error", "conflict"}
  PROVE  MessageOK([type |-> t, value |-> NoValue, print |-> 0, raw |-> FALSE])
<1> DEFINE m == [type |-> t, value |-> NoValue, print |-> 0, raw |-> FALSE]
<1>1. m \in Message /\ m.type = t /\ m.value = NoValue
  BY NoDeliveryIs DEF Message, Prints
<1> HIDE DEF m
<1>2. MessageOK(m)
  BY <1>1, NoDeliveryIs DEF MessageOK, Informs
<1> QED BY <1>2 DEF m

LEMMA FailFits ==
  ASSUME Typed, NEW f, Fail(f)
  PROVE  faults' \in 0 .. MaxFaults
BY BoundsAssumption DEF Fail, Typed, TypeOK

LEMMA DeliverStartsServes ==
  Typed /\ DeliverStarts => Serves /\ Shows /\ (Fresh => Guards)
<1> SUFFICES ASSUME Typed, DeliverStarts PROVE Serves /\ Shows /\ (Fresh => Guards)
  OBVIOUS
<1>1. /\ UNCHANGED <<notService, fileState, baseline, active>>
      /\ work # <<>> /\ Head(work).type = "deliver" /\ at = "start"
  BY DEF DeliverStarts, Working
<1> DEFINE Tells(t) == Send(t, NoValue, 0, FALSE)
           Answers == \E t \in {"error", "conflict"} : Tells(t)
           Works == Finish \/ Go("reread")
<1>2. \/ Answers /\ Works /\ faults' \in 0 .. MaxFaults
      \/ Expected = disk.print /\ Go("replace") /\ UNCHANGED inbox /\ faults' = faults
  BY FailFits DEF DeliverStarts, Typed, TypeOK
<1>3. ASSUME NEW t \in {"error", "conflict"}, Tells(t)
      PROVE  /\ inbox' \in Seq(Message) /\ InboxOK' /\ CloseAsked'
             /\ \A i \in DOMAIN inbox' : (i \in DOMAIN inbox /\ inbox'[i] = inbox[i]) \/ inbox'[i].type # "written"
             /\ \A i \in DOMAIN inbox : i \in DOMAIN inbox' /\ inbox'[i] = inbox[i]
  <2>1. closer' = closer /\ t # "begin_close" /\ t # "written"
    BY <1>1 DEF notService
  <2>2. MessageOK([type |-> t, value |-> NoValue, print |-> 0, raw |-> FALSE])
    BY AckOK
  <2>3. Send(t, NoValue, 0, FALSE)
    BY <1>3
  <2>4. /\ inbox' \in Seq(Message) /\ InboxOK' /\ CloseAsked'
        /\ \A i \in DOMAIN inbox' : (i \in DOMAIN inbox /\ inbox'[i] = inbox[i]) \/ inbox'[i].type = t
        /\ \A i \in DOMAIN inbox : i \in DOMAIN inbox' /\ inbox'[i] = inbox[i]
    BY <2>1, <2>2, <2>3, SendFits
  <2> QED BY <2>1, <2>4
<1> HIDE DEF Tells
<1>4. CASE Answers /\ Works /\ faults' \in 0 .. MaxFaults
  <2>1. /\ inbox' \in Seq(Message) /\ InboxOK' /\ CloseAsked'
        /\ \A i \in DOMAIN inbox' : (i \in DOMAIN inbox /\ inbox'[i] = inbox[i]) \/ inbox'[i].type # "written"
        /\ \A i \in DOMAIN inbox : i \in DOMAIN inbox' /\ inbox'[i] = inbox[i]
    BY <1>3, <1>4
  <2>2. /\ Served(work') /\ at' \in {"start", "reread"} /\ WorkerOK'
        /\ \A i \in DOMAIN work' : \E j \in DOMAIN work : work'[i] = work[j]
    <3>1. "reread" \in Stages(Head(work).type)
      BY <1>1 DEF Stages
    <3>2. CASE Finish
      BY <1>1, <3>2, Finishes
    <3>3. CASE Go("reread")
      BY <1>1, <3>1, <3>3, Goes
    <3> QED BY <1>4, <3>2, <3>3
  <2>3. Serves
    BY <1>1, <1>4, <2>1, <2>2 DEF Serves, Typed, TypeOK, fileState, notService
  <2>4. Shows
    BY <1>1, <2>1 DEF Shows, fileState
  <2>5. Guards
    BY <2>1, <2>2 DEF Guards
  <2> QED BY <2>3, <2>4, <2>5
<1>5. CASE Expected = disk.print /\ Go("replace") /\ UNCHANGED inbox /\ faults' = faults
  <2>1. /\ inbox' \in Seq(Message) /\ InboxOK' /\ CloseAsked'
        /\ \A i \in DOMAIN inbox : i \in DOMAIN inbox' /\ inbox'[i] = inbox[i]
    BY <1>1, <1>5, InboxRests DEF notService
  <2>2. Served(work') /\ at' = "replace" /\ WorkerOK'
    <3>1. "replace" \in Stages(Head(work).type)
      BY <1>1 DEF Stages
    <3> QED BY <1>1, <1>5, <3>1, Goes
  <2>3. Serves
    BY <1>1, <1>5, <2>1, <2>2 DEF Serves, Typed, TypeOK, fileState, notService
  <2>4. Shows
    BY <1>1, <2>1 DEF Shows, fileState
  <2>5. Fresh => ~unseen
    BY <1>1, <1>5, WorkHead DEF Fresh, Expected
  <2> QED BY <2>3, <2>4, <2>5 DEF Guards
<1> QED BY <1>2, <1>4, <1>5

LEMMA StampServes ==
  Typed /\ Stamp => Serves /\ Shows /\ (Guarded => Guards)
<1> SUFFICES ASSUME Typed, Stamp PROVE Serves /\ Shows /\ (Guarded => Guards)
  OBVIOUS
<1> DEFINE v == Head(work).delivery.value
           m == [type |-> "written", value |-> v, print |-> disk.print, raw |-> FALSE]
<1>1. /\ UNCHANGED <<notService, fileState, active>> /\ Finish /\ at = "stamp" /\ work # <<>>
      /\ Head(work).type = "deliver"
  BY DEF Stamp, Working
<1>2. Served(work') /\ WorkerOK' /\ at' = "start"
  BY <1>1, Finishes
<1>3. MessageOK(m)
  <2>1. v \in Values /\ v # NoValue
    <3>1. OperationOK(Head(work)) /\ Head(work) \in Operation
      BY <1>1, WorkHead
    <3> QED BY <1>1, <3>1 DEF OperationOK, Operation, Delivery, Has
  <2>2. disk.print \in Prints
    BY DEF Typed, FileOK
  <2> HIDE DEF v
  <2>3. m \in Message /\ m.value = v /\ ~m.raw
    BY <2>1, <2>2 DEF Message
  <2> HIDE DEF m
  <2> QED BY <2>1, <2>3 DEF MessageOK
<1>4. /\ inbox' \in Seq(Message) /\ InboxOK' /\ CloseAsked'
      /\ \A i \in DOMAIN inbox : i \in DOMAIN inbox' /\ inbox'[i] = inbox[i]
      /\ faults' \in 0 .. MaxFaults /\ baseline' \in Prints
  <2>1. CASE Fail("stamp") /\ Send("error", NoValue, 0, FALSE) /\ UNCHANGED baseline
    <3>1. MessageOK([type |-> "error", value |-> NoValue, print |-> 0, raw |-> FALSE])
      BY AckOK
    <3>2. closer' = closer
      BY <1>1 DEF notService
    <3>3. faults' \in 0 .. MaxFaults /\ baseline' \in Prints
      BY <2>1, FailFits DEF Typed, TypeOK
    <3> QED BY <2>1, <3>1, <3>2, <3>3, SendFits
  <2>2. CASE Send("written", v, disk.print, FALSE) /\ baseline' = disk.print /\ UNCHANGED faults
    <3>1. closer' = closer
      BY <1>1 DEF notService
    <3>2. faults' \in 0 .. MaxFaults /\ baseline' \in Prints
      BY <2>2 DEF Typed, TypeOK, FileOK
    <3> HIDE DEF v
    <3> QED BY <1>3, <2>2, <3>1, <3>2, SendFits
  <2> QED BY <2>1, <2>2 DEF Stamp
<1>5. Serves
  BY <1>1, <1>2, <1>4 DEF Serves, Typed, TypeOK, fileState, notService
<1>6. Shows
  BY <1>1, <1>4 DEF Shows, fileState
<1>7. Guarded => Guards
  BY <1>1 DEF Guarded, Guards
<1> QED BY <1>5, <1>6, <1>7

LEMMA CleanupStartsServes ==
  Typed /\ CleanupStarts => Serves /\ Shows /\ (Fresh => Guards)
<1> SUFFICES ASSUME Typed, CleanupStarts PROVE Serves /\ Shows /\ (Fresh => Guards)
  OBVIOUS
<1>1. /\ UNCHANGED <<notService, fileState, baseline, active, faults, inbox>>
      /\ work # <<>> /\ Head(work).type = "cleanup" /\ at = "start"
      /\ Finish \/ (Go("unlink") /\ disk.print = Head(work).delivery.expected)
  BY DEF CleanupStarts, Working
<1>2. /\ inbox' \in Seq(Message) /\ InboxOK' /\ CloseAsked'
      /\ \A i \in DOMAIN inbox : i \in DOMAIN inbox' /\ inbox'[i] = inbox[i]
  BY <1>1, InboxRests DEF notService
<1>3. Served(work') /\ at' \in {"start", "unlink"} /\ WorkerOK'
      /\ \A i \in DOMAIN work' : \E j \in DOMAIN work : work'[i] = work[j]
  <2>1. "unlink" \in Stages(Head(work).type)
    BY <1>1 DEF Stages
  <2>2. CASE Finish
    BY <1>1, <2>2, Finishes
  <2>3. CASE Go("unlink")
    BY <1>1, <2>1, <2>3, Goes
  <2> QED BY <1>1, <2>2, <2>3
<1>4. Serves
  BY <1>1, <1>2, <1>3 DEF Serves, Typed, TypeOK, fileState, notService
<1>5. Shows
  BY <1>1, <1>2 DEF Shows, fileState
<1>6. Fresh => Guards
  <2>1. Fresh /\ unseen => Finish
    BY <1>1, WorkHead DEF Fresh
  <2>2. Finish => at' = "start"
    BY DEF Finish
  <2>3. inbox' = inbox
    BY <1>1
  <2> QED BY <1>3, <2>1, <2>2, <2>3 DEF Guards
<1> QED BY <1>4, <1>5, <1>6

\* A write and a removal: the file is the mount's own.
LEMMA WritesServe ==
  Typed /\ (Replace \/ Unlink) => Serves /\ unseen' = FALSE
<1>1. ASSUME Typed, Replace PROVE Serves /\ unseen' = FALSE
  <2>1. /\ work # <<>> /\ Head(work).type = "deliver" /\ Go("stamp") /\ unseen' = FALSE /\ young' = TRUE
        /\ disk' = [value |-> Head(work).delivery.value, raw |-> FALSE, print |-> NewPrint]
        /\ UNCHANGED <<notService, baseline, active, faults, inbox>>
    BY <1>1 DEF Replace, Working
  <2>2. FileOK(disk')
    <3>1. Head(work).delivery.value \in Values /\ Head(work).delivery.value # NoValue
      <4>1. OperationOK(Head(work)) /\ Head(work) \in Operation
        BY <1>1, <2>1, WorkHead
      <4> QED BY <2>1, <4>1 DEF OperationOK, Operation, Delivery, Has
    <3>2. NewPrint \in Prints
      BY <1>1, NewPrintFresh DEF Typed, Prints
    <3> QED BY <2>1, <3>1, <3>2 DEF FileOK
  <2>3. Served(work') /\ at' = "stamp" /\ WorkerOK'
    <3>1. "stamp" \in Stages(Head(work).type)
      BY <2>1 DEF Stages
    <3> QED BY <1>1, <2>1, <3>1, Goes
  <2>4. inbox' \in Seq(Message) /\ InboxOK' /\ CloseAsked'
    BY <1>1, <2>1, InboxRests DEF notService
  <2> QED BY <1>1, <2>1, <2>2, <2>3, <2>4 DEF Serves, Typed, TypeOK
<1>2. ASSUME Typed, Unlink PROVE Serves /\ unseen' = FALSE
  <2>1. /\ work # <<>> /\ Finish /\ unseen' = FALSE /\ young' = FALSE
        /\ disk' = [value |-> Absent, raw |-> FALSE, print |-> 0]
        /\ UNCHANGED <<notService, baseline, active, faults, inbox>>
    BY <1>2 DEF Unlink, Working
  <2>2. FileOK(disk')
    BY <2>1 DEF FileOK, Prints
  <2>3. Served(work') /\ at' = "start" /\ WorkerOK'
    BY <1>2, <2>1, Finishes
  <2>4. inbox' \in Seq(Message) /\ InboxOK' /\ CloseAsked'
    BY <1>2, <2>1, InboxRests DEF notService
  <2> QED BY <1>2, <2>1, <2>2, <2>3, <2>4 DEF Serves, Typed, TypeOK
<1> QED BY <1>1, <1>2

\* A foreign write has a fingerprint of its own.
LEMMA ForeignFits ==
  Typed /\ Foreign =>
    /\ Typed' /\ UNCHANGED <<service, inbox, context, closer, timedOut>>
    /\ unseen' => /\ young' /\ at \in {"start"} \cup Instants
                  /\ disk'.print \notin {0, session.print, session.inFlight.expected}
                  /\ \A i \in DOMAIN work : work[i].delivery.expected # disk'.print
                  /\ \A i \in DOMAIN inbox : inbox[i].print # disk'.print
<1> SUFFICES ASSUME Typed, Foreign
    PROVE  /\ Typed' /\ UNCHANGED <<service, inbox, context, closer, timedOut>>
           /\ unseen' => /\ young' /\ at \in {"start"} \cup Instants
                         /\ disk'.print \notin {0, session.print, session.inFlight.expected}
                         /\ \A i \in DOMAIN work : work[i].delivery.expected # disk'.print
                         /\ \A i \in DOMAIN inbox : inbox[i].print # disk'.print
  OBVIOUS
<1>1. PICK c \in ForeignEdits[foreigns + 1] :
        disk' = [value |-> c.value, raw |-> c.raw, print |-> IF c.value = Absent THEN 0 ELSE NewPrint]
  BY DEF Foreign
<1>2. /\ foreigns < Len(ForeignEdits) /\ foreigns' = foreigns + 1 /\ at \in {"start"} \cup Instants
      /\ unseen' = (disk'.value # Absent) /\ young' = unseen'
      /\ UNCHANGED <<spec, service, inbox, context, closer, timedOut>>
  BY DEF Foreign, Calm
<1>3. c \in Content /\ foreigns' \in 0 .. Len(ForeignEdits)
  <2>1. ForeignEdits \in Seq(SUBSET Content)
    BY ContentsAssumption
  <2>2. foreigns + 1 \in 1 .. Len(ForeignEdits) /\ Len(ForeignEdits) \in Nat
    BY <1>2, <2>1 DEF Typed, TypeOK
  <2>3. ForeignEdits[foreigns + 1] \in SUBSET Content
    BY <2>1, <2>2
  <2> QED BY <1>1, <1>2, <2>2, <2>3
<1>4. /\ NewPrint \in Nat \ {0} /\ NewPrint # session.print /\ NewPrint # session.inFlight.expected
      /\ \A i \in DOMAIN work : NewPrint # work[i].delivery.expected
      /\ \A i \in DOMAIN inbox : NewPrint # inbox[i].print
  BY NewPrintFresh DEF Typed
<1>5. FileOK(disk') /\ (disk'.value # Absent => disk'.print = NewPrint)
  BY <1>1, <1>3, <1>4 DEF FileOK, Content, Prints
<1>6. unseen' \in BOOLEAN /\ young' \in BOOLEAN
  BY <1>2
<1>7. disk' \in [value: Values \cup {Absent}, raw: BOOLEAN, print: Prints]
  BY <1>5 DEF FileOK
<1>8. TypeOK'
  BY <1>2, <1>3, <1>6, <1>7 DEF Typed, TypeOK, service, context
<1>9. Typed'
  BY <1>2, <1>5, <1>8 DEF Typed, service, context, InboxOK, EffectsWait, Matched, WorkerOK, CloseAsked
<1> QED BY <1>2, <1>4, <1>5, <1>9

\* close() goes on, and time passes.
LEMMA CloseFits ==
  Typed /\ (FlagClose \/ RefuseMessages \/ CloseEnds \/ TimePasses) =>
    /\ Typed' /\ UNCHANGED <<spec, fileState, service, timedOut>>
    /\ session'.print = session.print /\ session'.inFlight = session.inFlight
    /\ Accepting' => Accepting
    /\ \A i \in DOMAIN inbox : i \in DOMAIN inbox' /\ inbox'[i] = inbox[i]
    /\ \A i \in DOMAIN inbox' : inbox'[i].type = "written" => \E j \in DOMAIN inbox : inbox'[i] = inbox[j]
<1> DEFINE Goal ==
      /\ Typed' /\ UNCHANGED <<spec, fileState, service, timedOut>>
      /\ session'.print = session.print /\ session'.inFlight = session.inFlight
      /\ Accepting' => Accepting
      /\ \A i \in DOMAIN inbox : i \in DOMAIN inbox' /\ inbox'[i] = inbox[i]
      /\ \A i \in DOMAIN inbox' : inbox'[i].type = "written" => \E j \in DOMAIN inbox : inbox'[i] = inbox[j]
<1>1. ASSUME Typed, FlagClose PROVE Goal
  <2>1. /\ closer = "open" /\ closer' = "flagged" /\ mounted # "preparing"
        /\ UNCHANGED <<spec, fileState, service, inbox, context, timedOut>>
    BY <1>1 DEF FlagClose
  <2>2. TypeOK'
    BY <1>1, <2>1 DEF Typed, TypeOK, fileState, service, context
  <2>3. Typed'
    BY <1>1, <2>1, <2>2 DEF Typed, fileState, service, context, InboxOK, EffectsWait, Matched, WorkerOK, CloseAsked
  <2> QED BY <2>1, <2>3 DEF Accepting, context
<1>2. ASSUME Typed, CloseEnds PROVE Goal
  <2>1. /\ closer = "finishing" /\ closer' = "closed" /\ UNCHANGED <<spec, fileState, service, inbox, context, timedOut>>
    BY <1>2 DEF CloseEnds
  <2>2. TypeOK'
    BY <1>2, <2>1 DEF Typed, TypeOK, fileState, service, context
  <2>3. Typed'
    BY <1>2, <2>1, <2>2 DEF Typed, fileState, service, context, InboxOK, EffectsWait, Matched, WorkerOK, CloseAsked
  <2> QED BY <2>1, <2>3 DEF Accepting, context
<1>3. ASSUME Typed, RefuseMessages PROVE Goal
  <2> DEFINE m == [type |-> "begin_close", value |-> NoValue, print |-> 0, raw |-> FALSE]
             q == Append(inbox, m)
  <2>1. /\ closer = "flagged" /\ closer' = "refusing" /\ inbox' = q
        /\ UNCHANGED <<spec, fileState, service, context, timedOut>>
    BY <1>3 DEF RefuseMessages
  <2>2. m \in Message /\ m.type = "begin_close" /\ m.value # Absent
    BY NoDeliveryIs DEF Message, Prints
  <2> HIDE DEF m
  <2>3. MessageOK(m)
    BY <2>2 DEF MessageOK, Informs
  <2>4. inbox \in Seq(Message)
    BY <1>3 DEF Typed, TypeOK
  <2>5. /\ q \in Seq(Message)
        /\ \A i \in DOMAIN q : (i \in DOMAIN inbox /\ q[i] = inbox[i]) \/ q[i] = m
        /\ \A i \in DOMAIN inbox : i \in DOMAIN q /\ q[i] = inbox[i]
    BY <2>2, <2>4, AppendSeq
  <2> HIDE DEF q
  <2>6. InboxOK' /\ CloseAsked'
    <3>1. \A i \in DOMAIN q : MessageOK(q[i])
      BY <1>3, <2>3, <2>5 DEF Typed, InboxOK
    <3> QED BY <2>1, <3>1 DEF InboxOK, CloseAsked
  <2>7. TypeOK'
    BY <1>3, <2>1, <2>5 DEF Typed, TypeOK, fileState, service, context
  <2>8. Typed'
    BY <1>3, <2>1, <2>6, <2>7 DEF Typed, fileState, service, context, EffectsWait, Matched, WorkerOK
  <2>9. \A i \in DOMAIN inbox' : inbox'[i].type = "written" => \E j \in DOMAIN inbox : inbox'[i] = inbox[j]
    BY <2>1, <2>2, <2>5
  <2> QED BY <2>1, <2>5, <2>8, <2>9 DEF Accepting, context
<1>4. ASSUME Typed, TimePasses PROVE Goal
  <2>1. UNCHANGED <<spec, fileState, service, inbox, mounted, timer, root, turn, effects, edits, closer, timedOut>>
    BY <1>4 DEF TimePasses
  <2>2. /\ SessionOK(session') /\ session'.disk = session.disk /\ session'.print = session.print
        /\ session'.inFlight = session.inFlight
    <3>1. SessionOK(session)
      BY <1>4 DEF Typed
    <3>2. CASE session' = [session EXCEPT !.cooling = FALSE]
      <4>1. /\ session' \in Sessions /\ session'.tripped = session.tripped /\ session'.reasserts = session.reasserts
            /\ session'.disk = session.disk /\ session'.print = session.print
            /\ session'.inFlight = session.inFlight
        BY <3>1, <3>2 DEF SessionOK, Sessions
      <4> QED BY <3>1, <4>1 DEF SessionOK
    <3>3. CASE session' = [session EXCEPT !.backoff = FALSE]
      <4>1. /\ session' \in Sessions /\ session'.tripped = session.tripped /\ session'.reasserts = session.reasserts
            /\ session'.disk = session.disk /\ session'.print = session.print
            /\ session'.inFlight = session.inFlight
        BY <3>1, <3>3 DEF SessionOK, Sessions
      <4> QED BY <3>1, <4>1 DEF SessionOK
    <3> QED BY <1>4, <3>2, <3>3 DEF TimePasses, CoolDown, BackedOff
  <2>3. TypeOK'
    BY <1>4, <2>1, <2>2 DEF Typed, TypeOK, fileState, service, SessionOK, Sessions
  <2>4. Typed'
    BY <1>4, <2>1, <2>2, <2>3 DEF Typed, fileState, service, InboxOK, EffectsWait, Matched, WorkerOK, CloseAsked
  <2> QED BY <2>1, <2>2, <2>4 DEF Accepting
<1> QED BY <1>1, <1>2, <1>3, <1>4

-----------------------------------------------------------------------------
(* The type invariant. *)

LEMMA InitTyped ==
  ASSUME Init
  PROVE  Typed
<1> DEFINE m == [type |-> "attach", value |-> disk.value, print |-> disk.print, raw |-> disk.raw]
<1>1. PICK c \in Contents : disk = [value |-> c.value, raw |-> c.raw, print |-> IF c.value = Absent THEN 0 ELSE 1]
  BY DEF Init
<1>2. c \in Content
  BY ContentsAssumption
<1>3. FileOK(disk) /\ disk.print \in Nat /\ disk.value \in Values \ {NoValue} /\ disk.raw \in BOOLEAN
      /\ (disk.value = Absent => ~disk.raw)
  BY <1>1, <1>2 DEF FileOK, Content, Prints
<1>4. m \in Message /\ m.type = "attach" /\ m.value = disk.value /\ m.raw = disk.raw
  BY <1>3 DEF Message, Prints
<1>5. MessageOK(m)
  <2> HIDE DEF m
  <2> QED BY <1>3, <1>4 DEF MessageOK
<1>6. inbox = <<m>>
  BY DEF Init
<1> HIDE DEF m
<1>7. inbox \in Seq(Message) /\ InboxOK /\ CloseAsked
  <2>1. inbox \in Seq(Message) /\ \A i \in DOMAIN inbox : inbox[i] = m
    BY <1>4, <1>6, OneSeq
  <2> QED BY <1>4, <1>5, <2>1 DEF InboxOK, CloseAsked
<1>8. SessionOK(session)
  <2>1. session \in Sessions
    BY BoundsAssumption, NoDeliveryIs DEF Init, Sessions, Prints
  <2>2. session.reasserts = 0
    BY DEF Init
  <2> QED BY <2>1, <2>2, BoundsAssumption DEF SessionOK
<1>9. Served(work) /\ Waiting(effects)
  BY Empties DEF Init
<1>10. EffectsWait /\ Matched /\ WorkerOK
  BY NoSeq DEF Init, EffectsWait, Matched, WorkerOK
<1>11. root \in Values
  BY DEF Init, Values
<1>12. disk \in [value: Values \cup {Absent}, raw: BOOLEAN, print: Prints]
  BY <1>3 DEF FileOK
<1>13. edits \in 0 .. Len(Edits) /\ foreigns \in 0 .. Len(ForeignEdits) /\ faults \in 0 .. MaxFaults
  <2>1. Len(Edits) \in Nat /\ Len(ForeignEdits) \in Nat
    BY ContentsAssumption
  <2> QED BY <2>1, BoundsAssumption DEF Init
<1>14. young \in BOOLEAN /\ unseen \in BOOLEAN
  BY DEF Init
<1>15. TypeOK
  BY <1>7, <1>8, <1>9, <1>11, <1>12, <1>13, <1>14 DEF Init, TypeOK, SessionOK, Sessions, Served, Waiting, Prints
<1> QED BY <1>3, <1>7, <1>8, <1>9, <1>10, <1>15 DEF Typed

LEMMA Unchanging ==
  ASSUME Typed, UNCHANGED vars
  PROVE  Typed'
<1>1. UNCHANGED <<spec, disk, unseen, young, work, at, baseline, active, inbox, mounted, session, timer,
                  root, turn, effects, closer, timedOut, edits, foreigns, faults>>
  BY DEF vars, fileState, service, context
<1>2. TypeOK'
  BY <1>1 DEF Typed, TypeOK
<1> QED BY <1>1, <1>2 DEF Typed, InboxOK, EffectsWait, Matched, WorkerOK, CloseAsked

\* What the service does: it reads and compares, or it writes.
Looks == Broker \/ PollStarts \/ Read \/ DeliverStarts \/ Stamp \/ CleanupStarts
Writes == Replace \/ Unlink
Others == FlagClose \/ RefuseMessages \/ CloseEnds \/ TimePasses

LEMMA NextIs ==
  Next => Turns \/ Looks \/ Writes \/ Foreign \/ Others
BY DEF Next, Handle, Worker, Close, Turns, Handle, Looks, Writes, Others

LEMMA LooksServe ==
  Typed /\ Looks => Serves /\ Shows /\ (Fresh /\ Guarded => Guards)
BY BrokerServes, PollStartsServes, ReadServes, DeliverStartsServes, StampServes, CleanupStartsServes DEF Looks

\* Typed is inductive.
LEMMA NextTyped ==
  ASSUME Typed, [Next]_vars
  PROVE  Typed'
<1>1. CASE Turns
  BY <1>1, TurnsControls, ControlsTyped
<1>2. CASE Looks
  BY <1>2, LooksServe, ServesTyped
<1>3. CASE Writes
  BY <1>3, WritesServe, ServesTyped DEF Writes
<1>4. CASE Foreign
  BY <1>4, ForeignFits
<1>5. CASE Others
  BY <1>5, CloseFits DEF Others
<1>6. CASE UNCHANGED vars
  BY <1>6, Unchanging
<1> QED BY <1>1, <1>2, <1>3, <1>4, <1>5, <1>6, NextIs

\* Every variable keeps its type, and what the queues carry is well formed: a
\* delivery has a value, an activation is the first effect of its turn, a
\* waiting effect is about the delivery in flight, and the worker is in the
\* middle only of an operation that has such a stage (_mount_after_turn,
\* _mount_dispatch, service.submit and the worker of the registration).
THEOREM MountInductive == Spec => []Typed
<1>1. Init => Typed
  BY InitTyped
<1>2. Typed /\ [Next]_vars => Typed'
  BY NextTyped
<1> QED BY <1>1, <1>2, PTL DEF Spec

\* The type invariant that the runs check.
THEOREM MountTyped == Spec => []TypeOK
<1>1. Typed => TypeOK
  BY DEF Typed
<1> QED BY <1>1, MountInductive, PTL

-----------------------------------------------------------------------------
(* What somebody else wrote is seen. *)

\* As long as the controller takes messages, a file that was not shown to the
\* session is young, so that the broker polls it, or its observation waits.
Noticed == unseen /\ Accepting =>
  young \/ \E i \in DOMAIN inbox : inbox[i].type \in {"attach", "observed"} /\ inbox[i].print = disk.print

LEMMA TurnsNotice ==
  ASSUME Typed, Noticed, Turns
  PROVE  Noticed'
<1>1. Controls
  BY TurnsControls
<1>2. /\ disk' = disk /\ young' = young /\ closer' \in {closer, "flushing", "finishing"}
      /\ unseen' => unseen
  BY <1>1 DEF Controls, notController, Learns
<1>3. SUFFICES ASSUME unseen', Accepting', ~young'
               PROVE  \E i \in DOMAIN inbox' : inbox'[i].type \in {"attach", "observed"} /\ inbox'[i].print = disk'.print
  BY DEF Noticed, Accepting
<1>4. Accepting
  BY <1>2, <1>3 DEF Accepting
<1>5. PICK i \in DOMAIN inbox : inbox[i].type \in {"attach", "observed"} /\ inbox[i].print = disk.print
  BY <1>2, <1>3, <1>4 DEF Noticed
<1>6. CASE inbox' = inbox
  BY <1>2, <1>5, <1>6
<1>7. CASE inbox' # inbox
  <2>1. Reads /\ (Head(inbox).type \in {"attach", "observed"} => Head(inbox).print # disk.print)
    BY <1>1, <1>3, <1>7 DEF Controls, Learns
  <2>2. inbox \in Seq(Message) /\ inbox # <<>> /\ inbox' = Tail(inbox)
    BY <2>1 DEF Reads, Typed, TypeOK
  <2>3. Head(inbox) = inbox[1] /\ (i # 1 => i - 1 \in DOMAIN Tail(inbox) /\ Tail(inbox)[i - 1] = inbox[i])
    BY <2>2, TailSeq
  <2>4. i # 1
    BY <1>5, <2>1, <2>3
  <2> QED BY <1>2, <1>5, <2>2, <2>3, <2>4
<1> QED BY <1>6, <1>7

LEMMA NextNotices ==
  ASSUME Typed, Noticed, [Next]_vars
  PROVE  Noticed'
<1>1. CASE Turns
  BY <1>1, TurnsNotice
<1>2. CASE Looks
  <2>1. /\ Shows /\ closer' = closer
    BY <1>2, LooksServe DEF Serves, notService
  <2>2. SUFFICES ASSUME unseen', Accepting', ~young'
                 PROVE  \E i \in DOMAIN inbox' : inbox'[i].type \in {"attach", "observed"} /\ inbox'[i].print = disk'.print
    BY DEF Noticed, Accepting
  <2>3. unseen /\ Accepting /\ disk' = disk
    BY <2>1, <2>2 DEF Shows, Accepting
  <2>4. CASE young
    BY <2>1, <2>2, <2>3, <2>4 DEF Shows
  <2>5. CASE ~young
    BY <2>1, <2>3, <2>5 DEF Shows, Noticed
  <2> QED BY <2>4, <2>5
<1>3. CASE Writes
  BY <1>3, WritesServe DEF Writes, Noticed
<1>4. CASE Foreign
  BY <1>4, ForeignFits DEF Noticed
<1>5. CASE Others
  <2>1. /\ UNCHANGED fileState
        /\ Accepting' => Accepting
        /\ \A i \in DOMAIN inbox : i \in DOMAIN inbox' /\ inbox'[i] = inbox[i]
    BY <1>5, CloseFits DEF Others
  <2>2. disk' = disk /\ unseen' = unseen /\ young' = young
    BY <2>1 DEF fileState
  <2>3. SUFFICES ASSUME unseen', Accepting', ~young'
                 PROVE  \E i \in DOMAIN inbox' : inbox'[i].type \in {"attach", "observed"} /\ inbox'[i].print = disk'.print
    BY DEF Noticed, Accepting
  <2>4. PICK i \in DOMAIN inbox : inbox[i].type \in {"attach", "observed"} /\ inbox[i].print = disk.print
    BY <2>1, <2>2, <2>3 DEF Noticed
  <2>5. i \in DOMAIN inbox' /\ inbox'[i] = inbox[i]
    BY <2>1
  <2> QED BY <2>2, <2>4, <2>5
<1>6. CASE UNCHANGED vars
  BY <1>6 DEF Noticed, Accepting, vars, fileState
<1> QED BY <1>1, <1>2, <1>3, <1>4, <1>5, <1>6, NextIs

\* Whatever user, others, faults and close() do, and at whatever instants: when
\* sensing and writing have come to rest the session has been shown the file as
\* it is (_poll_locked and its racy window, _mount_observed).
THEOREM SeenAtRest == Spec => [](AtRest => ~unseen)
<1>1. Init => Noticed
  BY DEF Init, Noticed
<1>2. Typed /\ Noticed /\ [Next]_vars => Noticed'
  BY NextNotices
<1>3. Typed /\ Noticed => (AtRest => ~unseen)
  <2>1. SUFFICES ASSUME Typed, Noticed, AtRest, unseen PROVE FALSE
    OBVIOUS
  <2>2. Accepting /\ ~young /\ inbox = <<>>
    BY <2>1 DEF AtRest, Accepting, Closing
  <2> QED BY <2>1, <2>2, NoSeq DEF Noticed
<1> QED BY <1>1, <1>2, <1>3, MountInductive, PTL DEF Spec

-----------------------------------------------------------------------------
(* What somebody else wrote is not lost. *)

LEMMA TurnsFresh ==
  ASSUME Typed, Fresh, Guarded, Turns
  PROVE  Fresh' /\ Guarded'
<1>1. Controls
  BY TurnsControls
<1>2. disk' = disk /\ at' = at /\ (unseen' => unseen) /\ Learns
  BY <1>1 DEF Controls, notController, Learns
<1>3. Guarded'
  BY <1>2 DEF Guarded
<1>4. SUFFICES ASSUME unseen' PROVE Fresh'
  BY <1>3 DEF Fresh
<1>5. unseen
  BY <1>2, <1>4
<1>6. inbox \in Seq(Message)
  BY DEF Typed, TypeOK
<1>7. Reads => /\ Head(inbox) = inbox[1] /\ 1 \in DOMAIN inbox
               /\ \A i \in DOMAIN inbox' : i + 1 \in DOMAIN inbox /\ inbox'[i] = inbox[i + 1]
  BY <1>6, TailSeq DEF Reads
<1>8. session'.print # disk.print
  <2>1. session.print # disk.print
    BY <1>5 DEF Fresh
  <2>2. CASE session'.print # session.print
    <3>1. /\ Reads /\ Informs(Head(inbox)) /\ session'.print = Head(inbox).print
          /\ Head(inbox).type \in {"attach", "observed"} => Head(inbox).print # disk.print
      BY <1>2, <1>4, <2>2 DEF Learns
    <3>2. Head(inbox).type = "written" => Head(inbox).print # disk.print
      BY <1>5, <1>7, <3>1 DEF Fresh
    <3> QED BY <3>1, <3>2 DEF Informs
  <2> QED BY <2>1, <2>2
<1>9. session'.inFlight.expected # disk.print
  BY <1>2, <1>5, <1>8 DEF Learns, Fresh
<1>10. \A i \in DOMAIN inbox' : inbox'[i].type = "written" => inbox'[i].print # disk.print
  BY <1>2, <1>5, <1>7 DEF Learns, Fresh
<1>11. \A i \in DOMAIN work' : work'[i].delivery.expected # disk.print
  <2>1. PICK q : Served(q) /\ work' = work \o q /\ Expecting(q)
    BY <1>1 DEF Controls
  <2>2. \A i \in DOMAIN q : q[i].delivery.expected # disk.print
    BY <1>5, <1>9, <2>1 DEF Expecting, Fresh
  <2>3. \A i \in DOMAIN work' : \/ \E j \in DOMAIN work : work'[i] = work[j]
                                \/ \E j \in DOMAIN q : work'[i] = q[j]
    <3>1. work \in Seq(Operation) /\ q \in Seq(Operation)
      BY <2>1 DEF Typed, Served
    <3> DEFINE r == work \o q
    <3>2. \A i \in DOMAIN r : (i \in DOMAIN work /\ r[i] = work[i]) \/ (i - Len(work) \in DOMAIN q /\ r[i] = q[i - Len(work)])
      BY <3>1, ConcatSeq
    <3>3. work' = r
      BY <2>1
    <3> HIDE DEF r
    <3> QED BY <3>2, <3>3
  <2> QED BY <1>5, <2>2, <2>3 DEF Fresh
<1> QED BY <1>2, <1>5, <1>8, <1>9, <1>10, <1>11 DEF Fresh

LEMMA LooksFresh ==
  ASSUME Typed, Fresh, Guarded, Looks
  PROVE  Fresh' /\ Guarded'
<1>1. Serves /\ Shows /\ Guards
  BY LooksServe
<1>2. disk' = disk /\ unseen' = unseen /\ session' = session
  BY <1>1 DEF Shows, Serves, notService
<1>3. Guarded'
  BY <1>1, <1>2 DEF Guards, Guarded
<1>4. Fresh'
  BY <1>1, <1>2 DEF Guards, Fresh
<1> QED BY <1>3, <1>4

LEMMA OthersFresh ==
  ASSUME Typed, Fresh, Guarded, Others
  PROVE  Fresh' /\ Guarded'
<1>1. /\ UNCHANGED <<fileState, service>>
      /\ session'.print = session.print /\ session'.inFlight = session.inFlight
      /\ \A i \in DOMAIN inbox' : inbox'[i].type = "written" => \E j \in DOMAIN inbox : inbox'[i] = inbox[j]
  BY CloseFits DEF Others
<1>2. UNCHANGED <<disk, unseen, work, at>>
  BY <1>1 DEF fileState, service
<1> QED BY <1>1, <1>2 DEF Fresh, Guarded

\* The instants at which a file that is compared with what the session expects
\* cannot change before it is replaced, stamped or removed.
Undisturbed == Instants \subseteq {"read", "reread", "turn"}

LEMMA NextFresh ==
  ASSUME Undisturbed, Typed, Fresh, Guarded, [Next]_vars
  PROVE  Fresh' /\ Guarded'
<1>1. CASE Turns
  BY <1>1, TurnsFresh
<1>2. CASE Looks
  BY <1>2, LooksFresh
<1>3. CASE Writes
  BY <1>3, WritesServe DEF Writes, Fresh, Guarded
<1>4. CASE Foreign
  <2>1. UNCHANGED <<work, at, inbox, session>>
    BY <1>4, ForeignFits DEF service, context
  <2> QED BY <1>4, <2>1, ForeignFits DEF Fresh, Guarded, Undisturbed
<1>5. CASE Others
  BY <1>5, OthersFresh
<1>6. CASE UNCHANGED vars
  BY <1>6 DEF Fresh, Guarded, vars, fileState, service, context
<1> QED BY <1>1, <1>2, <1>3, <1>4, <1>5, <1>6, NextIs

\* Where nobody writes between the comparison of the fingerprint and the write
\* or removal that follows it, what somebody else wrote has a fingerprint that
\* neither the session, nor a delivery, nor an acknowledgement on its way names.
THEOREM FreshInductive ==
  ASSUME Undisturbed
  PROVE  Spec => [](Fresh /\ Guarded)
<1>1. Init => Fresh /\ Guarded
  BY DEF Init, Fresh, Guarded
<1>2. Typed /\ Fresh /\ Guarded /\ [Next]_vars => Fresh' /\ Guarded'
  BY NextFresh
<1> QED BY <1>1, <1>2, MountInductive, PTL DEF Spec

\* ... so that no delivery overwrites and no cleanup removes what the session
\* has not seen (_atomic_write, unregister), for any edits, faults and calls.
THEOREM NoUnseenLossAlways ==
  ASSUME Undisturbed
  PROVE  Spec => NoUnseenLoss
<1>1. Guarded => [Replace \/ Unlink => ~unseen]_vars
  BY DEF Guarded, Replace, Unlink, Working
<1> QED BY <1>1, FreshInductive, PTL DEF NoUnseenLoss

-----------------------------------------------------------------------------
(* The file and the cell agree, where every new content is a new one. *)

\* The values that cell, file, session and messages have.  A file that is missing
\* when the cell is mounted gives the cell the value null.
Around == {root, session.disk, session.synced, session.pending.value, session.inFlight.value, disk.value}
            \cup {inbox[i].value : i \in DOMAIN inbox}
            \cup (IF mounted = "preparing" THEN {Null} ELSE {})

\* What the user assigns and what somebody else writes is not there already;
\* somebody else does not delete the file, and no step of the service fails.
NewContents ==
  /\ edits' # edits => root' = NoValue \/ root' \notin Around
  /\ foreigns' # foreigns => /\ disk'.value # Absent
                             /\ disk'.value = Invalid \/ disk'.value \notin Around
  /\ faults' = faults

Live == mounted = "attached" /\ closer = "open"

\* The contents that are known, in their order: the session's, those in the
\* inbox, the file's.  One content has one fingerprint and none comes back; a
\* file that is there stays there.
Order ==
  /\ \A i, j \in DOMAIN inbox : Informs(inbox[i]) /\ Informs(inbox[j]) /\ i < j =>
       /\ inbox[j].print = session.print => inbox[i].print = session.print
       /\ inbox[i].print = disk.print => inbox[j].print = disk.print
       /\ inbox[i].value # Absent => inbox[j].value # Absent
       /\ inbox[i].print = inbox[j].print => inbox[i].value = inbox[j].value
  /\ \A i, k, j \in DOMAIN inbox :
       Informs(inbox[i]) /\ Informs(inbox[k]) /\ Informs(inbox[j]) /\ i < k /\ k < j
         /\ inbox[i].print = inbox[j].print => inbox[k].print = inbox[i].print
  /\ \A i \in DOMAIN inbox : Informs(inbox[i]) =>
       /\ session.print = disk.print => inbox[i].print = disk.print
       /\ session.disk # Absent => inbox[i].value # Absent
       /\ inbox[i].value # Absent => disk.value # Absent
       /\ inbox[i].print = disk.print => inbox[i].value = disk.value
       /\ inbox[i].print = session.print => inbox[i].value = session.disk
  /\ session.disk # Absent => disk.value # Absent
  /\ session.print = disk.print => session.disk = disk.value

\* The steps, as this order is concerned.
SameLine == /\ inbox' = inbox /\ disk' = disk
            /\ session'.disk = session.disk /\ session'.print = session.print
Takes == /\ Reads /\ disk' = disk
         /\ IF Informs(Head(inbox))
            THEN session'.disk = Head(inbox).value /\ session'.print = Head(inbox).print
            ELSE session'.disk = session.disk /\ session'.print = session.print
Grows(m) == /\ inbox' = Append(inbox, m) /\ MessageOK(m) /\ disk' = disk /\ session' = session
            /\ Informs(m) => m.value = disk.value /\ m.print = disk.print
Breaks == /\ inbox' = inbox /\ session' = session
          /\ disk'.print # session.print /\ \A i \in DOMAIN inbox : disk'.print # inbox[i].print
          /\ disk'.value # Absent

LEMMA SameOrder ==
  ASSUME Order, SameLine
  PROVE  Order'
BY DEF Order, SameLine

LEMMA TakesOrder ==
  ASSUME Typed, Order, Takes
  PROVE  Order'
<1>1. /\ 1 \in DOMAIN inbox /\ Head(inbox) = inbox[1] /\ disk' = disk
      /\ \A i \in DOMAIN inbox' : i + 1 \in DOMAIN inbox /\ inbox'[i] = inbox[i + 1]
      /\ \A i \in DOMAIN inbox' : i \in Nat /\ 1 < i + 1
  BY TailSeq DEF Typed, TypeOK, Takes, Reads
<1>2. \A i, j \in DOMAIN inbox' : i < j => i + 1 < j + 1
  BY <1>1
<1>3. CASE ~Informs(Head(inbox))
  BY <1>1, <1>2, <1>3 DEF Takes, Order
<1>4. CASE Informs(Head(inbox))
  <2>1. session'.disk = inbox[1].value /\ session'.print = inbox[1].print /\ Informs(inbox[1])
    BY <1>1, <1>4 DEF Takes
  <2>2. ASSUME NEW i \in DOMAIN inbox', NEW j \in DOMAIN inbox', Informs(inbox'[i]), Informs(inbox'[j]), i < j
        PROVE  /\ inbox'[j].print = session'.print => inbox'[i].print = session'.print
               /\ inbox'[i].print = disk'.print => inbox'[j].print = disk'.print
               /\ inbox'[i].value # Absent => inbox'[j].value # Absent
               /\ inbox'[i].print = inbox'[j].print => inbox'[i].value = inbox'[j].value
    BY <1>1, <1>2, <2>1, <2>2 DEF Order
  <2>3. ASSUME NEW i \in DOMAIN inbox', NEW k \in DOMAIN inbox', NEW j \in DOMAIN inbox',
               Informs(inbox'[i]), Informs(inbox'[k]), Informs(inbox'[j]), i < k, k < j,
               inbox'[i].print = inbox'[j].print
        PROVE  inbox'[k].print = inbox'[i].print
    BY <1>1, <1>2, <2>3 DEF Order
  <2>4. ASSUME NEW i \in DOMAIN inbox', Informs(inbox'[i])
        PROVE  /\ session'.print = disk'.print => inbox'[i].print = disk'.print
               /\ session'.disk # Absent => inbox'[i].value # Absent
               /\ inbox'[i].value # Absent => disk'.value # Absent
               /\ inbox'[i].print = disk'.print => inbox'[i].value = disk'.value
               /\ inbox'[i].print = session'.print => inbox'[i].value = session'.disk
    BY <1>1, <2>1, <2>4 DEF Order
  <2>5. /\ session'.disk # Absent => disk'.value # Absent
        /\ session'.print = disk'.print => session'.disk = disk'.value
    BY <1>1, <2>1 DEF Order
  <2> QED BY <2>2, <2>3, <2>4, <2>5 DEF Order
<1> QED BY <1>3, <1>4

LEMMA GrowsOrder ==
  ASSUME Typed, Order, NEW m, Grows(m)
  PROVE  Order'
<1> DEFINE n == Len(inbox) + 1
<1>1. /\ n \in DOMAIN inbox' /\ inbox'[n] = m /\ disk' = disk /\ session' = session
      /\ \A i \in DOMAIN inbox' : (i \in DOMAIN inbox /\ inbox'[i] = inbox[i]) \/ (i = n /\ inbox'[i] = m)
      /\ \A i \in DOMAIN inbox : i \in Nat /\ i < n
      /\ n \in Nat /\ \A i \in DOMAIN inbox' : i \in Nat /\ i <= n
  <2>1. inbox \in Seq(Message) /\ m \in Message
    BY DEF Typed, TypeOK, Grows, MessageOK
  <2> QED BY <2>1, AppendSeq DEF Grows
<1>2. Informs(m) => m.value = disk.value /\ m.print = disk.print
  BY DEF Grows
<1> HIDE DEF n
<1>3. ASSUME NEW i \in DOMAIN inbox', NEW j \in DOMAIN inbox', Informs(inbox'[i]), Informs(inbox'[j]), i < j
      PROVE  /\ inbox'[j].print = session'.print => inbox'[i].print = session'.print
             /\ inbox'[i].print = disk'.print => inbox'[j].print = disk'.print
             /\ inbox'[i].value # Absent => inbox'[j].value # Absent
             /\ inbox'[i].print = inbox'[j].print => inbox'[i].value = inbox'[j].value
  <2>1. i \in DOMAIN inbox /\ inbox'[i] = inbox[i]
    BY <1>1, <1>3
  <2>2. CASE j \in DOMAIN inbox /\ inbox'[j] = inbox[j]
    BY <1>1, <1>3, <2>1, <2>2 DEF Order
  <2>3. CASE inbox'[j] = m
    BY <1>1, <1>2, <1>3, <2>1, <2>3 DEF Order
  <2> QED BY <1>1, <2>2, <2>3
<1>4. ASSUME NEW i \in DOMAIN inbox', NEW k \in DOMAIN inbox', NEW j \in DOMAIN inbox',
             Informs(inbox'[i]), Informs(inbox'[k]), Informs(inbox'[j]), i < k, k < j,
             inbox'[i].print = inbox'[j].print
      PROVE  inbox'[k].print = inbox'[i].print
  <2>1. i \in DOMAIN inbox /\ inbox'[i] = inbox[i] /\ k \in DOMAIN inbox /\ inbox'[k] = inbox[k]
    BY <1>1, <1>4
  <2>2. CASE j \in DOMAIN inbox /\ inbox'[j] = inbox[j]
    BY <1>4, <2>1, <2>2 DEF Order
  <2>3. CASE inbox'[j] = m
    BY <1>2, <1>4, <2>1, <2>3 DEF Order
  <2> QED BY <1>1, <2>2, <2>3
<1>5. ASSUME NEW i \in DOMAIN inbox', Informs(inbox'[i])
      PROVE  /\ session'.print = disk'.print => inbox'[i].print = disk'.print
             /\ session'.disk # Absent => inbox'[i].value # Absent
             /\ inbox'[i].value # Absent => disk'.value # Absent
             /\ inbox'[i].print = disk'.print => inbox'[i].value = disk'.value
             /\ inbox'[i].print = session'.print => inbox'[i].value = session'.disk
  BY <1>1, <1>2, <1>5 DEF Order
<1>6. /\ session'.disk # Absent => disk'.value # Absent
      /\ session'.print = disk'.print => session'.disk = disk'.value
  BY <1>1 DEF Order
<1> QED BY <1>3, <1>4, <1>5, <1>6 DEF Order

LEMMA BreaksOrder ==
  ASSUME Order, Breaks
  PROVE  Order'
<1>1. /\ inbox' = inbox /\ session' = session /\ disk'.print # session.print /\ disk'.value # Absent
      /\ \A i \in DOMAIN inbox : disk'.print # inbox[i].print
  BY DEF Breaks
<1> QED BY <1>1 DEF Order

-----------------------------------------------------------------------------
\* The file is Absent only as the session found it; no fingerprint but its is 0.
Zero ==
  /\ disk.value = Absent <=> disk.print = 0
  /\ disk.value = Absent => session.print = 0 /\ session.inFlight.expected = 0
  /\ session.disk = Absent => session.print = 0
  /\ \A i \in DOMAIN inbox : Informs(inbox[i]) /\ inbox[i].value = Absent => inbox[i].print = 0

\* The delivery in flight waits in effects, is with the service, or is
\* acknowledged.  A delivery that met a conflict is followed by a poll.
Ack(m) == m.type \in {"written", "error", "conflict"}
Delivers(i) == work[i].type = "deliver" /\ ~(i = 1 /\ at \in {"reread", "read"})
Deliver(d) == [type |-> "deliver", force |-> FALSE, delivery |-> d]
NoDelivers == \A i \in DOMAIN work : ~Delivers(i)
NoAcks == \A i \in DOMAIN inbox : ~Ack(inbox[i])
One ==
  /\ \A i \in DOMAIN work : /\ work[i].type # "cleanup"
                            /\ Delivers(i) => work[i].delivery = session.inFlight /\ NoAcks
  /\ \A i, j \in DOMAIN work : Delivers(i) /\ Delivers(j) => i = j
  /\ \A i \in DOMAIN inbox : /\ inbox[i].type \notin {"attach", "error", "begin_close"}
                             /\ Ack(inbox[i]) => Has(session.inFlight)
                             /\ inbox[i].type = "written" => inbox[i].value = session.inFlight.value
  /\ \A i, j \in DOMAIN inbox : Ack(inbox[i]) /\ Ack(inbox[j]) => i = j
  /\ \/ effects \in {<<>>, <<Activation>>, <<ForcedPoll>>}
     \/ effects = <<Deliver(session.inFlight)>> /\ Has(session.inFlight) /\ NoDelivers /\ NoAcks

\* The session is to be shown the file once more.
Awaited == young \/ unseen \/ \E i \in DOMAIN inbox : inbox[i].type = "observed" /\ inbox[i].print = disk.print

\* A delivery that finds the file that it expects finds what the session knows,
\* and the session learns of nothing else before it learns of the write.
Writing ==
  /\ Has(session.inFlight) /\ session.inFlight.expected = disk.print => session.print = disk.print
  /\ at = "replace" => session.inFlight.expected = disk.print
  /\ at = "stamp" => /\ session.print = session.inFlight.expected /\ disk.print # session.print
                     /\ disk.value = session.inFlight.value /\ young
                     /\ \A i \in DOMAIN inbox : Informs(inbox[i]) => inbox[i].print = session.print
  /\ \A i \in DOMAIN inbox : inbox[i].type = "written" =>
       /\ session.print = session.inFlight.expected /\ inbox[i].print # session.print
       /\ \A j \in DOMAIN inbox : Informs(inbox[j]) /\ j < i => inbox[j].print = session.print
       /\ inbox[i].print = disk.print => Awaited
       /\ inbox[i].print = disk.print \/ unseen
  /\ \A i \in DOMAIN inbox : inbox[i].type = "conflict" => session.inFlight.expected # disk.print
  /\ session.print = disk.print \/ unseen \/ at = "stamp" \/ \E i \in DOMAIN inbox : inbox[i].type = "written"

\* A delivery that will be written, or is: any other one will meet a conflict.
Going == Has(session.inFlight) /\ \/ session.inFlight.expected = disk.print \/ at = "stamp"
                                  \/ \E i \in DOMAIN inbox : inbox[i].type = "written"

\* What somebody else wrote is new to the session as long as it was not shown.
Held == {root, session.disk, session.synced, session.pending.value, session.inFlight.value}
NewTo(v) == v = Invalid \/ v \notin Held
Other(i) == /\ Informs(inbox[i]) /\ inbox[i].print # session.print
            /\ \A j \in DOMAIN inbox : inbox[j].type = "written" => inbox[j].print # inbox[i].print
Novelty ==
  /\ unseen => /\ NewTo(disk.value)
               /\ \A i \in DOMAIN inbox : Other(i) /\ inbox[i].print # disk.print =>
                    inbox[i].value # disk.value \/ disk.value = Invalid
  /\ \A i \in DOMAIN inbox : Other(i) => NewTo(inbox[i].value)
  /\ \A i, j \in DOMAIN inbox : Other(i) /\ Other(j) /\ inbox[i].print # inbox[j].print =>
       inbox[i].value # inbox[j].value \/ inbox[i].value = Invalid

\* A sense error is about the content that the session knows, or will be corrected.
Marks == {Absent, Invalid}
Erring == session.senseError =>
  /\ Senses
  /\ ~(Has(session.pending) /\ Going)
  /\ session.disk \in Marks \/ (~Has(session.pending) /\ ~Has(session.inFlight) /\ Awaited)

\* The cell is requested, in flight or in the file, unless there is a content to
\* be seen first; in the middle of a turn it may be about to be requested.
Like(d, v) == d = v \/ (d = Absent /\ (v = Null \/ spec.mode = "rw"))
Even(s, going) ==
  \/ Has(s.pending) /\ s.pending.value = s.synced
  \/ ~Has(s.pending) /\ going /\ s.inFlight.value = s.synced
  \/ ~Has(s.pending) /\ ~going /\ Like(s.disk, s.synced)
Balanced == Even(session, Going) \/ unseen
Balance == Actuates /\ ~session.tripped /\ Cell # NoValue =>
  \/ session.synced = Cell /\ Balanced
  \/ turn = "busy" /\ Cell \notin {session.synced, session.disk}
Valued == /\ Senses /\ ~session.senseError => root # NoValue
          /\ session.tripped => spec.mode = "w"
          /\ {root, session.synced, session.pending.value, session.inFlight.value} \cap Marks = {}

Steady == Order /\ Zero /\ One /\ Writing /\ Novelty /\ Erring /\ Balance /\ Valued

\* Before the session is attached it has the first observation waiting.
Prepared ==
  /\ Len(inbox) = 1 /\ inbox[1].type = "attach"
  /\ work = <<>> /\ at = "start" /\ effects = <<>> /\ ~active
  /\ session.pending = NoDelivery /\ session.inFlight = NoDelivery
  /\ ~session.tripped /\ ~session.senseError /\ root \notin Marks
  /\ disk.print = inbox[1].print => disk.value = inbox[1].value
  /\ disk.print # inbox[1].print =>
       /\ unseen /\ disk.value \notin {Absent, Null}
       /\ disk.value = Invalid \/ disk.value \notin {root, inbox[1].value}
  /\ disk.value = Absent <=> disk.print = 0
  /\ inbox[1].value = Absent => inbox[1].print = 0

SyncInv == (mounted = "preparing" => Prepared) /\ (Live => Steady)

-----------------------------------------------------------------------------
\* The session's own deliveries.

\* A write that has begun is of the delivery in flight, which has no answer yet.
LEMMA AtWork ==
  ASSUME Typed, One, at \in {"replace", "stamp"} \/ (work # <<>> /\ Head(work).type = "deliver" /\ at = "start")
  PROVE  /\ 1 \in DOMAIN work /\ work[1] = Head(work) /\ Delivers(1) /\ Head(work).type = "deliver"
         /\ Head(work).delivery = session.inFlight /\ Has(session.inFlight) /\ NoAcks
         /\ \A j \in DOMAIN work : Delivers(j) => j = 1
<1>1. work # <<>>
  BY DEF Typed, WorkerOK
<1>2. /\ 1 \in DOMAIN work /\ Head(work) = work[1] /\ OperationOK(Head(work))
      /\ Head(work).type \in {"poll", "deliver", "cleanup"}
  BY <1>1, WorkHead
<1>3. Head(work).type = "deliver"
  BY <1>1, <1>2 DEF Typed, WorkerOK, Stages
<1>4. Delivers(1)
  BY <1>2, <1>3 DEF Delivers
<1> QED BY <1>2, <1>3, <1>4 DEF One, OperationOK

\* Somebody else's content is not what a delivery expects.
LEMMA UnseenStops ==
  ASSUME Typed, Fresh, Guarded, One, unseen
  PROVE  /\ at \notin {"replace", "stamp", "unlink"}
         /\ session.inFlight.expected # disk.print /\ session.print # disk.print
         /\ \A i \in DOMAIN inbox : inbox[i].type = "written" => inbox[i].print # disk.print
BY DEF Fresh, Guarded

\* At the head of the inbox: what the session knows, or something new to it
\* that it is shown before any delivery is written.
LEMMA HeadTells ==
  ASSUME Typed, Fresh, Guarded, Steady, inbox # <<>>, Head(inbox).type = "observed"
  PROVE  LET o == Head(inbox)
         IN /\ o.print = session.print => o.value = session.disk
            /\ o.print # session.print =>
                 /\ unseen /\ ~Going /\ \A i \in DOMAIN inbox : inbox[i].type # "written"
                 /\ Other(1) /\ NewTo(o.value) /\ o.value # Absent
<1> DEFINE o == Head(inbox)
<1>1. 1 \in DOMAIN inbox /\ o = inbox[1] /\ \A i \in DOMAIN inbox : i \in Nat /\ (i = 1 \/ 1 < i)
  BY TailSeq DEF Typed, TypeOK
<1>2. Informs(o) /\ inbox[1].type # "written"
  BY <1>1 DEF Informs
<1> HIDE DEF o
<1>3. o.print = session.print => o.value = session.disk
  BY <1>1, <1>2 DEF Steady, Order
<1>4. ASSUME o.print # session.print
      PROVE  /\ unseen /\ ~Going /\ \A i \in DOMAIN inbox : inbox[i].type # "written"
             /\ Other(1) /\ NewTo(o.value) /\ o.value # Absent
  <2>1. \A i \in DOMAIN inbox : inbox[i].type # "written"
    BY <1>1, <1>2, <1>4 DEF Steady, Writing
  <2>2. at # "stamp"
    BY <1>1, <1>2, <1>4 DEF Steady, Writing
  <2>3. session.print # disk.print
    BY <1>1, <1>2, <1>4 DEF Steady, Order
  <2>4. unseen
    BY <2>1, <2>2, <2>3 DEF Steady, Writing
  <2>5. ~Going
    BY <2>1, <2>2, <2>4 DEF Going, Fresh
  <2>6. Other(1)
    BY <1>1, <1>2, <1>4, <2>1 DEF Other
  <2>7. NewTo(o.value)
    BY <1>1, <2>6 DEF Steady, Novelty
  <2>8. o.value # Absent
    <3>1. CASE session.disk = Absent
      BY <1>1, <1>2, <1>4, <3>1 DEF Steady, Zero
    <3>2. CASE session.disk # Absent
      BY <1>1, <1>2, <3>2 DEF Steady, Order
    <3> QED BY <3>1, <3>2
  <2> QED BY <2>1, <2>4, <2>5, <2>6, <2>7, <2>8
<1> QED BY <1>3, <1>4 DEF o

-----------------------------------------------------------------------------
\* The service: steps that write nothing.

\* What the service leaves of its queue, with another poll perhaps.
Leaves(k) == \A i \in DOMAIN work' :
  \/ i + k \in DOMAIN work /\ work'[i] = work[i + k] /\ (Delivers(i)' => Delivers(i + k))
  \/ work'[i].type = "poll"

LEMMA LeavesOne ==
  ASSUME Typed, One, NEW k \in Nat, Leaves(k), session' = session, effects' = effects,
         \A i \in DOMAIN work' : i \in Nat,
         \A i \in DOMAIN inbox' : (i \in DOMAIN inbox /\ inbox'[i] = inbox[i]) \/ inbox'[i].type = "observed"
  PROVE  One'
<1>1. \A i \in DOMAIN work' : Delivers(i)' => i + k \in DOMAIN work /\ work'[i] = work[i + k] /\ Delivers(i + k)
  BY DEF Leaves, Delivers
<1>2. \A i \in DOMAIN inbox' : Ack(inbox'[i]) => i \in DOMAIN inbox /\ inbox'[i] = inbox[i]
  BY DEF Ack
<1>3. NoAcks => NoAcks'
  BY <1>2 DEF NoAcks
<1>4. NoDelivers => NoDelivers'
  BY <1>1 DEF NoDelivers
<1>5. \A i \in DOMAIN work' : /\ work'[i].type # "cleanup"
                              /\ Delivers(i)' => work'[i].delivery = session'.inFlight /\ NoAcks'
  <2>1. \A i \in DOMAIN work' : work'[i].type # "cleanup"
    BY DEF Leaves, One
  <2> QED BY <1>1, <1>3, <2>1 DEF One
<1>6. \A i, j \in DOMAIN work' : Delivers(i)' /\ Delivers(j)' => i = j
  BY <1>1 DEF One
<1>7. \A i \in DOMAIN inbox' : /\ inbox'[i].type \notin {"attach", "error", "begin_close"}
                               /\ Ack(inbox'[i]) => Has(session'.inFlight)
                               /\ inbox'[i].type = "written" => inbox'[i].value = session'.inFlight.value
  BY DEF One, Ack
<1>8. \A i, j \in DOMAIN inbox' : Ack(inbox'[i]) /\ Ack(inbox'[j]) => i = j
  BY <1>2 DEF One
<1>9. \/ effects' \in {<<>>, <<Activation>>, <<ForcedPoll>>}
      \/ effects' = <<Deliver(session'.inFlight)>> /\ Has(session'.inFlight) /\ NoDelivers' /\ NoAcks'
  BY <1>3, <1>4 DEF One
<1> QED BY <1>5, <1>6, <1>7, <1>8, <1>9 DEF One

LEMMA FinishLeaves ==
  ASSUME Typed, work # <<>>, ~Delivers(1), Finish
  PROVE  Leaves(1) /\ \A i \in DOMAIN work' : i \in Nat
<1>1. work' = Tail(work) /\ at' = "start" /\ work \in Seq(Operation)
  BY DEF Typed, Served, Finish
<1>2. \A i \in DOMAIN work' : i \in Nat /\ i + 1 \in DOMAIN work /\ work'[i] = work[i + 1] /\ i + 1 # 1
  BY <1>1, TailSeq
<1> QED BY <1>1, <1>2 DEF Leaves, Delivers

LEMMA GoLeaves ==
  ASSUME Typed, work' = work, at \in {"reread", "read"} /\ work # <<>> /\ Head(work).type = "deliver"
                                => at' \in {"reread", "read"}
  PROVE  Leaves(0) /\ \A i \in DOMAIN work' : i \in Nat
<1>1. work \in Seq(Operation)
  BY DEF Typed, Served
<1>2. \A i \in DOMAIN work : i \in Nat /\ i + 0 = i
  BY <1>1
<1>3. ASSUME 1 \in DOMAIN work
      PROVE  work # <<>> /\ Head(work) = work[1]
  BY <1>1, <1>3
<1> QED BY <1>2, <1>3 DEF Leaves, Delivers

\* The messages, the file and the session are as they were.
LEMMA QuietSteady ==
  ASSUME Steady, One', UNCHANGED <<spec, session, root, turn, inbox, disk, unseen, young>>,
         at' = "stamp" <=> at = "stamp",
         at' = "replace" => at = "replace" \/ session.inFlight.expected = disk.print
  PROVE  Steady'
<1>1. Order' /\ Zero'
  BY DEF Steady, Order, Zero
<1>2. Writing' /\ Going' = Going /\ Awaited' = Awaited
  BY DEF Steady, Writing, Going, Awaited
<1>3. Novelty'
  BY DEF Steady, Novelty, Other, NewTo, Held
<1>4. Erring'
  BY <1>2 DEF Steady, Erring, Senses
<1>5. Balance' /\ Valued'
  BY <1>2 DEF Steady, Balance, Balanced, Even, Valued, Like, Cell, Actuates, Senses
<1> QED BY <1>1, <1>2, <1>3, <1>4, <1>5 DEF Steady

LEMMA BrokerSteady ==
  ASSUME Typed, Steady, Broker
  PROVE  Steady'
<1>1. /\ work' = Append(work, Poll) /\ UNCHANGED <<spec, session, root, turn, effects, inbox, disk, unseen, young, at>>
  BY DEF Broker, notService, fileState
<1>2. work \in Seq(Operation)
  BY DEF Typed, Served
<1>3. Leaves(0) /\ \A i \in DOMAIN work' : i \in Nat
  <2>1. \A i \in DOMAIN work' : i \in Nat /\ i + 0 = i /\ ((i \in DOMAIN work /\ work'[i] = work[i]) \/ work'[i] = Poll)
    BY <1>1, <1>2, PollsServed, AppendSeq
  <2> QED BY <1>1, <2>1, PollsServed DEF Leaves, Delivers
<1>4. One'
  BY <1>1, <1>3, LeavesOne DEF Steady
<1> QED BY <1>1, <1>4, QuietSteady

\* A poll, or what follows a conflict, has nothing to deliver.
LEMMA AtPoll ==
  ASSUME Typed, work # <<>>, Head(work).type = "poll" \/ at \in {"reread", "read"}
  PROVE  ~Delivers(1)
BY WorkHead DEF Delivers

LEMMA PollStartsSteady ==
  ASSUME Typed, Steady, PollStarts
  PROVE  Steady'
<1>1. /\ UNCHANGED <<spec, session, root, turn, effects, inbox, disk, unseen, young>>
      /\ work # <<>> /\ (Finish \/ Go("read"))
      /\ (Head(work).type = "poll" /\ at = "start") \/ (Head(work).type = "deliver" /\ at = "reread")
  BY DEF PollStarts, notService, fileState, Working
<1>2. ~Delivers(1)
  BY <1>1, AtPoll
<1>3. \E k \in Nat : Leaves(k) /\ \A i \in DOMAIN work' : i \in Nat
  <2>1. CASE Finish
    BY <1>1, <1>2, <2>1, FinishLeaves
  <2>2. CASE Go("read")
    BY <1>1, <2>2, GoLeaves DEF Go
  <2> QED BY <1>1, <2>1, <2>2
<1>4. One'
  BY <1>1, <1>3, LeavesOne DEF Steady
<1>5. at # "stamp" /\ at' # "stamp" /\ at' # "replace"
  BY <1>1 DEF Finish, Go
<1> QED BY <1>1, <1>4, <1>5, QuietSteady

-----------------------------------------------------------------------------
\* The service: messages, and the write.

LEMMA Grown ==
  ASSUME Typed, NEW m, MessageOK(m), inbox' = Append(inbox, m)
  PROVE  \E n \in Nat :
           /\ n \in DOMAIN inbox' /\ inbox'[n] = m
           /\ \A i \in DOMAIN inbox : i \in DOMAIN inbox' /\ inbox'[i] = inbox[i] /\ i < n
           /\ \A i \in DOMAIN inbox' : (i \in DOMAIN inbox /\ inbox'[i] = inbox[i]) \/ (i = n /\ inbox'[i] = m)
           /\ \A i \in DOMAIN inbox' : i \in Nat /\ i <= n
<1>1. inbox \in Seq(Message) /\ m \in Message
  BY DEF Typed, TypeOK, MessageOK
<1>2. Len(inbox) + 1 \in Nat /\ DOMAIN inbox = 1 .. Len(inbox)
  BY <1>1
<1> QED BY <1>1, <1>2, AppendSeq

LEMMA ReadSteady ==
  ASSUME Typed, closer = "open", Steady, Read
  PROVE  Steady'
<1> DEFINE m == [type |-> "observed", value |-> disk.value, print |-> disk.print, raw |-> disk.raw]
<1>1. /\ UNCHANGED <<spec, session, root, turn, effects, disk, unseen>>
      /\ at = "read" /\ Finish /\ at' = "start" /\ work # <<>> /\ inbox' = Append(inbox, m)
  BY DEF Read, notService, Finish, Send, Accepting, Typed, WorkerOK
<1>2. MessageOK(m) /\ m.type = "observed" /\ m.value = disk.value /\ m.print = disk.print
  <2>1. /\ disk.value \in Values \cup {Absent} /\ disk.value # NoValue /\ disk.raw \in BOOLEAN
        /\ disk.print \in Prints /\ (disk.value = Absent => ~disk.raw)
    BY NoDeliveryIs DEF Typed, FileOK
  <2>2. m \in Message /\ m.type = "observed" /\ m.value = disk.value /\ m.print = disk.print /\ m.raw = disk.raw
    BY <2>1 DEF Message
  <2> HIDE DEF m
  <2> QED BY <2>1, <2>2 DEF MessageOK
<1> HIDE DEF m
<1>3. PICK n \in Nat :
        /\ n \in DOMAIN inbox' /\ inbox'[n] = m
        /\ \A i \in DOMAIN inbox : i \in DOMAIN inbox' /\ inbox'[i] = inbox[i] /\ i < n
        /\ \A i \in DOMAIN inbox' : (i \in DOMAIN inbox /\ inbox'[i] = inbox[i]) \/ (i = n /\ inbox'[i] = m)
        /\ \A i \in DOMAIN inbox' : i \in Nat /\ i <= n
  BY <1>1, <1>2, Grown
<1>4. Order'
  BY <1>1, <1>2, GrowsOrder DEF Steady, Grows
<1>5. Zero'
  BY <1>1, <1>2, <1>3 DEF Steady, Zero
<1>6. One'
  BY <1>1, <1>2, <1>3, AtPoll, FinishLeaves, LeavesOne DEF Steady
<1>7. Awaited'
  BY <1>1, <1>2, <1>3 DEF Awaited
<1>8. \A i \in DOMAIN inbox' : inbox'[i].type \in {"written", "conflict"} => i \in DOMAIN inbox /\ inbox'[i] = inbox[i]
  BY <1>2, <1>3
<1>9. Going' = Going
  <2>1. (\E i \in DOMAIN inbox' : inbox'[i].type = "written") <=> (\E i \in DOMAIN inbox : inbox[i].type = "written")
    BY <1>3, <1>8
  <2> QED BY <1>1, <2>1 DEF Going
<1>10. Writing'
  <2>1. \A i \in DOMAIN inbox' : inbox'[i].type = "written" =>
          /\ session'.print = session'.inFlight.expected /\ inbox'[i].print # session'.print
          /\ \A j \in DOMAIN inbox' : Informs(inbox'[j]) /\ j < i => inbox'[j].print = session'.print
          /\ inbox'[i].print = disk'.print => Awaited'
          /\ inbox'[i].print = disk'.print \/ unseen'
    BY <1>1, <1>3, <1>7, <1>8 DEF Steady, Writing
  <2>2. \/ session'.print = disk'.print \/ unseen'
        \/ \E i \in DOMAIN inbox' : inbox'[i].type = "written"
    BY <1>1, <1>3 DEF Steady, Writing
  <2> QED BY <1>1, <1>8, <2>1, <2>2 DEF Steady, Writing
<1>11. \A i \in DOMAIN inbox : Other(i)' => Other(i)
  BY <1>1, <1>3 DEF Other
<1>12. Other(n)' => unseen /\ NewTo(disk.value)
  BY <1>1, <1>2, <1>3 DEF Other, Steady, Writing, Novelty
<1>13. Novelty'
  <2>1. Held' = Held
    BY <1>1 DEF Held
  <2>2. unseen' => /\ disk'.value = Invalid \/ disk'.value \notin Held'
                   /\ \A i \in DOMAIN inbox' : Other(i)' /\ inbox'[i].print # disk'.print =>
                        inbox'[i].value # disk'.value \/ disk'.value = Invalid
    BY <1>1, <1>2, <1>3, <1>11, <2>1 DEF Steady, Novelty, NewTo
  <2>3. \A i \in DOMAIN inbox' : Other(i)' => inbox'[i].value = Invalid \/ inbox'[i].value \notin Held'
    BY <1>2, <1>3, <1>11, <1>12, <2>1 DEF Steady, Novelty, NewTo
  <2>4. ASSUME NEW i \in DOMAIN inbox', NEW j \in DOMAIN inbox', Other(i)', Other(j)', inbox'[i].print # inbox'[j].print
        PROVE  inbox'[i].value # inbox'[j].value \/ inbox'[i].value = Invalid
    <3>1. CASE i \in DOMAIN inbox /\ j \in DOMAIN inbox
      BY <1>3, <1>11, <2>4, <3>1 DEF Steady, Novelty
    <3>2. CASE i = n \/ j = n
      BY <1>2, <1>3, <1>11, <1>12, <2>4, <3>2 DEF Steady, Novelty
    <3> QED BY <1>3, <3>1, <3>2
  <2> QED BY <2>2, <2>3, <2>4 DEF Novelty, NewTo
<1>14. Erring'
  BY <1>1, <1>7, <1>9 DEF Steady, Erring, Senses
<1>15. Balance' /\ Valued'
  BY <1>1, <1>9 DEF Steady, Balance, Balanced, Even, Valued, Like, Cell, Actuates, Senses
<1> QED BY <1>4, <1>5, <1>6, <1>10, <1>13, <1>14, <1>15 DEF Steady

\* A delivery is compared with the file: it is about to be written, or it met a conflict.
LEMMA DeliverStartsSteady ==
  ASSUME Typed, closer = "open", Steady, DeliverStarts, faults' = faults
  PROVE  Steady'
<1> DEFINE m == [type |-> "conflict", value |-> NoValue, print |-> 0, raw |-> FALSE]
<1>1. /\ UNCHANGED <<spec, session, root, turn, effects, disk, unseen, young>>
      /\ work # <<>> /\ Head(work).type = "deliver" /\ at = "start"
  BY DEF DeliverStarts, notService, fileState, Working
<1>2. /\ 1 \in DOMAIN work /\ Delivers(1) /\ Head(work).delivery = session.inFlight
      /\ Has(session.inFlight) /\ NoAcks /\ \A j \in DOMAIN work : Delivers(j) => j = 1
  BY <1>1, AtWork DEF Steady
<1>3. faults \in Nat /\ faults' # faults + 1
  BY DEF Typed, TypeOK
<1>4. ~(Expected # 0 /\ disk.print = 0)
  BY <1>2 DEF Steady, Zero, Expected
<1>5. \/ Expected = disk.print /\ Go("replace") /\ inbox' = inbox
      \/ Expected # disk.print /\ Go("reread") /\ Send("conflict", NoValue, 0, FALSE)
  BY <1>3, <1>4 DEF DeliverStarts, Fail
<1>6. CASE Expected = disk.print /\ Go("replace") /\ inbox' = inbox
  <2>1. One'
    BY <1>1, <1>6, GoLeaves, LeavesOne DEF Steady, Go
  <2> QED BY <1>1, <1>2, <1>6, <2>1, QuietSteady DEF Go, Expected
<1>7. CASE Expected # disk.print /\ Go("reread") /\ Send("conflict", NoValue, 0, FALSE)
  <2>1. inbox' = Append(inbox, m) /\ at' = "reread" /\ work' = work /\ session.inFlight.expected # disk.print
    BY <1>2, <1>7 DEF Send, Go, Expected
  <2>2. MessageOK(m) /\ m.type = "conflict"
    BY AckOK
  <2> HIDE DEF m
  <2>3. PICK n \in Nat :
          /\ n \in DOMAIN inbox' /\ inbox'[n] = m
          /\ \A i \in DOMAIN inbox : i \in DOMAIN inbox' /\ inbox'[i] = inbox[i] /\ i < n
          /\ \A i \in DOMAIN inbox' : (i \in DOMAIN inbox /\ inbox'[i] = inbox[i]) \/ (i = n /\ inbox'[i] = m)
          /\ \A i \in DOMAIN inbox' : i \in Nat /\ i <= n
    BY <2>1, <2>2, Grown
  <2>4. Order' /\ Zero'
    <3>1. Order'
      BY <1>1, <2>1, <2>2, GrowsOrder DEF Steady, Grows, Informs
    <3> QED BY <1>1, <2>2, <2>3, <3>1 DEF Steady, Zero, Informs
  <2>5. \A i \in DOMAIN inbox : inbox[i].type \notin {"written", "conflict"}
    BY <1>2 DEF NoAcks, Ack
  <2>6. \A i \in DOMAIN inbox' : inbox'[i].type # "written"
    BY <2>2, <2>3, <2>5
  <2>7. One'
    <3>1. NoDelivers'
      BY <1>2, <2>1 DEF NoDelivers, Delivers
    <3>2. \A i \in DOMAIN inbox' : Ack(inbox'[i]) => i = n
      BY <1>2, <2>3 DEF NoAcks
    <3>3. effects \in {<<>>, <<Activation>>, <<ForcedPoll>>}
      BY <1>2 DEF Steady, One, NoDelivers
    <3>4. \A i \in DOMAIN inbox' : /\ inbox'[i].type \notin {"attach", "error", "begin_close"}
                                   /\ Ack(inbox'[i]) => Has(session'.inFlight)
                                   /\ inbox'[i].type = "written" => inbox'[i].value = session'.inFlight.value
      BY <1>1, <1>2, <2>2, <2>3, <2>6 DEF Steady, One
    <3>5. \A i \in DOMAIN work' : work'[i].type # "cleanup" /\ ~Delivers(i)'
      BY <2>1, <3>1 DEF Steady, One, NoDelivers
    <3> QED BY <1>1, <3>2, <3>3, <3>4, <3>5 DEF One
  <2>8. Going' = Going
    BY <1>1, <2>1, <2>5, <2>6 DEF Going
  <2>9. Writing'
    BY <1>1, <2>1, <2>2, <2>3, <2>5, <2>6 DEF Steady, Writing
  <2>10. Awaited => Awaited'
    BY <1>1, <2>3 DEF Awaited
  <2>11. \A i \in DOMAIN inbox' : Other(i)' => i \in DOMAIN inbox /\ inbox'[i] = inbox[i] /\ Other(i)
    BY <1>1, <2>2, <2>3, <2>5 DEF Other, Informs
  <2>12. Novelty'
    <3>1. Held' = Held
      BY <1>1 DEF Held
    <3> QED BY <1>1, <2>3, <2>11, <3>1 DEF Steady, Novelty, NewTo
  <2>13. Erring'
    BY <1>1, <2>8, <2>10 DEF Steady, Erring, Senses
  <2>14. Balance' /\ Valued'
    BY <1>1, <2>8 DEF Steady, Balance, Balanced, Even, Valued, Like, Cell, Actuates, Senses
  <2> QED BY <2>4, <2>7, <2>9, <2>12, <2>13, <2>14 DEF Steady
<1> QED BY <1>5, <1>6, <1>7

\* The write of the delivery in flight, over what the session knows.
LEMMA ReplaceSteady ==
  ASSUME Typed, Guarded, Steady, Replace
  PROVE  Steady'
<1>1. /\ UNCHANGED <<spec, session, root, turn, effects, inbox>> /\ work' = work /\ at' = "stamp"
      /\ at = "replace" /\ unseen' = FALSE /\ young' = TRUE
      /\ disk' = [value |-> Head(work).delivery.value, raw |-> FALSE, print |-> NewPrint]
  BY DEF Replace, notService, Working, Go
<1>2. /\ 1 \in DOMAIN work /\ Delivers(1) /\ Head(work).delivery = session.inFlight /\ Has(session.inFlight) /\ NoAcks
      /\ \A j \in DOMAIN work : Delivers(j) => j = 1
  BY <1>1, AtWork DEF Steady
<1>3. /\ disk'.value = session.inFlight.value /\ disk'.print # 0 /\ disk'.print # session.print
      /\ disk'.print # session.inFlight.expected /\ \A i \in DOMAIN inbox : disk'.print # inbox[i].print
  BY <1>1, <1>2, NewPrintFresh DEF Typed
<1>4. disk'.value # Absent
  BY <1>3 DEF Steady, Valued, Marks
<1>5. ~unseen /\ session.print = disk.print /\ session.inFlight.expected = disk.print
  BY <1>1, <1>2 DEF Guarded, Steady, Writing
<1>6. Order'
  BY <1>1, <1>3, <1>4, BreaksOrder DEF Steady, Breaks
<1>7. Zero'
  BY <1>1, <1>3, <1>4 DEF Steady, Zero
<1>8. One'
  BY <1>1, GoLeaves, LeavesOne DEF Steady
<1>9. \A i \in DOMAIN inbox : inbox[i].type \notin {"written", "conflict"}
  BY <1>2 DEF NoAcks, Ack
<1>10. \A i \in DOMAIN inbox : Informs(inbox[i]) => inbox[i].print = session.print
  BY <1>5 DEF Steady, Order
<1>11. Writing'
  BY <1>1, <1>3, <1>5, <1>9, <1>10 DEF Writing
<1>12. Going /\ Going'
  BY <1>1, <1>2, <1>5 DEF Going
<1>13. Novelty'
  BY <1>1, <1>10 DEF Novelty, Other
<1>14. Erring'
  BY <1>1, <1>2, <1>12 DEF Steady, Erring, Senses
<1>15. Balance' /\ Valued'
  BY <1>1, <1>5, <1>12 DEF Steady, Balance, Balanced, Even, Valued, Like, Cell, Actuates, Senses
<1> QED BY <1>6, <1>7, <1>8, <1>11, <1>13, <1>14, <1>15 DEF Steady

\* The acknowledgement.
LEMMA StampSteady ==
  ASSUME Typed, closer = "open", Steady, Stamp, faults' = faults
  PROVE  Steady'
<1> DEFINE m == [type |-> "written", value |-> Head(work).delivery.value, print |-> disk.print, raw |-> FALSE]
<1>1. /\ UNCHANGED <<spec, session, root, turn, effects, disk, unseen, young>>
      /\ at = "stamp" /\ Finish /\ at' = "start" /\ work' = Tail(work) /\ work # <<>>
  BY DEF Stamp, notService, fileState, Finish, Working
<1>2. faults \in Nat /\ faults' # faults + 1
  BY DEF Typed, TypeOK
<1>3. inbox' = Append(inbox, m)
  BY <1>2 DEF Stamp, Fail, Send
<1>4. /\ 1 \in DOMAIN work /\ Delivers(1) /\ Head(work).delivery = session.inFlight /\ Has(session.inFlight) /\ NoAcks
      /\ \A j \in DOMAIN work : Delivers(j) => j = 1
  BY <1>1, AtWork DEF Steady
<1>5. /\ session.print = session.inFlight.expected /\ disk.print # session.print
      /\ disk.value = session.inFlight.value /\ young
      /\ \A i \in DOMAIN inbox : Informs(inbox[i]) => inbox[i].print = session.print
  BY <1>1 DEF Steady, Writing
<1>6. /\ MessageOK(m) /\ m.type = "written" /\ m.value = session.inFlight.value /\ m.value = disk.value
      /\ m.print = disk.print
  <2>1. m.type = "written" /\ m.value = session.inFlight.value /\ m.print = disk.print /\ m.raw = FALSE
    BY <1>4
  <2>2. disk.value \in Values \cup {Absent} /\ disk.print \in Prints /\ disk.value # NoValue
    BY NoDeliveryIs DEF Typed, FileOK
  <2>3. m \in Message
    BY <1>5, <2>1, <2>2 DEF Message
  <2> HIDE DEF m
  <2> QED BY <1>5, <2>1, <2>2, <2>3 DEF MessageOK
<1> HIDE DEF m
<1>7. PICK n \in Nat :
        /\ n \in DOMAIN inbox' /\ inbox'[n] = m
        /\ \A i \in DOMAIN inbox : i \in DOMAIN inbox' /\ inbox'[i] = inbox[i] /\ i < n
        /\ \A i \in DOMAIN inbox' : (i \in DOMAIN inbox /\ inbox'[i] = inbox[i]) \/ (i = n /\ inbox'[i] = m)
        /\ \A i \in DOMAIN inbox' : i \in Nat /\ i <= n
  BY <1>3, <1>6, Grown
<1>8. Order'
  BY <1>1, <1>3, <1>6, GrowsOrder DEF Steady, Grows
<1>9. Zero'
  BY <1>1, <1>6, <1>7 DEF Steady, Zero
<1>10. \A i \in DOMAIN inbox : inbox[i].type \notin {"written", "conflict"}
  BY <1>4 DEF NoAcks, Ack
<1>11. \A i \in DOMAIN inbox' : inbox'[i].type \in {"written", "conflict"} => i = n /\ inbox'[i] = m
  BY <1>7, <1>10
<1>12. One'
  <2>1. \A i \in DOMAIN work' : i \in Nat /\ i + 1 \in DOMAIN work /\ work'[i] = work[i + 1] /\ i + 1 # 1
    BY <1>1, TailSeq DEF Typed, Served
  <2>2. \A i \in DOMAIN work' : work'[i].type # "cleanup" /\ ~Delivers(i)'
    BY <1>4, <2>1 DEF Steady, One, Delivers
  <2>3. \A i \in DOMAIN inbox' : Ack(inbox'[i]) => i = n
    BY <1>4, <1>7 DEF NoAcks
  <2>4. effects \in {<<>>, <<Activation>>, <<ForcedPoll>>}
    BY <1>4 DEF Steady, One, NoDelivers
  <2>5. \A i \in DOMAIN inbox' : /\ inbox'[i].type \notin {"attach", "error", "begin_close"}
                                 /\ Ack(inbox'[i]) => Has(session'.inFlight)
                                 /\ inbox'[i].type = "written" => inbox'[i].value = session'.inFlight.value
    BY <1>1, <1>4, <1>6, <1>7, <1>11 DEF Steady, One
  <2> QED BY <1>1, <2>2, <2>3, <2>4, <2>5 DEF One
<1>13. Writing'
  <2>1. Awaited'
    BY <1>1, <1>5 DEF Awaited
  <2>2. \A i \in DOMAIN inbox' : inbox'[i].type = "written" =>
          /\ session'.print = session'.inFlight.expected /\ inbox'[i].print # session'.print
          /\ \A j \in DOMAIN inbox' : Informs(inbox'[j]) /\ j < i => inbox'[j].print = session'.print
          /\ inbox'[i].print = disk'.print => Awaited'
          /\ inbox'[i].print = disk'.print \/ unseen'
    BY <1>1, <1>5, <1>6, <1>7, <1>11, <2>1
  <2> QED BY <1>1, <1>5, <1>6, <1>7, <1>11, <2>2 DEF Writing
<1>14. Going /\ Going'
  BY <1>1, <1>4, <1>6, <1>7 DEF Going
<1>15. Novelty'
  <2>1. \A i \in DOMAIN inbox' : ~Other(i)'
    BY <1>1, <1>5, <1>6, <1>7 DEF Other
  <2>2. Held' = Held
    BY <1>1 DEF Held
  <2> QED BY <1>1, <2>1, <2>2 DEF Steady, Novelty, NewTo
<1>16. Awaited => Awaited'
  BY <1>1, <1>7 DEF Awaited
<1>17. Erring'
  BY <1>1, <1>4, <1>14 DEF Steady, Erring, Senses
<1>18. Balance' /\ Valued'
  BY <1>1, <1>14 DEF Steady, Balance, Balanced, Even, Valued, Like, Cell, Actuates, Senses
<1> QED BY <1>8, <1>9, <1>12, <1>13, <1>15, <1>17, <1>18 DEF Steady

\* There is no cleanup as long as the session is attached.
LEMMA NoCleanup ==
  ASSUME Typed, Steady
  PROVE  ~CleanupStarts /\ ~Unlink
<1>1. ASSUME work # <<>> PROVE Head(work).type # "cleanup"
  BY <1>1, WorkHead DEF Steady, One
<1> QED BY <1>1 DEF CleanupStarts, Unlink, Working

LEMMA WorkerSteady ==
  ASSUME Typed, Guarded, closer = "open", Steady, faults' = faults, Worker \/ Broker
  PROVE  Steady'
BY NoCleanup, BrokerSteady, PollStartsSteady, ReadSteady, DeliverStartsSteady, ReplaceSteady, StampSteady DEF Worker

\* Somebody else writes something new.
LEMMA ForeignSteady ==
  ASSUME Undisturbed, Typed, mounted = "attached", Steady, Foreign, NewContents
  PROVE  Steady'
<1>1. PICK c \in ForeignEdits[foreigns + 1] :
        disk' = [value |-> c.value, raw |-> c.raw, print |-> IF c.value = Absent THEN 0 ELSE NewPrint]
  BY DEF Foreign
<1>2. /\ UNCHANGED <<spec, session, root, turn, effects, inbox, work, at>>
      /\ unseen' = (disk'.value # Absent) /\ young' = unseen' /\ foreigns' = foreigns + 1
      /\ at \notin {"replace", "stamp"}
  BY DEF Foreign, service, context, Calm, Undisturbed
<1>3. foreigns \in Nat /\ foreigns' # foreigns
  <2>1. foreigns \in 0 .. Len(ForeignEdits) /\ Len(ForeignEdits) \in Nat
    BY ContentsAssumption DEF Typed, TypeOK
  <2> QED BY <1>2, <2>1
<1>4. disk'.value # Absent /\ (disk'.value = Invalid \/ disk'.value \notin Around)
  BY <1>3 DEF NewContents
<1>5. unseen' /\ young'
  BY <1>2, <1>4
<1>6. /\ disk'.print # 0 /\ disk'.print # session.print
      /\ disk'.print # session.inFlight.expected /\ \A i \in DOMAIN inbox : disk'.print # inbox[i].print
  BY <1>1, <1>4, NewPrintFresh DEF Typed
<1>7. Order' /\ Zero'
  BY <1>2, <1>4, <1>6, BreaksOrder DEF Steady, Breaks, Zero
<1>8. One'
  BY <1>2, GoLeaves, LeavesOne DEF Steady
<1>9. Writing'
  <2>1. Awaited' /\ unseen'
    BY <1>5 DEF Awaited
  <2> QED BY <1>2, <1>6, <2>1 DEF Steady, Writing
<1>10. \A i \in DOMAIN inbox : Other(i)' <=> Other(i)
  BY <1>2 DEF Other
<1>11. Novelty'
  <2>1. Held' = Held /\ (disk'.value = Invalid \/ disk'.value \notin Held)
    BY <1>2, <1>4 DEF Held, Around
  <2>2. \A i \in DOMAIN inbox : inbox[i].value # disk'.value \/ disk'.value = Invalid
    BY <1>4 DEF Around
  <2> QED BY <1>2, <1>10, <2>1, <2>2 DEF Steady, Novelty, NewTo
<1>12. Going' => Going
  BY <1>2, <1>6 DEF Going
<1>13. Erring'
  BY <1>2, <1>5, <1>12 DEF Steady, Erring, Senses, Awaited
<1>14. Balance' /\ Valued'
  BY <1>2, <1>5 DEF Steady, Balance, Balanced, Even, Valued, Cell, Actuates, Senses
<1> QED BY <1>7, <1>8, <1>9, <1>11, <1>13, <1>14 DEF Steady

-----------------------------------------------------------------------------
\* The turns that take no message.

\* The session, the inbox, the file and the queue as far as deliveries are concerned.
Settles ==
  /\ UNCHANGED <<spec, inbox, disk, unseen, young, work, at>>
  /\ session'.disk = session.disk /\ session'.print = session.print /\ session'.inFlight = session.inFlight

\* What becomes of the values of the session: none is one that is still to be shown.
Familiar == \A v \in Held' : v \in Held \cup {NoValue} \/ v \notin Around

LEMMA ValuesToShow ==
  ASSUME Typed
  PROVE  disk.value # NoValue /\ \A i \in DOMAIN inbox : Informs(inbox[i]) => inbox[i].value # NoValue
<1>1. disk.value \in (Values \ {NoValue}) \cup {Absent}
  BY DEF Typed, FileOK
<1> QED BY <1>1, NoDeliveryIs DEF Typed, InboxOK, MessageOK

LEMMA SettlesSteady ==
  ASSUME Typed, Steady, Settles, Familiar,
         effects' = effects \/ effects' \in {<<>>, <<Activation>>, <<ForcedPoll>>}
  PROVE  /\ Order' /\ Zero' /\ One' /\ Writing' /\ Novelty'
         /\ Going' = Going /\ Awaited' = Awaited
<1>1. Order'
  BY SameOrder DEF Settles, Steady, SameLine
<1>2. Zero'
  BY DEF Settles, Steady, Zero
<1>3. One'
  BY DEF Settles, Steady, One, Delivers, NoDelivers, NoAcks
<1>4. Awaited' = Awaited /\ Going' = Going
  BY DEF Settles, Awaited, Going
<1>5. Writing'
  BY <1>4 DEF Settles, Steady, Writing
<1>6. \A v \in Around : v # NoValue /\ v \in Held' => v \in Held
  BY DEF Familiar
<1>7. disk.value \in Around /\ \A i \in DOMAIN inbox : inbox[i].value \in Around
  BY DEF Around
<1>8. \A i \in DOMAIN inbox : Other(i)' <=> Other(i)
  BY DEF Settles, Other
<1>9. Novelty'
  <2>1. unseen' => /\ disk'.value = Invalid \/ disk'.value \notin Held'
                   /\ \A i \in DOMAIN inbox' : Other(i)' /\ inbox'[i].print # disk'.print =>
                        inbox'[i].value # disk'.value \/ disk'.value = Invalid
    BY <1>6, <1>7, <1>8, ValuesToShow DEF Settles, Steady, Novelty, NewTo
  <2>2. \A i \in DOMAIN inbox' : Other(i)' => inbox'[i].value = Invalid \/ inbox'[i].value \notin Held'
    BY <1>6, <1>7, <1>8, ValuesToShow DEF Settles, Steady, Novelty, NewTo, Other
  <2>3. \A i, j \in DOMAIN inbox' : Other(i)' /\ Other(j)' /\ inbox'[i].print # inbox'[j].print =>
          inbox'[i].value # inbox'[j].value \/ inbox'[i].value = Invalid
    BY <1>8 DEF Settles, Steady, Novelty
  <2> QED BY <2>1, <2>2, <2>3 DEF Novelty, NewTo
<1> QED BY <1>1, <1>2, <1>3, <1>4, <1>5, <1>9

\* A request is for its value, and makes it the one that is synced.
LEMMA RequestIs ==
  ASSUME NEW s, SessionOK(s), NEW v \in Values \cup {NoValue}, NEW f \in BOOLEAN
  PROVE  LET r == Request(s, v, f)
         IN /\ SameDisk(s, r) /\ r.senseError = s.senseError /\ r.tripped = s.tripped
            /\ IF s.tripped \/ v = NoValue THEN r = s
               ELSE Has(r.pending) /\ r.pending.value = v /\ r.synced = v
<1>1. s \in Sessions
  BY DEF SessionOK
<1> QED BY <1>1 DEF Request, Sessions, SameDisk, Has

LEMMA IdleEffects ==
  ASSUME Typed, Live, turn = "idle"
  PROVE  effects = <<>>
BY DEF Typed, EffectsWait, Live

LEMMA EditSteady ==
  ASSUME Typed, Live, Steady, Edit, NewContents
  PROVE  Steady'
<1>1. /\ UNCHANGED <<spec, inbox, disk, unseen, young, at>> /\ turn' = "busy" /\ edits' = edits + 1
      /\ Later([session EXCEPT !.senseError = FALSE], <<>>)
      /\ root' = NoValue => ~Senses
      /\ edits < Len(Edits) /\ root' \in Edits[edits + 1]
  BY DEF Edit, Begin, notShown, notController
<1>2. edits \in Nat /\ edits' # edits /\ edits + 1 \in DOMAIN Edits
  <2>1. edits \in 0 .. Len(Edits) /\ Len(Edits) \in Nat
    BY ContentsAssumption DEF Typed, TypeOK
  <2> QED BY <1>1, <2>1, ContentsAssumption
<1>3. root' = NoValue \/ root' \notin Around
  BY <1>2 DEF NewContents
<1>4. root' \notin Marks
  BY <1>1, <1>2, ContentsAssumption DEF Marks
<1>5. /\ session'.disk = session.disk /\ session'.print = session.print /\ session'.inFlight = session.inFlight
      /\ session'.senseError = FALSE /\ session'.pending = session.pending /\ session'.synced = session.synced
      /\ session'.tripped = session.tripped /\ work' = work
  BY <1>1 DEF Later, Typed, SessionOK, Sessions
<1>6. effects' = effects
  <2>1. effects' = effects \o <<>> /\ effects \in Seq(Operation)
    BY <1>1 DEF Later, Typed, Waiting
  <2> QED BY <2>1
<1>7. Settles /\ Familiar
  BY <1>1, <1>3, <1>5 DEF Settles, Familiar, Held
<1>8. /\ Order' /\ Zero' /\ One' /\ Writing' /\ Novelty' /\ Going' = Going /\ Awaited' = Awaited
  BY <1>6, <1>7, SettlesSteady
<1>9. Erring'
  BY <1>5 DEF Erring
<1>10. Balance'
  BY <1>1, <1>3, <1>5 DEF Balance, Cell, Around
<1>11. Valued'
  BY <1>1, <1>4, <1>5 DEF Steady, Valued, Senses
<1> QED BY <1>8, <1>9, <1>10, <1>11 DEF Steady

\* A step that leaves the session what it was, but for its timers.
LEMMA RestingSteady ==
  ASSUME Typed, Steady, Settles, root' = root, turn' \in {turn, "busy"},
         session'.pending = session.pending, session'.synced = session.synced,
         session'.senseError = session.senseError, session'.tripped = session.tripped,
         effects' = effects \/ effects' \in {<<>>, <<Activation>>, <<ForcedPoll>>}
  PROVE  Steady'
<1>1. Familiar
  BY DEF Familiar, Held, Settles
<1>2. /\ Order' /\ Zero' /\ One' /\ Writing' /\ Novelty' /\ Going' = Going /\ Awaited' = Awaited
  BY <1>1, SettlesSteady
<1>3. Erring'
  BY <1>2 DEF Settles, Steady, Erring, Senses
<1>4. Balance' /\ Valued'
  BY <1>2 DEF Settles, Steady, Balance, Balanced, Even, Valued, Like, Cell, Actuates, Senses
<1> QED BY <1>2, <1>3, <1>4 DEF Steady

LEMMA TickSteady ==
  ASSUME Typed, Live, Steady, Tick
  PROVE  Steady'
<1>1. /\ UNCHANGED <<spec, inbox, disk, unseen, young, at, session, effects, work, root>> /\ turn' = "busy"
  BY DEF Tick, Begin, notShown, notController, Live, Closing
<1> QED BY <1>1, RestingSteady DEF Settles

LEMMA TimeSteady ==
  ASSUME Typed, Steady, TimePasses
  PROVE  Steady'
<1>1. UNCHANGED <<spec, inbox, disk, unseen, young, at, effects, work, root, turn>>
  BY DEF TimePasses, fileState, service
<1>2. session \in Sessions
  BY DEF Typed, SessionOK
<1>3. /\ session'.disk = session.disk /\ session'.print = session.print /\ session'.inFlight = session.inFlight
      /\ session'.pending = session.pending /\ session'.synced = session.synced
      /\ session'.senseError = session.senseError /\ session'.tripped = session.tripped
  BY <1>2 DEF TimePasses, CoolDown, BackedOff, Sessions
<1> QED BY <1>1, <1>3, RestingSteady DEF Settles

LEMMA ClearExceptionSteady ==
  ASSUME Typed, Live, Steady, ClearException
  PROVE  Steady'
<1>1. /\ UNCHANGED <<spec, inbox, disk, unseen, young, at, session, work, root>>
      /\ turn' = "busy" /\ turn = "idle" /\ effects' = effects \o <<ForcedPoll>>
  BY DEF ClearException, Begin, Later, notShown, notController
<1>2. effects' = <<ForcedPoll>>
  BY <1>1, IdleEffects, PollsServed
<1> QED BY <1>1, <1>2, RestingSteady DEF Settles

LEMMA ClearErrorSteady ==
  ASSUME Typed, Live, Steady, ClearError
  PROVE  Steady'
<1> DEFINE s == [session EXCEPT !.error = FALSE, !.tripped = FALSE, !.reasserts = 0, !.backoff = FALSE]
<1>1. /\ UNCHANGED <<spec, inbox, disk, unseen, young, at, root, work>> /\ turn' = "busy"
      /\ session' = (IF Actuates THEN Request(s, Cell, FALSE) ELSE s) /\ effects' = effects \o <<>>
  BY DEF ClearError, Begin, Later, notShown, notController
<1>2. effects' = effects
  BY <1>1 DEF Typed, Waiting
<1>3. /\ SessionOK(s) /\ SameDisk(session, s) /\ s.pending = session.pending /\ s.synced = session.synced
      /\ s.senseError = session.senseError /\ s.tripped = FALSE
  <2>1. session \in Sessions /\ 0 \in 0 .. Threshold /\ 0 < Threshold
    BY BoundsAssumption DEF Typed, SessionOK
  <2>2. s \in Sessions
    BY <2>1 DEF Sessions
  <2>3. /\ s.reasserts = 0 /\ SameDisk(session, s) /\ s.pending = session.pending /\ s.synced = session.synced
        /\ s.senseError = session.senseError /\ s.tripped = FALSE
    BY <2>1 DEF Sessions, SameDisk
  <2> HIDE DEF s
  <2> QED BY <2>1, <2>2, <2>3 DEF SessionOK
<1>4. Cell \in Values \cup {NoValue}
  BY DEF Typed, TypeOK, Cell
<1> HIDE DEF s
<1>5. /\ SameDisk(s, session') /\ session'.senseError = session.senseError /\ session'.tripped = FALSE
      /\ IF Actuates /\ Cell # NoValue
         THEN Has(session'.pending) /\ session'.pending.value = Cell /\ session'.synced = Cell
         ELSE session'.pending = session.pending /\ session'.synced = session.synced
  BY <1>1, <1>3, <1>4, RequestIs DEF SameDisk
<1>6. Settles
  BY <1>1, <1>3, <1>5 DEF Settles, SameDisk
<1>7. Familiar
  BY <1>1, <1>5, <1>6 DEF Familiar, Held, Settles, Cell
<1>8. /\ Order' /\ Zero' /\ One' /\ Writing' /\ Novelty' /\ Going' = Going /\ Awaited' = Awaited
  BY <1>2, <1>6, <1>7, SettlesSteady
<1>9. Cell' = Cell
  BY <1>1, <1>5 DEF Cell
<1>10. Erring'
  <2>1. session.senseError => Cell = NoValue
    BY DEF Cell
  <2> QED BY <1>1, <1>5, <1>6, <1>8, <2>1 DEF Steady, Erring, Senses, Settles
<1>11. Balance'
  BY <1>1, <1>5, <1>9 DEF Balance, Balanced, Even, Actuates
<1>12. Valued'
  BY <1>1, <1>5, <1>6 DEF Steady, Valued, Senses, Cell, Settles
<1> QED BY <1>8, <1>10, <1>11, <1>12 DEF Steady

-----------------------------------------------------------------------------
\* The end of a turn.

LEMMA DispatchIs ==
  ASSUME NEW s, SessionOK(s)
  PROVE  LET t == Dispatch(s)
         IN /\ SessionOK(t) /\ t.disk = s.disk /\ t.print = s.print /\ t.synced = s.synced
            /\ t.senseError = s.senseError /\ t.tripped = s.tripped
            /\ \/ t = s
               \/ /\ ~Has(s.inFlight) /\ Has(s.pending) /\ t.pending = NoDelivery
                  /\ \/ t.inFlight = s.inFlight /\ Equivalent(s, s.pending)
                     \/ Has(t.inFlight) /\ t.inFlight.value = s.pending.value /\ t.inFlight.expected = s.print
<1>1. s \in Sessions
  BY DEF SessionOK
<1>2. SessionOK(Dispatch(s))
  BY DispatchFits
<1>3. s.pending \in Delivery
  BY <1>1 DEF Sessions
<1> QED BY <1>1, <1>2, <1>3 DEF Dispatch, Sessions, Has, Delivery

LEMMA ActuateIs ==
  ASSUME NEW s, SessionOK(s), NEW v \in Values \cup {NoValue}
  PROVE  LET r == Actuate(s, v)
         IN /\ SessionOK(r) /\ SameDisk(s, r) /\ r.senseError = s.senseError /\ r.tripped = s.tripped
            /\ IF ~Actuates \/ v \in {NoValue, s.synced} THEN r = s
               ELSE IF v = s.disk \/ s.tripped THEN r.pending = s.pending /\ r.synced = v
               ELSE Has(r.pending) /\ r.pending.value = v /\ r.synced = v
<1>1. s \in Sessions
  BY DEF SessionOK
<1>2. SessionOK(Actuate(s, v)) /\ SameDisk(s, Actuate(s, v))
  BY ActuateFits
<1> DEFINE n == Noted(s, v)
<1>n. /\ SessionOK(n) /\ n.senseError = s.senseError /\ n.tripped = s.tripped
      /\ n.pending = s.pending /\ n.synced = v
  BY <1>1 DEF SessionOK, Sessions, Noted
<1> HIDE DEF n
<1>3. LET u == Request(n, v, FALSE)
      IN /\ u.senseError = n.senseError /\ u.tripped = n.tripped
         /\ IF n.tripped \/ v = NoValue THEN u = n
            ELSE Has(u.pending) /\ u.pending.value = v /\ u.synced = v
  BY <1>n, RequestIs
<1>4. CASE ~Actuates \/ v \in {NoValue, s.synced}
  BY <1>2, <1>4 DEF Actuate
<1>5. CASE Actuates /\ v \notin {NoValue, s.synced} /\ v = s.disk
  <2>1. Actuate(s, v) = n
    BY <1>5 DEF Actuate, n
  <2> QED BY <1>2, <1>5, <1>n, <2>1
<1>6. CASE Actuates /\ v \notin {NoValue, s.synced} /\ v # s.disk
  <2>1. Actuate(s, v) = Request(n, v, FALSE)
    BY <1>6 DEF Actuate, n
  <2> QED BY <1>2, <1>3, <1>6, <1>n, <2>1
<1> QED BY <1>4, <1>5, <1>6

\* What a turn gives to the service has one delivery at most.
Single(ops, d) ==
  /\ ops \in Seq(Operation)
  /\ \A i \in DOMAIN ops : ops[i].type # "cleanup" /\ (ops[i].type = "deliver" => ops[i].delivery = d)
  /\ \A i, j \in DOMAIN ops : ops[i].type = "deliver" /\ ops[j].type = "deliver" => i = j

\* ... which has no other one with it, if it has one.
LEMMA SubmitOne ==
  ASSUME Typed, One, NEW ops, Submit(ops), Single(ops, session'.inFlight),
         inbox' = inbox, at' = at, effects' = <<>>,
         session'.inFlight = session.inFlight \/ (~Has(session.inFlight) /\ Has(session'.inFlight)),
         \A i \in DOMAIN ops : ops[i].type = "deliver" => NoDelivers /\ NoAcks /\ Has(session'.inFlight)
  PROVE  One'
<1>1. PICK q : /\ work' = work \o q /\ Single(q, session'.inFlight)
               /\ \A i \in DOMAIN q : q[i].type = "deliver" => NoDelivers /\ NoAcks
  <2>1. CASE ~Activates(ops)
    BY <2>1 DEF Submit
  <2>2. CASE Activates(ops)
    <3>1. ops # <<>> /\ work' = work \o Tail(ops)
      BY <2>2 DEF Submit, Activates
    <3> DEFINE r == Tail(ops)
    <3>2. /\ r \in Seq(Operation)
          /\ \A i \in DOMAIN r : i \in Nat /\ i + 1 \in DOMAIN ops /\ r[i] = ops[i + 1]
      BY <3>1, TailSeq DEF Single
    <3> HIDE DEF r
    <3>3. Single(r, session'.inFlight)
      BY <3>2 DEF Single
    <3> QED BY <3>1, <3>2, <3>3 DEF r
  <2> QED BY <2>1, <2>2
<1>2. work \in Seq(Operation) /\ q \in Seq(Operation)
  BY <1>1 DEF Typed, Served, Single
<1> DEFINE r == work \o q
           n == Len(work)
<1>3. \A i \in DOMAIN r : \/ i \in DOMAIN work /\ r[i] = work[i]
                          \/ i - n \in DOMAIN q /\ r[i] = q[i - n]
  BY <1>2, ConcatSeq
<1>4. n \in Nat /\ \A i \in DOMAIN r : i \in Nat
  BY <1>2
<1>5. work' = r
  BY <1>1
<1> HIDE DEF r, n
<1>6. \A i \in DOMAIN work' :
        \/ i \in DOMAIN work /\ work'[i] = work[i] /\ (Delivers(i)' => Delivers(i))
        \/ i - n \in DOMAIN q /\ work'[i] = q[i - n]
  BY <1>3, <1>5 DEF Delivers
<1>7. \A i \in DOMAIN work : Delivers(i) => Has(session.inFlight)
  BY DEF One, Typed, Served, OperationOK, Delivers
<1>8. \A i \in DOMAIN work' : /\ work'[i].type # "cleanup"
                              /\ Delivers(i)' => work'[i].delivery = session'.inFlight /\ NoAcks'
  <2> SUFFICES ASSUME NEW i \in DOMAIN work'
               PROVE  /\ work'[i].type # "cleanup"
                      /\ Delivers(i)' => work'[i].delivery = session'.inFlight /\ NoAcks'
    OBVIOUS
  <2>1. CASE i \in DOMAIN work /\ work'[i] = work[i] /\ (Delivers(i)' => Delivers(i))
    BY <1>7, <2>1 DEF One, NoAcks
  <2>2. CASE i - n \in DOMAIN q /\ work'[i] = q[i - n]
    BY <1>1, <2>2 DEF Single, Delivers, NoAcks
  <2> QED BY <1>6, <2>1, <2>2
<1>9. ASSUME NEW i \in DOMAIN work', NEW j \in DOMAIN work', Delivers(i)', Delivers(j)'
      PROVE  i = j
  <2>1. CASE i \in DOMAIN work /\ Delivers(i) /\ j \in DOMAIN work /\ Delivers(j)
    BY <2>1 DEF One
  <2>2. CASE i - n \in DOMAIN q /\ work'[i] = q[i - n] /\ j - n \in DOMAIN q /\ work'[j] = q[j - n]
    <3>1. i - n = j - n
      BY <1>1, <1>9, <2>2 DEF Single, Delivers
    <3> QED BY <1>4, <1>5, <3>1
  <2>3. \A k \in DOMAIN work' : k - n \in DOMAIN q /\ work'[k] = q[k - n] /\ Delivers(k)' => NoDelivers
    BY <1>1 DEF Delivers
  <2> QED BY <1>6, <1>9, <2>1, <2>2, <2>3 DEF NoDelivers
<1>10. \A i \in DOMAIN inbox' : Ack(inbox'[i]) => session'.inFlight = session.inFlight
  BY DEF One
<1>11. \A i \in DOMAIN inbox' : /\ inbox'[i].type \notin {"attach", "error", "begin_close"}
                                /\ Ack(inbox'[i]) => Has(session'.inFlight)
                                /\ inbox'[i].type = "written" => inbox'[i].value = session'.inFlight.value
  BY <1>10 DEF One, Ack
<1> QED BY <1>8, <1>9, <1>11 DEF One

LEMMA DeliveringOne ==
  ASSUME NEW s, NEW t, SessionOK(t)
  PROVE  /\ Delivering(s, t) \in Seq(Operation) /\ \A i, j \in DOMAIN Delivering(s, t) : i = j
         /\ \A i \in DOMAIN Delivering(s, t) :
              /\ Delivering(s, t)[i].type = "deliver" /\ Delivering(s, t)[i].delivery = t.inFlight
              /\ ~Has(s.inFlight) /\ Has(t.inFlight)
<1>1. /\ Delivering(s, t) \in Seq(Operation)
      /\ \A i \in DOMAIN Delivering(s, t) :
           /\ Delivering(s, t)[i].type = "deliver" /\ Delivering(s, t)[i].delivery = t.inFlight
  BY DeliveringFits
<1>2. CASE Has(s.inFlight) \/ ~Has(t.inFlight)
  <2>1. Delivering(s, t) = <<>>
    BY <1>2 DEF Delivering
  <2> QED BY <1>1, <2>1
<1>3. CASE ~(Has(s.inFlight) \/ ~Has(t.inFlight))
  <2> DEFINE e == [type |-> "deliver", force |-> FALSE, delivery |-> t.inFlight]
  <2>1. Delivering(s, t) = <<e>>
    BY <1>3 DEF Delivering
  <2> HIDE DEF e
  <2> QED BY <1>1, <1>3, <2>1
<1> QED BY <1>2, <1>3

\* The effects of a turn with what is dispatched at its end.
LEMMA EffectsSingle ==
  ASSUME Typed, One, NEW s, NEW t, SessionOK(s), SessionOK(t), s.inFlight = session.inFlight,
         Has(s.inFlight) => t.inFlight = s.inFlight
  PROVE  LET ops == effects \o Delivering(s, t)
         IN /\ Single(ops, t.inFlight)
            /\ \A i \in DOMAIN ops : ops[i].type = "deliver" => NoDelivers /\ NoAcks /\ Has(t.inFlight)
<1> DEFINE dl == Delivering(s, t)
           ops == effects \o dl
<1>1. /\ dl \in Seq(Operation) /\ \A i, j \in DOMAIN dl : i = j
      /\ \A i \in DOMAIN dl : /\ dl[i].type = "deliver" /\ dl[i].delivery = t.inFlight
                              /\ ~Has(s.inFlight) /\ Has(t.inFlight)
  BY DeliveringOne
<1>2. effects \in Seq(Operation)
  BY DEF Typed, Waiting
<1>3. effects = <<>> \/ \E e \in Operation : effects = <<e>> /\ e \in {Activation, ForcedPoll, Deliver(session.inFlight)}
  <2>1. effects # <<>> => Head(effects) \in Operation
    BY <1>2
  <2> QED BY <2>1, PollsServed, ActivationIs DEF One
<1>4. \A i \in DOMAIN effects : /\ effects[i].type # "cleanup"
                                /\ effects[i].type = "deliver" => /\ effects = <<Deliver(session.inFlight)>> 
                                                                  /\ effects[i].delivery = session.inFlight
  BY <1>3 DEF Activation, ForcedPoll, Deliver
<1>5. \A i, j \in DOMAIN effects : i = j
  BY <1>3
<1>6. effects = <<Deliver(session.inFlight)>> => Has(session.inFlight) /\ NoDelivers /\ NoAcks
  <2>1. Deliver(session.inFlight).type = "deliver" /\ Activation.type # "deliver" /\ ForcedPoll.type # "deliver"
    BY DEF Deliver, Activation, ForcedPoll
  <2>2. \A a, b : <<a>> = <<b>> => a = b
    OBVIOUS
  <2>3. \A a : <<a>> # <<>>
    OBVIOUS
  <2> QED BY <2>1, <2>2, <2>3 DEF One
<1>7. ~Has(session.inFlight) => NoDelivers /\ NoAcks
  BY DEF One, NoDelivers, NoAcks, Delivers, Typed, Served, OperationOK
<1>8. /\ ops \in Seq(Operation)
      /\ \A i \in DOMAIN ops : \/ i \in DOMAIN effects /\ ops[i] = effects[i]
                               \/ i - Len(effects) \in DOMAIN dl /\ ops[i] = dl[i - Len(effects)]
      /\ Len(effects) \in Nat /\ \A i \in DOMAIN ops : i \in Nat
  BY <1>1, <1>2, ConcatSeq
<1> HIDE DEF dl, ops
<1>9. \A i \in DOMAIN ops : ops[i].type = "deliver" =>
        /\ NoDelivers /\ NoAcks /\ Has(t.inFlight) /\ ops[i].delivery = t.inFlight
        /\ IF Has(s.inFlight) THEN i \in DOMAIN effects ELSE i - Len(effects) \in DOMAIN dl
  BY <1>1, <1>4, <1>6, <1>7, <1>8
<1>10. \A i \in DOMAIN ops : ops[i].type # "cleanup"
  BY <1>1, <1>4, <1>8
<1>11. ASSUME NEW i \in DOMAIN ops, NEW j \in DOMAIN ops, ops[i].type = "deliver", ops[j].type = "deliver"
       PROVE  i = j
  <2>1. CASE Has(s.inFlight)
    BY <1>5, <1>9, <1>11, <2>1
  <2>2. CASE ~Has(s.inFlight)
    <3>1. i - Len(effects) = j - Len(effects)
      BY <1>1, <1>9, <1>11, <2>2
    <3> QED BY <1>8, <3>1
  <2> QED BY <2>1, <2>2
<1> QED BY <1>8, <1>9, <1>10, <1>11 DEF Single, ops, dl

\* A dispatch takes what is pending, unless it is in the file already.
LEMMA DispatchEven ==
  ASSUME NEW s, SessionOK(s), NEW going \in BOOLEAN, NEW goes \in BOOLEAN, NEW shown \in BOOLEAN, Even(s, going),
         going => Has(s.inFlight), goes => Has(Dispatch(s).inFlight),
         Dispatch(s).inFlight = s.inFlight => goes = going,
         ~Has(s.inFlight) /\ Has(Dispatch(s).inFlight) => goes \/ ~shown
  PROVE  Even(Dispatch(s), goes) \/ ~shown
<1> DEFINE t == Dispatch(s)
<1>1. /\ t.disk = s.disk /\ t.synced = s.synced
      /\ \/ t = s
         \/ /\ ~Has(s.inFlight) /\ Has(s.pending) /\ t.pending = NoDelivery
            /\ \/ t.inFlight = s.inFlight /\ Equivalent(s, s.pending)
               \/ Has(t.inFlight) /\ t.inFlight.value = s.pending.value /\ t.inFlight.expected = s.print
  BY DispatchIs
<1> HIDE DEF t
<1>2. CASE t = s
  BY <1>2 DEF Even, t
<1>3. CASE ~Has(s.inFlight) /\ Has(s.pending) /\ t.pending = NoDelivery
  <2>1. s.pending.value = s.synced /\ ~Has(t.pending)
    BY <1>3, NoDeliveryIs DEF Even
  <2>2. CASE t.inFlight = s.inFlight /\ Equivalent(s, s.pending)
    <3>1. goes = FALSE
      BY <1>3, <2>2 DEF t
    <3>2. Like(t.disk, t.synced)
      BY <1>1, <2>1, <2>2 DEF Equivalent, Like
    <3> QED BY <2>1, <3>1, <3>2 DEF Even, t
  <2>3. CASE Has(t.inFlight) /\ t.inFlight.value = s.pending.value
    BY <1>1, <1>3, <2>1, <2>3 DEF Even, t
  <2> QED BY <1>1, <1>3, <2>1, <2>2, <2>3
<1> QED BY <1>1, <1>2, <1>3

LEMMA AfterTurnSteady ==
  ASSUME Typed, Live, Steady, AfterTurn
  PROVE  Steady'
<1> DEFINE s == Actuate(session, Cell)
           t == Dispatch(s)
           ops == effects \o Delivering(s, t)
<1>1. /\ UNCHANGED <<spec, inbox, disk, unseen, young, at, root>> /\ turn' = "idle" /\ turn = "busy"
      /\ session' = t /\ effects' = <<>> /\ Submit(ops)
  BY DEF AfterTurn, notShown, notController, Live, Closing
<1>2. SessionOK(session) /\ Cell \in Values \cup {NoValue}
  BY DEF Typed, TypeOK, Cell
<1>3. /\ SessionOK(s) /\ SameDisk(session, s) /\ s.senseError = session.senseError /\ s.tripped = session.tripped
      /\ IF ~Actuates \/ Cell \in {NoValue, session.synced} THEN s = session
         ELSE IF Cell = session.disk \/ session.tripped THEN s.pending = session.pending /\ s.synced = Cell
         ELSE Has(s.pending) /\ s.pending.value = Cell /\ s.synced = Cell
  BY <1>2, ActuateIs
<1> HIDE DEF s
<1>4. /\ SessionOK(t) /\ t.disk = s.disk /\ t.print = s.print /\ t.synced = s.synced
      /\ t.senseError = s.senseError /\ t.tripped = s.tripped
      /\ \/ t = s
         \/ /\ ~Has(s.inFlight) /\ Has(s.pending) /\ t.pending = NoDelivery
            /\ \/ t.inFlight = s.inFlight /\ Equivalent(s, s.pending)
               \/ Has(t.inFlight) /\ t.inFlight.value = s.pending.value /\ t.inFlight.expected = s.print
  BY <1>3, DispatchIs
<1>5. Single(ops, t.inFlight) /\ \A i \in DOMAIN ops : ops[i].type = "deliver" => NoDelivers /\ NoAcks /\ Has(t.inFlight)
  BY <1>3, <1>4, EffectsSingle DEF Steady, SameDisk
<1>7. t.inFlight = session.inFlight
        \/ (~Has(session.inFlight) /\ Has(t.inFlight) /\ t.inFlight.expected = session.print /\ ~Has(t.pending))
  BY <1>3, <1>4, NoDeliveryIs DEF SameDisk
<1> HIDE DEF t, ops
<1>8. session'.disk = session.disk /\ session'.print = session.print
  BY <1>1, <1>3, <1>4 DEF SameDisk
<1>9. Order'
  BY <1>1, <1>8, SameOrder DEF Steady, SameLine
<1>10. Zero'
  BY <1>1, <1>7, <1>8 DEF Steady, Zero
<1>11. One'
  BY <1>1, <1>5, <1>7, SubmitOne DEF Steady
<1>12. ~Has(session.inFlight) => /\ at \notin {"replace", "stamp"}
                                 /\ \A i \in DOMAIN inbox : inbox[i].type \notin {"written", "conflict"}
  <2>1. \A i \in DOMAIN inbox : inbox[i].type \in {"written", "conflict"} => Ack(inbox[i])
    BY DEF Ack
  <2> QED BY <2>1, AtWork DEF Steady, One
<1>13. Awaited' = Awaited
  BY <1>1 DEF Awaited
<1>14. Writing'
  <2>1. CASE t.inFlight = session.inFlight
    BY <1>1, <1>8, <1>13, <2>1 DEF Steady, Writing
  <2>2. CASE ~Has(session.inFlight) /\ t.inFlight.expected = session.print
    BY <1>1, <1>8, <1>12, <2>2 DEF Steady, Writing
  <2> QED BY <1>7, <2>1, <2>2
<1>15. /\ t.inFlight = session.inFlight => Going' = Going
       /\ ~Has(session.inFlight) /\ Has(t.inFlight) => Going' \/ unseen
       /\ Going => Has(session.inFlight)
       /\ Going' => Has(t.inFlight)
  <2>1. ~Has(session.inFlight) /\ Has(t.inFlight) => Going' \/ unseen
    BY <1>1, <1>7, <1>12 DEF Steady, Writing, Going
  <2> QED BY <1>1, <2>1 DEF Going
<1>16. session'.synced \in {session.synced, Cell} /\ session'.pending.value \in {session.pending.value, Cell, NoValue}
         /\ session'.inFlight.value \in {session.inFlight.value, session.pending.value, Cell}
  BY <1>1, <1>3, <1>4 DEF SameDisk, NoDelivery
<1>17. Cell \in {root, NoValue} /\ Cell' = Cell
  BY <1>1, <1>3, <1>4 DEF Cell
<1>18. Novelty'
  <2>1. \A v \in Held' : v \in Held \cup {NoValue}
    BY <1>1, <1>8, <1>16, <1>17 DEF Held
  <2>2. \A i \in DOMAIN inbox : Other(i)' <=> Other(i)
    BY <1>1, <1>8 DEF Other
  <2>3. unseen' => /\ disk'.value = Invalid \/ disk'.value \notin Held'
                   /\ \A i \in DOMAIN inbox' : Other(i)' /\ inbox'[i].print # disk'.print =>
                        inbox'[i].value # disk'.value \/ disk'.value = Invalid
    BY <1>1, <2>1, <2>2, ValuesToShow DEF Steady, Novelty, NewTo
  <2>4. \A i \in DOMAIN inbox' : Other(i)' => inbox'[i].value = Invalid \/ inbox'[i].value \notin Held'
    BY <1>1, <2>1, <2>2, ValuesToShow DEF Steady, Novelty, NewTo, Other
  <2>5. \A i, j \in DOMAIN inbox' : Other(i)' /\ Other(j)' /\ inbox'[i].print # inbox'[j].print =>
          inbox'[i].value # inbox'[j].value \/ inbox'[i].value = Invalid
    BY <1>1, <2>2 DEF Steady, Novelty
  <2> QED BY <2>3, <2>4, <2>5 DEF Novelty, NewTo
<1>19. Erring'
  <2> SUFFICES ASSUME session.senseError
               PROVE  /\ Senses' /\ ~(Has(session'.pending) /\ Going')
                      /\ session'.disk \in Marks
                           \/ (~Has(session'.pending) /\ ~Has(session'.inFlight) /\ Awaited')
    BY <1>1, <1>3, <1>4 DEF Erring
  <2>1. s = session
    BY <1>3 DEF Cell
  <2>2. CASE t = s
    BY <1>1, <1>8, <1>13, <1>15, <2>1, <2>2 DEF Steady, Erring, Senses
  <2>3. CASE ~Has(s.inFlight) /\ Has(s.pending) /\ t.pending = NoDelivery
    BY <1>1, <1>8, <2>1, <2>3, NoDeliveryIs DEF Steady, Erring, Senses
  <2> QED BY <1>4, <2>2, <2>3
<1>20. Balance'
  <2> SUFFICES ASSUME Actuates, ~session.tripped, Cell # NoValue
               PROVE  session'.synced = Cell /\ (Even(session', Going') \/ unseen)
    BY <1>1, <1>3, <1>4, <1>17 DEF Balance, Balanced, Actuates, Even, Like
  <2>1. s.synced = Cell /\ (Even(s, Going) \/ unseen)
    <3>1. CASE session.synced = Cell /\ Balanced
      <4>1. s = session
        BY <1>3, <3>1
      <4> QED BY <3>1, <4>1 DEF Balanced
    <3>2. CASE Cell \notin {session.synced, session.disk}
      BY <1>3, <3>2 DEF Even
    <3> QED BY <3>1, <3>2 DEF Steady, Balance
  <2>2. CASE unseen
    BY <1>1, <1>4, <2>1, <2>2
  <2>3. CASE Even(s, Going) /\ ~unseen
    <3>1. Going \in BOOLEAN /\ Going' \in BOOLEAN /\ s.inFlight = session.inFlight
      BY <1>3 DEF Going, SameDisk
    <3>2. Even(t, Going') \/ ~TRUE
      BY <1>3, <1>15, <2>3, <3>1, DispatchEven DEF t
    <3> QED BY <1>1, <1>4, <2>1, <3>2
  <2> QED BY <2>1, <2>2, <2>3
<1>21. Valued'
  <2>1. {session'.synced, session'.pending.value, session'.inFlight.value} \cap Marks = {}
    <3>1. NoValue \notin Marks
      BY DEF NoValue, Marks, Absent, Invalid
    <3> QED BY <1>16, <1>17, <3>1 DEF Steady, Valued
  <2> QED BY <1>1, <1>3, <1>4, <2>1 DEF Steady, Valued, Senses
<1> QED BY <1>9, <1>10, <1>11, <1>14, <1>18, <1>19, <1>20, <1>21 DEF Steady

-----------------------------------------------------------------------------
\* What a session is shown.

LEMMA TailIs ==
  ASSUME Typed, Reads
  PROVE  /\ 1 \in DOMAIN inbox /\ Head(inbox) = inbox[1]
         /\ \A i \in DOMAIN inbox' : /\ i + 1 \in DOMAIN inbox /\ inbox'[i] = inbox[i + 1]
                                     /\ i \in Nat /\ 1 < i + 1
         /\ \A i, j \in DOMAIN inbox' : i < j => i + 1 < j + 1
         /\ \A i \in DOMAIN inbox : i = 1 \/ (i - 1 \in DOMAIN inbox' /\ inbox'[i - 1] = inbox[i])
<1>1. inbox \in Seq(Message) /\ inbox # <<>> /\ inbox' = Tail(inbox)
  BY DEF Typed, TypeOK, Reads
<1> QED BY <1>1, TailSeq

\* The value of the file becomes the one of the cell, in canonical form perhaps.
ShownSensed(o) ==
  /\ Senses /\ root' = o.value /\ o.value \notin Marks
  /\ session'.senseError = FALSE /\ session'.synced = o.value /\ session'.tripped = session.tripped
  /\ ~Has(session'.pending) \/ session'.pending.value = o.value
  /\ session'.pending.value \in {NoValue, o.value}
  /\ o.print = session.print => session.senseError
\* The file is what it was, but it may have to be written in canonical form.
ShownAgain(o) ==
  /\ o.print = session.print /\ root' = root
  /\ session'.senseError = session.senseError /\ session'.tripped = session.tripped
  /\ session.senseError /\ Senses => o.value \in Marks
  /\ \/ session'.pending = session.pending /\ session'.synced = session.synced
     \/ /\ ~session.senseError /\ root # NoValue /\ session'.synced = root
        /\ Has(session'.pending) /\ session'.pending.value = root
\* The file cannot be read into the cell.
ShownBroken(o) ==
  /\ o.print # session.print /\ o.value = Invalid /\ Senses /\ root' = root
  /\ session'.senseError = TRUE /\ session'.tripped = session.tripped
  /\ session'.pending = session.pending /\ session'.synced = session.synced
\* The file is written again, unless the detector trips.
ShownOver(o) ==
  /\ o.print # session.print /\ spec.mode = "w" /\ root' = root
  /\ session'.senseError = session.senseError
  /\ \/ /\ session'.tripped /\ session'.pending = NoDelivery /\ session'.synced = session.synced
     \/ /\ Cell # NoValue /\ ~session'.tripped /\ session'.synced = Cell
        /\ Has(session'.pending) /\ session'.pending.value = Cell
     \/ /\ Cell = NoValue \/ session.tripped
        /\ session'.pending = session.pending /\ session'.synced = session.synced
        /\ session'.tripped = session.tripped

LEMMA ObservedIs ==
  ASSUME Typed, Fresh, Guarded, Live, Steady, Observed
  PROVE  LET o == Head(inbox)
         IN /\ Reads /\ o.type = "observed" /\ turn = "idle" /\ effects' = <<>> /\ effects = <<>>
            /\ UNCHANGED <<spec, disk, young, at, work>> /\ o.value # NoValue
            /\ unseen' = (unseen /\ o.print # disk.print)
            /\ session'.disk = o.value /\ session'.print = o.print /\ session'.inFlight = session.inFlight
            /\ ShownSensed(o) \/ ShownAgain(o) \/ ShownBroken(o) \/ ShownOver(o)
<1> DEFINE o == Head(inbox)
<1>1. /\ Reads /\ turn = "idle" /\ turn' = "busy" /\ o.type = "observed" /\ MessageOK(o) /\ o.print \in Prints
      /\ o.value # NoValue /\ o.value \in Values \cup {Absent} /\ inbox # <<>>
  <2>1. Receive("observed")
    BY DEF Observed
  <2>2. Reads /\ turn = "idle" /\ turn' = "busy" /\ o.type = "observed" /\ MessageOK(o) /\ o.print \in Prints
    BY <2>1, ReceiveFits
  <2> HIDE DEF o
  <2> QED BY <2>2 DEF MessageOK, Message, Informs, Reads
<1>2. Shown(o) /\ UNCHANGED notController
  BY DEF Observed
<1>3. /\ o.print = session.print => o.value = session.disk
      /\ o.print # session.print => NewTo(o.value) /\ o.value # Absent
  BY <1>1, HeadTells
<1> DEFINE kind == Classify(o, session)
           seen == [session EXCEPT !.disk = o.value, !.print = o.print]
           sensed == \/ kind = "foreign" /\ Senses
                     \/ kind = "unchanged" /\ Senses /\ session.senseError /\ o.value \notin {Absent, Invalid}
           judged == IF sensed THEN Sense(seen, o.value)
                     ELSE IF (kind = "rejected" /\ Senses) \/ (kind = "absent" /\ spec.authority = "file-strict")
                     THEN [seen EXCEPT !.senseError = TRUE]
                     ELSE IF kind = "absent" THEN [seen EXCEPT !.senseError = FALSE]
                     ELSE seen
           canonical == IF kind = "foreign" \/ Cell = NoValue THEN o.value ELSE Cell
           asked == IF spec.mode = "rw" /\ o.raw /\ kind \in {"foreign", "unchanged"} /\ ~judged.senseError
                    THEN Request(judged, canonical, TRUE) ELSE judged
<1>4. PICK recent \in 0 .. session.reasserts :
        /\ Reasserts(session, kind) \/ recent = session.reasserts
        /\ root' = IF sensed THEN o.value ELSE root
        /\ Later(IF Reasserts(session, kind) THEN Reassert(asked, recent) ELSE asked, <<>>)
  BY DEF Observed, Live
<1>5. /\ session' = (IF Reasserts(session, kind) THEN Reassert(asked, recent) ELSE asked)
      /\ effects' = effects \o <<>> /\ work' = work
  BY <1>4 DEF Later
<1>6. effects = <<>> /\ effects' = <<>>
  BY <1>1, <1>5, IdleEffects DEF Typed, Waiting
<1> HIDE DEF o
<1>7. kind = IF o.print = session.print THEN "unchanged" ELSE IF o.value = Invalid THEN "rejected" ELSE "foreign"
  <2>1. CASE o.print = session.print
    <3>1. o.value = session.disk
      BY <1>3, <2>1
    <3> QED BY <2>1, <3>1 DEF Classify
  <2>2. CASE o.print # session.print /\ o.value = Invalid
    BY <2>2 DEF Classify, Invalid, Absent
  <2>3. CASE o.print # session.print /\ o.value # Invalid
    <3>1. o.value \notin {Absent, Invalid, session.disk, session.inFlight.value}
      BY <1>3, <2>3 DEF NewTo, Held
    <3> QED BY <2>3, <3>1 DEF Classify
  <2> QED BY <2>1, <2>2, <2>3
<1> HIDE DEF kind
<1>8. SessionOK(session) /\ session \in Sessions /\ root \in Values \cup {NoValue} /\ Cell \in Values \cup {NoValue}
  BY DEF Typed, SessionOK, TypeOK, Cell
<1>9. /\ SessionOK(seen) /\ seen.disk = o.value /\ seen.print = o.print /\ seen.inFlight = session.inFlight
      /\ seen.pending = session.pending /\ seen.synced = session.synced /\ seen.tripped = session.tripped
      /\ seen.senseError = session.senseError
  <2>1. /\ seen \in Sessions /\ seen.tripped = session.tripped /\ seen.reasserts = session.reasserts
        /\ seen.disk = o.value /\ seen.print = o.print /\ seen.inFlight = session.inFlight
        /\ seen.pending = session.pending /\ seen.synced = session.synced /\ seen.senseError = session.senseError
    BY <1>1, <1>8 DEF Sessions
  <2> HIDE DEF seen
  <2> QED BY <1>8, <2>1 DEF SessionOK
<1> HIDE DEF seen
<1>10. Senses <=> spec.mode # "w"
  <2>1. spec \in Allowed
    BY SpecsAssumption DEF Typed, TypeOK
  <2> QED BY <2>1 DEF Senses, Allowed
<1>11. CASE sensed
  <2>1. o.value \notin Marks /\ Senses /\ o.value \in Values /\ kind \in {"foreign", "unchanged"}
        /\ (kind = "unchanged" => session.senseError) /\ (kind = "foreign" => o.print # session.print)
        /\ (kind = "unchanged" => Cell = NoValue)
    BY <1>1, <1>3, <1>7, <1>11 DEF Marks, Cell
  <2>2. ~Reasserts(session, kind) /\ root' = o.value /\ session' = asked
    BY <1>4, <1>5, <1>10, <1>11, <2>1 DEF Reasserts
  <2>3. judged = Sense(seen, o.value) /\ canonical = o.value
    BY <1>11, <2>1
  <2>4. /\ SessionOK(judged) /\ SameDisk(seen, judged) /\ judged.synced = o.value
        /\ judged.senseError = FALSE /\ judged.tripped = session.tripped /\ judged.pending = NoDelivery
    <3>1. seen \in Sessions
      BY <1>9 DEF SessionOK
    <3>2. LET u == Sense(seen, o.value)
          IN u.senseError = FALSE /\ u.tripped = seen.tripped /\ u.pending = NoDelivery
      BY <3>1 DEF Sense, Sessions
    <3> QED BY <1>9, <2>1, <2>3, <3>2, SenseFits
  <2> HIDE DEF judged, canonical, sensed
  <2>5. asked \in {judged, Request(judged, o.value, TRUE)}
    BY <2>3
  <2>6. /\ SameDisk(seen, asked) /\ asked.senseError = FALSE /\ asked.synced = o.value /\ asked.tripped = session.tripped
        /\ ~Has(asked.pending) \/ asked.pending.value = o.value
        /\ asked.pending.value \in {NoValue, o.value}
    <3>1. LET r == Request(judged, o.value, TRUE)
          IN /\ SameDisk(judged, r) /\ r.senseError = judged.senseError /\ r.tripped = judged.tripped
             /\ IF judged.tripped \/ o.value = NoValue THEN r = judged
                ELSE Has(r.pending) /\ r.pending.value = o.value /\ r.synced = o.value
      BY <2>1, <2>4, RequestIs
    <3>2. ~Has(judged.pending) /\ judged.pending.value = NoValue
      BY <2>4 DEF NoDelivery, Has
    <3> HIDE DEF asked
    <3> QED BY <2>4, <2>5, <3>1, <3>2 DEF SameDisk
  <2> HIDE DEF asked
  <2>7. ShownSensed(o)
    BY <2>1, <2>2, <2>6 DEF ShownSensed
  <2> QED BY <1>1, <1>2, <1>5, <1>6, <1>9, <2>2, <2>6, <2>7 DEF SameDisk, Shown, notController, o
<1>12. CASE ~sensed
  <2>1. root' = root /\ (o.print = session.print \/ o.value = Invalid \/ ~Senses)
    BY <1>4, <1>7, <1>12
  <2>2. CASE o.print = session.print
    <3>1. kind = "unchanged" /\ judged = seen /\ ~Reasserts(session, kind) /\ session' = asked
      BY <1>5, <1>7, <1>12, <2>2 DEF Reasserts
    <3>2. session.senseError /\ Senses => o.value \in Marks
      BY <1>12, <3>1 DEF Marks
    <3> HIDE DEF judged, sensed
    <3>3. CASE asked = seen
      BY <1>1, <1>2, <1>5, <1>6, <1>9, <2>1, <2>2, <3>1, <3>2, <3>3 DEF ShownAgain, Shown, notController, o
    <3>4. CASE spec.mode = "rw" /\ ~session.senseError /\ asked = Request(seen, canonical, TRUE)
      <4>1. Cell = root /\ root # NoValue /\ ~session.tripped
        BY <1>10, <3>4 DEF Steady, Valued, Cell
      <4>2. canonical = root
        BY <3>1, <4>1
      <4>3. LET r == Request(seen, root, TRUE)
            IN /\ SameDisk(seen, r) /\ r.senseError = seen.senseError /\ r.tripped = seen.tripped
               /\ IF seen.tripped \/ root = NoValue THEN r = seen
                  ELSE Has(r.pending) /\ r.pending.value = root /\ r.synced = root
        BY <1>8, <1>9, RequestIs
      <4> HIDE DEF asked
      <4>4. /\ SameDisk(seen, session') /\ session'.senseError = session.senseError /\ session'.tripped = session.tripped
            /\ Has(session'.pending) /\ session'.pending.value = root /\ session'.synced = root
        BY <1>9, <3>1, <3>4, <4>1, <4>2, <4>3
      <4> QED BY <1>1, <1>2, <1>5, <1>6, <1>9, <2>1, <2>2, <3>2, <3>4, <4>1, <4>4
              DEF ShownAgain, Shown, notController, SameDisk, o
    <3> QED BY <1>9, <3>1, <3>3, <3>4
  <2>3. CASE o.print # session.print /\ Senses
    <3>1. kind = "rejected" /\ o.value = Invalid /\ ~Reasserts(session, kind)
      BY <1>7, <1>10, <2>1, <2>3 DEF Reasserts
    <3>2. session' = [seen EXCEPT !.senseError = TRUE]
      BY <1>5, <1>12, <2>3, <3>1
    <3>3. /\ SameDisk(seen, session') /\ session'.senseError = TRUE /\ session'.tripped = session.tripped
          /\ session'.pending = session.pending /\ session'.synced = session.synced
      <4>1. seen \in Sessions
        BY <1>9 DEF SessionOK
      <4> QED BY <1>9, <3>2, <4>1 DEF Sessions, SameDisk
    <3> QED BY <1>1, <1>2, <1>5, <1>6, <1>9, <2>1, <2>3, <3>1, <3>3 DEF ShownBroken, Shown, notController, SameDisk, o
  <2>4. CASE o.print # session.print /\ ~Senses
    <3>1. kind \in {"rejected", "foreign"} /\ spec.mode = "w" /\ asked = seen
      BY <1>7, <1>10, <1>12, <2>4
    <3>2. CASE ~Reasserts(session, kind)
      <4>1. session' = seen /\ (Cell = NoValue \/ session.tripped)
        BY <1>5, <3>1, <3>2 DEF Reasserts
      <4> QED BY <1>1, <1>2, <1>5, <1>6, <1>9, <2>1, <2>4, <3>1, <4>1 DEF ShownOver, Shown, notController, o
    <3>3. CASE Reasserts(session, kind)
      <4>1. session' = Reassert(seen, recent) /\ Cell # NoValue /\ ~session.tripped
        BY <1>5, <3>1, <3>3 DEF Reasserts
      <4>2. recent \in Nat /\ recent < Threshold /\ Threshold \in Nat
        <5>1. session.reasserts \in Nat /\ session.reasserts < Threshold /\ Threshold \in Nat
          BY <1>8, <4>1, BoundsAssumption DEF SessionOK, Sessions
        <5> QED BY <1>4, <5>1
      <4> DEFINE t == [seen EXCEPT !.reasserts = recent + 1, !.tripped = TRUE, !.error = TRUE, !.pending = NoDelivery]
                 u == [seen EXCEPT !.reasserts = recent + 1]
      <4>3. session' = IF recent + 1 >= Threshold THEN t ELSE Request(u, Cell, FALSE)
        BY <4>1 DEF Reassert
      <4>4. seen \in Sessions
        BY <1>9 DEF SessionOK
      <4>5. /\ SameDisk(seen, t) /\ t.tripped = TRUE /\ t.pending = NoDelivery /\ t.synced = session.synced
            /\ t.senseError = session.senseError
        BY <1>9, <4>4 DEF Sessions, SameDisk
      <4>6. u \in Sessions /\ u.reasserts = recent + 1 /\ SameDisk(seen, u) /\ u.tripped = FALSE
            /\ u.senseError = session.senseError
        <5>1. recent + 1 \in 0 .. Threshold
          BY <4>2
        <5> QED BY <1>9, <4>1, <4>4, <5>1 DEF Sessions, SameDisk
      <4> HIDE DEF t, u
      <4>7. CASE recent + 1 >= Threshold
        BY <1>1, <1>2, <1>5, <1>6, <1>9, <2>1, <2>4, <3>1, <4>3, <4>5, <4>7 DEF ShownOver, Shown, notController, SameDisk, o
      <4>8. CASE ~(recent + 1 >= Threshold)
        <5>1. SessionOK(u)
          BY <4>2, <4>6, <4>8 DEF SessionOK
        <5>2. LET r == Request(u, Cell, FALSE)
              IN /\ SameDisk(u, r) /\ r.senseError = u.senseError /\ r.tripped = u.tripped
                 /\ IF u.tripped \/ Cell = NoValue THEN r = u
                    ELSE Has(r.pending) /\ r.pending.value = Cell /\ r.synced = Cell
          BY <1>8, <5>1, RequestIs
        <5>3. /\ SameDisk(seen, session') /\ session'.senseError = session.senseError /\ session'.tripped = FALSE
              /\ Has(session'.pending) /\ session'.pending.value = Cell /\ session'.synced = Cell
          BY <4>1, <4>3, <4>6, <4>8, <5>2 DEF SameDisk
        <5> QED BY <1>1, <1>2, <1>5, <1>6, <1>9, <2>1, <2>4, <3>1, <4>1, <5>3 DEF ShownOver, Shown, notController, SameDisk, o
      <4> QED BY <4>7, <4>8
    <3> QED BY <3>2, <3>3
  <2> QED BY <2>2, <2>3, <2>4
<1> QED BY <1>11, <1>12

LEMMA ObservedSteady ==
  ASSUME Typed, Fresh, Guarded, Live, Steady, Observed
  PROVE  Steady'
<1> DEFINE o == Head(inbox)
<1>1. /\ Reads /\ o.type = "observed" /\ turn = "idle" /\ effects' = <<>> /\ effects = <<>>
      /\ UNCHANGED <<spec, disk, young, at, work>> /\ o.value # NoValue
      /\ unseen' = (unseen /\ o.print # disk.print)
      /\ session'.disk = o.value /\ session'.print = o.print /\ session'.inFlight = session.inFlight
      /\ ShownSensed(o) \/ ShownAgain(o) \/ ShownBroken(o) \/ ShownOver(o)
  BY ObservedIs
<1>2. /\ o.print = session.print => o.value = session.disk
      /\ o.print # session.print =>
           /\ unseen /\ ~Going /\ \A i \in DOMAIN inbox : inbox[i].type # "written"
           /\ Other(1) /\ NewTo(o.value) /\ o.value # Absent
  BY <1>1, HeadTells DEF Reads
<1>3. /\ 1 \in DOMAIN inbox /\ o = inbox[1]
      /\ \A i \in DOMAIN inbox' : /\ i + 1 \in DOMAIN inbox /\ inbox'[i] = inbox[i + 1]
                                  /\ i \in Nat /\ 1 < i + 1
      /\ \A i, j \in DOMAIN inbox' : i < j => i + 1 < j + 1
      /\ \A i \in DOMAIN inbox : i = 1 \/ (i - 1 \in DOMAIN inbox' /\ inbox'[i - 1] = inbox[i])
  BY <1>1, TailIs
<1>4. Informs(o)
  BY <1>1 DEF Informs
<1>5. Order'
  BY <1>1, <1>4, TakesOrder DEF Steady, Takes
<1> HIDE DEF o
<1>6. o.print = session.print => unseen' = unseen
  <2>1. unseen \in BOOLEAN
    BY DEF Typed, TypeOK
  <2>2. o.print = session.print /\ unseen => o.print # disk.print
    BY UnseenStops DEF Steady
  <2> QED BY <1>1, <2>1, <2>2
<1>7. Zero'
  <2>1. disk.value = Absent => o.value = Absent
    BY <1>3, <1>4 DEF Steady, Order
  <2>2. o.value = Absent => o.print = 0
    BY <1>3, <1>4 DEF Steady, Zero
  <2>3. \A i \in DOMAIN inbox' : Informs(inbox'[i]) /\ inbox'[i].value = Absent => inbox'[i].print = 0
    BY <1>3 DEF Steady, Zero
  <2>4. /\ disk.value = Absent <=> disk.print = 0
        /\ disk.value = Absent => session.inFlight.expected = 0
    BY DEF Steady, Zero
  <2> QED BY <1>1, <2>1, <2>2, <2>3, <2>4 DEF Zero
<1>8. One'
  <2>1. NoAcks => NoAcks'
    BY <1>3 DEF NoAcks
  <2>2. \A i \in DOMAIN work' : Delivers(i)' = Delivers(i)
    BY <1>1 DEF Delivers
  <2>3. \A i \in DOMAIN work' : /\ work'[i].type # "cleanup"
                                /\ Delivers(i)' => work'[i].delivery = session'.inFlight /\ NoAcks'
    BY <1>1, <2>1, <2>2 DEF Steady, One
  <2>4. \A i, j \in DOMAIN work' : Delivers(i)' /\ Delivers(j)' => i = j
    BY <1>1, <2>2 DEF Steady, One
  <2>5. \A i \in DOMAIN inbox' : /\ inbox'[i].type \notin {"attach", "error", "begin_close"}
                                 /\ Ack(inbox'[i]) => Has(session'.inFlight)
                                 /\ inbox'[i].type = "written" => inbox'[i].value = session'.inFlight.value
    BY <1>1, <1>3 DEF Steady, One
  <2>6. \A i, j \in DOMAIN inbox' : Ack(inbox'[i]) /\ Ack(inbox'[j]) => i = j
    <3> SUFFICES ASSUME NEW i \in DOMAIN inbox', NEW j \in DOMAIN inbox', Ack(inbox'[i]), Ack(inbox'[j])
                 PROVE  i = j
      OBVIOUS
    <3>1. i + 1 = j + 1
      BY <1>3 DEF Steady, One
    <3> QED BY <1>3, <3>1
  <2> QED BY <1>1, <2>3, <2>4, <2>5, <2>6 DEF One
<1>9. \A i \in DOMAIN inbox : inbox[i].type \in {"written", "conflict"} => i # 1
  BY <1>1, <1>3
<1>10. (\E i \in DOMAIN inbox' : inbox'[i].type = "written") <=> (\E i \in DOMAIN inbox : inbox[i].type = "written")
  BY <1>3, <1>9
<1>11. Going' = Going
  BY <1>1, <1>10 DEF Going
<1>12. Writing'
  <2>1. CASE o.print # session.print
    <3>1. Has(session.inFlight) => session.inFlight.expected # disk.print
      BY <1>2, <2>1 DEF Going
    <3>2. at \notin {"stamp", "replace"}
      BY <1>2, <2>1 DEF Guarded
    <3>3. \A i \in DOMAIN inbox' : inbox'[i].type # "written"
      BY <1>2, <1>10, <2>1
    <3>4. session'.print = disk'.print \/ unseen'
      BY <1>1, <1>2, <2>1
    <3>5. \A i \in DOMAIN inbox' : inbox'[i].type = "conflict" => session'.inFlight.expected # disk'.print
      BY <1>1, <1>3 DEF Steady, Writing
    <3> QED BY <1>1, <3>1, <3>2, <3>3, <3>4, <3>5 DEF Writing
  <2>2. CASE o.print = session.print
    <3>1. session'.print = session.print
      BY <1>1, <2>2
    <3>2. ASSUME NEW i \in DOMAIN inbox', inbox'[i].type = "written"
          PROVE  /\ session'.print = session'.inFlight.expected /\ inbox'[i].print # session'.print
                 /\ \A j \in DOMAIN inbox' : Informs(inbox'[j]) /\ j < i => inbox'[j].print = session'.print
                 /\ inbox'[i].print = disk'.print => Awaited'
                 /\ inbox'[i].print = disk'.print \/ unseen'
      <4>1. /\ session'.print = session'.inFlight.expected /\ inbox'[i].print # session'.print
            /\ \A j \in DOMAIN inbox' : Informs(inbox'[j]) /\ j < i => inbox'[j].print = session'.print
            /\ inbox'[i].print = disk'.print \/ unseen'
        BY <1>1, <1>3, <1>6, <2>2, <3>1, <3>2 DEF Steady, Writing
      <4>2. ASSUME inbox'[i].print = disk'.print
            PROVE  Awaited'
        <5>1. Awaited /\ o.print # disk.print
          BY <1>1, <1>3, <2>2, <3>2, <4>1, <4>2 DEF Steady, Writing
        <5>2. CASE young \/ unseen
          BY <1>1, <1>6, <2>2, <5>2 DEF Awaited
        <5>3. CASE \E j \in DOMAIN inbox : inbox[j].type = "observed" /\ inbox[j].print = disk.print
          BY <1>1, <1>3, <5>1, <5>3 DEF Awaited
        <5> QED BY <5>1, <5>2, <5>3 DEF Awaited
      <4> QED BY <4>1, <4>2
    <3>3. \A i \in DOMAIN inbox' : inbox'[i].type = "conflict" => session'.inFlight.expected # disk'.print
      BY <1>1, <1>3 DEF Steady, Writing
    <3>4. at' = "stamp" =>
            /\ session'.print = session'.inFlight.expected /\ disk'.print # session'.print
            /\ disk'.value = session'.inFlight.value /\ young'
            /\ \A i \in DOMAIN inbox' : Informs(inbox'[i]) => inbox'[i].print = session'.print
      BY <1>1, <1>3, <3>1 DEF Steady, Writing
    <3>5. \/ session'.print = disk'.print \/ unseen' \/ at' = "stamp"
          \/ \E i \in DOMAIN inbox' : inbox'[i].type = "written"
      BY <1>1, <1>6, <1>10, <2>2, <3>1 DEF Steady, Writing
    <3>6. /\ Has(session'.inFlight) /\ session'.inFlight.expected = disk'.print => session'.print = disk'.print
          /\ at' = "replace" => session'.inFlight.expected = disk'.print
      BY <1>1, <3>1 DEF Steady, Writing
    <3> QED BY <3>2, <3>3, <3>4, <3>5, <3>6 DEF Writing
  <2> QED BY <2>1, <2>2
<1>13. \A i \in DOMAIN inbox' : Other(i)' => /\ i + 1 \in DOMAIN inbox /\ inbox'[i] = inbox[i + 1]
                                             /\ Other(i + 1) /\ inbox[i + 1].print # o.print
  <2> SUFFICES ASSUME NEW i \in DOMAIN inbox', Other(i)'
               PROVE  Other(i + 1) /\ inbox[i + 1].print # o.print
    BY <1>3
  <2>1. Informs(inbox[i + 1]) /\ inbox[i + 1].print # o.print
    BY <1>1, <1>3 DEF Other
  <2>2. inbox[i + 1].print # session.print
    BY <1>3, <1>4, <2>1 DEF Steady, Order
  <2>3. \A j \in DOMAIN inbox : inbox[j].type = "written" => inbox[j].print # inbox[i + 1].print
    BY <1>3, <1>9 DEF Other
  <2> QED BY <2>1, <2>2, <2>3 DEF Other
<1>14. \A v \in Held' : v \in Held \cup {NoValue, o.value}
  <2>1. root' \in {root, o.value}
    BY <1>1 DEF ShownSensed, ShownAgain, ShownBroken, ShownOver
  <2>2. Cell \in {root, NoValue}
    BY DEF Cell
  <2>3. session'.synced \in {session.synced, root, NoValue, o.value}
    BY <1>1, <2>2 DEF ShownSensed, ShownAgain, ShownBroken, ShownOver
  <2>4. session'.pending.value \in {session.pending.value, root, NoValue, o.value}
    BY <1>1, <2>2 DEF ShownSensed, ShownAgain, ShownBroken, ShownOver, NoDelivery
  <2> QED BY <1>1, <2>1, <2>3, <2>4 DEF Held
<1>15. Novelty'
  <2>1. o.print = session.print => o.value \in Held
    BY <1>2 DEF Held
  <2>2. ASSUME unseen'
        PROVE  disk'.value = Invalid \/ disk'.value \notin Held'
    <3>1. unseen /\ o.print # disk.print /\ NewTo(disk.value)
      BY <1>1, <2>2 DEF Steady, Novelty
    <3>2. disk.value # o.value \/ disk.value = Invalid
      BY <1>2, <1>3, <2>1, <3>1 DEF Steady, Novelty, NewTo
    <3> QED BY <1>1, <1>14, <3>1, <3>2, ValuesToShow DEF NewTo
  <2>3. unseen' => \A i \in DOMAIN inbox' : Other(i)' /\ inbox'[i].print # disk'.print =>
                     inbox'[i].value # disk'.value \/ disk'.value = Invalid
    BY <1>1, <1>13 DEF Steady, Novelty
  <2>4. ASSUME NEW i \in DOMAIN inbox', Other(i)'
        PROVE  inbox'[i].value = Invalid \/ inbox'[i].value \notin Held'
    <3>1. /\ i + 1 \in DOMAIN inbox /\ inbox'[i] = inbox[i + 1]
          /\ Other(i + 1) /\ inbox[i + 1].print # o.print /\ NewTo(inbox[i + 1].value)
      BY <1>13, <2>4 DEF Steady, Novelty
    <3>2. inbox[i + 1].value # o.value \/ inbox[i + 1].value = Invalid
      BY <1>2, <1>3, <2>1, <3>1 DEF Steady, Novelty, NewTo
    <3>3. inbox[i + 1].value # NoValue
      BY <3>1, ValuesToShow DEF Other
    <3> QED BY <1>14, <3>1, <3>2, <3>3 DEF NewTo
  <2>5. \A i, j \in DOMAIN inbox' : Other(i)' /\ Other(j)' /\ inbox'[i].print # inbox'[j].print =>
          inbox'[i].value # inbox'[j].value \/ inbox'[i].value = Invalid
    BY <1>13 DEF Steady, Novelty
  <2> QED BY <2>2, <2>3, <2>4, <2>5 DEF Novelty, NewTo
<1>16. Erring'
  <2>1. CASE ShownSensed(o)
    BY <2>1 DEF ShownSensed, Erring
  <2>2. CASE ShownAgain(o)
    BY <1>1, <1>11, <2>2 DEF ShownAgain, Steady, Erring, Senses
  <2>3. CASE ShownBroken(o)
    BY <1>1, <1>2, <1>11, <2>3 DEF ShownBroken, Erring, Senses, Marks
  <2>4. CASE ShownOver(o)
    BY <2>4 DEF ShownOver, Steady, Erring, Senses
  <2> QED BY <1>1, <2>1, <2>2, <2>3, <2>4
<1>17. Balance'
  <2>1. CASE ShownSensed(o)
    <3>1. ~Going
      <4>1. CASE o.print = session.print
        BY <1>2, <2>1, <4>1 DEF ShownSensed, Steady, Erring, Going
      <4> QED BY <1>2, <4>1
    <3>2. session'.synced = Cell' /\ (Even(session, Going))'
      BY <1>1, <1>11, <2>1, <3>1 DEF ShownSensed, Cell, Even, Like
    <3> QED BY <3>2 DEF Balance, Balanced
  <2>2. CASE ShownAgain(o)
    <3>1. Cell' = Cell
      BY <2>2 DEF ShownAgain, Cell
    <3>2. CASE session'.pending = session.pending /\ session'.synced = session.synced
      BY <1>1, <1>2, <1>6, <1>11, <2>2, <3>1, <3>2
         DEF ShownAgain, Steady, Balance, Balanced, Even, Like, Actuates
    <3>3. CASE /\ ~session.senseError /\ session'.synced = root
               /\ Has(session'.pending) /\ session'.pending.value = root
      BY <3>1, <3>3 DEF Balance, Balanced, Even, Cell
    <3> QED BY <2>2, <3>2, <3>3 DEF ShownAgain
  <2>3. CASE ShownBroken(o)
    BY <2>3 DEF ShownBroken, Balance, Cell
  <2>4. CASE ShownOver(o)
    <3>1. Cell' = Cell
      BY <2>4 DEF ShownOver, Cell
    <3> QED BY <2>4, <3>1 DEF ShownOver, Balance, Balanced, Even
  <2> QED BY <1>1, <2>1, <2>2, <2>3, <2>4
<1>18. Valued'
  <2>1. NoValue \notin Marks /\ Cell \in {root, NoValue}
    BY DEF NoValue, Marks, Absent, Invalid, Cell
  <2>2. CASE ShownSensed(o)
    BY <1>1, <2>1, <2>2 DEF ShownSensed, Steady, Valued, Senses
  <2>3. CASE ShownAgain(o)
    BY <1>1, <2>1, <2>3 DEF ShownAgain, Steady, Valued, Senses
  <2>4. CASE ShownBroken(o)
    BY <1>1, <2>4 DEF ShownBroken, Steady, Valued, Senses
  <2>5. CASE ShownOver(o)
    <3>1. session'.pending.value \in {session.pending.value, NoValue, root}
      BY <2>1, <2>5 DEF ShownOver, NoDelivery
    <3> QED BY <1>1, <2>1, <2>5, <3>1 DEF ShownOver, Steady, Valued, Senses
  <2> QED BY <1>1, <2>2, <2>3, <2>4, <2>5
<1> QED BY <1>5, <1>7, <1>8, <1>12, <1>15, <1>16, <1>17, <1>18 DEF Steady

-----------------------------------------------------------------------------
\* An acknowledgement.

LEMMA AcknowledgedIs ==
  ASSUME NEW s, SessionOK(s), NEW a, a.type \in {"written", "conflict"}
  PROVE  LET t == Acknowledged(s, a)
         IN /\ t.pending = s.pending /\ t.synced = s.synced /\ t.inFlight = NoDelivery
            /\ t.tripped = s.tripped /\ t.senseError = s.senseError
            /\ IF a.type = "written" THEN t.disk = a.value /\ t.print = a.print
               ELSE t.disk = s.disk /\ t.print = s.print
<1>1. s \in Sessions
  BY DEF SessionOK
<1> DEFINE u == [s EXCEPT !.inFlight = NoDelivery, !.initial = TRUE]
           v == [u EXCEPT !.disk = a.value, !.print = a.print, !.error = u.tripped]
<1>2. Acknowledged(s, a) = IF a.type = "written" THEN v ELSE u
  BY DEF Acknowledged, Taken, BelieveWritten, Believe
<1>3. /\ u.pending = s.pending /\ u.synced = s.synced /\ u.inFlight = NoDelivery
      /\ u.tripped = s.tripped /\ u.senseError = s.senseError /\ u.disk = s.disk /\ u.print = s.print
  BY <1>1 DEF Sessions
<1>4. /\ v.pending = s.pending /\ v.synced = s.synced /\ v.inFlight = NoDelivery
      /\ v.tripped = s.tripped /\ v.senseError = s.senseError /\ v.disk = a.value /\ v.print = a.print
  BY <1>1 DEF Sessions
<1> HIDE DEF u, v
<1> QED BY <1>2, <1>3, <1>4

LEMMA DeliveredSteady ==
  ASSUME Typed, Fresh, Guarded, Live, Steady, Delivered
  PROVE  Steady'
<1> DEFINE a == Head(inbox)
           s == Acknowledged(session, a)
           t == Dispatch(s)
<1>1. /\ Reads /\ turn = "idle" /\ MessageOK(a) /\ Ack(a)
      /\ UNCHANGED <<spec, disk, unseen, young, at, root>>
  BY ReceiveFits DEF Delivered, Ack, notShown, notController
<1>2. /\ 1 \in DOMAIN inbox /\ a = inbox[1]
      /\ \A i \in DOMAIN inbox' : /\ i + 1 \in DOMAIN inbox /\ inbox'[i] = inbox[i + 1]
                                  /\ i \in Nat /\ 1 < i + 1
      /\ \A i, j \in DOMAIN inbox' : i < j => i + 1 < j + 1
      /\ \A i \in DOMAIN inbox : i = 1 \/ (i - 1 \in DOMAIN inbox' /\ inbox'[i - 1] = inbox[i])
  BY <1>1, TailIs
<1> HIDE DEF a
<1>3. a.type \in {"written", "conflict"} /\ Has(session.inFlight)
      /\ (a.type = "written" => a.value = session.inFlight.value)
  BY <1>1, <1>2 DEF Steady, One, Ack
<1>4. SessionOK(session) /\ effects = <<>>
  BY <1>1, IdleEffects DEF Typed
<1>5. session' = t /\ effects' = effects \o Delivering(s, t) /\ work' = work
  BY <1>3 DEF Delivered, Live, Closing, Later, a
<1>6. /\ s.pending = session.pending /\ s.synced = session.synced /\ s.inFlight = NoDelivery
      /\ s.tripped = session.tripped /\ s.senseError = session.senseError
      /\ IF a.type = "written" THEN s.disk = a.value /\ s.print = a.print
         ELSE s.disk = session.disk /\ s.print = session.print
  BY <1>3, <1>4, AcknowledgedIs
<1>7. SessionOK(s)
  BY <1>1, <1>4, AcknowledgedFits
<1> HIDE DEF s
<1>8. /\ SessionOK(t) /\ t.disk = s.disk /\ t.print = s.print /\ t.synced = s.synced
      /\ t.senseError = s.senseError /\ t.tripped = s.tripped
      /\ \/ t = s
         \/ /\ Has(s.pending) /\ t.pending = NoDelivery
            /\ \/ t.inFlight = NoDelivery
               \/ Has(t.inFlight) /\ t.inFlight.value = s.pending.value /\ t.inFlight.expected = s.print
  BY <1>6, <1>7, DispatchIs
<1>9. effects' = IF Has(t.inFlight) THEN <<Deliver(t.inFlight)>> ELSE <<>>
  <2>1. Delivering(s, t) = IF Has(t.inFlight) THEN <<Deliver(t.inFlight)>> ELSE <<>>
    BY <1>6, NoDeliveryIs DEF Delivering, Deliver
  <2>2. Delivering(s, t) \in Seq(Operation)
    BY <1>8, DeliveringFits
  <2> HIDE DEF t
  <2> QED BY <1>4, <1>5, <2>1, <2>2
<1> HIDE DEF t
<1>10. \A i \in DOMAIN inbox' : ~Ack(inbox'[i]) /\ inbox'[i].type \notin {"written", "conflict"}
  <2> SUFFICES ASSUME NEW i \in DOMAIN inbox', Ack(inbox[i + 1]) PROVE FALSE
    BY <1>2 DEF Ack
  <2>1. i + 1 = 1
    BY <1>1, <1>2 DEF Steady, One
  <2> QED BY <1>2, <2>1
<1>11. NoDelivers /\ at \notin {"replace", "stamp"}
  <2>1. ~NoAcks
    BY <1>1, <1>2 DEF NoAcks
  <2> QED BY <2>1, AtWork DEF Steady, One, NoDelivers
<1>12. \A i \in DOMAIN inbox : inbox[i].type = "written" => i = 1 /\ a.type = "written"
  BY <1>1, <1>2 DEF Steady, One, Ack
<1>13. s.print = disk.print \/ unseen
  BY <1>2, <1>6, <1>11, <1>12 DEF Steady, Writing
<1>14. Order'
  <2>1. IF Informs(a) THEN s.disk = a.value /\ s.print = a.print ELSE s.disk = session.disk /\ s.print = session.print
    BY <1>3, <1>6 DEF Informs
  <2>2. Takes
    BY <1>1, <1>5, <1>8, <2>1 DEF Takes, a
  <2> QED BY <2>2, TakesOrder DEF Steady
<1>15. Zero'
  <2>1. disk.value = Absent => s.print = 0
    <3>1. CASE a.type = "written"
      <4>1. Informs(a)
        BY <3>1 DEF Informs
      <4>2. disk.value = Absent => a.value = Absent
        BY <1>2, <4>1 DEF Steady, Order
      <4>3. a.value = Absent => a.print = 0
        BY <1>2, <4>1 DEF Steady, Zero
      <4> QED BY <1>6, <3>1, <4>2, <4>3
    <3>2. CASE a.type # "written"
      BY <1>6, <3>2 DEF Steady, Zero
    <3> QED BY <3>1, <3>2
  <2>2. s.disk = Absent => s.print = 0
    <3>1. a.type = "written" => Informs(a)
      BY DEF Informs
    <3> QED BY <1>2, <1>6, <3>1 DEF Steady, Zero
  <2>3. t.inFlight.expected \in {0, s.print}
    BY <1>6, <1>8, NoDeliveryIs
  <2>4. \A i \in DOMAIN inbox' : Informs(inbox'[i]) /\ inbox'[i].value = Absent => inbox'[i].print = 0
    BY <1>2 DEF Steady, Zero
  <2>5. disk.value = Absent <=> disk.print = 0
    BY DEF Steady, Zero
  <2> QED BY <1>1, <1>5, <1>8, <2>1, <2>2, <2>3, <2>4, <2>5 DEF Zero
<1>16. One'
  <2>1. NoAcks'
    BY <1>10 DEF NoAcks
  <2>2. NoDelivers'
    BY <1>1, <1>5, <1>11 DEF NoDelivers, Delivers
  <2>3. \A i \in DOMAIN work' : work'[i].type # "cleanup" /\ ~Delivers(i)'
    BY <1>5, <2>2 DEF Steady, One, NoDelivers
  <2>4. \A i \in DOMAIN inbox' : inbox'[i].type \notin {"attach", "error", "begin_close"}
    BY <1>2 DEF Steady, One
  <2> QED BY <1>5, <1>9, <1>10, <2>1, <2>2, <2>3, <2>4 DEF One
<1>17. /\ Going' <=> Has(t.inFlight) /\ t.inFlight.expected = disk.print
       /\ Has(t.inFlight) => t.inFlight.expected = s.print /\ t.pending = NoDelivery
  BY <1>1, <1>5, <1>6, <1>8, <1>10, <1>11, NoDeliveryIs DEF Going
<1>18. Writing'
  BY <1>1, <1>5, <1>8, <1>10, <1>11, <1>13, <1>17 DEF Writing
<1>19. \A i \in DOMAIN inbox' : Other(i)' => /\ i + 1 \in DOMAIN inbox /\ inbox'[i] = inbox[i + 1]
                                             /\ Other(i + 1)
  <2> SUFFICES ASSUME NEW i \in DOMAIN inbox', Other(i)' PROVE Other(i + 1)
    BY <1>2
  <2>1. Informs(inbox[i + 1]) /\ inbox[i + 1].print # s.print
    BY <1>2, <1>5, <1>8 DEF Other
  <2>2. CASE a.type = "written"
    <3>1. Informs(a) /\ a.print # session.print /\ s.print = a.print
      BY <1>2, <1>6, <2>2 DEF Steady, Writing, Informs
    <3>2. inbox[i + 1].print # session.print
      BY <1>2, <2>1, <3>1 DEF Steady, Order
    <3> QED BY <1>2, <1>12, <2>1, <3>1, <3>2 DEF Other
  <2>3. CASE a.type # "written"
    BY <1>6, <1>12, <2>1, <2>3 DEF Other
  <2> QED BY <2>2, <2>3
<1>20. \A v \in Held' : v \in Held \cup {NoValue}
  <2>1. session'.disk \in {session.disk, session.inFlight.value}
    BY <1>3, <1>5, <1>6, <1>8
  <2>2. session'.pending.value \in {session.pending.value, NoValue}
    BY <1>5, <1>6, <1>8 DEF NoDelivery
  <2>3. session'.inFlight.value \in {session.pending.value, NoValue}
    BY <1>5, <1>6, <1>8 DEF NoDelivery
  <2> QED BY <1>1, <1>5, <1>6, <1>8, <2>1, <2>2, <2>3 DEF Held
<1>21. Novelty'
  <2>1. unseen' => /\ disk'.value = Invalid \/ disk'.value \notin Held'
                   /\ \A i \in DOMAIN inbox' : Other(i)' /\ inbox'[i].print # disk'.print =>
                        inbox'[i].value # disk'.value \/ disk'.value = Invalid
    BY <1>1, <1>19, <1>20, ValuesToShow DEF Steady, Novelty, NewTo
  <2>2. \A i \in DOMAIN inbox' : Other(i)' => inbox'[i].value = Invalid \/ inbox'[i].value \notin Held'
    BY <1>19, <1>20, ValuesToShow DEF Steady, Novelty, NewTo, Other
  <2>3. \A i, j \in DOMAIN inbox' : Other(i)' /\ Other(j)' /\ inbox'[i].print # inbox'[j].print =>
          inbox'[i].value # inbox'[j].value \/ inbox'[i].value = Invalid
    BY <1>19 DEF Steady, Novelty
  <2> QED BY <2>1, <2>2, <2>3 DEF Novelty, NewTo
<1>22. ASSUME a.type = "written"
       PROVE  Erring' /\ (Even(session, Going) => Even(s, FALSE))
  <2>1. Going /\ s.disk = session.inFlight.value
    BY <1>2, <1>3, <1>6, <1>22 DEF Going
  <2>2. Erring'
    <3> SUFFICES ASSUME session.senseError
                 PROVE  Senses /\ ~Has(t.pending) /\ ~Has(t.inFlight) /\ Awaited'
      BY <1>1, <1>5, <1>6, <1>8 DEF Erring, Senses
    <3>1. Senses /\ ~Has(session.pending)
      BY <2>1 DEF Steady, Erring
    <3>2. ~Has(t.pending) /\ ~Has(t.inFlight)
      BY <1>6, <1>8, <3>1, NoDeliveryIs
    <3>3. Awaited
      BY <1>2, <1>22 DEF Steady, Writing, Awaited
    <3>4. \A i \in DOMAIN inbox : inbox[i].type = "observed" => i # 1
      BY <1>2, <1>22
    <3>5. Awaited'
      BY <1>1, <1>2, <3>3, <3>4 DEF Awaited
    <3> QED BY <3>1, <3>2, <3>5
  <2>3. Even(session, Going) => Even(s, FALSE)
    BY <1>6, <2>1, NoDeliveryIs DEF Even, Like
  <2> QED BY <2>2, <2>3
<1>23. ASSUME a.type = "conflict"
       PROVE  Even(session, Going) => Even(s, FALSE)
  <2>1. ~Going
    BY <1>2, <1>11, <1>12, <1>23 DEF Steady, Writing, Going
  <2>2. Even(session, Going) => Even(s, FALSE)
    BY <1>6, <1>23, <2>1 DEF Even, Like
  <2> QED BY <2>2
<1>24. Even(session, Going) => Even(s, FALSE)
  BY <1>3, <1>22, <1>23
<1>25. Erring'
  <2>1. CASE a.type = "conflict"
    <3> SUFFICES ASSUME session.senseError
                 PROVE  Senses' /\ session'.disk \in Marks /\ ~(Has(session'.pending) /\ Going')
      BY <1>5, <1>6, <1>8 DEF Erring
    <3>1. Senses /\ session.disk \in Marks
      BY <1>3 DEF Steady, Erring
    <3>2. ~(Has(session'.pending) /\ Going')
      BY <1>5, <1>17, NoDeliveryIs
    <3> QED BY <1>1, <1>5, <1>6, <1>8, <2>1, <3>1, <3>2 DEF Senses
  <2> QED BY <1>3, <1>22, <2>1
<1>26. Balance'
  <2> SUFFICES ASSUME Actuates, ~session.tripped, Cell # NoValue
               PROVE  session'.synced = Cell' /\ (Even(session, Going)' \/ unseen')
    BY <1>1, <1>5, <1>6, <1>8 DEF Balance, Balanced, Actuates, Cell
  <2>1. session.synced = Cell /\ (Even(session, Going) \/ unseen) /\ Cell' = Cell
    BY <1>1, <1>5, <1>6, <1>8 DEF Steady, Balance, Balanced, Cell
  <2>2. session'.synced = Cell'
    BY <1>5, <1>6, <1>8, <2>1
  <2>3. CASE ~unseen /\ Even(s, FALSE)
    <3>1. Going' \in BOOLEAN /\ (Going' => Has(t.inFlight)) /\ (Has(t.inFlight) => Going')
      BY <1>13, <1>17, <2>3 DEF Going
    <3>2. PICK goes \in BOOLEAN : goes <=> Going'
      BY <3>1
    <3>3. ~Has(s.inFlight) /\ (goes <=> Has(t.inFlight)) /\ (t.inFlight = s.inFlight => goes = FALSE)
      BY <1>6, <3>1, <3>2, NoDeliveryIs
    <3>4. Even(t, goes) \/ ~TRUE
      BY <1>7, <2>3, <3>3, DispatchEven DEF t
    <3> QED BY <1>1, <1>5, <2>2, <3>2, <3>4 DEF Even, Like
  <2> QED BY <1>1, <1>24, <2>1, <2>2, <2>3
<1>27. Valued'
  <2>1. NoValue \notin Marks
    BY DEF NoValue, Marks, Absent, Invalid
  <2>2. session'.pending.value \in {session.pending.value, NoValue}
        /\ session'.inFlight.value \in {session.pending.value, NoValue}
    BY <1>5, <1>6, <1>8 DEF NoDelivery
  <2> QED BY <1>1, <1>5, <1>6, <1>8, <2>1, <2>2 DEF Steady, Valued, Senses
<1> QED BY <1>14, <1>15, <1>16, <1>18, <1>21, <1>25, <1>26, <1>27 DEF Steady

-----------------------------------------------------------------------------
\* The first observation.

LEMMA InitialIs ==
  ASSUME Typed, NEW o, o.value # NoValue
  PROVE  LET action == IF root = NoValue THEN InitialWithout(o) ELSE InitialWithValue(o)
         IN /\ action \in {"sense", "sense null", "sense null, error", "error", "write", "nothing"}
            /\ action = "sense" => o.value \notin Marks
            /\ action = "error" => Senses /\ o.value \in Marks
            /\ action \in {"sense null", "sense null, error"} => o.value = Absent /\ Senses
            /\ action = "write" => root # NoValue
            /\ action = "nothing" => \/ root = NoValue /\ ~Senses
                                     \/ root # NoValue /\ (Actuates => Like(o.value, root))
<1>1. /\ spec.mode \in {"r", "w", "rw"} /\ spec.authority \in {"file", "cell", "file-strict"}
      /\ spec.authority = "file-strict" => spec.mode # "w"
      /\ spec.mode = "w" => spec.authority = "cell"
  BY SpecsAssumption DEF Typed, TypeOK, Allowed
<1>2. CASE root = NoValue
  <2>1. CASE ~Senses
    BY <1>2, <2>1 DEF InitialWithout
  <2>2. CASE Senses
    <3>1. InitialWithout(o) = IF o.value = Invalid THEN "error"
                              ELSE IF o.value = Absent
                                   THEN IF spec.authority = "file-strict" THEN "sense null, error" ELSE "sense null"
                              ELSE "sense"
      BY <2>2 DEF InitialWithout, Absent, Invalid
    <3> QED BY <1>2, <2>2, <3>1 DEF Marks
  <2> QED BY <2>1, <2>2
<1>3. CASE root # NoValue
  <2>1. CASE o.value \in {Absent, Null}
    <3>1. InitialWithValue(o) = IF o.value = Absent /\ spec.authority = "file-strict" THEN "error"
                                ELSE IF root # Null /\ Actuates THEN "write" ELSE "nothing"
      BY <2>1 DEF InitialWithValue
    <3> QED BY <1>1, <1>3, <2>1, <3>1 DEF Marks, Senses, Like
  <2>2. CASE o.value \notin {Absent, Null} /\ spec.authority = "cell"
    <3>1. InitialWithValue(o) = IF Actuates /\ root # o.value THEN "write" ELSE "nothing"
      BY <2>2 DEF InitialWithValue
    <3> QED BY <1>3, <3>1 DEF Like
  <2>3. CASE o.value \notin {Absent, Null} /\ spec.authority # "cell"
    <3>1. InitialWithValue(o) = IF o.value = Invalid THEN "error" ELSE IF o.value # root THEN "sense" ELSE "nothing"
      BY <2>3 DEF InitialWithValue
    <3> QED BY <1>1, <1>3, <2>3, <3>1 DEF Marks, Senses, Like
  <2> QED BY <2>1, <2>2, <2>3
<1> QED BY <1>2, <1>3

\* The cell and the file agree, are about to, or there is a sense error.
LEMMA AttachIs ==
  ASSUME Typed, Prepared, Attach
  PROVE  LET o == Head(inbox)
         IN /\ o = inbox[1] /\ inbox' = <<>> /\ effects' = <<Activation>>
            /\ UNCHANGED <<spec, disk, young, at, work>>
            /\ o.value # NoValue /\ unseen' = (unseen /\ o.print # disk.print)
            /\ session'.disk = o.value /\ session'.print = o.print /\ session'.inFlight = NoDelivery
            /\ session'.tripped = FALSE
            /\ root' \in {root, o.value, Null} /\ root' \notin Marks
            /\ session'.pending = NoDelivery \/ (session'.pending.value = root' /\ Has(session'.pending))
            /\ session'.synced = root'
            /\ \/ session'.senseError /\ session'.pending = NoDelivery /\ Senses /\ o.value \in Marks
               \/ /\ ~session'.senseError /\ (Senses => root' # NoValue)
                  /\ root' = NoValue \/ ~Actuates \/ Has(session'.pending) \/ Like(o.value, root')
<1> DEFINE o == Head(inbox)
           action == IF root = NoValue THEN InitialWithout(o) ELSE InitialWithValue(o)
           found == [session EXCEPT !.disk = o.value, !.print = o.print, !.synced = root]
           acted == CASE action = "sense" -> Sense(found, o.value)
                      [] action = "sense null" -> [found EXCEPT !.synced = Null]
                      [] action = "sense null, error" -> [found EXCEPT !.synced = Null, !.senseError = TRUE]
                      [] action = "error" -> [found EXCEPT !.senseError = TRUE]
                      [] action = "write" -> Request(found, root, FALSE)
                      [] action = "nothing" -> found
           asked == IF spec.mode = "rw" /\ o.raw /\ action \in {"sense", "nothing"}
                    THEN Request(acted, acted.synced, TRUE) ELSE acted
           made == [asked EXCEPT !.initial = ~Has(asked.pending)]
<1>1. Reads /\ MessageOK(o) /\ o.type = "attach"
  <2>1. Receive("attach")
    BY DEF Attach
  <2> HIDE DEF o
  <2> QED BY <2>1, ReceiveFits DEF o
<1>2. o = inbox[1] /\ inbox' = <<>> /\ o.value # NoValue /\ o.value \in Values \cup {Absent} /\ o.print \in Prints
  <2>1. inbox \in Seq(Message) /\ Len(inbox) = 1 /\ inbox' = Tail(inbox)
    BY <1>1 DEF Reads, Prepared, Typed, TypeOK
  <2>2. inbox' = <<>> /\ Head(inbox) = inbox[1]
    BY <2>1
  <2>3. o = inbox[1]
    BY <2>2
  <2> HIDE DEF o
  <2> QED BY <1>1, <2>2, <2>3 DEF MessageOK, Message, Informs
<1>3. /\ root' = CASE action = "sense" -> o.value
                   [] action \in {"sense null", "sense null, error"} -> Null
                   [] OTHER -> root
      /\ Later(made, <<Activation>>) /\ Shown(o) /\ UNCHANGED notController
  BY DEF Attach
<1>4. /\ session' = made /\ effects' = <<Activation>>
      /\ UNCHANGED <<spec, disk, young, at, work>> /\ unseen' = (unseen /\ o.print # disk.print)
  <2>1. effects = <<>> /\ <<Activation>> \in Seq(Operation)
    BY ActivationIs, OneSeq DEF Prepared
  <2>2. effects' = effects \o <<Activation>> /\ session' = made /\ work' = work
    BY <1>3 DEF Later
  <2> HIDE DEF made
  <2>3. effects' = <<Activation>>
    BY <2>1, <2>2
  <2> QED BY <1>3, <2>2, <2>3 DEF Shown, notController
<1>5. /\ action \in {"sense", "sense null", "sense null, error", "error", "write", "nothing"}
      /\ action = "sense" => o.value \notin Marks
      /\ action = "error" => Senses /\ o.value \in Marks
      /\ action \in {"sense null", "sense null, error"} => o.value = Absent /\ Senses
      /\ action = "write" => root # NoValue
      /\ action = "nothing" => \/ root = NoValue /\ ~Senses
                               \/ root # NoValue /\ (Actuates => Like(o.value, root))
  BY <1>2, InitialIs
<1> HIDE DEF o, action
<1>6. SessionOK(session) /\ session \in Sessions /\ root \in Values \cup {NoValue} /\ root \notin Marks
  BY DEF Typed, TypeOK, SessionOK, Prepared
<1>7. /\ SessionOK(found) /\ found \in Sessions /\ found.disk = o.value /\ found.print = o.print
      /\ found.inFlight = NoDelivery /\ found.pending = NoDelivery /\ found.synced = root
      /\ found.tripped = FALSE /\ found.senseError = FALSE
  <2>1. /\ found \in Sessions /\ found.disk = o.value /\ found.print = o.print
        /\ found.inFlight = session.inFlight /\ found.pending = session.pending /\ found.synced = root
        /\ found.tripped = session.tripped /\ found.senseError = session.senseError
        /\ found.reasserts = session.reasserts
    BY <1>2, <1>6 DEF Sessions
  <2>2. session.inFlight = NoDelivery /\ session.pending = NoDelivery /\ ~session.tripped /\ ~session.senseError
    BY DEF Prepared
  <2>3. session.tripped = FALSE /\ session.senseError = FALSE
    BY <1>6, <2>2 DEF Sessions
  <2> HIDE DEF found
  <2> QED BY <1>6, <2>1, <2>2, <2>3 DEF SessionOK
<1> HIDE DEF found
<1> DEFINE Fits(s, v, e) == /\ SessionOK(s) /\ s \in Sessions /\ s.disk = o.value /\ s.print = o.print
                            /\ s.inFlight = NoDelivery /\ s.tripped = FALSE /\ s.synced = v /\ s.senseError = e
           Unasked(s) == s.pending = NoDelivery
           Asks(s, v) == Has(s.pending) /\ s.pending.value = v
<1>8. ASSUME NEW s, Fits(s, s.synced, FALSE), Unasked(s) \/ Asks(s, s.synced), s.synced # NoValue,
             NEW f \in BOOLEAN
      PROVE  Fits(Request(s, s.synced, f), s.synced, FALSE) /\ Asks(Request(s, s.synced, f), s.synced)
  <2>1. s.synced \in Values \cup {NoValue}
    BY <1>8 DEF Sessions
  <2> DEFINE r == Request(s, s.synced, f)
  <2>2. /\ SessionOK(r) /\ SameDisk(s, r) /\ r.senseError = s.senseError /\ r.tripped = s.tripped
        /\ IF s.tripped \/ s.synced = NoValue THEN r = s
           ELSE Has(r.pending) /\ r.pending.value = s.synced /\ r.synced = s.synced
    BY <1>8, <2>1, RequestIs, RequestFits
  <2> HIDE DEF r
  <2>3. r \in Sessions
    BY <2>2 DEF SessionOK
  <2> QED BY <1>8, <2>2, <2>3 DEF SameDisk, r
<1>9. ASSUME asked \in Sessions
      PROVE  /\ session'.disk = asked.disk /\ session'.print = asked.print /\ session'.inFlight = asked.inFlight
             /\ session'.pending = asked.pending /\ session'.synced = asked.synced
             /\ session'.tripped = asked.tripped /\ session'.senseError = asked.senseError
  <2> HIDE DEF asked
  <2> QED BY <1>4, <1>9 DEF Sessions
<1>10. SUFFICES /\ root' \in {root, o.value, Null} /\ root' \notin Marks
                /\ Unasked(asked) \/ Asks(asked, root')
                /\ \/ Fits(asked, root', TRUE) /\ Unasked(asked) /\ Senses /\ o.value \in Marks
                   \/ /\ Fits(asked, root', FALSE) /\ (Senses => root' # NoValue)
                      /\ root' = NoValue \/ ~Actuates \/ Has(asked.pending) \/ Like(o.value, root')
  <2> HIDE DEF asked
  <2> QED BY <1>2, <1>4, <1>9, <1>10 DEF o
<1>11. Null \notin Marks
  BY DEF Null, Marks, Absent, Invalid
<1>12. CASE action = "sense"
  <2>1. root' = o.value /\ o.value \notin Marks /\ o.value \in Values /\ acted = Sense(found, o.value)
    BY <1>2, <1>3, <1>5, <1>12 DEF Marks
  <2> HIDE DEF acted
  <2>2. Fits(acted, o.value, FALSE) /\ Unasked(acted)
    <3>1. SessionOK(acted) /\ SameDisk(found, acted)
      BY <1>7, <2>1, SenseFits
    <3>2. /\ acted.synced = o.value /\ acted.senseError = FALSE /\ acted.tripped = found.tripped
          /\ acted.pending = NoDelivery
      BY <1>7, <2>1 DEF Sense, Sessions
    <3> QED BY <1>7, <3>1, <3>2 DEF SameDisk, SessionOK
  <2>3. Fits(asked, o.value, FALSE) /\ (Unasked(asked) \/ Asks(asked, o.value))
    BY <1>2, <1>8, <2>2
  <2> HIDE DEF asked
  <2> QED BY <1>2, <2>1, <2>3 DEF Like
<1>13. CASE action \in {"sense null", "sense null, error", "error"}
  <2> DEFINE v == IF action = "error" THEN root ELSE Null
             e == action # "sense null"
  <2>1. root' = v /\ asked = acted /\ o.value \in Marks /\ Senses /\ (~e => o.value = Absent)
    BY <1>3, <1>5, <1>13 DEF Marks
  <2>2. Fits(acted, v, e) /\ Unasked(acted)
    <3>1. /\ acted \in Sessions /\ acted.disk = o.value /\ acted.print = o.print /\ acted.inFlight = NoDelivery
          /\ acted.tripped = FALSE /\ acted.synced = v /\ acted.senseError = e /\ acted.pending = NoDelivery
          /\ acted.reasserts = found.reasserts
      BY <1>7, <1>13, NoDeliveryIs DEF Sessions
    <3> HIDE DEF acted, v, e
    <3> QED BY <1>7, <3>1 DEF SessionOK
  <2>3. v # NoValue \/ action = "error"
    BY NoDeliveryIs
  <2> HIDE DEF asked, acted
  <2> QED BY <1>6, <1>11, <2>1, <2>2, <2>3 DEF Like
<1>14. CASE action = "write"
  <2>1. root' = root /\ asked = acted /\ acted = Request(found, root, FALSE) /\ root # NoValue
    BY <1>3, <1>5, <1>14
  <2> HIDE DEF asked, acted
  <2>2. Fits(acted, root, FALSE) /\ Asks(acted, root)
    BY <1>7, <1>8, <2>1
  <2> QED BY <1>6, <2>1, <2>2
<1>15. CASE action = "nothing"
  <2>1. root' = root /\ acted = found
    BY <1>3, <1>15
  <2>2. CASE root = NoValue
    <3>1. asked = found /\ ~Senses
      BY <1>5, <1>15, <2>1, <2>2 DEF Senses
    <3> HIDE DEF asked, acted
    <3> QED BY <1>6, <1>7, <2>1, <2>2, <3>1
  <2>3. CASE root # NoValue
    <3>1. Actuates => Like(o.value, root)
      BY <1>5, <1>15, <2>3
    <3>2. asked \in {found, Request(found, found.synced, TRUE)}
      BY <2>1
    <3> HIDE DEF asked, acted
    <3>3. Fits(asked, root, FALSE) /\ (Unasked(asked) \/ Asks(asked, root))
      BY <1>7, <1>8, <2>3, <3>2
    <3> QED BY <1>6, <2>1, <2>3, <3>1, <3>3
  <2> QED BY <2>2, <2>3
<1> QED BY <1>5, <1>12, <1>13, <1>14, <1>15

LEMMA AttachSteady ==
  ASSUME Typed, Prepared, Attach
  PROVE  Steady'
<1> DEFINE o == Head(inbox)
<1>1. /\ o = inbox[1] /\ inbox' = <<>> /\ effects' = <<Activation>>
      /\ UNCHANGED <<spec, disk, young, at, work>>
      /\ o.value # NoValue /\ unseen' = (unseen /\ o.print # disk.print)
      /\ session'.disk = o.value /\ session'.print = o.print /\ session'.inFlight = NoDelivery
      /\ session'.tripped = FALSE
      /\ root' \in {root, o.value, Null} /\ root' \notin Marks
      /\ session'.pending = NoDelivery \/ (session'.pending.value = root' /\ Has(session'.pending))
      /\ session'.synced = root'
      /\ \/ session'.senseError /\ session'.pending = NoDelivery /\ Senses /\ o.value \in Marks
         \/ /\ ~session'.senseError /\ (Senses => root' # NoValue)
            /\ root' = NoValue \/ ~Actuates \/ Has(session'.pending) \/ Like(o.value, root')
  BY AttachIs
<1> HIDE DEF o
<1>2. /\ work = <<>> /\ at = "start" /\ (disk.value = Absent <=> disk.print = 0)
      /\ o.value = Absent => o.print = 0
      /\ disk.print = o.print => disk.value = o.value
      /\ disk.print # o.print => /\ unseen /\ disk.value \notin {Absent, Null}
                                 /\ disk.value = Invalid \/ disk.value \notin {root, o.value}
  BY <1>1 DEF Prepared
<1>3. \A i \in DOMAIN inbox' : FALSE
  BY <1>1, NoSeq
<1>4. \A i \in DOMAIN work' : FALSE
  BY <1>1, <1>2, NoSeq
<1>5. NoDelivery.expected = 0 /\ NoDelivery.value = NoValue /\ ~Has(NoDelivery) /\ NoValue \notin Marks
  BY DEF NoDelivery, Has, NoValue, Marks, Absent, Invalid
<1>6. Order'
  BY <1>1, <1>2, <1>3 DEF Order
<1>7. Zero'
  BY <1>1, <1>2, <1>3, <1>5 DEF Zero
<1>8. One'
  BY <1>1, <1>3, <1>4 DEF One
<1>9. ~Going' /\ ~Has(session'.inFlight)
  BY <1>1, <1>5 DEF Going
<1>10. Writing'
  BY <1>1, <1>2, <1>3, <1>9 DEF Writing
<1>11. Novelty'
  <2>1. Held' \subseteq {root, o.value, Null, NoValue}
    BY <1>1, <1>5 DEF Held
  <2>2. unseen' => disk'.value = Invalid \/ disk'.value \notin Held'
    BY <1>1, <1>2, <2>1, ValuesToShow
  <2> QED BY <1>3, <2>2 DEF Novelty, NewTo
<1>12. Erring'
  BY <1>1, <1>5, <1>9 DEF Erring, Senses
<1>13. Balance'
  <2> SUFFICES ASSUME Actuates', Cell' # NoValue
               PROVE  session'.synced = Cell' /\ Even(session, Going)'
    BY DEF Balance, Balanced
  <2>1. ~session'.senseError /\ Cell' = root' /\ Actuates
    BY <1>1 DEF Cell, Actuates
  <2>2. Has(session'.pending) \/ Like(o.value, root')
    BY <1>1, <2>1
  <2> QED BY <1>1, <1>5, <1>9, <2>1, <2>2 DEF Even, Like
<1>14. Valued'
  BY <1>1, <1>5 DEF Valued, Senses
<1> QED BY <1>6, <1>7, <1>8, <1>10, <1>11, <1>12, <1>13, <1>14 DEF Steady

LEMMA PreparedStays ==
  ASSUME Typed, mounted = "preparing", Prepared, Next, ~Attach, NewContents
  PROVE  Prepared' /\ mounted' = "preparing"
<1>1. /\ closer = "open" /\ ~active /\ work = <<>> /\ at = "start" /\ inbox # <<>> /\ Head(inbox).type = "attach"
  <2>1. inbox \in Seq(Message) /\ Len(inbox) = 1
    BY DEF Prepared, Typed, TypeOK
  <2>2. inbox # <<>> /\ Head(inbox) = inbox[1]
    BY <2>1
  <2> QED BY <2>2 DEF Prepared, Typed, EffectsWait
<1>2. Edit \/ AfterTurn \/ Foreign \/ TimePasses
  <2>1. ~Observed /\ ~Delivered /\ ~BeginClose
    BY <1>1 DEF Observed, Delivered, BeginClose, Receive
  <2>2. ~Tick /\ ~ClearError /\ ~ClearException /\ ~Unmount
    BY DEF Tick, ClearError, ClearException, Unmount
  <2>3. ~FlagClose /\ ~RefuseMessages /\ ~FlushOver /\ ~FlushTimeout /\ ~CloseEnds
    BY <1>1 DEF FlagClose, RefuseMessages, FlushOver, FlushTimeout, CloseEnds
  <2>4. ~Worker /\ ~Broker
    BY <1>1 DEF Worker, Broker, Working, PollStarts, Read, DeliverStarts, Replace, Stamp, CleanupStarts, Unlink
  <2> QED BY <2>1, <2>2, <2>3, <2>4 DEF Next, Handle, Close
<1>3. SessionOK(session) /\ session \in Sessions
  BY DEF Typed, SessionOK
<1>4. ASSUME UNCHANGED <<inbox, work, at, active, disk, unseen>>, effects' = <<>>,
             session'.pending = session.pending, session'.inFlight = session.inFlight,
             session'.tripped = session.tripped, ~session'.senseError, root' \notin Marks,
             root' = root \/ root' # disk.value
      PROVE  Prepared'
  BY <1>4 DEF Prepared
<1>5. CASE Edit
  <2>1. /\ UNCHANGED <<inbox, work, at, active, disk, unseen, mounted>> /\ edits' = edits + 1
        /\ Later([session EXCEPT !.senseError = FALSE], <<>>) /\ effects' = effects \o <<>>
        /\ root' # NoValue /\ root' \in Edits[edits + 1] /\ edits < Len(Edits)
    BY <1>5 DEF Edit, notShown, notController, Later
  <2>2. edits \in Nat /\ edits' # edits /\ edits + 1 \in DOMAIN Edits
    <3>1. edits \in 0 .. Len(Edits) /\ Len(Edits) \in Nat
      BY ContentsAssumption DEF Typed, TypeOK
    <3> QED BY <2>1, <3>1, ContentsAssumption
  <2>3. root' # disk.value
    BY <2>1, <2>2 DEF NewContents, Around
  <2>4. root' \notin Marks
    BY <2>1, <2>2, ContentsAssumption DEF Marks
  <2>5. /\ session'.pending = session.pending /\ session'.inFlight = session.inFlight
        /\ session'.tripped = session.tripped /\ session'.senseError = FALSE
    BY <1>3, <2>1 DEF Later, Sessions
  <2>6. effects' = <<>>
    BY <2>1 DEF Prepared
  <2> QED BY <1>4, <2>1, <2>3, <2>4, <2>5, <2>6
<1>6. CASE AfterTurn
  <2>1. UNCHANGED <<inbox, at, disk, unseen, mounted, root, session>> /\ Submit(effects) /\ effects' = <<>>
    BY <1>1, <1>6 DEF AfterTurn, notShown, notController, Closing
  <2>2. effects = <<>> /\ ~Activates(effects)
    BY DEF Prepared, Activates
  <2>3. work' = work \o <<>> /\ active' = active
    <3>1. active \in BOOLEAN
      BY DEF Typed, TypeOK
    <3> QED BY <1>1, <2>1, <2>2, <3>1 DEF Submit
  <2>4. work' = work
    BY <1>1, <2>3
  <2> QED BY <1>4, <2>1, <2>3, <2>4 DEF Prepared
<1>7. CASE Foreign
  <2>1. PICK c \in ForeignEdits[foreigns + 1] :
          disk' = [value |-> c.value, raw |-> c.raw, print |-> IF c.value = Absent THEN 0 ELSE NewPrint]
    BY <1>7 DEF Foreign
  <2>2. /\ UNCHANGED <<session, root, inbox, work, at, active, effects, mounted>>
        /\ unseen' = (disk'.value # Absent) /\ foreigns' = foreigns + 1
    BY <1>7 DEF Foreign, service, context
  <2>3. foreigns \in Nat /\ foreigns' # foreigns
    <3>1. foreigns \in 0 .. Len(ForeignEdits) /\ Len(ForeignEdits) \in Nat
      BY ContentsAssumption DEF Typed, TypeOK
    <3> QED BY <2>2, <3>1
  <2>4. disk'.value # Absent /\ (disk'.value = Invalid \/ disk'.value \notin Around)
    BY <2>3 DEF NewContents
  <2>5. 1 \in DOMAIN inbox
    <3>1. inbox \in Seq(Message) /\ Len(inbox) = 1
      BY DEF Prepared, Typed, TypeOK
    <3> QED BY <3>1
  <2>6. disk'.print # 0 /\ disk'.print # inbox[1].print
    BY <2>1, <2>4, <2>5, NewPrintFresh DEF Typed
  <2>7. disk'.value # Null /\ (disk'.value = Invalid \/ disk'.value \notin {root, inbox[1].value})
    BY <2>4, <2>5 DEF Around, Null, Invalid
  <2> QED BY <2>2, <2>4, <2>6, <2>7 DEF Prepared
<1>8. CASE TimePasses
  <2>1. UNCHANGED <<inbox, disk, unseen, at, active, effects, work, root, mounted>>
    BY <1>8 DEF TimePasses, fileState, service
  <2>2. /\ session'.inFlight = session.inFlight /\ session'.pending = session.pending
        /\ session'.senseError = session.senseError /\ session'.tripped = session.tripped
    BY <1>3, <1>8 DEF TimePasses, CoolDown, BackedOff, Sessions
  <2> QED BY <1>4, <2>1, <2>2 DEF Prepared
<1> QED BY <1>2, <1>5, <1>6, <1>7, <1>8

-----------------------------------------------------------------------------
(* ... and are kept so. *)

LEMMA InitSync ==
  Init => SyncInv
<1> SUFFICES ASSUME Init PROVE Prepared /\ mounted = "preparing"
  BY DEF SyncInv, Live
<1>1. PICK c \in Contents :
        disk = [value |-> c.value, raw |-> c.raw, print |-> IF c.value = Absent THEN 0 ELSE 1]
  BY DEF Init
<1> DEFINE m == [type |-> "attach", value |-> disk.value, print |-> disk.print, raw |-> disk.raw]
<1>2. inbox = <<m>> /\ m.type = "attach" /\ m.value = disk.value /\ m.print = disk.print
  BY DEF Init
<1> HIDE DEF m
<1>3. Len(inbox) = 1 /\ inbox[1] = m
  BY <1>2
<1>4. disk.value = Absent <=> disk.print = 0
  BY <1>1
<1>5. root \notin Marks
  BY ContentsAssumption DEF Init, Marks
<1>6. /\ session.pending = NoDelivery /\ session.inFlight = NoDelivery
      /\ ~session.tripped /\ ~session.senseError
      /\ work = <<>> /\ at = "start" /\ effects = <<>> /\ ~active /\ mounted = "preparing"
  BY DEF Init
<1> QED BY <1>2, <1>3, <1>4, <1>5, <1>6 DEF Prepared

\* Only the attachment begins it; unmount and close() end it.
LEMMA LivesOn ==
  ASSUME mounted # "preparing", [Next]_vars
  PROVE  mounted' # "preparing" /\ (Live' => Live)
<1>1. CASE UNCHANGED vars
  BY <1>1 DEF vars, context, Live
<1>2. CASE Handle
  BY <1>2 DEF Handle, Attach, Observed, Delivered, BeginClose, Live
<1>3. CASE AfterTurn \/ Tick
  BY <1>3 DEF AfterTurn, Tick, Live
<1>4. CASE Worker \/ Broker
  <2>1. UNCHANGED notService
    BY <1>4 DEF Worker, Broker, PollStarts, Read, DeliverStarts, Replace, Stamp, CleanupStarts, Unlink
  <2> QED BY <2>1 DEF notService, Live
<1>5. CASE Close \/ FlushTimeout
  BY <1>5 DEF Close, FlushTimeout, RefuseMessages, FlushOver, CloseEnds, Detach, context, Live
<1>6. CASE TimePasses \/ Edit \/ ClearError \/ ClearException
  <2>1. UNCHANGED <<mounted, closer>>
    <3>1. TimePasses => UNCHANGED <<mounted, closer>>
      BY DEF TimePasses
    <3>2. Edit => UNCHANGED <<mounted, closer>>
      BY DEF Edit
    <3>3. ClearError => UNCHANGED <<mounted, closer>>
      BY DEF ClearError
    <3>4. ClearException => UNCHANGED <<mounted, closer>>
      BY DEF ClearException
    <3> QED BY <1>6, <3>1, <3>2, <3>3, <3>4
  <2> QED BY <2>1 DEF Live
<1>7. CASE Unmount
  BY <1>7 DEF Unmount, Detach, Live
<1>8. CASE Foreign \/ FlagClose
  BY <1>8 DEF Foreign, FlagClose, context, Live
<1> QED BY <1>1, <1>2, <1>3, <1>4, <1>5, <1>6, <1>7, <1>8 DEF Next

LEMMA NextSteady ==
  ASSUME Undisturbed, Typed, Fresh, Guarded, Live, Steady, [Next]_vars, [NewContents]_vars, Live'
  PROVE  Steady'
<1>1. CASE UNCHANGED vars
  <2>1. Settles /\ root' = root /\ turn' = turn /\ session' = session /\ effects' = effects
    BY <1>1 DEF vars, fileState, service, context, Settles
  <2> QED BY <2>1, RestingSteady
<1>2. CASE Next /\ NewContents
  <2>1. mounted = "attached" /\ closer = "open" /\ faults' = faults
    BY <1>2 DEF Live, NewContents
  <2>2. ~Attach /\ ~BeginClose /\ ~Unmount /\ ~FlagClose /\ ~Close /\ ~FlushTimeout
    BY <2>1 DEF Live, Attach, BeginClose, Unmount, Detach, FlagClose, Close, RefuseMessages, FlushOver,
                CloseEnds, FlushTimeout
  <2> QED BY <1>2, <2>1, <2>2, ObservedSteady, DeliveredSteady, AfterTurnSteady, TickSteady, WorkerSteady,
             TimeSteady, EditSteady, ClearErrorSteady, ClearExceptionSteady, ForeignSteady DEF Next, Handle
<1> QED BY <1>1, <1>2

LEMMA NextSync ==
  ASSUME Undisturbed, Typed, Fresh, Guarded, SyncInv, [Next]_vars, [NewContents]_vars
  PROVE  SyncInv'
<1>1. CASE mounted # "preparing"
  <2>1. mounted' # "preparing" /\ (Live' => Live)
    BY <1>1, LivesOn
  <2> QED BY <2>1, NextSteady DEF SyncInv
<1>2. CASE mounted = "preparing" /\ UNCHANGED vars
  BY <1>2 DEF SyncInv, Prepared, Live, vars, fileState, service, context
<1>3. CASE mounted = "preparing" /\ Next /\ NewContents
  <2>1. CASE Attach
    <3>1. mounted' = "attached"
      BY <2>1 DEF Attach
    <3> QED BY <1>3, <2>1, <3>1, AttachSteady DEF SyncInv
  <2>2. CASE ~Attach
    BY <1>3, <2>2, PreparedStays DEF SyncInv, Live
  <2> QED BY <2>1, <2>2
<1> QED BY <1>1, <1>2, <1>3

LEMMA SteadyInSync ==
  ASSUME Typed, SyncInv, AtRest, ~unseen
  PROVE  InSync
<1>1. /\ Steady /\ turn = "idle" /\ work = <<>> /\ inbox = <<>> /\ ~young
      /\ ~Has(session.pending) /\ ~Has(session.inFlight)
  BY DEF AtRest, SyncInv, Live, Closing
<1>2. at = "start" /\ \A i \in DOMAIN inbox : FALSE
  BY <1>1, NoSeq DEF Typed, WorkerOK
<1>3. session.print = disk.print
  BY <1>1, <1>2 DEF Steady, Writing
<1>4. session.disk = disk.value
  BY <1>1, <1>3 DEF Steady, Order
<1>5. ASSUME session.senseError PROVE disk.value \in Marks
  BY <1>1, <1>2, <1>4, <1>5 DEF Steady, Erring, Awaited
<1>6. ASSUME ~session.senseError, Actuates, root # NoValue, ~session.tripped
      PROVE  Like(disk.value, root)
  <2>1. Cell = root
    BY <1>6 DEF Cell
  <2>2. session.synced = root /\ (Even(session, Going) \/ unseen) /\ ~Going
    BY <1>1, <1>6, <2>1 DEF Steady, Balance, Balanced, Going
  <2> QED BY <1>1, <1>4, <2>2 DEF Even
<1> QED BY <1>5, <1>6 DEF InSync, Like, Marks

\* Every step that brings a content brings a new one: none that the cell, the
\* file, the session or a message has; no foreign edit deletes the file, no step
\* of the service fails, and nobody writes in the middle of a write.
NewContentsOnly == [][NewContents]_vars

\* Then what the session, the queues and the file know of each other is this
\* (_mount_observed, _mount_delivered, _mount_dispatch, _mount_after_turn).
THEOREM SyncInductive ==
  ASSUME Undisturbed
  PROVE  Spec /\ NewContentsOnly => []SyncInv
<1>1. Init => SyncInv
  BY InitSync
<1>2. Typed /\ Fresh /\ Guarded /\ SyncInv /\ [Next]_vars /\ [NewContents]_vars => SyncInv'
  BY NextSync
<1> QED BY <1>1, <1>2, MountInductive, FreshInductive, PTL DEF Spec, NewContentsOnly

\* ... so that the file and the cell agree whenever sensing and writing have come
\* to rest, for every mode and authority, any number of edits of the user and of
\* others, of clear_error, unmount() and close(), and any interleaving of them.
THEOREM InSyncAlways ==
  ASSUME Undisturbed
  PROVE  Spec /\ NewContentsOnly => []InSyncAtRest
<1>1. Typed /\ SyncInv /\ (AtRest => ~unseen) => InSyncAtRest
  BY SteadyInSync DEF InSyncAtRest
<1> QED BY <1>1, SyncInductive, MountInductive, SeenAtRest, PTL

=============================================================================
