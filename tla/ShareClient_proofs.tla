--------------------------- MODULE ShareClient_proofs ---------------------------
(***************************************************************************)
(* ShareClient for every number of keys, edits, changes and faults: at     *)
(* rest the page shows what the server has.                                *)
(***************************************************************************)
EXTENDS ShareClient, Integers, TLAPS

-----------------------------------------------------------------------------
(* The invariant behind AgreeAtRest. *)

\* What a message says about a key.
About(m, k) == m.type = "shares" \/ m.key = k
Says(m, k) ==
  IF m.type = "shares" THEN m.records[k]
  ELSE [shared |-> TRUE, value |-> m.value, marker |-> m.marker]
LastAbout(q, i, k) == About(q[i], k) /\ \A j \in DOMAIN q : j > i => ~About(q[j], k)
\* from the i-th message on, none withdraws the key
ListedFrom(q, i, k) == \A j \in DOMAIN q : j >= i /\ About(q[j], k) => Says(q[j], k).shared

\* What is on its way: never ahead of the server, its last word on a key is the present
\* record, and its last snapshot lists what is shared.
Telling(q, k, rec) ==
  /\ \A i \in DOMAIN q : About(q[i], k) => Says(q[i], k).marker <= rec.marker
  /\ \A i \in DOMAIN q : LastAbout(q, i, k) => Says(q[i], k) = rec
  /\ \A i \in DOMAIN q : About(q[i], k) /\ ListedFrom(q, i, k) =>
       /\ rec.shared
       /\ Says(q[i], k).marker = rec.marker => Says(q[i], k).value = rec.value
  /\ \A i \in DOMAIN q : q[i].type = "shares" /\ (\A j \in DOMAIN q : j > i => q[j].type # "shares")
       => Says(q[i], k).shared = rec.shared

\* The websocket: the page is empty before its first snapshot, or waits for one to compare with.
Connection ==
  /\ conn.initializing => conn.up /\ conn.out = << >>
  /\ ~conn.up => conn.out = << >> /\ ~conn.initializing
  /\ ~conn.initializing => conn.pending = << >>
  /\ adopt /\ conn.up /\ ~conn.initializing => conn.out # << >> /\ Head(conn.out).type = "shares"
  /\ ~adopt /\ (~conn.up \/ conn.initializing \/ known # life) => \A k \in Keys : page[k] = NoEntry

\* Who has heard every snapshot lists what is shared; who has heard every message about a
\* key has its marker or a higher one.
Told(k) ==
  conn.up /\ ~conn.initializing =>
    /\ (\A i \in DOMAIN conn.out : conn.out[i].type # "shares") =>
         (record[k].shared <=> page[k] # NoEntry)
    /\ page[k] # NoEntry /\ (\A i \in DOMAIN conn.out : ~About(conn.out[i], k)) =>
         page[k].marker >= record[k].marker

WellFormed(e) ==
  /\ e.get.at # "none" => e.get.marker <= e.marker
  /\ e.get.drains => e.put.at = "refresh"
  /\ e.put.at \in {"asked", "answered"} /\ ~e.put.latest => e.pending # << >>
  /\ e.pending # << >> => e.put.at # "none"
  /\ e.put.at = "answered" => e.put.reply # "none"

\* In one life of the server its markers are not exceeded; why is stale[k].
Bounded(e, rec, why) ==
  /\ why = {} => e.marker <= rec.marker
  /\ e.get.at = "answered" => e.get.found <= rec.marker
  /\ e.put.at = "answered" /\ e.put.current => e.put.found <= rec.marker

\* A reply that will be used says what the server has, if it has the server's marker.
GoodReplies(e, rec) ==
  /\ e.get.at = "answered" =>
       /\ e.get.reply \in {"ok", "empty"}
       /\ e.get.found = rec.marker => e.get.value = rec.value
  /\ e.put.at = "answered" /\ e.put.current =>
       /\ e.put.reply # "error"
       /\ e.put.reply = "ok" /\ e.put.found = rec.marker => e.put.value = rec.value

\* What will still give an entry its value.
Reading(e) == \/ e.get.at = "asked"
              \/ e.get.at = "answered" /\ e.get.found >= e.get.marker /\ e.get.found >= e.marker
Writing(e) == \/ e.put.at = "asked" /\ e.put.current
              \/ e.put.at = "answered" /\ e.put.reply = "conflict"
              \/ e.put.at = "answered" /\ e.put.reply = "ok" /\ Current(e)
Covered(e, rec, why) ==
  why = {} /\ e.marker = rec.marker =>
    e.value = rec.value \/ Reading(e) \/ Writing(e) \/ e.pending # << >>

\* The page has compared its entries with this connection's server, and k will stay.
Settled(k) == conn.up /\ ~adopt /\ ListedFrom(conn.out, 1, k)

EntryInv(k) ==
  LET e == page[k]  rec == record[k] IN
  e # NoEntry =>
    /\ WellFormed(e)
    /\ known = life => Bounded(e, rec, stale[k])
    /\ Settled(k) => GoodReplies(e, rec) /\ Covered(e, rec, stale[k])

\* What is on its way, what the page lists and what each entry still waits for fit the records
\* of the server, after every step (_queue_or_send, receiveMessage, fetchValue, drainWrites).
SyncInv ==
  /\ TypeOK /\ Connection
  /\ \A k \in Keys : /\ Telling(conn.pending, k, record[k]) /\ Telling(conn.out, k, record[k])
                    /\ Told(k) /\ EntryInv(k)

-----------------------------------------------------------------------------
(* Entries of the page. *)

\* What holds of an entry, given the record of its key, why it may be stale, whether the
\* server is the one the page knows and whether the entry is settled.
Fine(e, rec, why, same, settled) ==
  /\ WellFormed(e)
  /\ same => Bounded(e, rec, why)
  /\ settled => same /\ rec.shared /\ GoodReplies(e, rec) /\ Covered(e, rec, why)

\* ... and of what an event makes of it.
Follows(f, e, rec, why, same, settled) ==
  f \in Entries /\ Fine(f, rec, why, same, settled) /\ f.marker >= e.marker

LEMMA Blanks == NoGet \in Get /\ NoPut \in Put
BY DEF NoGet, NoPut, Get, Put, Content

\* A request leaves the rest of the entry alone.
LEMMA Fetched ==
  ASSUME NEW e \in Entries, NEW f, f = Fetch(e)
  PROVE  /\ f \in Entries
         /\ f.get = [NoGet EXCEPT !.at = "asked", !.marker = e.marker]
         /\ f.value = e.value /\ f.checksum = e.checksum /\ f.marker = e.marker
         /\ f.pending = e.pending /\ f.put = e.put /\ f.own = e.own
         /\ f.unresolved = e.unresolved /\ f.read = e.read
BY Blanks DEF Fetch, Entries, Get, NoGet

LEMMA Unreads ==
  ASSUME NEW e \in Entries, NEW f, f = Unread(e)
  PROVE  /\ f \in Entries /\ f.get = NoGet
         /\ f.value = e.value /\ f.checksum = e.checksum /\ f.marker = e.marker
         /\ f.pending = e.pending /\ f.put = e.put /\ f.own = e.own
         /\ f.unresolved = e.unresolved /\ f.read = e.read
BY Blanks DEF Unread, Entries

LEMMA Revises ==
  ASSUME NEW e \in Entries, NEW f, f = Revised(e)
  PROVE  /\ f \in Entries /\ f.get = e.get
         /\ f.value = e.value /\ f.checksum = e.checksum /\ f.marker = e.marker
         /\ f.pending = e.pending /\ f.own = e.own
         /\ f.unresolved = e.unresolved /\ f.read = e.read
         /\ f.put.at = e.put.at /\ f.put.latest = e.put.latest /\ f.put.reply = e.put.reply
         /\ f.put.at # "none" => ~f.put.current
BY DEF Revised, Entries, Put

LEMMA Drains ==
  ASSUME NEW e \in Entries, NEW f, f = Drain(e)
  PROVE  /\ f \in Entries /\ f.get = e.get /\ f.pending = << >>
         /\ f.value = e.value /\ f.checksum = e.checksum /\ f.marker = e.marker
         /\ f.own = e.own /\ f.unresolved = e.unresolved /\ f.read = e.read
         /\ e.pending = << >> => f.put = NoPut
         /\ e.pending # << >> => f.put.at = "asked" /\ f.put.current /\ f.put.latest
<1>1. CASE e.pending = << >>
  BY <1>1, Blanks DEF Drain, Entries
<1>2. CASE e.pending # << >>
  <2> DEFINE put == [NoPut EXCEPT !.at = "asked", !.value = Head(e.pending), !.marker = e.marker]
  <2>1. Head(e.pending) \in Values /\ e.marker \in Nat
    BY <1>2 DEF Entries
  <2>2. put \in Put /\ put.at = "asked" /\ put.current /\ put.latest
    BY <2>1 DEF Put, NoPut, Content
  <2>3. f = [e EXCEPT !.pending = << >>, !.put = put]
    BY <1>2 DEF Drain
  <2>4. << >> \in Seq(Values)
    OBVIOUS
  <2> HIDE DEF put
  <2> QED BY <1>2, <2>2, <2>3, <2>4 DEF Entries
<1> QED BY <1>1, <1>2

LEMMA Parts ==
  ASSUME NEW e \in Entries
  PROVE  /\ e.get \in Get /\ e.put \in Put /\ e.pending \in Seq(Values) /\ e.marker \in Nat
         /\ e.value \in Content \cup {Undefined} /\ e.checksum \in Content /\ e.own \in Nat
         /\ e.read \in BOOLEAN /\ e.unresolved \in BOOLEAN
         /\ e.get.marker \in Nat /\ e.get.found \in Nat /\ e.get.value \in Content
         /\ e.get.drains \in BOOLEAN
         /\ e.put.marker \in Nat /\ e.put.found \in Nat /\ e.put.value \in Content
         /\ e.put.other \in Content /\ e.put.current \in BOOLEAN /\ e.put.latest \in BOOLEAN
BY DEF Entries, Get, Put

\* What holds of an entry whatever it reads.
Fetchable(e, rec, why, same, settled) ==
  /\ WellFormed(e)
  /\ settled => same /\ rec.shared
  /\ same /\ why = {} => e.marker <= rec.marker
  /\ e.put.at = "answered" /\ e.put.current =>
       /\ same => e.put.found <= rec.marker
       /\ settled => /\ e.put.reply # "error"
                     /\ e.put.reply = "ok" /\ e.put.found = rec.marker => e.put.value = rec.value

\* An entry that begins to read is covered by that.
LEMMA FetchFine ==
  ASSUME NEW rec \in Record, NEW why, NEW same \in BOOLEAN, NEW settled \in BOOLEAN,
         NEW e \in Entries, Fetchable(e, rec, why, same, settled)
  PROVE  /\ Fetch(e) \in Entries /\ Fetch(e).marker = e.marker
         /\ Fine(Fetch(e), rec, why, same, settled)
<1> DEFINE f == Fetch(e)
<1>1. /\ f \in Entries
      /\ f.get = [NoGet EXCEPT !.at = "asked", !.marker = e.marker]
      /\ f.value = e.value /\ f.marker = e.marker
      /\ f.pending = e.pending /\ f.put = e.put
  BY Fetched
<1>2. f.get.at = "asked" /\ f.get.marker = e.marker /\ ~f.get.drains
  BY <1>1 DEF NoGet
<1>3. e.marker \in Nat /\ rec.marker \in Nat
  BY DEF Entries, Record
<1> HIDE DEF f
<1>4. WellFormed(f)
  BY <1>1, <1>2, <1>3 DEF Fetchable, WellFormed
<1>5. same => Bounded(f, rec, why)
  BY <1>1, <1>2 DEF Fetchable, Bounded
<1>6. settled => GoodReplies(f, rec)
  BY <1>1, <1>2 DEF Fetchable, GoodReplies
<1>7. Covered(f, rec, why)
  BY <1>2 DEF Covered, Reading
<1>8. settled => same /\ rec.shared
  BY DEF Fetchable
<1> QED BY <1>1, <1>4, <1>5, <1>6, <1>7, <1>8 DEF Fine, f

LEMMA FineFetchable ==
  ASSUME NEW rec \in Record, NEW why, NEW same \in BOOLEAN, NEW settled \in BOOLEAN,
         NEW e \in Entries, Fine(e, rec, why, same, settled)
  PROVE  Fetchable(e, rec, why, same, settled)
BY DEF Fine, Fetchable, Bounded, GoodReplies

\* What is believed of the checksum and of the page's own edit does not matter.
LEMMA SameFine ==
  ASSUME NEW rec \in Record, NEW why, NEW same \in BOOLEAN, NEW settled \in BOOLEAN,
         NEW e \in Entries, Fine(e, rec, why, same, settled),
         NEW f \in Entries, f.value = e.value, f.marker = e.marker, f.pending = e.pending,
         f.get = e.get, f.put = e.put
  PROVE  Fine(f, rec, why, same, settled)
BY DEF Fine, WellFormed, Bounded, GoodReplies, Covered, Reading, Writing, Current

\* What holds of an entry whatever becomes of the write that is under way.
Unwritten(e, rec, why, same, settled) ==
  /\ e.get.at # "none" => e.get.marker <= e.marker
  /\ ~e.get.drains
  /\ same => /\ why = {} => e.marker <= rec.marker
             /\ e.get.at = "answered" => e.get.found <= rec.marker
  /\ settled => /\ same /\ rec.shared
                /\ e.get.at = "answered" =>
                     /\ e.get.reply \in {"ok", "empty"}
                     /\ e.get.found = rec.marker => e.get.value = rec.value
                /\ why = {} /\ e.marker = rec.marker =>
                     e.value = rec.value \/ Reading(e) \/ e.pending # << >>

\* An entry that drains its writes is covered by the next one, unless there is none.
LEMMA DrainFine ==
  ASSUME NEW rec \in Record, NEW why, NEW same \in BOOLEAN, NEW settled \in BOOLEAN,
         NEW e \in Entries, Unwritten(e, rec, why, same, settled)
  PROVE  Drain(e) \in Entries /\ Fine(Drain(e), rec, why, same, settled)
<1> DEFINE f == Drain(e)
<1>1. /\ f \in Entries /\ f.get = e.get /\ f.pending = << >>
      /\ f.value = e.value /\ f.marker = e.marker
      /\ e.pending = << >> => f.put = NoPut
      /\ e.pending # << >> => f.put.at = "asked" /\ f.put.current /\ f.put.latest
  BY Drains
<1>2. f.put.at \in {"none", "asked"} /\ (f.put.at = "asked" => f.put.latest)
  BY <1>1 DEF NoPut
<1> HIDE DEF f
<1>4. WellFormed(f)
  BY <1>1, <1>2 DEF Unwritten, WellFormed
<1>5. same => Bounded(f, rec, why)
  BY <1>1, <1>2 DEF Unwritten, Bounded
<1>6. settled => GoodReplies(f, rec)
  BY <1>1, <1>2 DEF Unwritten, GoodReplies
<1>7. settled => Covered(f, rec, why)
  BY <1>1, <1>2 DEF Unwritten, Covered, Reading, Writing
<1>8. settled => same /\ rec.shared
  BY DEF Unwritten
<1> QED BY <1>1, <1>4, <1>5, <1>6, <1>7, <1>8 DEF Fine, f

LEMMA ServeGetFine ==
  ASSUME NEW rec \in Record, NEW why, NEW same \in BOOLEAN, NEW settled \in BOOLEAN,
         NEW e \in Entries, Fine(e, rec, why, same, settled), e.get.at = "asked",
         NEW f, f = [e EXCEPT !.get = [@ EXCEPT !.at = "answered", !.value = rec.value,
                        !.found = rec.marker,
                        !.reply = IF ~rec.shared THEN "gone"
                                  ELSE IF rec.value = NoValue THEN "empty" ELSE "ok"]]
  PROVE  Follows(f, e, rec, why, same, settled)
<1> DEFINE reply == IF ~rec.shared THEN "gone" ELSE IF rec.value = NoValue THEN "empty" ELSE "ok"
           get == [e.get EXCEPT !.at = "answered", !.value = rec.value, !.found = rec.marker,
                                !.reply = reply]
<1>1. rec.marker \in Nat /\ rec.value \in Content /\ e.get \in Get /\ e.marker \in Nat
  BY Parts DEF Record
<1>2. get \in Get /\ get.at = "answered" /\ get.value = rec.value /\ get.found = rec.marker
      /\ get.reply = reply /\ get.marker = e.get.marker /\ get.drains = e.get.drains
  BY <1>1 DEF Get
<1>3. f = [e EXCEPT !.get = get]
  OBVIOUS
<1> HIDE DEF get
<1>4. f \in Entries /\ f.get = get /\ f.value = e.value /\ f.marker = e.marker
      /\ f.put = e.put /\ f.pending = e.pending
  BY <1>2, <1>3 DEF Entries
<1>5. WellFormed(f)
  BY <1>2, <1>4 DEF Fine, WellFormed
<1>6. same => Bounded(f, rec, why)
  BY <1>1, <1>2, <1>4 DEF Fine, Bounded
<1>7. settled => GoodReplies(f, rec)
  BY <1>2, <1>4 DEF Fine, GoodReplies
<1>8. ASSUME settled, why = {}, f.marker = rec.marker PROVE Reading(f)
  <2>1. e.get.marker <= e.marker
    BY DEF Fine, WellFormed
  <2> QED BY <1>1, <1>2, <1>4, <1>8, <2>1 DEF Reading
<1>9. Fine(f, rec, why, same, settled)
  BY <1>4, <1>5, <1>6, <1>7, <1>8 DEF Fine, Covered
<1>10. f.marker >= e.marker
  BY <1>1, <1>4
<1> QED BY <1>4, <1>9, <1>10 DEF Follows

LEMMA AfterGetFine ==
  ASSUME NEW rec \in Record, NEW why, NEW same \in BOOLEAN, NEW settled \in BOOLEAN,
         NEW e \in Entries, Fine(e, rec, why, same, settled),
         settled /\ why = {} /\ e.marker = rec.marker =>
           e.value = rec.value \/ Writing(e) \/ e.pending # << >>
  PROVE  AfterGet(e) \in Entries /\ Fine(AfterGet(e), rec, why, same, settled)
<1> DEFINE over == Unread(e)
<1>1. /\ over \in Entries /\ over.get = NoGet /\ over.value = e.value /\ over.marker = e.marker
      /\ over.pending = e.pending /\ over.put = e.put
  BY Unreads
<1>2. AfterGet(e) = IF e.get.drains THEN Drain(over) ELSE over
  BY DEF AfterGet
<1>3. NoGet.at = "none" /\ ~NoGet.drains
  BY DEF NoGet
<1>4. Writing(e) => Writing(over)
  BY <1>1 DEF Writing, Current
<1> HIDE DEF over
<1>5. CASE e.get.drains
  <2>1. e.put.at = "refresh"
    BY <1>5 DEF Fine, WellFormed
  <2>2. ~Writing(over)
    BY <1>1, <2>1 DEF Writing
  <2>3. (settled => same /\ rec.shared) /\ (same /\ why = {} => over.marker <= rec.marker)
    BY <1>1 DEF Fine, Bounded
  <2>4. Unwritten(over, rec, why, same, settled)
    BY <1>1, <1>3, <1>4, <2>2, <2>3 DEF Unwritten
  <2> QED BY <1>1, <1>2, <1>5, <2>4, DrainFine
<1>6. CASE ~e.get.drains
  <2>1. WellFormed(over)
    BY <1>1, <1>3 DEF Fine, WellFormed
  <2>2. same => Bounded(over, rec, why)
    BY <1>1, <1>3 DEF Fine, Bounded
  <2>3. settled => GoodReplies(over, rec)
    BY <1>1, <1>3 DEF Fine, GoodReplies
  <2>4. settled => Covered(over, rec, why)
    BY <1>1, <1>4 DEF Covered
  <2>5. settled => same /\ rec.shared
    BY DEF Fine
  <2> QED BY <1>1, <1>2, <1>6, <2>1, <2>2, <2>3, <2>4, <2>5 DEF Fine
<1> QED BY <1>1, <1>5, <1>6 DEF Entries, Get

LEMMA Reads ==
  ASSUME NEW e \in Entries, NEW r, r = Read(e)
  PROVE  /\ r \in Entries /\ r.get = e.get /\ r.put = e.put /\ r.pending = e.pending
         /\ ~Counts(e) => r.marker = e.marker /\ r.value = e.value
         /\ Counts(e) => /\ r.value = e.get.value
                         /\ e.get.reply = "empty" => r.marker = e.marker
                         /\ e.get.reply = "ok" => r.marker = e.get.found
<1> DEFINE shown == [e EXCEPT !.value = e.get.value, !.read = TRUE, !.unresolved = FALSE]
<1>1. e.get.value \in Content /\ e.get.found \in Nat /\ e.own \in Nat
  BY Parts
<1>2. shown \in Entries /\ shown.get = e.get /\ shown.put = e.put /\ shown.pending = e.pending
      /\ shown.value = e.get.value /\ shown.marker = e.marker /\ shown.own = e.own
  BY <1>1 DEF Entries
<1>3. CASE ~Counts(e)
  BY <1>3 DEF Read
<1>4. CASE Counts(e) /\ e.get.reply = "empty"
  BY <1>2, <1>4 DEF Read
<1>5. CASE Counts(e) /\ e.get.reply # "empty"
  <2>1. r = [shown EXCEPT !.marker = e.get.found, !.checksum = e.get.value,
                          !.own = Acknowledge(shown.own, e.get.found)]
    BY <1>2, <1>5 DEF Read
  <2>2. Acknowledge(shown.own, e.get.found) \in Nat
    BY <1>1, <1>2 DEF Acknowledge
  <2> HIDE DEF shown
  <2> QED BY <1>1, <1>2, <1>5, <2>1, <2>2 DEF Entries
<1> QED BY <1>3, <1>4, <1>5

\* No event on the page lowers a marker, but for a snapshot.
LEMMA NeverLower ==
  ASSUME NEW e \in Entries
  PROVE  /\ Drain(e).marker = e.marker
         /\ AfterGet(e).marker = e.marker
         /\ AfterGet(Read(e)).marker >= e.marker
         /\ Written(e).marker >= e.marker
         /\ Refused(e).marker >= e.marker
<1>1. \A x \in Entries : Drain(x).marker = x.marker /\ AfterGet(x).marker = x.marker
  <2> TAKE x \in Entries
  <2>1. Unread(x) \in Entries /\ Unread(x).marker = x.marker
    BY Unreads
  <2> QED BY <2>1, Drains DEF AfterGet
<1>2. e.marker \in Nat /\ e.get.found \in Nat /\ e.put.found \in Nat
  BY Parts
<1>3. AfterGet(Read(e)).marker >= e.marker
  <2>1. Read(e) \in Entries /\ Read(e).marker >= e.marker
    BY <1>2, Reads DEF Counts
  <2> QED BY <1>1, <2>1
<1>4. Written(e).marker >= e.marker
  <2> DEFINE p == e.put
             told == [e EXCEPT !.marker = p.found,
                               !.own = IF p.found > p.marker THEN p.found ELSE 0,
                               !.checksum = p.value, !.unresolved = FALSE,
                               !.value = IF p.latest THEN p.value ELSE @]
  <2>1. told \in Entries /\ told.marker = p.found
    BY Parts DEF Entries
  <2>2. Written(e) = Drain(IF Current(e) THEN told ELSE e)
    BY DEF Written
  <2> HIDE DEF told
  <2> QED BY <1>1, <1>2, <2>1, <2>2 DEF Current
<1>5. Refused(e).marker >= e.marker
  <2> DEFINE p == e.put
             told == [e EXCEPT !.marker = p.found,
                               !.checksum = IF p.other = NoValue THEN @ ELSE p.other,
                               !.own = Acknowledge(@, p.found)]
             base == IF Current(e) THEN told ELSE e
             dropped == [base EXCEPT !.pending = << >>, !.unresolved = TRUE,
                                     !.put.at = "refresh"]
             get == [NoGet EXCEPT !.at = "asked", !.marker = dropped.marker]
  <2>1. Refused(e) = [[dropped EXCEPT !.get = get] EXCEPT !.get.drains = TRUE]
    BY DEF Refused, Fetch
  <2>2. told \in Entries /\ told.marker = p.found
    BY Parts DEF Entries, Acknowledge
  <2>3. base \in Entries /\ base.marker >= e.marker
    BY <1>2, <2>2 DEF Current
  <2>4. dropped.marker = base.marker
    BY <2>3 DEF Entries
  <2> HIDE DEF base
  <2>5. Refused(e).marker = dropped.marker
    BY <2>1, <2>3 DEF Entries
  <2> QED BY <2>3, <2>4, <2>5
<1> QED BY <1>1, <1>3, <1>4, <1>5

LEMMA GetReturnsFine ==
  ASSUME NEW rec \in Record, NEW why, NEW same \in BOOLEAN, NEW settled \in BOOLEAN,
         NEW e \in Entries, Fine(e, rec, why, same, settled), e.get.at = "answered",
         NEW r, r = Read(e),
         NEW why2, why2 = IF ~Counts(e) THEN why ELSE IF Late(e) THEN {"late"} ELSE {}
  PROVE  AfterGet(r) \in Entries /\ Fine(AfterGet(r), rec, why2, same, settled)
<1>1. /\ r \in Entries /\ r.get = e.get /\ r.put = e.put /\ r.pending = e.pending
      /\ ~Counts(e) => r.marker = e.marker /\ r.value = e.value
      /\ Counts(e) => /\ r.value = e.get.value
                      /\ e.get.reply = "empty" => r.marker = e.marker
                      /\ e.get.reply = "ok" => r.marker = e.get.found
  BY Reads
<1>2. /\ e.get.marker \in Nat /\ e.get.found \in Nat /\ e.marker \in Nat /\ rec.marker \in Nat
      /\ e.get.reply \in {"none", "gone", "empty", "ok"}
  BY Parts DEF Record, Get
<1>3. Counts(e) => e.get.reply \in {"empty", "ok"}
  BY DEF Counts
<1>4. Counts(e) /\ why2 = {} => r.marker = e.get.found
  BY <1>1, <1>3 DEF Late
<1>5. ASSUME same, why2 = {} PROVE r.marker <= rec.marker
  BY <1>1, <1>4, <1>5 DEF Fine, Bounded
<1>6. ASSUME settled, why2 = {}, r.marker = rec.marker
      PROVE  r.value = rec.value \/ Writing(r) \/ r.pending # << >>
  <2>1. CASE Counts(e)
    BY <1>1, <1>4, <1>6, <2>1 DEF Fine, GoodReplies
  <2>2. CASE ~Counts(e)
    <3>1. e.get.reply \in {"ok", "empty"}
      BY <1>6 DEF Fine, GoodReplies
    <3>2. ~Reading(e)
      BY <1>2, <2>2, <3>1 DEF Counts, Reading
    <3>3. e.value = rec.value \/ Writing(e) \/ e.pending # << >>
      BY <1>1, <1>6, <2>2, <3>2 DEF Fine, Covered
    <3>4. Writing(e) => Writing(r)
      BY <1>1, <2>2 DEF Writing, Current
    <3> QED BY <1>1, <2>2, <3>3, <3>4
  <2> QED BY <2>1, <2>2
<1>7. WellFormed(r)
  BY <1>1, <1>2 DEF Fine, WellFormed, Counts
<1>8. same => Bounded(r, rec, why2)
  BY <1>1, <1>5 DEF Fine, Bounded
<1>9. settled => GoodReplies(r, rec)
  BY <1>1 DEF Fine, GoodReplies
<1>10. settled => same /\ rec.shared /\ Covered(r, rec, why2)
  BY <1>6 DEF Fine, Covered
<1>11. Fine(r, rec, why2, same, settled)
  BY <1>7, <1>8, <1>9, <1>10 DEF Fine
<1>12. settled /\ why2 = {} /\ r.marker = rec.marker =>
         r.value = rec.value \/ Writing(r) \/ r.pending # << >>
  BY <1>6
<1> QED BY <1>1, <1>11, <1>12, AfterGetFine

LEMMA GetFailsFine ==
  ASSUME NEW rec \in Record, NEW why, NEW same \in BOOLEAN, NEW settled \in BOOLEAN,
         NEW e \in Entries, Fine(e, rec, why, same, settled)
  PROVE  /\ AfterGet(e) \in Entries
         /\ Fine(AfterGet(e), rec, why \cup {"failed"}, same, settled)
<1> DEFINE why2 == why \cup {"failed"}
<1>1. why2 # {}
  OBVIOUS
<1> HIDE DEF why2
<1>2. Fine(e, rec, why2, same, settled)
  BY <1>1 DEF Fine, Bounded, Covered
<1>3. AfterGet(e) \in Entries /\ Fine(AfterGet(e), rec, why2, same, settled)
  BY <1>1, <1>2, AfterGetFine
<1> QED BY <1>3 DEF why2

LEMMA SetFine ==
  ASSUME NEW rec \in Record, NEW why, NEW same \in BOOLEAN, NEW settled \in BOOLEAN,
         NEW e \in Entries, Fine(e, rec, why, same, settled), NEW v \in Values
  PROVE  Follows(Edited(e, v), e, rec, why, same, settled)
<1> DEFINE x == [Unread(e) EXCEPT !.value = v, !.pending = <<v>>, !.put.latest = FALSE]
           u == Unread(e)
           put == [e.put EXCEPT !.latest = FALSE]
<1>1. /\ u \in Entries /\ u.get = NoGet /\ u.put = e.put /\ u.marker = e.marker
  BY Unreads
<1>2. put \in Put /\ put.at = e.put.at /\ put.current = e.put.current /\ put.found = e.put.found
      /\ put.reply = e.put.reply /\ put.value = e.put.value
  BY Parts DEF Put
<1>3. x = [u EXCEPT !.value = v, !.pending = <<v>>, !.put = put]
  BY <1>1
<1>4. <<v>> \in Seq(Values) /\ <<v>> # << >> /\ v \in Content \cup {Undefined}
  BY DEF Content
<1>e. Edited(e, v) = IF e.put.at = "none" THEN Drain(x) ELSE x
  BY DEF Edited
<1> HIDE DEF u, put, x
<1>5. x \in Entries /\ x.get = NoGet /\ x.put = put /\ x.marker = e.marker /\ x.pending # << >>
  BY <1>1, <1>2, <1>3, <1>4 DEF Entries
<1>6. NoGet.at = "none" /\ ~NoGet.drains
  BY DEF NoGet
<1>7. (settled => same /\ rec.shared) /\ (same /\ why = {} => e.marker <= rec.marker)
  BY DEF Fine, Bounded
<1>8. CASE e.put.at = "none"
  <2>1. Unwritten(x, rec, why, same, settled)
    BY <1>5, <1>6, <1>7 DEF Unwritten
  <2>2. Drain(x) \in Entries /\ Fine(Drain(x), rec, why, same, settled)
    BY <1>5, <2>1, DrainFine
  <2>3. Drain(x).marker = x.marker
    BY <1>5, NeverLower
  <2>4. Drain(x).marker >= e.marker
    BY <1>5, <2>3, Parts
  <2> QED BY <1>e, <1>8, <2>2, <2>4 DEF Follows
<1>9. CASE e.put.at # "none"
  <2>1. WellFormed(x)
    BY <1>2, <1>5, <1>6, <1>9 DEF Fine, WellFormed
  <2>2. same => Bounded(x, rec, why)
    BY <1>2, <1>5, <1>6 DEF Fine, Bounded
  <2>3. settled => GoodReplies(x, rec)
    BY <1>2, <1>5, <1>6 DEF Fine, GoodReplies
  <2>4. settled => Covered(x, rec, why)
    BY <1>5 DEF Covered
  <2>5. Fine(x, rec, why, same, settled)
    BY <1>7, <2>1, <2>2, <2>3, <2>4 DEF Fine
  <2>6. x.marker >= e.marker
    BY <1>5, Parts
  <2> QED BY <1>5, <1>e, <1>9, <2>5, <2>6 DEF Follows
<1> QED BY <1>8, <1>9

\* A write that ends without being told leaves the entry to the next one.
LEMMA DropFine ==
  ASSUME NEW rec \in Record, NEW why, NEW same \in BOOLEAN, NEW settled \in BOOLEAN,
         NEW e \in Entries, Fine(e, rec, why, same, settled),
         ~e.get.drains, settled /\ why = {} => ~Writing(e)
  PROVE  Drain(e) \in Entries /\ Fine(Drain(e), rec, why, same, settled)
<1>1. e.get.at # "none" => e.get.marker <= e.marker
  BY DEF Fine, WellFormed
<1>2. same => /\ why = {} => e.marker <= rec.marker
              /\ e.get.at = "answered" => e.get.found <= rec.marker
  BY DEF Fine, Bounded
<1>3. settled => /\ same /\ rec.shared
                 /\ e.get.at = "answered" =>
                      /\ e.get.reply \in {"ok", "empty"}
                      /\ e.get.found = rec.marker => e.get.value = rec.value
                 /\ why = {} /\ e.marker = rec.marker =>
                      e.value = rec.value \/ Reading(e) \/ e.pending # << >>
  BY DEF Fine, GoodReplies, Covered
<1>4. Unwritten(e, rec, why, same, settled)
  BY <1>1, <1>2, <1>3 DEF Unwritten
<1> QED BY <1>4, DrainFine

LEMMA RefreshOverFine ==
  ASSUME NEW rec \in Record, NEW why, NEW same \in BOOLEAN, NEW settled \in BOOLEAN,
         NEW e \in Entries, Fine(e, rec, why, same, settled),
         e.put.at = "refresh", ~e.get.drains
  PROVE  Drain(e) \in Entries /\ Fine(Drain(e), rec, why, same, settled)
<1>1. ~Writing(e)
  BY DEF Writing
<1> QED BY <1>1, DropFine

LEMMA PutFailsFine ==
  ASSUME NEW rec \in Record, NEW why, NEW same \in BOOLEAN, NEW settled \in BOOLEAN,
         NEW e \in Entries, Fine(e, rec, why, same, settled),
         e.put.at \in {"asked", "answered"}
  PROVE  Drain(e) \in Entries /\ Fine(Drain(e), rec, why \cup {"failed"}, same, settled)
<1> DEFINE why2 == why \cup {"failed"}
<1>1. why2 # {}
  OBVIOUS
<1> HIDE DEF why2
<1>2. Fine(e, rec, why2, same, settled)
  BY <1>1 DEF Fine, Bounded, Covered
<1>3. ~e.get.drains
  BY DEF Fine, WellFormed
<1>4. Drain(e) \in Entries /\ Fine(Drain(e), rec, why2, same, settled)
  BY <1>1, <1>2, <1>3, DropFine
<1> QED BY <1>4 DEF why2

LEMMA ErrorFine ==
  ASSUME NEW rec \in Record, NEW why, NEW same \in BOOLEAN, NEW settled \in BOOLEAN,
         NEW e \in Entries, Fine(e, rec, why, same, settled),
         e.put.at = "answered", e.put.reply = "error"
  PROVE  Drain(e) \in Entries /\ Fine(Drain(e), rec, why, same, settled)
<1>1. ~Writing(e) /\ ~e.get.drains
  BY DEF Fine, WellFormed, Writing
<1> QED BY <1>1, DropFine

LEMMA WrittenFine ==
  ASSUME NEW rec \in Record, NEW why, NEW same \in BOOLEAN, NEW settled \in BOOLEAN,
         NEW e \in Entries, Fine(e, rec, why, same, settled),
         e.put.at = "answered", e.put.reply = "ok",
         NEW why2, why2 = IF Current(e) /\ e.put.latest THEN {} ELSE why
  PROVE  Written(e) \in Entries /\ Fine(Written(e), rec, why2, same, settled)
<1>1. ~e.get.drains
  BY DEF Fine, WellFormed
<1>2. CASE ~Current(e)
  <2>1. ~Writing(e)
    BY <1>2 DEF Writing
  <2>2. Written(e) = Drain(e) /\ why2 = why
    BY <1>2 DEF Written
  <2> QED BY <1>1, <2>1, <2>2, DropFine
<1>3. CASE Current(e)
  <2> DEFINE p == e.put
             told == [e EXCEPT !.marker = p.found,
                               !.own = IF p.found > p.marker THEN p.found ELSE 0,
                               !.checksum = p.value, !.unresolved = FALSE,
                               !.value = IF p.latest THEN p.value ELSE @]
  <2>1. Written(e) = Drain(told)
    BY <1>3 DEF Written
  <2>2. p.found \in Nat /\ p.marker \in Nat /\ p.value \in Content /\ e.marker \in Nat
        /\ rec.marker \in Nat
    BY Parts DEF Record
  <2>3. /\ told \in Entries /\ told.marker = p.found /\ told.get = e.get /\ told.put = e.put
        /\ told.pending = e.pending /\ told.value = IF p.latest THEN p.value ELSE e.value
    BY <2>2 DEF Entries
  <2>4. p.found >= e.marker /\ p.current
    BY <1>3 DEF Current
  <2> HIDE DEF told
  <2>5. e.get.at # "none" => e.get.marker <= told.marker
    <3>1. e.get.at # "none" => e.get.marker <= e.marker
      BY DEF Fine, WellFormed
    <3> QED BY <2>2, <2>3, <2>4, <3>1, Parts
  <2>6. same => told.marker <= rec.marker
    BY <2>3, <2>4 DEF Fine, Bounded
  <2>7. same /\ e.get.at = "answered" => e.get.found <= rec.marker
    BY DEF Fine, Bounded
  <2>8. p.latest \/ told.pending # << >>
    BY <2>3 DEF Fine, WellFormed
  <2>9. settled => same /\ rec.shared
                 /\ (e.get.at = "answered" =>
                       /\ e.get.reply \in {"ok", "empty"}
                       /\ e.get.found = rec.marker => e.get.value = rec.value)
                 /\ (told.marker = rec.marker =>
                       told.value = rec.value \/ told.pending # << >>)
    BY <2>3, <2>4, <2>8 DEF Fine, GoodReplies
  <2>10. Unwritten(told, rec, why2, same, settled)
    BY <1>1, <2>3, <2>5, <2>6, <2>7, <2>9 DEF Unwritten
  <2> QED BY <2>1, <2>3, <2>10, DrainFine
<1> QED BY <1>2, <1>3

LEMMA RefusedFine ==
  ASSUME NEW rec \in Record, NEW why, NEW same \in BOOLEAN, NEW settled \in BOOLEAN,
         NEW e \in Entries, Fine(e, rec, why, same, settled),
         e.put.at = "answered", e.put.reply = "conflict"
  PROVE  Refused(e) \in Entries /\ Fine(Refused(e), rec, why, same, settled)
<1> DEFINE p == e.put
           told == [e EXCEPT !.marker = p.found,
                             !.checksum = IF p.other = NoValue THEN @ ELSE p.other,
                             !.own = Acknowledge(@, p.found)]
           base == IF Current(e) THEN told ELSE e
           put == [p EXCEPT !.at = "refresh"]
           dropped == [base EXCEPT !.pending = << >>, !.unresolved = TRUE, !.put.at = "refresh"]
           asked == Fetch(dropped)
           get == [asked.get EXCEPT !.drains = TRUE]
<1>1. p.found \in Nat /\ p.other \in Content /\ e.marker \in Nat /\ rec.marker \in Nat
      /\ Acknowledge(e.own, p.found) \in Nat
  BY Parts DEF Record, Acknowledge
<1>2. told \in Entries /\ told.marker = p.found /\ told.put = p
  BY <1>1 DEF Entries
<1>3. base \in Entries /\ base.put = p /\ base.marker = IF Current(e) THEN p.found ELSE e.marker
  BY <1>2
<1>4. put \in Put /\ put.at = "refresh" /\ put.current = p.current /\ put.latest = p.latest
  BY Parts DEF Put
<1>5. dropped = [base EXCEPT !.pending = << >>, !.unresolved = TRUE, !.put = put]
  BY <1>3
<1>6. << >> \in Seq(Values)
  OBVIOUS
<1> HIDE DEF told, base, put
<1>7. dropped \in Entries /\ dropped.put = put /\ dropped.pending = << >>
      /\ dropped.marker = base.marker
  BY <1>3, <1>4, <1>5, <1>6 DEF Entries
<1> HIDE DEF dropped
<1>a. asked \in Entries /\ asked.put = dropped.put /\ asked.pending = dropped.pending
      /\ asked.marker = dropped.marker
      /\ asked.get = [NoGet EXCEPT !.at = "asked", !.marker = dropped.marker]
  BY <1>7, Fetched
<1> HIDE DEF asked
<1>8. asked \in Entries /\ asked.put = put /\ asked.pending = << >> /\ asked.marker = base.marker
      /\ asked.get = [NoGet EXCEPT !.at = "asked", !.marker = base.marker]
  BY <1>7, <1>a
<1>9. asked.get \in Get
  BY <1>8, Parts
<1>10. get \in Get /\ get.at = "asked" /\ get.marker = base.marker
  BY <1>8, <1>9 DEF NoGet, Get
<1>11. Refused(e) = [asked EXCEPT !.get = get]
  BY DEF Refused, asked, dropped, put, base, told
<1> HIDE DEF get
<1> DEFINE f == [asked EXCEPT !.get = get]
<1>12. f \in Entries /\ f.get = get /\ f.put = put /\ f.pending = << >> /\ f.marker = base.marker
  BY <1>8, <1>10 DEF Entries
<1>13. base.marker \in Nat
  BY <1>1, <1>3
<1> HIDE DEF f
<1>14. WellFormed(f)
  BY <1>4, <1>10, <1>12, <1>13 DEF WellFormed
<1>15. same => Bounded(f, rec, why)
  BY <1>3, <1>4, <1>10, <1>12 DEF Fine, Bounded, Current
<1>16. settled => GoodReplies(f, rec) /\ Covered(f, rec, why)
  BY <1>4, <1>10, <1>12 DEF GoodReplies, Covered, Reading
<1>17. settled => same /\ rec.shared
  BY DEF Fine
<1>18. Fine(f, rec, why, same, settled)
  BY <1>14, <1>15, <1>16, <1>17 DEF Fine
<1> QED BY <1>11, <1>12, <1>18 DEF f

\* The record of a key changes: its marker grows, or the key does not stay.
LEMMA ChangedFine ==
  ASSUME NEW rec \in Record, NEW rec2 \in Record, NEW why, NEW same \in BOOLEAN,
         NEW settled \in BOOLEAN, NEW settled2 \in BOOLEAN, NEW e \in Entries,
         Fine(e, rec, why, same, settled), rec2.marker >= rec.marker,
         settled2 => settled /\ rec2.shared /\ (rec2 = rec \/ rec2.marker > rec.marker)
  PROVE  Fine(e, rec2, why, same, settled2)
<1>1. rec.marker \in Nat /\ rec2.marker \in Nat /\ e.marker \in Nat /\ e.get.found \in Nat
      /\ e.put.found \in Nat
  BY Parts DEF Record
<1>2. same => Bounded(e, rec2, why)
  BY <1>1 DEF Fine, Bounded
<1>3. settled2 => GoodReplies(e, rec2)
  BY <1>1 DEF Fine, GoodReplies, Bounded
<1>4. settled2 => Covered(e, rec2, why)
  BY <1>1 DEF Fine, Covered, Bounded
<1> QED BY <1>2, <1>3, <1>4 DEF Fine

\* The server answers a PUT.
Answers(e, f, rec, rec2) ==
  /\ e.put.at = "asked"
  /\ f = [e EXCEPT !.put = [@ EXCEPT !.at = "answered", !.reply = Answer(rec, e.put),
                                      !.other = rec.value, !.found = rec2.marker]]
  /\ rec2.shared = rec.shared /\ (rec2 = rec \/ rec2.marker = rec.marker + 1)
  /\ Accepts(rec, e.put.marker) => rec2.value = e.put.value

LEMMA ServePutFine ==
  ASSUME NEW rec \in Record, NEW rec2 \in Record, NEW why, NEW same \in BOOLEAN,
         NEW settled \in BOOLEAN, NEW settled2 \in BOOLEAN, NEW e \in Entries,
         Fine(e, rec, why, same, settled), settled2 => settled,
         NEW f, Answers(e, f, rec, rec2)
  PROVE  f \in Entries /\ Fine(f, rec2, why, same, settled2)
<1>0. /\ e.put.at = "asked"
      /\ f = [e EXCEPT !.put = [@ EXCEPT !.at = "answered", !.reply = Answer(rec, e.put),
                                          !.other = rec.value, !.found = rec2.marker]]
      /\ rec2.shared = rec.shared /\ (rec2 = rec \/ rec2.marker = rec.marker + 1)
      /\ Accepts(rec, e.put.marker) => rec2.value = e.put.value
  BY DEF Answers
<1> DEFINE reply == Answer(rec, e.put)
<1>r. /\ reply \in {"error", "ok", "conflict"} /\ (reply = "error" => ~rec.shared)
      /\ (reply = "ok" <=> Accepts(rec, e.put.marker))
  BY DEF Answer, Accepts
<1> HIDE DEF reply
<1> DEFINE put == [e.put EXCEPT !.at = "answered", !.reply = reply, !.other = rec.value,
                                !.found = rec2.marker]
<1>1. /\ rec.marker \in Nat /\ rec2.marker \in Nat /\ rec.value \in Content /\ e.marker \in Nat
      /\ e.get.found \in Nat /\ e.put \in Put
  BY Parts DEF Record
<1>2. /\ put \in Put /\ put.at = "answered" /\ put.reply = reply /\ put.found = rec2.marker
      /\ put.current = e.put.current /\ put.latest = e.put.latest /\ put.value = e.put.value
  BY <1>1, <1>r DEF Put
<1>3. f = [e EXCEPT !.put = put]
  BY <1>0 DEF reply
<1> HIDE DEF put
<1>4. f \in Entries /\ f.put = put /\ f.get = e.get /\ f.marker = e.marker /\ f.value = e.value
      /\ f.pending = e.pending
  BY <1>0, <1>r, <1>2, <1>3 DEF Entries
<1>5. WellFormed(f)
  BY <1>0, <1>r, <1>2, <1>4 DEF Fine, WellFormed
<1>6. same => Bounded(f, rec2, why)
  BY <1>0, <1>r, <1>1, <1>2, <1>4 DEF Fine, Bounded
<1>7. settled2 => same /\ rec.shared /\ GoodReplies(e, rec) /\ Covered(e, rec, why)
                  /\ Bounded(e, rec, why)
  BY DEF Fine
<1>8. settled2 => GoodReplies(f, rec2)
  BY <1>0, <1>r, <1>1, <1>2, <1>4, <1>7 DEF GoodReplies, Bounded
<1>9. ASSUME settled2, why = {}, f.marker = rec2.marker
      PROVE  f.value = rec2.value \/ Reading(f) \/ Writing(f) \/ f.pending # << >>
  <2>1. rec2 = rec
    BY <1>0, <1>r, <1>1, <1>4, <1>7, <1>9 DEF Bounded
  <2>2. e.value = rec.value \/ Reading(e) \/ Writing(e) \/ e.pending # << >>
    BY <1>0, <1>4, <1>7, <1>9, <2>1 DEF Covered
  <2>3. Reading(e) => Reading(f)
    BY <1>4 DEF Reading
  <2>4. Writing(e) => Writing(f)
    BY <1>0, <1>r, <1>1, <1>2, <1>4, <1>7, <1>9, <2>1 DEF Writing, Current
  <2> QED BY <1>0, <1>4, <2>1, <2>2, <2>3, <2>4
<1> QED BY <1>0, <1>4, <1>5, <1>6, <1>7, <1>8, <1>9 DEF Fine, Covered

LEMMA RevisedFetchable ==
  ASSUME NEW rec \in Record, NEW why, NEW same \in BOOLEAN, NEW settled \in BOOLEAN,
         NEW e \in Entries, WellFormed(e), settled => same /\ rec.shared,
         NEW f \in Entries, f.marker >= e.marker, f.get = e.get, f.put = e.put, f.pending = e.pending,
         same /\ why = {} => f.marker <= rec.marker
  PROVE  /\ Revised(f) \in Entries /\ Revised(f).marker = f.marker
         /\ Fetchable(Revised(f), rec, why, same, settled)
<1> DEFINE r == Revised(f)
<1>1. /\ r \in Entries /\ r.get = f.get /\ r.marker = f.marker /\ r.pending = f.pending
      /\ r.put.at = f.put.at /\ r.put.latest = f.put.latest /\ r.put.reply = f.put.reply
      /\ f.put.at # "none" => ~r.put.current
  BY Revises
<1>2. e.marker \in Nat /\ f.marker \in Nat /\ e.get.marker \in Nat
  BY Parts
<1> HIDE DEF r
<1>3. WellFormed(r)
  BY <1>1, <1>2 DEF WellFormed
<1> QED BY <1>1, <1>3 DEF Fetchable, r

LEMMA UpdatedFine ==
  ASSUME NEW rec \in Record, NEW why, NEW same \in BOOLEAN, NEW settled \in BOOLEAN,
         NEW e \in Entries, Fine(e, rec, why, same, settled),
         NEW value \in Content, NEW marker \in Nat, marker <= rec.marker,
         NEW f, f = Updated(e, value, marker)
  PROVE  /\ f \in Entries /\ Fine(f, rec, why, same, settled)
         /\ f.marker >= e.marker /\ f.marker >= marker
<1> DEFINE own == Acknowledge(e.own, marker)
           new == [e EXCEPT !.marker = marker, !.checksum = value, !.own = own]
           changed == marker > e.marker \/ (marker = e.marker /\ value # e.checksum)
           told == IF changed THEN Revised(new) ELSE IF marker < e.marker THEN e ELSE new
<1>1. f = IF changed \/ e.unresolved THEN Fetch(told) ELSE told
  BY DEF Updated
<1>2. e.marker \in Nat /\ own \in Nat /\ rec.marker \in Nat
  BY Parts DEF Acknowledge, Record
<1> HIDE DEF own
<1>3. /\ new \in Entries /\ new.marker = marker /\ new.get = e.get
      /\ new.put = e.put /\ new.pending = e.pending /\ new.value = e.value
  BY <1>2 DEF Entries
<1> HIDE DEF new
<1>4. WellFormed(e) /\ (settled => same /\ rec.shared)
  BY DEF Fine
<1>5. CASE changed
  <2>1. told = Revised(new) /\ f = Fetch(told)
    BY <1>1, <1>5
  <2>2. new.marker >= e.marker
    BY <1>2, <1>3, <1>5
  <2>3. told \in Entries /\ Fetchable(told, rec, why, same, settled) /\ told.marker = new.marker
    BY <1>3, <1>4, <2>1, <2>2, RevisedFetchable
  <2> HIDE DEF told
  <2>4. f \in Entries /\ Fine(f, rec, why, same, settled) /\ f.marker = told.marker
    BY <2>1, <2>3, FetchFine
  <2> QED BY <1>3, <2>2, <2>3, <2>4, <1>2
<1>6. CASE ~changed
  <2>1. told \in Entries /\ told.marker = e.marker /\ told.get = e.get /\ told.put = e.put
        /\ told.pending = e.pending /\ told.value = e.value /\ e.marker >= marker
    BY <1>2, <1>3, <1>6
  <2>2. f = IF e.unresolved THEN Fetch(told) ELSE told
    BY <1>1, <1>6
  <2> HIDE DEF told
  <2>3. Fine(told, rec, why, same, settled)
    BY <2>1, SameFine
  <2>4. Fetch(told) \in Entries /\ Fine(Fetch(told), rec, why, same, settled)
        /\ Fetch(told).marker = told.marker
    BY <2>1, <2>3, FineFetchable, FetchFine
  <2> QED BY <1>2, <2>1, <2>2, <2>3, <2>4
<1> QED BY <1>5, <1>6

\* A snapshot on a connection that the page knows.
LEMMA LiveFine ==
  ASSUME NEW rec \in Record, NEW why, NEW same \in BOOLEAN, NEW settled \in BOOLEAN,
         NEW e \in Entries, Fine(e, rec, why, same, settled),
         NEW says \in Record, says.marker <= rec.marker,
         NEW f, f = Live(e, says)
  PROVE  /\ f \in Entries /\ Fine(f, rec, why, same, settled)
         /\ f.marker >= says.marker
<1> DEFINE new == [Adopted(e, says) EXCEPT !.own = 0]
           changed == says.marker # e.marker \/ says.value # e.checksum
<1>1. e.marker \in Nat /\ says.marker \in Nat /\ says.value \in Content /\ rec.marker \in Nat
  BY Parts DEF Record
<1>2. new = [e EXCEPT !.marker = says.marker, !.checksum = says.value, !.own = 0]
  BY DEF Adopted
<1>3. f = IF says.marker < e.marker THEN e
          ELSE IF changed THEN Fetch(Revised(new))
          ELSE IF e.value = Undefined THEN Fetch(new) ELSE new
  BY DEF Live
<1> HIDE DEF new
<1>4. /\ new \in Entries /\ new.marker = says.marker /\ new.get = e.get
      /\ new.put = e.put /\ new.pending = e.pending /\ new.value = e.value
  BY <1>1, <1>2 DEF Entries
<1>5. CASE says.marker < e.marker
  <2>1. f = e
    BY <1>3, <1>5
  <2> QED BY <1>1, <1>5, <2>1
<1>6. CASE ~(says.marker < e.marker) /\ changed
  <2>1. WellFormed(e) /\ (settled => same /\ rec.shared)
    BY DEF Fine
  <2>2. Revised(new) \in Entries /\ Fetchable(Revised(new), rec, why, same, settled)
        /\ Revised(new).marker = says.marker
    BY <1>1, <1>4, <1>6, <2>1, RevisedFetchable
  <2>3. f = Fetch(Revised(new))
    BY <1>3, <1>6
  <2> QED BY <1>1, <2>2, <2>3, FetchFine
<1>7. CASE ~(says.marker < e.marker) /\ ~changed
  <2>1. Fine(new, rec, why, same, settled)
    BY <1>4, <1>7, SameFine
  <2>2. Fetch(new) \in Entries /\ Fine(Fetch(new), rec, why, same, settled)
        /\ Fetch(new).marker = says.marker
    BY <1>4, <2>1, FineFetchable, FetchFine
  <2> QED BY <1>1, <1>3, <1>4, <1>7, <2>1, <2>2
<1> QED BY <1>5, <1>6, <1>7

\* The first snapshot of a connection, if the server seems to be the same: an entry that is
\* above the snapshot of another server is taken to be stale, for the reasons why2.
Compared(e, rec, says, why, why2, was) ==
  /\ WellFormed(e) /\ (was => Bounded(e, rec, why))
  /\ why2 = {} => why = {} /\ (was \/ says.marker >= e.marker)

LEMMA ReconnectedFine ==
  ASSUME NEW rec \in Record, NEW why, NEW why2, NEW was \in BOOLEAN, NEW same \in BOOLEAN,
         NEW settled \in BOOLEAN, settled => same /\ rec.shared,
         NEW e \in Entries, NEW says \in Record, says.marker <= rec.marker,
         Compared(e, rec, says, why, why2, was),
         NEW f, f = Reconnected(e, says)
  PROVE  /\ f \in Entries /\ Fine(f, rec, why2, same, settled)
         /\ f.marker >= says.marker
<1>0. /\ WellFormed(e) /\ (was => Bounded(e, rec, why))
      /\ why2 = {} => why = {} /\ (was \/ says.marker >= e.marker)
  BY DEF Compared
<1> DEFINE own == Acknowledge(e.own, says.marker)
           new == [Adopted(e, says) EXCEPT !.own = Acknowledge(@, says.marker)]
           base == IF says.marker < e.marker THEN e ELSE new
<1>1. e.marker \in Nat /\ says.marker \in Nat /\ says.value \in Content /\ rec.marker \in Nat
      /\ own \in Nat
  BY Parts DEF Record, Acknowledge
<1>2. new = [e EXCEPT !.marker = says.marker, !.checksum = says.value, !.own = own]
  BY DEF Adopted, Entries
<1>3. f = Fetch(Revised(base))
  BY DEF Reconnected
<1> HIDE DEF new, own
<1>4. /\ new \in Entries /\ new.marker = says.marker /\ new.get = e.get
      /\ new.put = e.put /\ new.pending = e.pending
  BY <1>1, <1>2 DEF Entries
<1>5. base \in Entries /\ base.get = e.get /\ base.put = e.put /\ base.pending = e.pending
      /\ base.marker >= e.marker /\ base.marker >= says.marker
      /\ base.marker = IF says.marker < e.marker THEN e.marker ELSE says.marker
  BY <1>1, <1>4
<1>6. why2 = {} => base.marker <= rec.marker
  BY <1>0, <1>1, <1>5 DEF Bounded
<1> HIDE DEF base
<1>7. Revised(base) \in Entries /\ Fetchable(Revised(base), rec, why2, same, settled)
      /\ Revised(base).marker = base.marker
  BY <1>0, <1>5, <1>6, RevisedFetchable
<1> QED BY <1>3, <1>5, <1>7, FetchFine

\* ... and if it seems to be another one.
LEMMA ReplacedFine ==
  ASSUME NEW rec \in Record, NEW why, NEW same \in BOOLEAN, NEW settled \in BOOLEAN,
         NEW e \in Entries, WellFormed(e),
         NEW says \in Record, says.marker <= rec.marker, settled => same /\ rec.shared,
         why = {} => Unsure(e),
         NEW f, f = Replaced(e, says)
  PROVE  /\ f \in Entries /\ Fine(f, rec, why, same, settled)
         /\ f.marker >= says.marker
<1> DEFINE low == [e EXCEPT !.marker = says.marker, !.own = 0]
           u == Unread(low)
           new == Revised(u)
           asked == [new EXCEPT !.checksum = says.value]
<1>1. says.marker \in Nat /\ says.value \in Content /\ rec.marker \in Nat
  BY DEF Record
<1>2. low \in Entries /\ low.marker = says.marker /\ low.put = e.put /\ low.pending = e.pending
  BY <1>1 DEF Entries
<1>3. f = IF Unsure(e) THEN Fetch(asked) ELSE new
  BY DEF Replaced
<1> HIDE DEF low
<1>4. u \in Entries /\ u.get = NoGet /\ u.marker = says.marker /\ u.put = e.put
      /\ u.pending = e.pending
  BY <1>2, Unreads
<1> HIDE DEF u
<1>5. /\ new \in Entries /\ new.get = NoGet /\ new.marker = says.marker /\ new.pending = e.pending
      /\ new.put.at = e.put.at /\ new.put.latest = e.put.latest /\ new.put.reply = e.put.reply
      /\ e.put.at # "none" => ~new.put.current
  BY <1>4, Revises
<1> HIDE DEF new
<1>6. NoGet.at = "none" /\ ~NoGet.drains
  BY DEF NoGet
<1>7. WellFormed(new)
  BY <1>5, <1>6 DEF WellFormed
<1>8. asked \in Entries /\ asked.get = new.get /\ asked.marker = new.marker
      /\ asked.pending = new.pending /\ asked.put = new.put
  BY <1>1, <1>5 DEF Entries
<1> HIDE DEF asked
<1>9. CASE Unsure(e)
  <2>1. WellFormed(asked)
    BY <1>7, <1>8 DEF WellFormed
  <2>2. Fetchable(asked, rec, why, same, settled)
    BY <1>1, <1>5, <1>8, <2>1 DEF Fetchable
  <2> QED BY <1>1, <1>3, <1>5, <1>8, <1>9, <2>2, FetchFine
<1>10. CASE ~Unsure(e)
  <2>1. Bounded(new, rec, why)
    BY <1>5, <1>6, <1>10 DEF Bounded
  <2>2. GoodReplies(new, rec) /\ Covered(new, rec, why)
    BY <1>5, <1>6, <1>10 DEF GoodReplies, Covered
  <2> QED BY <1>1, <1>3, <1>5, <1>7, <1>10, <2>1, <2>2 DEF Fine
<1> QED BY <1>9, <1>10

LEMMA NewFine ==
  ASSUME NEW rec \in Record, NEW same \in BOOLEAN, NEW settled \in BOOLEAN,
         NEW says \in Record, says.marker <= rec.marker, settled => same /\ rec.shared,
         NEW why, NEW f, f = Fetch(Entry(says))
  PROVE  /\ f \in Entries /\ Fine(f, rec, why, same, settled)
         /\ f.marker >= says.marker
<1> DEFINE e == Entry(says)
<1>1. says.marker \in Nat /\ says.value \in Content
  BY DEF Record
<1>2. e \in Entries /\ e.marker = says.marker /\ e.get = NoGet /\ e.put = NoPut
      /\ e.pending = << >>
  BY <1>1, Blanks DEF Entry, Entries
<1>3. NoGet.at = "none" /\ ~NoGet.drains /\ NoPut.at = "none"
  BY DEF NoGet, NoPut
<1> HIDE DEF e
<1>4. WellFormed(e)
  BY <1>2, <1>3 DEF WellFormed
<1>5. Fetchable(e, rec, why, same, settled)
  BY <1>2, <1>3, <1>4 DEF Fetchable
<1> QED BY <1>1, <1>2, <1>5, FetchFine DEF e

LEMMA Weaken ==
  ASSUME NEW rec \in Record, NEW why, NEW same \in BOOLEAN, NEW settled \in BOOLEAN,
         NEW same2 \in BOOLEAN, NEW settled2 \in BOOLEAN, NEW e \in Entries,
         Fine(e, rec, why, same, settled), same2 => same, settled2 => settled /\ same2
  PROVE  Fine(e, rec, why, same2, settled2)
BY DEF Fine

-----------------------------------------------------------------------------
\* What is on its way to the page

\* How a record changes: its marker does not fall, and grows with its value while it is shared.
Grows(rec, rec2) ==
  /\ rec2.marker >= rec.marker
  /\ rec2 = rec \/ rec2.marker > rec.marker \/ ~rec.shared \/ ~rec2.shared

LEMMA Messages ==
  ASSUME NEW k \in Keys
  PROVE  /\ \A rec \in Record : /\ Update(k, rec) \in Message /\ ~(Update(k, rec).type = "shares")
                                /\ \A j \in Keys : About(Update(k, rec), j) <=> j = k
                                /\ rec.shared => Says(Update(k, rec), k) = rec
         /\ \A recs \in [Keys -> Record] :
              /\ Snapshot(recs) \in Message /\ Snapshot(recs).type = "shares"
              /\ About(Snapshot(recs), k) /\ Says(Snapshot(recs), k) = recs[k]
         /\ \A m \in Message : About(m, k) => Says(m, k) \in Record
<1>1. ASSUME NEW rec \in Record
      PROVE  /\ Update(k, rec) \in Message /\ ~(Update(k, rec).type = "shares")
             /\ \A j \in Keys : About(Update(k, rec), j) <=> j = k
             /\ rec.shared => Says(Update(k, rec), k) = rec
  BY DEF Update, Message, Record, About, Says
<1>2. ASSUME NEW recs \in [Keys -> Record]
      PROVE  /\ Snapshot(recs) \in Message /\ Snapshot(recs).type = "shares"
             /\ About(Snapshot(recs), k) /\ Says(Snapshot(recs), k) = recs[k]
  BY DEF Snapshot, Message, About, Says
<1>3. ASSUME NEW m \in Message, About(m, k) PROVE Says(m, k) \in Record
  BY <1>3 DEF Message, About, Says, Record
<1> QED BY <1>1, <1>2, <1>3

\* A message with the present record is sent last.
LEMMA AppendTells ==
  ASSUME NEW q \in Seq(Message), NEW m \in Message, NEW k \in Keys,
         NEW rec \in Record, NEW rec2 \in Record, Telling(q, k, rec), Grows(rec, rec2),
         IF About(m, k) THEN Says(m, k) = rec2 ELSE rec2 = rec,
         m.type = "shares" \/ rec2.shared = rec.shared,
         NEW q2, q2 = Append(q, m)
  PROVE  Telling(q2, k, rec2)
<1>1. /\ DOMAIN q = 1..Len(q) /\ DOMAIN q2 = 1..(Len(q) + 1) /\ Len(q) \in Nat
      /\ q2[Len(q) + 1] = m /\ \A i \in DOMAIN q : q2[i] = q[i]
      /\ \A i \in DOMAIN q2 : i \in Int /\ (i \in DOMAIN q \/ i = Len(q) + 1)
  OBVIOUS
<1> DEFINE n == Len(q) + 1
<1>2. /\ n \in DOMAIN q2 /\ q2[n] = m
      /\ \A i \in DOMAIN q : i \in DOMAIN q2 /\ q2[i] = q[i] /\ n > i
      /\ \A i \in DOMAIN q2 : i \in DOMAIN q \/ i = n
  BY <1>1
<1> HIDE DEF n
<1>3. \A i \in DOMAIN q : About(q[i], k) => Says(q[i], k).marker \in Nat
  BY Messages DEF Record
<1>4. rec.marker \in Nat /\ rec2.marker \in Nat
  BY DEF Record
<1>5. ASSUME NEW i \in DOMAIN q2, About(q2[i], k) PROVE Says(q2[i], k).marker <= rec2.marker
  <2>1. CASE i \in DOMAIN q
    BY <1>2, <1>3, <1>4, <1>5, <2>1 DEF Telling, Grows
  <2>2. CASE i = n
    BY <1>2, <1>4, <1>5, <2>2
  <2> QED BY <1>2, <2>1, <2>2
<1>6. ASSUME NEW i \in DOMAIN q2, LastAbout(q2, i, k) PROVE Says(q2[i], k) = rec2
  <2>1. CASE i = n
    BY <1>2, <1>6, <2>1 DEF LastAbout
  <2>2. CASE i \in DOMAIN q
    <3>1. LastAbout(q, i, k) /\ ~About(m, k)
      BY <1>2, <1>6, <2>2 DEF LastAbout
    <3> QED BY <1>2, <2>2, <3>1 DEF Telling
  <2> QED BY <1>2, <2>1, <2>2
<1>7. ASSUME NEW i \in DOMAIN q2, About(q2[i], k), ListedFrom(q2, i, k)
      PROVE  /\ rec2.shared
             /\ Says(q2[i], k).marker = rec2.marker => Says(q2[i], k).value = rec2.value
  <2>1. CASE i = n
    <3>1. n >= i
      BY <1>1, <2>1 DEF n
    <3> QED BY <1>2, <1>7, <2>1, <3>1 DEF ListedFrom
  <2>2. CASE i \in DOMAIN q
    <3>1. n >= i
      BY <1>1, <2>2 DEF n
    <3>2. ListedFrom(q, i, k) /\ (About(m, k) => Says(m, k).shared) /\ About(q[i], k)
      BY <1>2, <1>7, <2>2, <3>1 DEF ListedFrom
    <3>3. rec.shared /\ (Says(q[i], k).marker = rec.marker => Says(q[i], k).value = rec.value)
          /\ Says(q[i], k).marker <= rec.marker
      BY <2>2, <3>2 DEF Telling
    <3>4. rec2.shared
      BY <3>2, <3>3
    <3>5. CASE rec2 = rec
      BY <1>2, <2>2, <3>3, <3>5
    <3>6. CASE rec2.marker > rec.marker
      BY <1>2, <1>3, <1>4, <2>2, <3>2, <3>3, <3>4, <3>6
    <3> QED BY <3>3, <3>4, <3>5, <3>6 DEF Grows
  <2> QED BY <1>2, <2>1, <2>2
<1>8. ASSUME NEW i \in DOMAIN q2, q2[i].type = "shares",
             \A j \in DOMAIN q2 : j > i => q2[j].type # "shares"
      PROVE  Says(q2[i], k).shared = rec2.shared
  <2>1. CASE i = n
    BY <1>2, <1>8, <2>1 DEF About
  <2>2. CASE i \in DOMAIN q
    <3>1. m.type # "shares"
      BY <1>2, <1>8, <2>2
    <3> QED BY <1>2, <1>8, <2>2, <3>1 DEF Telling
  <2> QED BY <1>2, <2>1, <2>2
<1> QED BY <1>5, <1>6, <1>7, <1>8 DEF Telling

LEMMA TailTells ==
  ASSUME NEW q \in Seq(Message), q # << >>, NEW k \in Keys, NEW rec \in Record,
         Telling(q, k, rec), NEW q2, q2 = Tail(q)
  PROVE  Telling(q2, k, rec)
<1>1. /\ q2 \in Seq(Message) /\ DOMAIN q = 1..Len(q) /\ Len(q) \in Nat
      /\ DOMAIN q2 = 1..(Len(q) - 1)
      /\ \A i \in DOMAIN q2 : q2[i] = q[i + 1]
  OBVIOUS
<1>2. /\ \A i \in DOMAIN q2 : i + 1 \in DOMAIN q /\ q2[i] = q[i + 1]
      /\ \A i \in DOMAIN q2 : \A j \in DOMAIN q : j >= i + 1 =>
           /\ j - 1 \in DOMAIN q2 /\ q2[j - 1] = q[j] /\ j - 1 >= i
           /\ j > i + 1 => j - 1 > i
      /\ \A i \in DOMAIN q2 : \A j \in DOMAIN q : j > i + 1 => j >= i + 1
  <2>1. ASSUME NEW n \in Nat, NEW i \in 1..(n - 1), NEW j \in 1..n
        PROVE  /\ i + 1 \in 1..n
               /\ j >= i + 1 => /\ j - 1 \in 1..(n - 1) /\ j = (j - 1) + 1 /\ j - 1 >= i
                                /\ j > i + 1 => j - 1 > i
               /\ j > i + 1 => j >= i + 1
    OBVIOUS
  <2> QED BY <1>1, <2>1
<1>3. \A i \in DOMAIN q2 : LastAbout(q2, i, k) => LastAbout(q, i + 1, k)
  BY <1>2 DEF LastAbout
<1>4. \A i \in DOMAIN q2 : ListedFrom(q2, i, k) => ListedFrom(q, i + 1, k)
  BY <1>2 DEF ListedFrom
<1>5. \A i \in DOMAIN q2 : About(q2[i], k) => Says(q2[i], k).marker <= rec.marker
  BY <1>2 DEF Telling
<1>6. \A i \in DOMAIN q2 : LastAbout(q2, i, k) => Says(q2[i], k) = rec
  BY <1>2, <1>3 DEF Telling
<1>7. ASSUME NEW i \in DOMAIN q2, About(q2[i], k), ListedFrom(q2, i, k)
      PROVE  /\ rec.shared
             /\ Says(q2[i], k).marker = rec.marker => Says(q2[i], k).value = rec.value
  BY <1>2, <1>4, <1>7 DEF Telling
<1>8. ASSUME NEW i \in DOMAIN q2, q2[i].type = "shares",
             \A j \in DOMAIN q2 : j > i => q2[j].type # "shares"
      PROVE  Says(q2[i], k).shared = rec.shared
  <2>1. \A j \in DOMAIN q : j > i + 1 => q[j].type # "shares"
    BY <1>2, <1>8
  <2> QED BY <1>2, <1>8, <2>1 DEF Telling
<1> QED BY <1>5, <1>6, <1>7, <1>8 DEF Telling

\* The snapshot is sent before what waited for it.
LEMMA SnapshotTells ==
  ASSUME NEW q \in Seq(Message), NEW k \in Keys, NEW rec \in Record, Telling(q, k, rec),
         NEW m \in Message, m.type = "shares", Says(m, k) = rec,
         NEW q2, q2 = <<m>> \o q
  PROVE  Telling(q2, k, rec)
<1>1. /\ q2 \in Seq(Message) /\ DOMAIN q = 1..Len(q) /\ Len(q) \in Nat
      /\ DOMAIN q2 = 1..(Len(q) + 1) /\ q2[1] = m
      /\ \A i \in DOMAIN q : q2[i + 1] = q[i]
  OBVIOUS
<1>2. /\ \A i \in DOMAIN q : i + 1 \in DOMAIN q2 /\ q2[i + 1] = q[i]
      /\ \A i \in DOMAIN q2 : i = 1 \/ (i - 1 \in DOMAIN q /\ q2[i] = q[i - 1])
      /\ \A i \in DOMAIN q2 : \A j \in DOMAIN q : /\ j > i - 1 => j + 1 > i
                                                  /\ j >= i - 1 => j + 1 >= i
      /\ 1 \in DOMAIN q2
  <2>1. ASSUME NEW n \in Nat, NEW i \in 1..(n + 1), NEW j \in 1..n
        PROVE  /\ j + 1 \in 1..(n + 1)
               /\ i = 1 \/ (i - 1 \in 1..n /\ i = (i - 1) + 1)
               /\ j > i - 1 => j + 1 > i
               /\ j >= i - 1 => j + 1 >= i
    OBVIOUS
  <2>3. \A i \in DOMAIN q : i + 1 \in DOMAIN q2 /\ q2[i + 1] = q[i]
    BY <1>1, <2>1
  <2>4. \A i \in DOMAIN q2 : i = 1 \/ (i - 1 \in DOMAIN q /\ q2[i] = q[i - 1])
    <3> TAKE i \in DOMAIN q2
    <3> DEFINE j == i - 1
    <3>1. i = 1 \/ (j \in DOMAIN q /\ j + 1 = i)
      BY <1>1
    <3> HIDE DEF j
    <3>2. i = 1 \/ (j \in DOMAIN q /\ q2[i] = q[j])
      BY <2>3, <3>1
    <3> QED BY <3>2 DEF j
  <2>5. 1 \in DOMAIN q2
    BY <1>1
  <2>6. \A i \in DOMAIN q2 : \A j \in DOMAIN q : /\ j > i - 1 => j + 1 > i
                                                 /\ j >= i - 1 => j + 1 >= i
    BY <1>1
  <2> QED BY <2>3, <2>4, <2>5, <2>6
<1>3. \A i \in DOMAIN q2 : LastAbout(q2, i, k) /\ i # 1 => LastAbout(q, i - 1, k)
  BY <1>2 DEF LastAbout
<1>4. \A i \in DOMAIN q2 : ListedFrom(q2, i, k) /\ i # 1 => ListedFrom(q, i - 1, k)
  BY <1>2 DEF ListedFrom
<1>5. rec.marker \in Nat /\ rec.marker <= rec.marker
  BY DEF Record
<1>6. \A i \in DOMAIN q2 : About(q2[i], k) => Says(q2[i], k).marker <= rec.marker
  BY <1>1, <1>2, <1>5 DEF Telling
<1>7. \A i \in DOMAIN q2 : LastAbout(q2, i, k) => Says(q2[i], k) = rec
  BY <1>1, <1>2, <1>3 DEF Telling
<1>8. ASSUME NEW i \in DOMAIN q2, About(q2[i], k), ListedFrom(q2, i, k)
      PROVE  /\ rec.shared
             /\ Says(q2[i], k).marker = rec.marker => Says(q2[i], k).value = rec.value
  <2>1. CASE i = 1
    <3>1. 1 >= 1
      OBVIOUS
    <3> QED BY <1>1, <1>2, <1>8, <2>1, <3>1 DEF ListedFrom, About
  <2>2. CASE i # 1
    BY <1>2, <1>4, <1>8, <2>2 DEF Telling
  <2> QED BY <2>1, <2>2
<1>9. ASSUME NEW i \in DOMAIN q2, q2[i].type = "shares",
             \A j \in DOMAIN q2 : j > i => q2[j].type # "shares"
      PROVE  Says(q2[i], k).shared = rec.shared
  <2>1. CASE i = 1
    BY <1>1, <2>1
  <2>2. CASE i # 1
    <3>1. \A j \in DOMAIN q : j > i - 1 => q[j].type # "shares"
      BY <1>2, <1>9
    <3> QED BY <1>2, <1>9, <2>2, <3>1 DEF Telling
  <2> QED BY <2>1, <2>2
<1> QED BY <1>6, <1>7, <1>8, <1>9 DEF Telling

-----------------------------------------------------------------------------
\* The whole system

Same == known = life

Channel ==
  /\ Connection
  /\ \A k \in Keys : /\ Telling(conn.pending, k, record[k]) /\ Telling(conn.out, k, record[k])
                     /\ Told(k)

LEMMA Booleans ==
  Same \in BOOLEAN /\ Same' \in BOOLEAN
  /\ \A k \in Keys : Settled(k) \in BOOLEAN /\ Settled(k)' \in BOOLEAN
BY DEF Same, Settled

\* A settled entry belongs to a share of the server that the page knows.
LEMMA SettledShared ==
  ASSUME SyncInv, NEW k \in Keys, Settled(k), page[k] # NoEntry
  PROVE  Same /\ record[k].shared /\ ~conn.initializing
<1>1. Same /\ ~conn.initializing
  BY DEF SyncInv, Connection, Settled, Same
<1>2. CASE \A i \in DOMAIN conn.out : ~About(conn.out[i], k)
  <2>1. \A i \in DOMAIN conn.out : conn.out[i].type # "shares"
    BY <1>2 DEF About
  <2> QED BY <1>1, <2>1 DEF SyncInv, Told, Settled
<1>3. CASE \E i \in DOMAIN conn.out : About(conn.out[i], k)
  <2>1. PICK i \in DOMAIN conn.out : About(conn.out[i], k)
    BY <1>3
  <2>2. conn.out \in Seq(Message)
    BY DEF SyncInv, TypeOK
  <2>3. \A j \in DOMAIN conn.out : j >= i => j >= 1
    BY <2>2
  <2>4. ListedFrom(conn.out, i, k)
    BY <2>3 DEF Settled, ListedFrom
  <2>5. Telling(conn.out, k, record[k])
    BY DEF SyncInv
  <2> QED BY <1>1, <2>1, <2>4, <2>5 DEF Telling
<1> QED BY <1>2, <1>3

LEMMA EntryFine ==
  ASSUME SyncInv, NEW k \in Keys, page[k] # NoEntry
  PROVE  /\ page[k] \in Entries /\ record[k] \in Record /\ stale[k] \in SUBSET {"failed", "kept", "late"}
         /\ Fine(page[k], record[k], stale[k], Same, Settled(k))
<1>1. /\ page[k] \in Entries /\ record[k] \in Record
      /\ stale[k] \in SUBSET {"failed", "kept", "late"}
  BY DEF SyncInv, TypeOK
<1>2. EntryInv(k)
  BY DEF SyncInv
<1>3. Settled(k) => Same /\ record[k].shared
  BY SettledShared
<1>4. WellFormed(page[k])
  BY <1>2 DEF EntryInv
<1>5. Same => Bounded(page[k], record[k], stale[k])
  BY <1>2 DEF EntryInv, Same
<1>6. Settled(k) => GoodReplies(page[k], record[k]) /\ Covered(page[k], record[k], stale[k])
  BY <1>2 DEF EntryInv
<1> QED BY <1>1, <1>3, <1>4, <1>5, <1>6 DEF Fine

LEMMA FineEntry ==
  ASSUME NEW k \in Keys,
         page'[k] # NoEntry => Fine(page'[k], record'[k], stale'[k], Same', Settled(k)')
  PROVE  EntryInv(k)'
<1> SUFFICES ASSUME page'[k] # NoEntry PROVE EntryInv(k)'
  BY DEF EntryInv
<1>1. Fine(page'[k], record'[k], stale'[k], Same', Settled(k)')
  OBVIOUS
<1>2. WellFormed(page'[k])
  BY <1>1 DEF Fine
<1>3. Same' => Bounded(page'[k], record'[k], stale'[k])
  BY <1>1 DEF Fine
<1>4. Settled(k)' => GoodReplies(page'[k], record'[k]) /\ Covered(page'[k], record'[k], stale'[k])
  BY <1>1 DEF Fine
<1> QED BY <1>2, <1>3, <1>4 DEF EntryInv, Same

\* A step that neither the server nor the websocket takes part in.
LEMMA QuietChannel ==
  ASSUME SyncInv, UNCHANGED <<record, life, conn, adopt, known>>,
         \A k \in Keys : /\ page'[k] = NoEntry <=> page[k] = NoEntry
                         /\ page[k] # NoEntry => page'[k].marker >= page[k].marker
                         /\ page[k] # NoEntry => page'[k].marker \in Nat
  PROVE  Channel' /\ \A k \in Keys : Settled(k)' = Settled(k)
<1>1. Connection'
  BY DEF SyncInv, Connection
<1>2. ASSUME NEW k \in Keys
      PROVE  Telling(conn'.pending, k, record'[k]) /\ Telling(conn'.out, k, record'[k])
  BY DEF SyncInv
<1>3. ASSUME NEW k \in Keys PROVE Told(k)'
  <2>1. Told(k) /\ record[k] \in Record /\ page[k] \in Entries \cup {NoEntry}
    BY DEF SyncInv, TypeOK
  <2>2. record[k].marker \in Nat /\ (page[k] # NoEntry => page[k].marker \in Nat)
    BY <2>1, Parts DEF Record
  <2>3. page[k] # NoEntry /\ page[k].marker >= record[k].marker =>
          page'[k].marker >= record[k].marker
    BY <2>2
  <2> QED BY <2>1, <2>3 DEF Told
<1>4. \A k \in Keys : Settled(k)' = Settled(k)
  BY DEF Settled
<1> QED BY <1>1, <1>2, <1>3, <1>4 DEF Channel

\* An event of the page at one entry.
PageEvent(k, f, why) ==
  /\ UNCHANGED <<record, life, conn, adopt, known, stray>>
  /\ page' = [page EXCEPT ![k] = f]
  /\ stale' = [stale EXCEPT ![k] = why]
  /\ used' \in [{"sets", "changes", "faults"} -> Nat]

LEMMA PageStep ==
  ASSUME SyncInv, NEW k \in Keys, page[k] # NoEntry, NEW f, NEW why, PageEvent(k, f, why),
         f \in Entries, f.marker >= page[k].marker, why \in SUBSET {"failed", "kept", "late"},
         Fine(f, record[k], why, Same, Settled(k))
  PROVE  SyncInv'
<1>1. f # NoEntry /\ f.marker \in Nat
  BY EntryAssumption, Parts
<1>2. \A j \in Keys : /\ page'[j] = IF j = k THEN f ELSE page[j]
                      /\ stale'[j] = IF j = k THEN why ELSE stale[j]
                      /\ page[j] \in Entries \cup {NoEntry}
  BY DEF PageEvent, SyncInv, TypeOK
<1>3. \A j \in Keys : page[j] # NoEntry => page[j].marker \in Nat /\ page[j].marker >= page[j].marker
  BY <1>2, Parts
<1>4. UNCHANGED <<record, life, conn, adopt, known>>
  BY DEF PageEvent
<1>5. \A j \in Keys : /\ page'[j] = NoEntry <=> page[j] = NoEntry
                      /\ page[j] # NoEntry => page'[j].marker >= page[j].marker
                      /\ page[j] # NoEntry => page'[j].marker \in Nat
  BY <1>1, <1>2, <1>3
<1>6. Channel' /\ \A j \in Keys : Settled(j)' = Settled(j)
  BY <1>4, <1>5, QuietChannel
<1>7. TypeOK'
  BY DEF SyncInv, TypeOK, PageEvent
<1>8. ASSUME NEW j \in Keys PROVE EntryInv(j)'
  <2>1. Same' = Same
    BY <1>4 DEF Same
  <2>2. page'[j] # NoEntry => Fine(page'[j], record'[j], stale'[j], Same', Settled(j)')
    BY <1>2, <1>4, <1>6, <2>1, EntryFine
  <2> QED BY <2>2, FineEntry
<1> QED BY <1>6, <1>7, <1>8 DEF Channel, SyncInv

LEMMA Spent ==
  ASSUME SyncInv
  PROVE  \A b \in {"sets", "changes", "faults"} : \A l :
           Spend(b, l) => used' \in [{"sets", "changes", "faults"} -> Nat]
BY DEF SyncInv, TypeOK, Spend

LEMMA PageSteps ==
  ASSUME SyncInv, NEW k \in Keys,
         \/ ServeGet(k) \/ GetReturns(k) \/ GetFails(k) \/ PutReturns(k) \/ PutFails(k)
         \/ RefreshOver(k) \/ \E v \in Values : Set(k, v)
  PROVE  SyncInv'
<1> DEFINE e == page[k]
           rec == record[k]
           why == stale[k]
           settled == Settled(k)
<1>1. page[k] # NoEntry
  BY DEF ServeGet, GetReturns, GetFails, PutReturns, PutFails, RefreshOver, Set
<1>2. /\ e \in Entries /\ rec \in Record /\ why \in SUBSET {"failed", "kept", "late"}
      /\ Fine(e, rec, why, Same, settled) /\ Same \in BOOLEAN /\ settled \in BOOLEAN
  BY <1>1, EntryFine, Booleans
<1>3. /\ page = [page EXCEPT ![k] = page[k]] /\ stale = [stale EXCEPT ![k] = why]
      /\ used \in [{"sets", "changes", "faults"} -> Nat]
  BY DEF SyncInv, TypeOK
<1>4. e.marker \in Nat /\ e.marker >= e.marker
  BY <1>2, Parts
<1>5. ASSUME NEW f \in Entries, NEW w \in SUBSET {"failed", "kept", "late"}, PageEvent(k, f, w),
             Fine(f, rec, w, Same, settled), f.marker >= e.marker
      PROVE  SyncInv'
  BY <1>1, <1>5, PageStep
<1> HIDE DEF settled, e, rec, why
<1>6. CASE ServeGet(k)
  <2> DEFINE f == [e EXCEPT !.get = [@ EXCEPT !.at = "answered", !.value = rec.value,
                     !.found = rec.marker,
                     !.reply = IF ~rec.shared THEN "gone"
                               ELSE IF rec.value = NoValue THEN "empty" ELSE "ok"]]
  <2>1. e.get.at = "asked"
    BY <1>6 DEF ServeGet, e
  <2>2. Follows(f, e, rec, why, Same, settled)
    BY <1>2, <2>1, ServeGetFine
  <2>3. PageEvent(k, f, why)
    BY <1>3, <1>6 DEF ServeGet, PageEvent, e, rec, server
  <2> HIDE DEF f
  <2> QED BY <1>2, <1>5, <2>2, <2>3 DEF Follows
<1>7. CASE GetReturns(k)
  <2> DEFINE f == AfterGet(Read(e))
             w == IF ~Counts(e) THEN why ELSE IF Late(e) THEN {"late"} ELSE {}
  <2>1. e.get.at = "answered"
    BY <1>7 DEF GetReturns, e
  <2>2. f \in Entries /\ Fine(f, rec, w, Same, settled) /\ f.marker >= e.marker
    BY <1>2, <2>1, GetReturnsFine, NeverLower
  <2>3. w \in SUBSET {"failed", "kept", "late"}
    BY <1>2
  <2>4. PageEvent(k, f, w)
    BY <1>3, <1>7 DEF GetReturns, PageEvent, e, why, server
  <2> HIDE DEF f, w
  <2> QED BY <1>5, <2>2, <2>3, <2>4
<1>8. CASE GetFails(k)
  <2> DEFINE f == AfterGet(e)
             w == why \cup {"failed"}
  <2>1. e.get.at # "none"
    BY <1>8 DEF GetFails, e
  <2>2. f \in Entries /\ Fine(f, rec, w, Same, settled) /\ f.marker = e.marker
    BY <1>2, <2>1, GetFailsFine, NeverLower
  <2>3. w \in SUBSET {"failed", "kept", "late"}
    BY <1>2
  <2>4. PageEvent(k, f, w)
    BY <1>8, Spent DEF GetFails, PageEvent, e, why, server
  <2> HIDE DEF f, w
  <2> QED BY <1>4, <1>5, <2>2, <2>3, <2>4
<1>9. CASE PutReturns(k)
  <2>1. e.put.at = "answered" /\ e.put.reply \in {"ok", "conflict", "error"}
    <3>1. e.put.at = "answered" /\ e.put \in Put
      BY <1>2, <1>9, Parts DEF PutReturns, e
    <3>2. e.put.reply # "none"
      BY <1>2, <3>1 DEF Fine, WellFormed
    <3> QED BY <3>1, <3>2 DEF Put
  <2> DEFINE w == IF e.put.reply = "ok" /\ Current(e) /\ e.put.latest THEN {} ELSE why
             f == IF e.put.reply = "ok" THEN Written(e)
                  ELSE IF e.put.reply = "conflict" THEN Refused(e) ELSE Drain(e)
  <2>2. ASSUME e.put.reply = "ok"
        PROVE  f \in Entries /\ Fine(f, rec, w, Same, settled) /\ f.marker >= e.marker
    BY <1>2, <2>1, <2>2, WrittenFine, NeverLower
  <2>3. ASSUME e.put.reply = "conflict"
        PROVE  f \in Entries /\ Fine(f, rec, w, Same, settled) /\ f.marker >= e.marker
    BY <1>2, <2>1, <2>3, RefusedFine, NeverLower
  <2>4. ASSUME e.put.reply = "error"
        PROVE  f \in Entries /\ Fine(f, rec, w, Same, settled) /\ f.marker >= e.marker
    BY <1>2, <1>4, <2>1, <2>4, ErrorFine, NeverLower
  <2>5. f \in Entries /\ Fine(f, rec, w, Same, settled) /\ f.marker >= e.marker
    BY <2>1, <2>2, <2>3, <2>4
  <2>6. w \in SUBSET {"failed", "kept", "late"}
    BY <1>2
  <2>7. page' = [page EXCEPT ![k] = f] /\ stale' = [stale EXCEPT ![k] = w]
    BY <1>9, <2>1 DEF PutReturns, e, why
  <2> HIDE DEF f, w
  <2>8. PageEvent(k, f, w)
    BY <1>3, <1>9, <2>7 DEF PutReturns, PageEvent, server
  <2> QED BY <1>5, <2>5, <2>6, <2>8
<1>10. CASE PutFails(k)
  <2> DEFINE f == Drain(e)
             w == why \cup {"failed"}
  <2>1. e.put.at \in {"asked", "answered"}
    BY <1>10 DEF PutFails, e
  <2>2. f \in Entries /\ Fine(f, rec, w, Same, settled) /\ f.marker = e.marker
    BY <1>2, <2>1, PutFailsFine, NeverLower
  <2>3. w \in SUBSET {"failed", "kept", "late"}
    BY <1>2
  <2>4. PageEvent(k, f, w)
    BY <1>10, Spent DEF PutFails, PageEvent, e, why, server
  <2> HIDE DEF f, w
  <2> QED BY <1>4, <1>5, <2>2, <2>3, <2>4
<1>11. CASE RefreshOver(k)
  <2> DEFINE f == Drain(e)
  <2>1. e.put.at = "refresh" /\ ~e.get.drains
    BY <1>11 DEF RefreshOver, Awaited, e
  <2>2. f \in Entries /\ Fine(f, rec, why, Same, settled) /\ f.marker = e.marker
    BY <1>2, <2>1, RefreshOverFine, NeverLower
  <2>3. PageEvent(k, f, why)
    BY <1>3, <1>11 DEF RefreshOver, PageEvent, e, why, server
  <2> HIDE DEF f
  <2> QED BY <1>2, <1>4, <1>5, <2>2, <2>3
<1>12. ASSUME NEW v \in Values, Set(k, v) PROVE SyncInv'
  <2> DEFINE f == Edited(e, v)
  <2>1. Follows(f, e, rec, why, Same, settled)
    BY <1>2, SetFine
  <2>2. PageEvent(k, f, why)
    BY <1>3, <1>12, Spent DEF Set, PageEvent, e, why, server
  <2> HIDE DEF f
  <2> QED BY <1>2, <1>5, <2>1, <2>2 DEF Follows
<1> QED BY <1>6, <1>7, <1>8, <1>9, <1>10, <1>11, <1>12

-----------------------------------------------------------------------------
\* The server

\* The server changes records and broadcasts what they are now.
Announces(m) ==
  /\ record' \in [Keys -> Record] /\ m \in Message /\ Broadcast(m)
  /\ \A k \in Keys : /\ Grows(record[k], record'[k])
                     /\ IF About(m, k) THEN Says(m, k) = record'[k] ELSE record'[k] = record[k]
                     /\ m.type = "shares" \/ record'[k].shared = record[k].shared
  /\ UNCHANGED <<life, adopt, known>>
  /\ \A k \in Keys : /\ page'[k] = NoEntry <=> page[k] = NoEntry
                     /\ page[k] # NoEntry => page'[k].marker = page[k].marker

LEMMA BroadcastQueues ==
  ASSUME SyncInv, NEW m \in Message, Broadcast(m)
  PROVE  /\ conn' \in [up: BOOLEAN, initializing: BOOLEAN, pending: Seq(Message), out: Seq(Message)]
         /\ conn'.up = conn.up /\ conn'.initializing = conn.initializing
         /\ ~conn.up => /\ conn'.pending = conn.pending /\ conn'.out = conn.out
                        /\ conn.pending = << >> /\ conn.out = << >>
         /\ conn.up /\ conn.initializing =>
              /\ conn'.pending = Append(conn.pending, m)
              /\ conn'.out = conn.out /\ conn.out = << >>
         /\ conn.up /\ ~conn.initializing =>
              /\ conn'.pending = conn.pending /\ conn.pending = << >>
              /\ conn'.out = Append(conn.out, m)
<1>1. conn \in [up: BOOLEAN, initializing: BOOLEAN, pending: Seq(Message), out: Seq(Message)]
  BY DEF SyncInv, TypeOK
<1>2. /\ ~conn.up => conn.out = << >> /\ ~conn.initializing
      /\ conn.initializing => conn.up /\ conn.out = << >>
      /\ ~conn.initializing => conn.pending = << >>
  BY DEF SyncInv, Connection
<1>3. Append(conn.pending, m) \in Seq(Message) /\ Append(conn.out, m) \in Seq(Message)
  BY <1>1
<1> QED BY <1>1, <1>2, <1>3 DEF Broadcast

LEMMA EmptyTells ==
  ASSUME NEW k, NEW rec
  PROVE  Telling(<< >>, k, rec)
BY DEF Telling

LEMMA AnnouncedChannel ==
  ASSUME SyncInv, NEW m, Announces(m)
  PROVE  /\ Channel'
         /\ conn' \in [up: BOOLEAN, initializing: BOOLEAN, pending: Seq(Message), out: Seq(Message)]
<1> USE DEF Announces
<1>1. /\ conn' \in [up: BOOLEAN, initializing: BOOLEAN, pending: Seq(Message), out: Seq(Message)]
      /\ conn'.up = conn.up /\ conn'.initializing = conn.initializing
      /\ ~conn.up => /\ conn'.pending = conn.pending /\ conn'.out = conn.out
                     /\ conn.pending = << >> /\ conn.out = << >>
      /\ conn.up /\ conn.initializing =>
           /\ conn'.pending = Append(conn.pending, m)
           /\ conn'.out = conn.out /\ conn.out = << >>
      /\ conn.up /\ ~conn.initializing =>
           /\ conn'.pending = conn.pending /\ conn.pending = << >>
           /\ conn'.out = Append(conn.out, m)
  BY BroadcastQueues
<1>2. conn.pending \in Seq(Message) /\ conn.out \in Seq(Message) /\ conn.up \in BOOLEAN
      /\ conn.initializing \in BOOLEAN /\ record \in [Keys -> Record]
  BY DEF SyncInv, TypeOK
<1>3. Connection
  BY DEF SyncInv
<1>4. ASSUME NEW q \in Seq(Message), NEW k \in Keys, Telling(q, k, record[k])
      PROVE  Telling(Append(q, m), k, record'[k])
  <2>1. record[k] \in Record /\ record'[k] \in Record
    BY <1>2
  <2> HIDE DEF Announces
  <2>2. /\ Grows(record[k], record'[k]) /\ m \in Message
        /\ IF About(m, k) THEN Says(m, k) = record'[k] ELSE record'[k] = record[k]
        /\ m.type = "shares" \/ record'[k].shared = record[k].shared
    BY DEF Announces
  <2> QED BY <1>4, <2>1, <2>2, AppendTells
<1>5. \A k \in Keys : Telling(conn.pending, k, record[k]) /\ Telling(conn.out, k, record[k])
                      /\ Told(k)
  BY DEF SyncInv
<1> HIDE DEF Announces
<1>6. ASSUME NEW k \in Keys
      PROVE  Telling(conn'.pending, k, record'[k]) /\ Telling(conn'.out, k, record'[k])
  BY <1>1, <1>2, <1>4, <1>5, EmptyTells
<1>7. Connection'
  <2>1. /\ adopt' = adopt /\ life' = life /\ known' = known
        /\ \A k \in Keys : page'[k] = NoEntry <=> page[k] = NoEntry
    BY DEF Announces
  <2>2. conn.out # << >> =>
          Append(conn.out, m) # << >> /\ Head(Append(conn.out, m)) = Head(conn.out)
    BY <1>2
  <2>3. adopt' /\ conn'.up /\ ~conn'.initializing =>
          conn'.out # << >> /\ Head(conn'.out).type = "shares"
    BY <1>1, <1>3, <2>1, <2>2 DEF Connection
  <2> QED BY <1>1, <1>3, <2>1, <2>3 DEF Connection
<1>8. ASSUME NEW k \in Keys PROVE Told(k)'
  <2> SUFFICES ASSUME conn'.up, ~conn'.initializing
               PROVE  /\ (\A i \in DOMAIN conn'.out : conn'.out[i].type # "shares") =>
                           (record'[k].shared <=> page'[k] # NoEntry)
                      /\ page'[k] # NoEntry /\ (\A i \in DOMAIN conn'.out : ~About(conn'.out[i], k))
                           => page'[k].marker >= record'[k].marker
    BY DEF Told
  <2>1. conn.up /\ ~conn.initializing /\ conn'.out = Append(conn.out, m)
    BY <1>1
  <2>2. /\ \A i \in DOMAIN conn.out : i \in DOMAIN conn'.out /\ conn'.out[i] = conn.out[i]
        /\ Len(conn'.out) \in DOMAIN conn'.out /\ conn'.out[Len(conn'.out)] = m
    BY <1>2, <2>1
  <2>3. /\ page'[k] = NoEntry <=> page[k] = NoEntry
        /\ page[k] # NoEntry => page'[k].marker = page[k].marker
        /\ m.type = "shares" \/ record'[k].shared = record[k].shared
        /\ ~About(m, k) => record'[k] = record[k]
    BY DEF Announces
  <2>4. ASSUME \A i \in DOMAIN conn'.out : conn'.out[i].type # "shares"
        PROVE  record'[k].shared <=> page'[k] # NoEntry
    <3>1. record[k].shared <=> page[k] # NoEntry
      BY <1>5, <2>1, <2>2, <2>4 DEF Told
    <3>2. record'[k].shared = record[k].shared
      BY <2>2, <2>3, <2>4
    <3> QED BY <2>3, <3>1, <3>2
  <2>5. ASSUME page'[k] # NoEntry, \A i \in DOMAIN conn'.out : ~About(conn'.out[i], k)
        PROVE  page'[k].marker >= record'[k].marker
    <3>1. page[k].marker >= record[k].marker
      BY <1>5, <2>1, <2>2, <2>3, <2>5 DEF Told
    <3> QED BY <2>2, <2>3, <2>5, <3>1
  <2> QED BY <2>4, <2>5
<1> QED BY <1>1, <1>6, <1>7, <1>8 DEF Channel

\* An entry that is settled after an announcement was so before.
LEMMA AnnouncedSettled ==
  ASSUME SyncInv, NEW m, Announces(m), NEW k \in Keys, page[k] # NoEntry, Settled(k)'
  PROVE  /\ Settled(k) /\ record'[k].shared
         /\ record'[k] = record[k] \/ record'[k].marker > record[k].marker
<1>1. m \in Message /\ Broadcast(m) /\ adopt' = adopt
  BY DEF Announces
<1>2. /\ conn'.up = conn.up /\ conn'.initializing = conn.initializing
      /\ conn.up /\ conn.initializing => conn'.out = conn.out
      /\ conn.up /\ ~conn.initializing => conn'.out = Append(conn.out, m)
      /\ conn.out \in Seq(Message) /\ conn.initializing \in BOOLEAN
  BY <1>1, BroadcastQueues DEF SyncInv, TypeOK
<1>3. conn.up /\ ~adopt /\ ListedFrom(conn'.out, 1, k)
  BY <1>1, <1>2 DEF Settled
<1>4. CASE conn.initializing
  BY <1>3, <1>4 DEF SyncInv, Connection
<1>5. CASE ~conn.initializing
  <2>1. conn'.out = Append(conn.out, m)
    BY <1>2, <1>3, <1>5
  <2>2. /\ \A i \in DOMAIN conn.out : i \in DOMAIN conn'.out /\ conn'.out[i] = conn.out[i]
        /\ Len(conn'.out) \in DOMAIN conn'.out /\ conn'.out[Len(conn'.out)] = m
        /\ Len(conn'.out) >= 1
    BY <1>2, <2>1
  <2>3. ListedFrom(conn.out, 1, k) /\ (About(m, k) => Says(m, k).shared)
    BY <1>3, <2>2 DEF ListedFrom
  <2>4. Settled(k)
    BY <1>3, <2>3 DEF Settled
  <2>5. record[k].shared
    BY <2>4, SettledShared
  <2>6. /\ Grows(record[k], record'[k])
        /\ IF About(m, k) THEN Says(m, k) = record'[k] ELSE record'[k] = record[k]
    BY DEF Announces
  <2>7. record'[k].shared
    BY <2>3, <2>5, <2>6
  <2> QED BY <2>4, <2>5, <2>6, <2>7 DEF Grows
<1> QED BY <1>2, <1>4, <1>5

LEMMA ServerStep ==
  ASSUME SyncInv, NEW m, Announces(m), stale' = stale,
         page' \in [Keys -> Entries \cup {NoEntry}], stray' \in [Keys -> SUBSET Put],
         used' \in [{"sets", "changes", "faults"} -> Nat],
         \A k \in Keys : page[k] # NoEntry =>
           \/ page'[k] = page[k]
           \/ Fine(page'[k], record'[k], stale[k], Same, Settled(k)')
  PROVE  SyncInv'
<1>1. /\ Channel'
      /\ conn' \in [up: BOOLEAN, initializing: BOOLEAN, pending: Seq(Message), out: Seq(Message)]
  BY AnnouncedChannel
<1>2. /\ record' \in [Keys -> Record] /\ UNCHANGED <<life, adopt, known>>
      /\ \A k \in Keys : /\ Grows(record[k], record'[k])
                         /\ page'[k] = NoEntry <=> page[k] = NoEntry
  BY DEF Announces
<1>3. TypeOK'
  BY <1>1, <1>2 DEF SyncInv, TypeOK
<1>4. ASSUME NEW k \in Keys PROVE EntryInv(k)'
  <2> SUFFICES ASSUME page'[k] # NoEntry
               PROVE  Fine(page'[k], record'[k], stale'[k], Same', Settled(k)')
    BY FineEntry
  <2>1. /\ page[k] \in Entries /\ record[k] \in Record /\ record'[k] \in Record
        /\ Fine(page[k], record[k], stale[k], Same, Settled(k)) /\ page[k] # NoEntry
    BY <1>2, EntryFine
  <2>2. Same' = Same /\ stale'[k] = stale[k]
    BY <1>2 DEF Same
  <2>3. Settled(k)' => /\ Settled(k) /\ record'[k].shared
                       /\ record'[k] = record[k] \/ record'[k].marker > record[k].marker
    BY <2>1, AnnouncedSettled
  <2>4. record'[k].marker >= record[k].marker
    BY <1>2 DEF Grows
  <2>5. Fine(page[k], record'[k], stale[k], Same, Settled(k)')
    BY <2>1, <2>3, <2>4, Booleans, ChangedFine
  <2>6. CASE page'[k] = page[k]
    BY <2>2, <2>5, <2>6
  <2>7. CASE Fine(page'[k], record'[k], stale[k], Same, Settled(k)')
    BY <2>2, <2>7
  <2> QED BY <2>1, <2>6, <2>7
<1> QED BY <1>1, <1>3, <1>4 DEF Channel, SyncInv

\* What is installed is announced, unless it is what the server has.
LEMMA Installs ==
  ASSUME SyncInv, NEW k \in Keys, NEW v \in Content, record[k].shared, Install(k, v),
         UNCHANGED <<life, adopt, known>>,
         \A j \in Keys : /\ page'[j] = NoEntry <=> page[j] = NoEntry
                         /\ page[j] # NoEntry => page'[j].marker = page[j].marker
  PROVE  /\ record' \in [Keys -> Record] /\ \A j \in Keys : j # k => record'[j] = record[j]
         /\ record'[k].value = v /\ record'[k].shared
         /\ record'[k] = record[k] \/ record'[k].marker = record[k].marker + 1
         /\ (record' = record /\ conn' = conn) \/ \E m : Announces(m)
<1> DEFINE rec == record[k]
           marker == IF v = rec.value THEN rec.marker ELSE rec.marker + 1
           new == [rec EXCEPT !.value = v, !.marker = marker]
<1>1. record \in [Keys -> Record] /\ rec \in Record /\ rec.marker \in Nat
  BY DEF SyncInv, TypeOK, Record
<1>2. /\ new \in Record /\ new.value = v /\ new.shared = rec.shared
      /\ new.marker = IF v = rec.value THEN rec.marker ELSE rec.marker + 1
  <2>1. marker \in Nat
    BY <1>1
  <2> HIDE DEF marker
  <2>2. new \in Record /\ new.value = v /\ new.shared = rec.shared /\ new.marker = marker
    BY <1>1, <2>1 DEF Record
  <2> HIDE DEF new
  <2> QED BY <2>2 DEF marker
<1>3. v = rec.value => new = rec
  BY <1>1, <1>2 DEF Record
<1>4. /\ record' = [record EXCEPT ![k] = new]
      /\ IF v = rec.value THEN UNCHANGED conn ELSE Broadcast(Update(k, new))
  BY DEF Install
<1> HIDE DEF new
<1>5. /\ record' \in [Keys -> Record] /\ record'[k] = new
      /\ \A j \in Keys : j # k => record'[j] = record[j]
  BY <1>1, <1>2, <1>4
<1>6. CASE v = rec.value
  BY <1>1, <1>2, <1>3, <1>4, <1>5, <1>6
<1>7. CASE v # rec.value
  <2> DEFINE m == Update(k, new)
  <2>1. /\ m \in Message /\ ~(m.type = "shares") /\ Says(m, k) = new
        /\ \A j \in Keys : About(m, j) <=> j = k
    BY <1>2, Messages
  <2>2. Broadcast(m)
    BY <1>4, <1>7
  <2> HIDE DEF m
  <2>3. ASSUME NEW j \in Keys
        PROVE  /\ Grows(record[j], record'[j])
               /\ IF About(m, j) THEN Says(m, j) = record'[j] ELSE record'[j] = record[j]
               /\ record'[j].shared = record[j].shared
    <3>1. record[j] \in Record /\ record[j].marker \in Nat
      BY <1>1 DEF Record
    <3>2. CASE j = k
      <4>1. new.marker > rec.marker /\ new.marker >= rec.marker
        BY <1>1, <1>2, <1>7
      <4> QED BY <1>2, <1>5, <2>1, <3>2, <4>1 DEF Grows
    <3>3. CASE j # k
      BY <1>5, <2>1, <3>1, <3>3 DEF Grows
    <3> QED BY <3>2, <3>3
  <2>4. Announces(m)
    BY <1>5, <2>1, <2>2, <2>3 DEF Announces
  <2> QED BY <1>1, <1>2, <1>5, <1>7, <2>4
<1> QED BY <1>6, <1>7

LEMMA QuietStep ==
  ASSUME SyncInv, UNCHANGED <<record, life, conn, adopt, known, page, stale>>,
         stray' \in [Keys -> SUBSET Put], used' \in [{"sets", "changes", "faults"} -> Nat]
  PROVE  SyncInv'
<1>1. TypeOK'
  BY DEF SyncInv, TypeOK
<1>2. Connection'
  BY DEF SyncInv, Connection
<1>3. ASSUME NEW k \in Keys
      PROVE  /\ Telling(conn'.pending, k, record'[k]) /\ Telling(conn'.out, k, record'[k])
             /\ Told(k)' /\ EntryInv(k)'
  BY DEF SyncInv, Told, EntryInv, Settled
<1> QED BY <1>1, <1>2, <1>3 DEF SyncInv

LEMMA ChangeStep ==
  ASSUME SyncInv, NEW k \in Keys, NEW v \in Values, Change(k, v)
  PROVE  SyncInv'
<1>1. /\ record[k].shared /\ v # record[k].value /\ Install(k, v) /\ v \in Content
      /\ UNCHANGED <<life, adopt, page, stray, stale, known>>
  BY DEF Change, Content
<1>2. used' \in [{"sets", "changes", "faults"} -> Nat] /\ page' \in [Keys -> Entries \cup {NoEntry}]
      /\ stray' \in [Keys -> SUBSET Put]
  <2>1. used \in [{"sets", "changes", "faults"} -> Nat] /\ page \in [Keys -> Entries \cup {NoEntry}]
        /\ stray \in [Keys -> SUBSET Put]
    BY DEF SyncInv, TypeOK
  <2>2. used' = used \/ Spend("changes", MaxChanges)
    BY DEF Change
  <2> QED BY <1>1, <2>1, <2>2, Spent
<1>3. (record' = record /\ conn' = conn) \/ \E m : Announces(m)
  BY <1>1, Installs
<1>4. CASE record' = record /\ conn' = conn
  BY <1>1, <1>2, <1>4, QuietStep
<1>5. ASSUME NEW m, Announces(m) PROVE SyncInv'
  BY <1>1, <1>2, <1>5, ServerStep
<1> QED BY <1>3, <1>4, <1>5

LEMMA StrayStep ==
  ASSUME SyncInv, NEW k \in Keys, ServeStray(k)
  PROVE  SyncInv'
<1>1. PICK put \in stray[k] :
        /\ stray' = [stray EXCEPT ![k] = @ \ {put}]
        /\ IF Accepts(record[k], put.marker) THEN Install(k, put.value) ELSE UNCHANGED <<record, conn>>
        /\ UNCHANGED <<life, adopt, page, stale, known, used>>
  BY DEF ServeStray
<1>2. /\ used' \in [{"sets", "changes", "faults"} -> Nat] /\ page' \in [Keys -> Entries \cup {NoEntry}]
      /\ stray' \in [Keys -> SUBSET Put] /\ put \in Put
  BY <1>1 DEF SyncInv, TypeOK
<1>3. put.value \in Content
  BY <1>2 DEF Put
<1>4. CASE record' = record /\ conn' = conn
  BY <1>1, <1>2, <1>4, QuietStep
<1>5. CASE Accepts(record[k], put.marker)
  <2>1. record[k].shared /\ Install(k, put.value)
    BY <1>1, <1>5 DEF Accepts
  <2>2. (record' = record /\ conn' = conn) \/ \E m : Announces(m)
    BY <1>1, <1>3, <2>1, Installs
  <2>3. ASSUME NEW m, Announces(m) PROVE SyncInv'
    BY <1>1, <1>2, <2>3, ServerStep
  <2> QED BY <1>4, <2>2, <2>3
<1> QED BY <1>1, <1>4, <1>5

LEMMA ShareStep ==
  ASSUME SyncInv, NEW k \in Keys, Share(k) \/ Unshare(k)
  PROVE  SyncInv'
<1>1. record \in [Keys -> Record] /\ page \in [Keys -> Entries \cup {NoEntry}]
      /\ stray \in [Keys -> SUBSET Put] /\ used \in [{"sets", "changes", "faults"} -> Nat]
  BY DEF SyncInv, TypeOK
<1>2. used' \in [{"sets", "changes", "faults"} -> Nat]
  <2>1. used' = used \/ Spend("faults", MaxFaults)
    BY DEF Share, Unshare
  <2> QED BY <1>1, <2>1, Spent
<1>3. UNCHANGED <<life, adopt, page, stray, stale, known>> /\ Broadcast(Snapshot(record'))
  BY DEF Share, Unshare
<1>4. PICK new : /\ record' = [record EXCEPT ![k] = new] /\ new \in Record
                 /\ Grows(record[k], new)
  <2>1. record[k] \in Record /\ record[k].marker \in Nat
    BY <1>1 DEF Record
  <2>2. CASE Share(k)
    <3>1. PICK v \in Values, given \in {~Blank, TRUE} :
            record' = [record EXCEPT ![k] = IF given
                         THEN [shared |-> TRUE, value |-> v, marker |-> @.marker + 1]
                         ELSE [@ EXCEPT !.shared = TRUE]]
      BY <2>2 DEF Share
    <3>2. CASE given
      <4> DEFINE n == [shared |-> TRUE, value |-> v, marker |-> record[k].marker + 1]
      <4>1. record' = [record EXCEPT ![k] = n]
        BY <3>1, <3>2
      <4>2. n \in Record /\ Grows(record[k], n)
        BY <2>1 DEF Record, Grows, Content
      <4> QED BY <4>1, <4>2
    <3>3. CASE ~given
      <4> DEFINE n == [record[k] EXCEPT !.shared = TRUE]
      <4>1. record' = [record EXCEPT ![k] = n]
        BY <3>1, <3>3
      <4>2. ~record[k].shared
        BY <2>2 DEF Share
      <4>3. n \in Record /\ n.marker = record[k].marker
        BY <2>1 DEF Record
      <4>4. Grows(record[k], n)
        BY <2>1, <4>2, <4>3 DEF Grows
      <4> QED BY <4>1, <4>3, <4>4
    <3> QED BY <3>2, <3>3
  <2>3. CASE Unshare(k)
    <3> DEFINE n == [Fresh EXCEPT !.marker = record[k].marker]
    <3>1. record' = [record EXCEPT ![k] = n]
      BY <2>3 DEF Unshare
    <3>2. n \in Record /\ ~n.shared /\ n.marker = record[k].marker
      BY <2>1 DEF Record, Fresh, Content
    <3>3. Grows(record[k], n)
      BY <2>1, <3>2 DEF Grows
    <3> QED BY <3>1, <3>2, <3>3
  <2> QED BY <2>2, <2>3
<1> DEFINE m == Snapshot(record')
<1>5. record' \in [Keys -> Record] /\ record'[k] = new
      /\ \A j \in Keys : j # k => record'[j] = record[j]
  BY <1>1, <1>4
<1>6. /\ m \in Message /\ m.type = "shares"
      /\ \A j \in Keys : About(m, j) /\ Says(m, j) = record'[j]
  BY <1>5, Messages
<1>7. Broadcast(m)
  BY <1>3
<1> HIDE DEF m
<1>8. ASSUME NEW j \in Keys PROVE Grows(record[j], record'[j])
  <2>1. record[j].marker \in Nat
    BY <1>1 DEF Record
  <2> QED BY <1>4, <1>5, <2>1 DEF Grows
<1>9. Announces(m)
  BY <1>3, <1>5, <1>6, <1>7, <1>8 DEF Announces
<1> QED BY <1>1, <1>2, <1>3, <1>9, ServerStep

LEMMA InstallRecord ==
  ASSUME SyncInv, NEW k \in Keys, NEW v \in Content, Install(k, v)
  PROVE  record' \in [Keys -> Record]
<1> DEFINE rec == record[k]
           marker == IF v = rec.value THEN rec.marker ELSE rec.marker + 1
           new == [rec EXCEPT !.value = v, !.marker = marker]
<1>1. record \in [Keys -> Record] /\ rec \in Record /\ rec.marker \in Nat
  BY DEF SyncInv, TypeOK, Record
<1>2. record' = [record EXCEPT ![k] = new]
  BY DEF Install
<1>3. marker \in Nat
  BY <1>1
<1> HIDE DEF marker
<1>4. new \in Record
  BY <1>1, <1>3 DEF Record
<1> QED BY <1>1, <1>2, <1>4

LEMMA PutStep ==
  ASSUME SyncInv, NEW k \in Keys, ServePut(k)
  PROVE  SyncInv'
<1> DEFINE e == page[k]
           rec == record[k]
           rec2 == record'[k]
           why == stale[k]
           reply == Answer(rec, e.put)
           put == [e.put EXCEPT !.at = "answered", !.reply = reply,
                                !.other = rec.value, !.found = rec2.marker]
           f == [e EXCEPT !.put = put]
<1>1. /\ page[k] # NoEntry /\ e.put.at = "asked"
      /\ IF Accepts(rec, e.put.marker) THEN Install(k, e.put.value) ELSE UNCHANGED <<record, conn>>
      /\ UNCHANGED <<life, adopt, stray, stale, known, used>>
      /\ page' = [page EXCEPT ![k] = f]
  BY DEF ServePut
<1>2. /\ e \in Entries /\ rec \in Record /\ why \in SUBSET {"failed", "kept", "late"}
      /\ Fine(e, rec, why, Same, Settled(k))
  BY <1>1, EntryFine
<1>3. /\ record \in [Keys -> Record] /\ page \in [Keys -> Entries \cup {NoEntry}]
      /\ stray' \in [Keys -> SUBSET Put] /\ used' \in [{"sets", "changes", "faults"} -> Nat]
      /\ stale = [stale EXCEPT ![k] = why]
  BY <1>1 DEF SyncInv, TypeOK
<1>4. e.put \in Put /\ e.put.value \in Content /\ e.marker \in Nat
  BY <1>2, Parts
<1>5. record' \in [Keys -> Record] /\ rec2 \in Record /\ rec2.marker \in Nat
  <2>1. record' \in [Keys -> Record]
    BY <1>1, <1>3, <1>4, InstallRecord
  <2> QED BY <2>1 DEF Record
<1>6. reply \in {"error", "ok", "conflict"} /\ rec.value \in Content
      /\ (Accepts(rec, e.put.marker) => rec.shared)
  BY <1>2 DEF Record, Answer, Accepts
<1>7. put \in Put
  <2> HIDE DEF reply
  <2> QED BY <1>4, <1>5, <1>6 DEF Put
<1>8. f \in Entries /\ f.marker = e.marker /\ f # NoEntry
  <2> HIDE DEF put
  <2> QED BY <1>2, <1>7, EntryAssumption DEF Entries
<1>9. f = [e EXCEPT !.put = [@ EXCEPT !.at = "answered", !.reply = reply,
                                      !.other = rec.value, !.found = rec2.marker]]
  OBVIOUS
<1>10. ASSUME NEW settled2 \in BOOLEAN, settled2 => Settled(k), rec2.shared = rec.shared,
              rec2 = rec \/ rec2.marker = rec.marker + 1,
              Accepts(rec, e.put.marker) => rec2.value = e.put.value
       PROVE  Fine(f, rec2, why, Same, settled2)
  <2>1. Answers(e, f, rec, rec2)
    BY <1>1, <1>9, <1>10 DEF Answers
  <2> HIDE DEF f, put, reply, e, rec, rec2, why
  <2> QED BY <1>2, <1>5, <1>10, <2>1, Booleans, ServePutFine
<1> HIDE DEF f, put
<1>11. \A j \in Keys : /\ page'[j] = NoEntry <=> page[j] = NoEntry
                       /\ page[j] # NoEntry => page'[j].marker = page[j].marker
                       /\ j # k => page'[j] = page[j]
  BY <1>1, <1>3, <1>8
<1>12. page' \in [Keys -> Entries \cup {NoEntry}] /\ page'[k] = f
  BY <1>1, <1>3, <1>8
<1>13. CASE record' = record /\ conn' = conn /\ (Accepts(rec, e.put.marker) => rec.value = e.put.value)
  <2>1. Fine(f, rec, why, Same, Settled(k))
    BY <1>10, <1>13, Booleans
  <2>2. PageEvent(k, f, why)
    BY <1>1, <1>3, <1>13 DEF PageEvent
  <2>3. f.marker >= page[k].marker
    BY <1>4, <1>8
  <2> QED BY <1>1, <1>2, <1>8, <2>1, <2>2, <2>3, PageStep
<1>14. CASE Accepts(rec, e.put.marker)
  <2>1. /\ rec2.value = e.put.value /\ rec2.shared
        /\ rec2 = rec \/ rec2.marker = rec.marker + 1
        /\ (record' = record /\ conn' = conn) \/ \E m : Announces(m)
    BY <1>1, <1>4, <1>6, <1>11, <1>14, Installs
  <2>2. CASE record' = record /\ conn' = conn
    BY <1>13, <2>1, <2>2
  <2>3. ASSUME NEW m, Announces(m) PROVE SyncInv'
    <3>1. Settled(k)' => Settled(k)
      BY <1>1, <2>3, AnnouncedSettled
    <3>2. Fine(f, rec2, why, Same, Settled(k)')
      <4>1. rec2.shared = rec.shared
        BY <1>2, <1>5, <1>6, <1>14, <2>1 DEF Record
      <4> QED BY <1>10, <2>1, <3>1, <4>1, Booleans
    <3> QED BY <1>1, <1>3, <1>11, <1>12, <2>3, <3>2, ServerStep
  <2> QED BY <2>1, <2>2, <2>3
<1> QED BY <1>1, <1>13, <1>14

-----------------------------------------------------------------------------
\* The websocket

LEMMA ConnectStep ==
  ASSUME SyncInv, Connect
  PROVE  SyncInv'
<1>1. /\ ~conn.up /\ conn' = [NoConn EXCEPT !.up = TRUE, !.initializing = TRUE]
      /\ UNCHANGED <<record, life, adopt, page, stray, stale, known, used>>
  BY DEF Connect, server
<1>2. conn'.up /\ conn'.initializing /\ conn'.out = << >> /\ conn'.pending = << >>
  BY <1>1 DEF NoConn
<1>3. TypeOK'
  <2>1. conn' = [up |-> TRUE, initializing |-> TRUE, pending |-> << >>, out |-> << >>]
    BY <1>1 DEF NoConn
  <2>2. << >> \in Seq(Message)
    OBVIOUS
  <2>3. conn' \in [up: BOOLEAN, initializing: BOOLEAN, pending: Seq(Message), out: Seq(Message)]
    <3> DEFINE S == Seq(Message)
    <3>1. << >> \in S
      BY <2>2
    <3> HIDE DEF S
    <3>2. conn' \in [up: BOOLEAN, initializing: BOOLEAN, pending: S, out: S]
      BY <2>1, <3>1
    <3> QED BY <3>2 DEF S
  <2> QED BY <1>1, <2>3 DEF SyncInv, TypeOK
<1>4. Connection'
  BY <1>1, <1>2 DEF SyncInv, Connection
<1>5. ASSUME NEW k \in Keys
      PROVE  /\ Telling(conn'.pending, k, record'[k]) /\ Telling(conn'.out, k, record'[k])
             /\ Told(k)'
  BY <1>2, EmptyTells DEF Told
<1>6. ASSUME NEW k \in Keys PROVE EntryInv(k)'
  <2>1. CASE adopt
    BY <1>1, <2>1 DEF SyncInv, EntryInv, Settled
  <2>2. CASE ~adopt
    BY <1>1, <2>2 DEF SyncInv, Connection, EntryInv
  <2> QED BY <2>1, <2>2
<1> QED BY <1>3, <1>4, <1>5, <1>6 DEF SyncInv

LEMMA SnapshotStep ==
  ASSUME SyncInv, SnapshotSent
  PROVE  SyncInv'
<1> DEFINE m == Snapshot(record)
<1>1. /\ conn.initializing
      /\ conn' = [conn EXCEPT !.initializing = FALSE, !.pending = << >>,
                              !.out = <<m>> \o conn.pending]
      /\ UNCHANGED <<record, life, adopt, page, stray, stale, known, used>>
  BY DEF SnapshotSent, server
<1>2. conn \in [up: BOOLEAN, initializing: BOOLEAN, pending: Seq(Message), out: Seq(Message)]
      /\ record \in [Keys -> Record]
  BY DEF SyncInv, TypeOK
<1>3. m.type = "shares"
  BY DEF Snapshot
<1>4. \A k \in Keys : m \in Message /\ Says(m, k) = record[k] /\ record[k] \in Record
  BY <1>2, Messages
<1>5. m \in Message
  BY <1>2 DEF Snapshot, Message
<1> HIDE DEF m
<1>6. /\ <<m>> \o conn.pending \in Seq(Message) /\ <<m>> \o conn.pending # << >>
      /\ Head(<<m>> \o conn.pending) = m
      /\ 1 \in DOMAIN (<<m>> \o conn.pending) /\ (<<m>> \o conn.pending)[1] = m
  <2> SUFFICES ASSUME NEW q \in Seq(Message), q = conn.pending, NEW p, p = <<m>> \o q
               PROVE  p \in Seq(Message) /\ p # << >> /\ Head(p) = m /\ 1 \in DOMAIN p /\ p[1] = m
    BY <1>2
  <2>1. p \in Seq(Message) /\ Len(p) = Len(q) + 1 /\ p[1] = m /\ Len(q) \in Nat
    BY <1>5
  <2>2. DOMAIN p = 1..Len(p) /\ p # << >> /\ Head(p) = p[1]
    BY <2>1
  <2> QED BY <2>1, <2>2
<1>7. /\ conn'.up = conn.up /\ conn'.initializing = FALSE /\ conn'.pending = << >>
      /\ conn'.out = <<m>> \o conn.pending
      /\ conn' \in [up: BOOLEAN, initializing: BOOLEAN, pending: Seq(Message), out: Seq(Message)]
  <2>1. << >> \in Seq(Message)
    OBVIOUS
  <2> QED BY <1>1, <1>2, <1>6, <2>1
<1>8. TypeOK'
  BY <1>1, <1>7 DEF SyncInv, TypeOK
<1>9. Connection'
  BY <1>1, <1>3, <1>6, <1>7 DEF SyncInv, Connection
<1>10. ASSUME NEW k \in Keys
       PROVE  /\ Telling(conn'.pending, k, record'[k]) /\ Telling(conn'.out, k, record'[k])
              /\ Told(k)'
  <2>1. Telling(conn.pending, k, record[k])
    BY DEF SyncInv
  <2>2. Telling(conn'.out, k, record'[k])
    BY <1>1, <1>2, <1>3, <1>4, <1>5, <1>7, <2>1, SnapshotTells
  <2>3. About(m, k)
    BY <1>3 DEF About
  <2>4. Told(k)'
    BY <1>3, <1>6, <1>7, <2>3 DEF Told
  <2> QED BY <1>1, <1>7, <2>2, <2>4, EmptyTells
<1>11. ASSUME NEW k \in Keys PROVE EntryInv(k)'
  <2>1. CASE adopt
    BY <1>1, <2>1 DEF SyncInv, EntryInv, Settled
  <2>2. CASE ~adopt
    BY <1>1, <2>2 DEF SyncInv, Connection, EntryInv
  <2> QED BY <2>1, <2>2
<1> QED BY <1>8, <1>9, <1>10, <1>11 DEF SyncInv

LEMMA DropStep ==
  ASSUME SyncInv, Drop
  PROVE  SyncInv'
<1>1. /\ conn' = NoConn /\ adopt' = TRUE
      /\ UNCHANGED <<record, life, page, stray, stale, known>>
      /\ used' \in [{"sets", "changes", "faults"} -> Nat]
  BY Spent DEF Drop, server
<1>2. ~conn'.up /\ ~conn'.initializing /\ conn'.out = << >> /\ conn'.pending = << >>
  BY <1>1 DEF NoConn
<1>3. TypeOK'
  BY <1>1 DEF SyncInv, TypeOK, NoConn
<1>4. Connection'
  BY <1>1, <1>2 DEF Connection
<1>5. ASSUME NEW k \in Keys
      PROVE  /\ Telling(conn'.pending, k, record'[k]) /\ Telling(conn'.out, k, record'[k])
             /\ Told(k)'
  BY <1>2, EmptyTells DEF Told
<1>6. ASSUME NEW k \in Keys PROVE EntryInv(k)'
  BY <1>1 DEF SyncInv, EntryInv, Settled
<1> QED BY <1>3, <1>4, <1>5, <1>6 DEF SyncInv

LEMMA RestartStep ==
  ASSUME SyncInv, Restart
  PROVE  SyncInv'
<1>1. /\ conn' = NoConn /\ adopt' = (adopt \/ conn.up) /\ life' = life + 1
      /\ record' = [k \in Keys |-> Fresh] /\ stray' = [k \in Keys |-> {}]
      /\ UNCHANGED <<page, stale, known>>
      /\ used' \in [{"sets", "changes", "faults"} -> Nat]
  BY Spent DEF Restart
<1>2. ~conn'.up /\ ~conn'.initializing /\ conn'.out = << >> /\ conn'.pending = << >>
  BY <1>1 DEF NoConn
<1>3. TypeOK /\ Fresh \in Record
  BY DEF SyncInv, Fresh, Record, Content
<1>4. life' \in Nat /\ known' \in 0..life' /\ known' # life'
  BY <1>1, <1>3 DEF TypeOK
<1>5. TypeOK'
  BY <1>1, <1>3, <1>4 DEF TypeOK, NoConn
<1>6. Connection'
  BY <1>1, <1>2 DEF SyncInv, Connection
<1>7. ASSUME NEW k \in Keys
      PROVE  /\ Telling(conn'.pending, k, record'[k]) /\ Telling(conn'.out, k, record'[k])
             /\ Told(k)'
  BY <1>2, EmptyTells DEF Told
<1>8. ASSUME NEW k \in Keys PROVE EntryInv(k)'
  BY <1>1, <1>2, <1>4 DEF SyncInv, EntryInv, Settled
<1> QED BY <1>5, <1>6, <1>7, <1>8 DEF SyncInv

\* What the page hears of a key with the first message m of q; t is what is left.
Hears(m, t, q, k, rec) ==
  /\ m \in Message /\ t \in Seq(Message) /\ Telling(t, k, rec)
  /\ About(m, k) => Says(m, k) \in Record /\ Says(m, k).marker <= rec.marker
  /\ (\A i \in DOMAIN t : ~About(t[i], k)) => IF About(m, k) THEN Says(m, k) = rec
                                              ELSE \A i \in DOMAIN q : ~About(q[i], k)
  /\ (\A i \in DOMAIN t : t[i].type # "shares") =>
       IF m.type = "shares" THEN Says(m, k).shared = rec.shared
       ELSE \A i \in DOMAIN q : q[i].type # "shares"
  /\ ListedFrom(t, 1, k) /\ (About(m, k) => Says(m, k).shared) => ListedFrom(q, 1, k)
  /\ ListedFrom(t, 1, k) /\ About(m, k) /\ Says(m, k).shared => rec.shared

LEMMA Heard ==
  ASSUME NEW q \in Seq(Message), q # << >>, NEW k \in Keys, NEW rec \in Record,
         Telling(q, k, rec)
  PROVE  Hears(Head(q), Tail(q), q, k, rec)
<1> DEFINE m == Head(q)
           t == Tail(q)
<1>1. /\ m \in Message /\ t \in Seq(Message) /\ 1 \in DOMAIN q /\ q[1] = m
  OBVIOUS
<1>2. \A i \in DOMAIN q : /\ i >= 1 /\ (i = 1 \/ i > 1)
                          /\ i > 1 => \E j \in DOMAIN t : t[j] = q[i] /\ j >= 1
  <2> TAKE i \in DOMAIN q
  <2>1. i \in 1..Len(q) /\ Len(q) \in Nat /\ DOMAIN t = 1..(Len(q) - 1)
    OBVIOUS
  <2>2. i >= 1 /\ (i = 1 \/ i > 1)
    BY <2>1
  <2>3. ASSUME i > 1 PROVE \E j \in DOMAIN t : t[j] = q[i] /\ j >= 1
    <3> DEFINE j == i - 1
    <3>1. j \in DOMAIN t /\ j + 1 = i /\ j >= 1
      BY <2>1, <2>3
    <3>2. t[j] = q[j + 1]
      BY <2>1, <3>1
    <3> QED BY <3>1, <3>2
  <2> QED BY <2>2, <2>3
<1>3. Telling(t, k, rec)
  BY TailTells
<1>4. About(m, k) => Says(m, k) \in Record /\ Says(m, k).marker <= rec.marker
  BY <1>1, Messages DEF Telling
<1>5. ASSUME \A i \in DOMAIN t : ~About(t[i], k)
      PROVE  IF About(m, k) THEN Says(m, k) = rec ELSE \A i \in DOMAIN q : ~About(q[i], k)
  <2>1. \A i \in DOMAIN q : i > 1 => ~About(q[i], k)
    BY <1>2, <1>5
  <2>2. About(m, k) => LastAbout(q, 1, k)
    BY <1>1, <2>1 DEF LastAbout
  <2> QED BY <1>1, <1>2, <2>1, <2>2 DEF Telling
<1>6. ASSUME \A i \in DOMAIN t : t[i].type # "shares"
      PROVE  IF m.type = "shares" THEN Says(m, k).shared = rec.shared
             ELSE \A i \in DOMAIN q : q[i].type # "shares"
  <2>1. \A i \in DOMAIN q : i > 1 => q[i].type # "shares"
    BY <1>2, <1>6
  <2> QED BY <1>1, <1>2, <2>1 DEF Telling
<1>7. ASSUME ListedFrom(t, 1, k), About(m, k) => Says(m, k).shared PROVE ListedFrom(q, 1, k)
  <2>1. \A i \in DOMAIN q : i > 1 /\ About(q[i], k) => Says(q[i], k).shared
    BY <1>2, <1>7 DEF ListedFrom
  <2> QED BY <1>1, <1>2, <1>7, <2>1 DEF ListedFrom
<1>8. ListedFrom(q, 1, k) /\ About(m, k) => rec.shared
  BY <1>1 DEF Telling
<1> HIDE DEF m, t
<1>9. Hears(m, t, q, k, rec)
  BY <1>1, <1>3, <1>4, <1>5, <1>6, <1>7, <1>8 DEF Hears
<1> QED BY <1>9 DEF m, t

\* A message is received: how the rest follows from what becomes of the entries.
LEMMA ReceiveStep ==
  ASSUME SyncInv, Receive, adopt' = FALSE,
         known' = life \/ (known' = known /\ adopt = FALSE),
         \A k \in Keys : page[k] = NoEntry /\ Head(conn.out).type # "shares" => page'[k] = NoEntry,
         page' \in [Keys -> Entries \cup {NoEntry}], stray' \in [Keys -> SUBSET Put],
         stale' \in [Keys -> SUBSET {"failed", "kept", "late"}],
         \A k \in Keys : page'[k] # NoEntry =>
           Fine(page'[k], record'[k], stale'[k], Same', Settled(k)'),
         \A k \in Keys : Told(k)'
  PROVE  SyncInv'
<1>1. /\ conn.out # << >> /\ conn' = [conn EXCEPT !.out = Tail(@)]
      /\ UNCHANGED <<record, life, used>>
  BY DEF Receive, server
<1>2. /\ conn \in [up: BOOLEAN, initializing: BOOLEAN, pending: Seq(Message), out: Seq(Message)]
      /\ record \in [Keys -> Record] /\ TypeOK /\ Connection
      /\ \A k \in Keys : /\ Telling(conn.pending, k, record[k]) /\ Telling(conn.out, k, record[k])
  BY DEF SyncInv, TypeOK
<1>3. Tail(conn.out) \in Seq(Message)
  BY <1>1, <1>2
<1>4. /\ conn' \in [up: BOOLEAN, initializing: BOOLEAN, pending: Seq(Message), out: Seq(Message)]
      /\ conn'.up = conn.up /\ conn'.initializing = conn.initializing
      /\ conn'.pending = conn.pending /\ conn'.out = Tail(conn.out)
  BY <1>1, <1>2, <1>3
<1>5. life' \in Nat /\ known' \in 0..life'
  BY <1>1, <1>2 DEF TypeOK
<1>6. TypeOK'
  BY <1>1, <1>2, <1>4, <1>5 DEF TypeOK
<1>7. conn.up /\ ~conn.initializing
  BY <1>1, <1>2 DEF Connection
<1>8. Connection'
  <2>1. ASSUME known' # life' PROVE \A k \in Keys : page'[k] = NoEntry
    <3>1. known' = known /\ known # life /\ ~adopt
      BY <1>1, <2>1
    <3>2. \A k \in Keys : page[k] = NoEntry
      BY <1>2, <3>1 DEF Connection
    <3>3. Head(conn.out).type # "shares"
      BY <1>1, <2>1 DEF Receive, InstallSnapshot
    <3> QED BY <3>2, <3>3
  <2> QED BY <1>2, <1>4, <1>7, <2>1 DEF Connection
<1>9. ASSUME NEW k \in Keys
      PROVE  Telling(conn'.pending, k, record'[k]) /\ Telling(conn'.out, k, record'[k])
  BY <1>1, <1>2, <1>4, TailTells
<1>10. \A k \in Keys : EntryInv(k)'
  BY FineEntry
<1> QED BY <1>6, <1>8, <1>9, <1>10 DEF SyncInv

LEMMA UpdateStep ==
  ASSUME SyncInv, Receive, Head(conn.out).type = "update"
  PROVE  SyncInv'
<1> DEFINE m == Head(conn.out)
           t == Tail(conn.out)
<1>1. /\ conn.out # << >> /\ conn' = [conn EXCEPT !.out = t] /\ UNCHANGED <<record, life, used>>
      /\ page' = IF page[m.key] = NoEntry THEN page
                 ELSE [page EXCEPT ![m.key] = Updated(@, m.value, m.marker)]
      /\ UNCHANGED <<adopt, stray, stale, known>>
  BY DEF Receive, server
<1>2. TypeOK /\ Connection /\ conn.out \in Seq(Message) /\ record \in [Keys -> Record]
      /\ page \in [Keys -> Entries \cup {NoEntry}] /\ stray \in [Keys -> SUBSET Put]
      /\ stale \in [Keys -> SUBSET {"failed", "kept", "late"}]
  BY DEF SyncInv, TypeOK
<1>3. m \in Message /\ m.type = "update"
  BY <1>1, <1>2
<1>4. /\ m.key \in Keys /\ m.value \in Content /\ m.marker \in Nat
      /\ \A k \in Keys : About(m, k) <=> k = m.key
      /\ \A k \in Keys : Says(m, k).shared /\ Says(m, k).marker = m.marker
  BY <1>3 DEF Message, About, Says
<1>5. conn.up /\ ~conn.initializing /\ ~adopt
  BY <1>1, <1>2, <1>3 DEF Connection
<1>6. /\ conn'.up = conn.up /\ conn'.initializing = conn.initializing /\ conn'.out = t
  BY <1>1, <1>2 DEF TypeOK
<1>7. ASSUME NEW k \in Keys
      PROVE  /\ Settled(k)' => Settled(k)
             /\ About(m, k) => m.marker <= record[k].marker
             /\ (\A i \in DOMAIN t : ~About(t[i], k)) => IF About(m, k) THEN Says(m, k) = record[k]
                              ELSE \A i \in DOMAIN conn.out : ~About(conn.out[i], k)
             /\ (\A i \in DOMAIN t : t[i].type # "shares") =>
                    \A i \in DOMAIN conn.out : conn.out[i].type # "shares"
  <2>1. Telling(conn.out, k, record[k]) /\ record[k] \in Record
    BY <1>2 DEF SyncInv
  <2>2. Hears(m, t, conn.out, k, record[k])
    BY <1>1, <1>2, <2>1, Heard
  <2> HIDE DEF m, t
  <2>3. /\ About(m, k) => Says(m, k).marker <= record[k].marker
        /\ (\A i \in DOMAIN t : ~About(t[i], k)) => IF About(m, k) THEN Says(m, k) = record[k]
                              ELSE \A i \in DOMAIN conn.out : ~About(conn.out[i], k)
        /\ (\A i \in DOMAIN t : t[i].type # "shares") =>
              IF m.type = "shares" THEN Says(m, k).shared = record[k].shared
              ELSE \A i \in DOMAIN conn.out : conn.out[i].type # "shares"
        /\ ListedFrom(t, 1, k) /\ (About(m, k) => Says(m, k).shared) => ListedFrom(conn.out, 1, k)
    BY <2>2 DEF Hears
  <2>4. Settled(k)' => Settled(k)
    BY <1>1, <1>4, <1>6, <2>3 DEF Settled
  <2>5. m.type # "shares"
    BY <1>3
  <2> QED BY <1>4, <2>3, <2>4, <2>5
<1> HIDE DEF m, t
<1>8. ASSUME NEW k \in Keys, page[k] # NoEntry
      PROVE  /\ page'[k] \in Entries /\ Fine(page'[k], record'[k], stale'[k], Same', Settled(k)')
             /\ page'[k].marker >= page[k].marker
             /\ About(m, k) => page'[k].marker >= m.marker
  <2>1. /\ page[k] \in Entries /\ record[k] \in Record
        /\ Fine(page[k], record[k], stale[k], Same, Settled(k))
    BY <1>8, EntryFine
  <2>2. Same' = Same /\ record'[k] = record[k] /\ stale'[k] = stale[k]
    BY <1>1 DEF Same
  <2>3. Settled(k)' => Settled(k) /\ Same'
    <3>1. Settled(k) => Same
      BY <1>8, SettledShared
    <3> QED BY <1>7, <2>2, <3>1
  <2>4. CASE k = m.key
    <3> DEFINE f == Updated(page[k], m.value, m.marker)
    <3>1. page'[k] = f
      BY <1>1, <1>2, <1>8, <2>4
    <3>2. m.marker <= record[k].marker
      BY <1>4, <1>7, <2>4
    <3> DEFINE e == page[k]
               rec == record[k]
               why == stale[k]
               value == m.value
               marker == m.marker
               settled == Settled(k)
    <3>3. f = Updated(e, value, marker)
      OBVIOUS
    <3>4. e \in Entries /\ rec \in Record /\ Fine(e, rec, why, Same, settled)
      BY <2>1
    <3>5. value \in Content /\ marker \in Nat /\ marker <= rec.marker
      BY <1>4, <3>2
    <3>6. Same \in BOOLEAN /\ settled \in BOOLEAN
      BY Booleans
    <3> HIDE DEF f, e, rec, why, value, marker, settled
    <3>7. /\ f \in Entries /\ Fine(f, rec, why, Same, settled)
          /\ f.marker >= e.marker /\ f.marker >= marker
      BY <3>3, <3>4, <3>5, <3>6, UpdatedFine
    <3>8. /\ f \in Entries /\ Fine(f, record[k], stale[k], Same, Settled(k))
          /\ f.marker >= page[k].marker /\ f.marker >= m.marker
      BY <3>7 DEF e, rec, why, value, marker, settled
    <3>9. Fine(f, record[k], stale[k], Same', Settled(k)')
      BY <2>1, <2>2, <2>3, <3>8, Booleans, Weaken
    <3> QED BY <2>2, <3>1, <3>8, <3>9
  <2>5. CASE k # m.key
    <3>1. page'[k] = page[k]
      BY <1>1, <1>2, <1>4, <2>5
    <3>2. Fine(page[k], record[k], stale[k], Same', Settled(k)')
      BY <2>1, <2>2, <2>3, Booleans, Weaken
    <3>3. page[k].marker >= page[k].marker
      BY <2>1, Parts
    <3> QED BY <1>4, <2>1, <2>2, <2>5, <3>1, <3>2, <3>3
  <2> QED BY <2>4, <2>5
<1>9. ASSUME NEW k \in Keys, page[k] = NoEntry PROVE page'[k] = NoEntry
  BY <1>1, <1>2, <1>4, <1>9
<1>10. page' \in [Keys -> Entries \cup {NoEntry}]
  <2>1. \A k \in Keys : page'[k] \in Entries \cup {NoEntry}
    BY <1>8, <1>9
  <2>2. page' = page \/ page' = [page EXCEPT ![m.key] = Updated(@, m.value, m.marker)]
    BY <1>1
  <2>3. page' = [k \in Keys |-> page'[k]]
    BY <1>2, <2>2
  <2> QED BY <2>1, <2>3
<1>11. ASSUME NEW k \in Keys PROVE Told(k)'
  <2>1. Told(k)
    BY DEF SyncInv
  <2>2. page'[k] = NoEntry <=> page[k] = NoEntry
    BY <1>8, <1>9, EntryAssumption
  <2>3. (\A i \in DOMAIN t : t[i].type # "shares") => (record'[k].shared <=> page'[k] # NoEntry)
    BY <1>1, <1>5, <1>7, <2>1, <2>2 DEF Told
  <2>4. ASSUME page'[k] # NoEntry, \A i \in DOMAIN t : ~About(t[i], k)
        PROVE  page'[k].marker >= record'[k].marker
    <3>1. CASE About(m, k)
      <4>1. Says(m, k) = record[k]
        BY <1>7, <2>4, <3>1
      <4> QED BY <1>1, <1>4, <1>8, <2>2, <2>4, <3>1, <4>1
    <3>2. CASE ~About(m, k)
      <4>1. page[k].marker >= record[k].marker
        BY <1>5, <1>7, <2>1, <2>2, <2>4, <3>2 DEF Told
      <4>2. page[k].marker \in Nat /\ page'[k].marker \in Nat /\ record[k].marker \in Nat
        BY <1>2, <1>8, <2>2, <2>4, Parts DEF Record
      <4> QED BY <1>1, <1>8, <2>2, <2>4, <4>1, <4>2
    <3> QED BY <3>1, <3>2
  <2> QED BY <1>6, <2>3, <2>4 DEF Told
<1>12. /\ adopt' = FALSE /\ known' = known /\ stray' \in [Keys -> SUBSET Put]
       /\ stale' \in [Keys -> SUBSET {"failed", "kept", "late"}]
       /\ adopt = FALSE
  BY <1>1, <1>2, <1>5 DEF TypeOK
<1>13. \A k \in Keys : page'[k] # NoEntry =>
         Fine(page'[k], record'[k], stale'[k], Same', Settled(k)')
  BY <1>8, <1>9
<1> QED BY <1>9, <1>10, <1>11, <1>12, <1>13, ReceiveStep

LEMMA SnapshotReceived ==
  ASSUME SyncInv, Receive, Head(conn.out).type = "shares"
  PROVE  SyncInv'
<1> DEFINE m == Head(conn.out)
           t == Tail(conn.out)
           recs == m.records
           restarted == adopt /\ Restarted(recs)
           kept(k) == IF restarted THEN ~Unsure(page[k]) ELSE life # known /\ k \in Lower(recs)
           asked(k) == page[k] # NoEntry /\ k \notin Listed(recs) /\ page[k].put.at = "asked"
<1>1. /\ conn.out # << >> /\ conn' = [conn EXCEPT !.out = t] /\ UNCHANGED <<record, life, used>>
      /\ adopt' = FALSE /\ known' = life
  BY DEF Receive, server, InstallSnapshot
<1>2. /\ page' = [k \in Keys |->
            IF k \notin Listed(recs) THEN NoEntry
            ELSE IF page[k] = NoEntry THEN Fetch(Entry(recs[k]))
            ELSE IF restarted THEN Replaced(page[k], recs[k])
            ELSE IF adopt THEN Reconnected(page[k], recs[k])
            ELSE Live(page[k], recs[k])]
      /\ stray' = [k \in Keys |-> IF asked(k) THEN stray[k] \cup {page[k].put} ELSE stray[k]]
      /\ stale' = [k \in Keys |-> IF k \notin Listed(recs) \/ page[k] = NoEntry THEN {}
                                  ELSE IF kept(k) THEN stale[k] \cup {"kept"} ELSE stale[k]]
  BY DEF Receive, InstallSnapshot
<1>3. TypeOK /\ Connection /\ conn.out \in Seq(Message) /\ record \in [Keys -> Record]
      /\ page \in [Keys -> Entries \cup {NoEntry}] /\ stray \in [Keys -> SUBSET Put]
      /\ stale \in [Keys -> SUBSET {"failed", "kept", "late"}] /\ adopt \in BOOLEAN
  BY DEF SyncInv, TypeOK
<1>4. m \in Message /\ m.type = "shares"
  BY <1>1, <1>3
<1>5. /\ recs \in [Keys -> Record]
      /\ \A k \in Keys : About(m, k) /\ Says(m, k) = recs[k]
  BY <1>4 DEF Message, About, Says
<1>6. conn.up /\ ~conn.initializing
  BY <1>1, <1>3 DEF Connection
<1>7. conn'.up = conn.up /\ conn'.initializing = conn.initializing /\ conn'.out = t
  BY <1>1, <1>3 DEF TypeOK
<1>8. ASSUME NEW k \in Keys
      PROVE  /\ recs[k].marker <= record[k].marker
             /\ (\A i \in DOMAIN t : ~About(t[i], k)) => recs[k] = record[k]
             /\ (\A i \in DOMAIN t : t[i].type # "shares") => recs[k].shared = record[k].shared
             /\ Settled(k)' /\ recs[k].shared => ListedFrom(conn.out, 1, k) /\ record[k].shared
  <2>1. Telling(conn.out, k, record[k]) /\ record[k] \in Record
    BY <1>3 DEF SyncInv
  <2>2. Hears(m, t, conn.out, k, record[k])
    BY <1>1, <1>3, <2>1, Heard
  <2> HIDE DEF m, t, recs
  <2>3. Settled(k)' => ListedFrom(t, 1, k)
    BY <1>7 DEF Settled
  <2> QED BY <1>4, <1>5, <2>2, <2>3 DEF Hears
<1> HIDE DEF m, t, recs
<1>9. Same' = TRUE
  BY <1>1 DEF Same
<1>10. \A k \in Keys : k \in Listed(recs) <=> recs[k].shared
  BY DEF Listed
<1> HIDE DEF restarted, kept, asked
<1>11. ASSUME NEW k \in Keys, recs[k].shared
       PROVE  /\ page'[k] \in Entries /\ page'[k].marker >= recs[k].marker
              /\ Fine(page'[k], record'[k], stale'[k], Same', Settled(k)')
  <2> DEFINE e == page[k]
             says == recs[k]
             rec == record[k]
             settled2 == Settled(k)'
             why2 == stale'[k]
  <2>1. /\ says \in Record /\ rec \in Record /\ record'[k] = rec /\ says.marker <= rec.marker
        /\ settled2 \in BOOLEAN /\ (settled2 => rec.shared) /\ Same' \in BOOLEAN
    BY <1>1, <1>3, <1>5, <1>8, <1>11, Booleans
  <2>2. settled2 => Same' /\ rec.shared
    BY <1>9, <2>1
  <2>3. /\ page'[k] = IF e = NoEntry THEN Fetch(Entry(says))
                      ELSE IF restarted THEN Replaced(e, says)
                      ELSE IF adopt THEN Reconnected(e, says) ELSE Live(e, says)
        /\ why2 = IF e = NoEntry THEN {} ELSE IF kept(k) THEN stale[k] \cup {"kept"} ELSE stale[k]
    BY <1>2, <1>10, <1>11
  <2>4. e # NoEntry => e \in Entries /\ Fine(e, rec, stale[k], Same, Settled(k))
    BY EntryFine
  <2> HIDE DEF e, says, rec, settled2, why2
  <2> SUFFICES page'[k] \in Entries /\ page'[k].marker >= says.marker
               /\ Fine(page'[k], rec, why2, Same', settled2)
    BY <2>1 DEF e, says, rec, settled2, why2
  <2>5. CASE e = NoEntry
    <3>1. page'[k] = Fetch(Entry(says))
      BY <2>3, <2>5
    <3> QED BY <2>1, <2>2, <3>1, NewFine
  <2>6. CASE e # NoEntry /\ restarted
    <3>1. page'[k] = Replaced(e, says) /\ (why2 = {} => Unsure(e))
      BY <2>3, <2>6 DEF kept, e
    <3>2. e \in Entries /\ WellFormed(e)
      BY <2>4, <2>6 DEF Fine
    <3> QED BY <2>1, <2>2, <3>1, <3>2, ReplacedFine
  <2>7. CASE e # NoEntry /\ ~restarted /\ adopt
    <3>1. page'[k] = Reconnected(e, says)
      BY <2>3, <2>7
    <3>2. e \in Entries /\ WellFormed(e) /\ (Same => Bounded(e, rec, stale[k])) /\ Same \in BOOLEAN
      BY <2>4, <2>7, Booleans DEF Fine
    <3>3. says.marker \in Nat /\ e.marker \in Nat
      BY <2>1, <3>2, Parts DEF Record
    <3>4. ~(says.marker >= e.marker) => k \in Lower(recs)
      BY <1>10, <1>11, <2>7, <3>3 DEF Lower, e, says
    <3>5. why2 = {} => stale[k] = {} /\ ~kept(k)
      BY <2>3, <2>7
    <3>6. why2 = {} => stale[k] = {} /\ (Same \/ says.marker >= e.marker)
      BY <2>7, <3>4, <3>5 DEF kept, Same
    <3>7. Compared(e, rec, says, stale[k], why2, Same)
      BY <3>2, <3>6 DEF Compared
    <3> QED BY <2>1, <2>2, <3>1, <3>2, <3>7, ReconnectedFine
  <2>8. CASE e # NoEntry /\ ~restarted /\ ~adopt
    <3>1. page'[k] = Live(e, says)
      BY <2>3, <2>8
    <3>2. Same
      BY <1>3, <2>8 DEF Connection, Same, e
    <3>3. why2 = stale[k]
      BY <2>3, <2>8, <3>2 DEF kept, Same
    <3>4. settled2 => Settled(k)
      BY <1>6, <1>8, <1>11, <2>8 DEF Settled, settled2
    <3>5. e \in Entries /\ Fine(e, rec, why2, Same', settled2)
      BY <1>9, <2>1, <2>4, <2>8, <3>2, <3>3, <3>4, Booleans, Weaken
    <3> QED BY <2>1, <3>1, <3>5, LiveFine
  <2> QED BY <2>5, <2>6, <2>7, <2>8, <1>3
<1>12. ASSUME NEW k \in Keys, ~recs[k].shared PROVE page'[k] = NoEntry
  BY <1>2, <1>10, <1>12
<1>13. page' \in [Keys -> Entries \cup {NoEntry}]
  <2>1. \A k \in Keys : page'[k] \in Entries \cup {NoEntry}
    BY <1>5, <1>11, <1>12
  <2>2. page' = [k \in Keys |-> page'[k]]
    BY <1>2
  <2> QED BY <2>1, <2>2
<1>14. stray' \in [Keys -> SUBSET Put]
  <2>1. \A k \in Keys : stray[k] \in SUBSET Put /\ (page[k] # NoEntry => page[k].put \in Put)
    BY <1>3, Parts
  <2> QED BY <1>2, <2>1 DEF asked
<1>15. stale' \in [Keys -> SUBSET {"failed", "kept", "late"}]
  BY <1>2, <1>3
<1>16. \A k \in Keys : page'[k] # NoEntry =>
         recs[k].shared /\ Fine(page'[k], record'[k], stale'[k], Same', Settled(k)')
  BY <1>11, <1>12
<1>17. ASSUME NEW k \in Keys PROVE Told(k)'
  <2>1. recs[k] \in Record /\ record[k] \in Record
    BY <1>3, <1>5
  <2>2. recs[k].shared <=> page'[k] # NoEntry
    BY <1>11, <1>12, EntryAssumption
  <2>3. (\A i \in DOMAIN t : t[i].type # "shares") => (record'[k].shared <=> page'[k] # NoEntry)
    BY <1>1, <1>8, <2>2
  <2>4. ASSUME page'[k] # NoEntry, \A i \in DOMAIN t : ~About(t[i], k)
        PROVE  page'[k].marker >= record'[k].marker
    BY <1>1, <1>8, <1>11, <2>2, <2>4
  <2> QED BY <1>7, <2>3, <2>4 DEF Told
<1> QED BY <1>1, <1>4, <1>13, <1>14, <1>15, <1>16, <1>17, ReceiveStep DEF m

-----------------------------------------------------------------------------
\* Theorems

LEMMA SyncStarts ==
  Init => SyncInv
<1> SUFFICES ASSUME Init PROVE SyncInv
  OBVIOUS
<1>1. /\ conn = NoConn /\ adopt = FALSE /\ life = 0 /\ known = 0
      /\ \A k \in Keys : page[k] = NoEntry
  BY DEF Init
<1>2. ~conn.up /\ ~conn.initializing /\ conn.out = << >> /\ conn.pending = << >>
  BY <1>1 DEF NoConn
<1>3. TypeOK
  <2>1. (CHOOSE v \in Values : TRUE) \in Content
    BY NamesAssumption DEF Content
  <2>2. record \in [Keys -> Record]
    BY <2>1 DEF Init, Record
  <2>3. conn \in [up: BOOLEAN, initializing: BOOLEAN, pending: Seq(Message), out: Seq(Message)]
    <3> DEFINE S == Seq(Message)
    <3>1. conn = [up |-> FALSE, initializing |-> FALSE, pending |-> << >>, out |-> << >>]
      BY <1>1 DEF NoConn
    <3>2. << >> \in S
      OBVIOUS
    <3> HIDE DEF S
    <3>3. conn \in [up: BOOLEAN, initializing: BOOLEAN, pending: S, out: S]
      BY <3>1, <3>2
    <3> QED BY <3>3 DEF S
  <2>4. /\ stray \in [Keys -> SUBSET Put] /\ stale \in [Keys -> SUBSET {"failed", "kept", "late"}]
        /\ page \in [Keys -> Entries \cup {NoEntry}]
        /\ used \in [{"sets", "changes", "faults"} -> Nat]
    BY DEF Init
  <2>5. life \in Nat /\ known \in 0..life /\ adopt \in BOOLEAN
    <3>1. life = 0 /\ known = 0 /\ adopt = FALSE
      BY <1>1
    <3>2. life \in Nat /\ known \in 0..life
      BY <3>1
    <3> QED BY <3>1, <3>2
  <2> QED BY <2>2, <2>3, <2>4, <2>5 DEF TypeOK
<1>4. Connection
  BY <1>1, <1>2 DEF Connection
<1>5. ASSUME NEW k \in Keys
      PROVE  /\ Telling(conn.pending, k, record[k]) /\ Telling(conn.out, k, record[k])
             /\ Told(k) /\ EntryInv(k)
  BY <1>1, <1>2, EmptyTells DEF Told, EntryInv
<1> QED BY <1>3, <1>4, <1>5 DEF SyncInv

LEMMA SyncStutters ==
  SyncInv /\ UNCHANGED vars => SyncInv'
<1> SUFFICES ASSUME SyncInv, UNCHANGED vars PROVE SyncInv'
  OBVIOUS
<1>1. /\ UNCHANGED <<record, life, conn, adopt, known, page, stale>>
      /\ stray' = stray /\ used' = used
  BY DEF vars, server
<1>2. stray \in [Keys -> SUBSET Put] /\ used \in [{"sets", "changes", "faults"} -> Nat]
  BY DEF SyncInv, TypeOK
<1> QED BY <1>1, <1>2, QuietStep

LEMMA SyncSteps ==
  SyncInv /\ Next => SyncInv'
<1> SUFFICES ASSUME SyncInv, Next PROVE SyncInv'
  OBVIOUS
<1>1. CASE Connect
  BY <1>1, ConnectStep
<1>2. CASE SnapshotSent
  BY <1>2, SnapshotStep
<1>3. CASE Receive
  <2>1. Head(conn.out).type \in {"update", "shares"}
    BY <1>3 DEF Receive
  <2> QED BY <1>3, <2>1, UpdateStep, SnapshotReceived
<1>4. CASE Drop
  BY <1>4, DropStep
<1>5. CASE Restart
  BY <1>5, RestartStep
<1>6. ASSUME NEW k \in Keys, Serve(k) \/ Returns(k) \/ GetFails(k) \/ PutFails(k)
      PROVE  SyncInv'
  <2>1. CASE ServeGet(k) \/ Returns(k) \/ GetFails(k) \/ PutFails(k)
    BY <2>1, PageSteps DEF Returns
  <2>2. CASE ServePut(k)
    BY <2>2, PutStep
  <2>3. CASE ServeStray(k)
    BY <2>3, StrayStep
  <2> QED BY <1>6, <2>1, <2>2, <2>3 DEF Serve
<1>7. ASSUME NEW k \in Keys, Share(k) \/ Unshare(k) PROVE SyncInv'
  BY <1>7, ShareStep
<1>8. ASSUME NEW k \in Keys, NEW v \in Values, Change(k, v) PROVE SyncInv'
  BY <1>8, ChangeStep
<1>9. ASSUME NEW k \in Keys, NEW v \in Values, Set(k, v) PROVE SyncInv'
  BY <1>9, PageSteps
<1> QED BY <1>1, <1>2, <1>3, <1>4, <1>5, <1>6, <1>7, <1>8, <1>9 DEF Next

\* What is on its way, what the page lists and what each entry still waits for fit the records
\* of the server after every step (_queue_or_send, receiveMessage, fetchValue, drainWrites).
THEOREM SyncInductive == Spec => []SyncInv
<1>1. Init => SyncInv
  BY SyncStarts
<1>2. SyncInv /\ [Next]_vars => SyncInv'
  BY SyncSteps, SyncStutters
<1> QED BY <1>1, <1>2, PTL DEF Spec

\* At rest the page shows what the server has, for any number of keys, edits, changes and faults.
THEOREM AgreesAtRest == Spec => []AgreeAtRest
<1>1. SyncInv => AgreeAtRest
  <2> SUFFICES ASSUME SyncInv, AtRest, NEW k \in Keys PROVE Agrees(k)
    BY DEF AgreeAtRest
  <2>1. /\ conn.up /\ ~conn.initializing /\ conn.out = << >>
        /\ page[k] # NoEntry => page[k].get = NoGet /\ page[k].put = NoPut
    BY DEF AtRest
  <2>2. ~adopt
    BY <2>1 DEF SyncInv, Connection
  <2>3. Settled(k)
    BY <2>1, <2>2 DEF Settled, ListedFrom
  <2>4. /\ record[k].shared <=> page[k] # NoEntry
        /\ page[k] # NoEntry => page[k].marker >= record[k].marker
    BY <2>1 DEF SyncInv, Told
  <2>5. ASSUME page[k] # NoEntry, stale[k] = {} PROVE Matches(k)
    <3>1. page[k] \in Entries /\ record[k] \in Record
          /\ Fine(page[k], record[k], stale[k], Same, Settled(k))
      BY <2>5, EntryFine
    <3>2. /\ WellFormed(page[k]) /\ Bounded(page[k], record[k], {})
          /\ Covered(page[k], record[k], {})
      BY <2>3, <2>5, <3>1 DEF Fine
    <3>3. page[k].marker \in Nat /\ record[k].marker \in Nat
      BY <3>1, Parts DEF Record
    <3>4. page[k].marker = record[k].marker
      BY <2>4, <2>5, <3>2, <3>3 DEF Bounded
    <3>5. NoGet.at = "none" /\ NoPut.at = "none"
      BY DEF NoGet, NoPut
    <3>6. ~Reading(page[k]) /\ ~Writing(page[k]) /\ page[k].pending = << >>
      BY <2>1, <2>5, <3>2, <3>5 DEF Reading, Writing, WellFormed
    <3> QED BY <3>2, <3>4, <3>6 DEF Covered, Matches
  <2> QED BY <2>4, <2>5 DEF Agrees
<1> QED BY <1>1, SyncInductive, PTL

=============================================================================
