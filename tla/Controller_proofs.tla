--------------------------- MODULE Controller_proofs ---------------------------
(***************************************************************************)
(* Controller for any number of callers and events: who waits is told when *)
(* the Context goes down, no barrier is left behind, and the calls of      *)
(* edits implement RequestService.                                         *)
(***************************************************************************)
EXTENDS Controller, SequenceTheorems, TLAPS

-----------------------------------------------------------------------------
\* The messages on their way

\* The messages move up by k places, those before "first" have left, and new
\* ones come at the end.
Moves(first, k, new) ==
  /\ \A i \in Slots' : \/ i + k \in Slots /\ first <= i + k /\ Msg(i)' = Msg(i + k)
                       \/ Msg(i)' = NoMessage
                       \/ i = Len(queue)' /\ 0 < i /\ Msg(i)' \in new
  /\ \A j \in Slots : first <= j => j - k \in Slots' /\ Msg(j - k)' = Msg(j)

\* What is in a slot is a message, or nobody's.
LEMMA SlotTypes ==
  ASSUME TypeOK
  PROVE  /\ Len(queue) \in Nat /\ Slots \subseteq Nat /\ 0 \in Slots
         /\ \A i \in Slots : Msg(i) \in Message \cup {NoMessage}
         /\ NoMessage \notin Message /\ NoMessage.from = Nobody /\ NoMessage.operation = "none"
<1>1. queue \in Seq(Message) /\ turn \in Message \cup {NoMessage}
  BY DEF TypeOK
<1>2. Len(queue) \in Nat /\ \A i \in 1..Len(queue) : queue[i] \in Message
  BY <1>1
<1>3. \A i \in Slots : i = 0 \/ i \in 1..Len(queue)
  BY <1>2 DEF Slots
<1>4. NoMessage \notin Message /\ NoMessage.from = Nobody /\ NoMessage.operation = "none"
  BY DEF NoMessage, Message
<1> QED BY <1>1, <1>2, <1>3, <1>4 DEF Slots, Msg

LEMMA Still ==
  ASSUME TypeOK, UNCHANGED <<queue, turn>>
  PROVE  Moves(0, 0, {})
BY SlotTypes DEF Moves, Slots, Msg

LEMMA Sent ==
  ASSUME TypeOK, NEW m \in Message, queue' = Append(queue, m), turn' = turn
  PROVE  queue' \in Seq(Message) /\ Moves(0, 0, {m}) /\ \E i \in Slots' : Msg(i)' = m
<1>1. queue \in Seq(Message) /\ Len(queue) \in Nat
  BY SlotTypes DEF TypeOK
<1>2. queue' \in Seq(Message) /\ Len(queue') = Len(queue) + 1 /\ queue'[Len(queue) + 1] = m
  BY <1>1
<1>3. \A i \in 1..Len(queue) : queue'[i] = queue[i]
  BY <1>1
<1> QED BY <1>1, <1>2, <1>3 DEF Moves, Slots, Msg

LEMMA Taken ==
  ASSUME TypeOK, Take
  PROVE  queue' \in Seq(Message) /\ turn' \in Message /\ Moves(1, 1, {})
<1>1. queue \in Seq(Message) /\ queue # <<>> /\ queue' = Tail(queue) /\ turn' = Head(queue)
  BY DEF Take, TypeOK
<1>2. Len(queue) \in Nat \ {0} /\ queue' \in Seq(Message) /\ Len(queue') = Len(queue) - 1
  BY <1>1
<1>3. turn' = queue[1] /\ \A i \in 1..Len(queue') : queue'[i] = queue[i + 1]
  BY <1>1, <1>2
<1>4. turn' \in Message
  BY <1>1, <1>2, <1>3
<1>5. \A i \in Slots' : i \in 0..(Len(queue) - 1) /\ Msg(i)' = queue[i + 1]
  BY <1>2, <1>3 DEF Slots, Msg
<1>6. \A i \in Slots' : i + 1 \in Slots /\ Msg(i)' = Msg(i + 1)
  BY <1>2, <1>5 DEF Slots, Msg
<1>7. \A j \in Slots : 1 <= j => j - 1 \in Slots' /\ Msg(j - 1)' = Msg(j)
  BY <1>2, <1>5 DEF Slots, Msg
<1> QED BY <1>2, <1>4, <1>6, <1>7 DEF Moves, Slots

LEMMA Done ==
  ASSUME TypeOK, turn' = NoMessage, queue' = queue
  PROVE  Moves(1, 0, {})
BY SlotTypes DEF Moves, Slots, Msg

LEMMA DoneSent ==
  ASSUME TypeOK, NEW m \in Message, queue' = Append(queue, m), turn' = NoMessage
  PROVE  queue' \in Seq(Message) /\ Moves(1, 0, {m}) /\ \E i \in Slots' : Msg(i)' = m
<1>1. queue \in Seq(Message) /\ Len(queue) \in Nat
  BY SlotTypes DEF TypeOK
<1>2. queue' \in Seq(Message) /\ Len(queue') = Len(queue) + 1 /\ queue'[Len(queue) + 1] = m
  BY <1>1
<1>3. \A i \in 1..Len(queue) : queue'[i] = queue[i]
  BY <1>1
<1> QED BY <1>1, <1>2, <1>3 DEF Moves, Slots, Msg

\* New messages that their senders had none of keep the messages in order.
LEMMA MessagesStep ==
  ASSUME TypeOK, TypeOK', MessagesOK, NEW first \in {0, 1}, NEW k \in {0, 1}, NEW new,
         Moves(first, k, new),
         \A m \in new : /\ FormOK(m)
                        /\ m.from # Nobody => \A i \in Slots : first <= i => Msg(i).from # m.from
  PROVE  MessagesOK'
<1>1. Slots' \subseteq Nat /\ Slots \subseteq Nat
  <2>1. queue' \in Seq(Message)
    BY DEF TypeOK
  <2>2. Len(queue') \in Nat
    BY <2>1
  <2> QED BY <2>2, SlotTypes DEF Slots
<1>4. NoMessage.from = Nobody /\ FormOK(NoMessage)
  BY NamesAssumption DEF NoMessage, FormOK, Nobody, Closer
<1>2. ASSUME NEW i \in Slots'
      PROVE  FormOK(Msg(i)')
  BY <1>1, <1>4 DEF Moves, MessagesOK
<1>3. ASSUME NEW i \in Slots', NEW j \in Slots', Msg(i)'.from # Nobody, Msg(i)'.from = Msg(j)'.from
      PROVE  i = j
  BY <1>1, <1>3, <1>4 DEF Moves, MessagesOK
<1> QED BY <1>2, <1>3 DEF MessagesOK, FormOK

LEMMA StagesStep ==
  ASSUME TypeOK, NEW first \in {0, 1}, NEW k \in {0, 1}, NEW new, Moves(first, k, new),
         \A i \in Slots : first <= i => \A m : m = Msg(i) => StageOK(m)',
         \A m \in new : StageOK(m)'
  PROVE  StagesOK'
<1>1. StageOK(NoMessage)'
  BY DEF StageOK, NoMessage, Nobody, Closer
<1> QED BY <1>1 DEF StagesOK, Moves

\* One actor d acts, who has no other message on its way.
LEMMA StagesAside ==
  ASSUME TypeOK, MessagesOK, StagesOK, NEW first \in {0, 1}, NEW k \in {0, 1}, NEW new,
         Moves(first, k, new), NEW d,
         d = Nobody \/ \A i \in Slots : first <= i => Msg(i).from # d,
         \A c \in Callers \cup {Closer} : c # d => reply'[c] = reply[c],
         \A c \in Callers : c # d => /\ op'[c] = op[c] /\ pc'[c] = pc[c]
                                     /\ c \in applied' => c \in applied,
         d # Closer => closer' = closer,
         \A m \in new : StageOK(m)'
  PROVE  StagesOK'
<1>1. ASSUME NEW i \in Slots, first <= i, NEW m, m = Msg(i)
      PROVE  StageOK(m)'
  <2>1. StageOK(m) /\ FormOK(m) /\ (d = Nobody \/ m.from # d)
    BY <1>1 DEF StagesOK, MessagesOK
  <2>2. CASE m.from \in Callers
    <3>1. m.from # d /\ m.from # Closer
      BY <2>1, <2>2, NamesAssumption
    <3> QED BY <2>1, <2>2, <3>1 DEF StageOK
  <2>3. CASE m.from = Closer
    <3>1. m.from # d /\ m.operation \notin {"edit", "install", "withdraw"}
      BY <2>1, <2>3, NamesAssumption DEF FormOK, Nobody, Closer
    <3> QED BY <2>1, <2>3, <3>1 DEF StageOK
  <2>4. CASE m.from \notin Callers /\ m.from # Closer
    BY <2>1, <2>4 DEF StageOK, FormOK
  <2> QED BY <2>2, <2>3, <2>4
<1> QED BY <1>1, StagesStep

LEMMA OrderStep ==
  ASSUME TypeOK, OrderOK, NEW first \in {0, 1}, NEW k \in {0, 1}, NEW new, Moves(first, k, new),
         closer' \notin {"open", "flagged", "refusing"} =>
           /\ closer \notin {"open", "flagged", "refusing"}
           /\ \A m \in new : m.from \notin Callers
  PROVE  OrderOK'
<1> SUFFICES ASSUME closer' \notin {"open", "flagged", "refusing"},
                    NEW i \in Slots', Msg(i)'.from \in Callers
             PROVE  \E j \in Slots' : i < j /\ Msg(j)'.operation = "begin_close"
  BY DEF OrderOK
<1>1. i + k \in Slots /\ first <= i + k /\ Msg(i)' = Msg(i + k)
  BY SlotTypes, NamesAssumption DEF Moves
<1>2. PICK j \in Slots : i + k < j /\ Msg(j).operation = "begin_close"
  BY <1>1 DEF OrderOK
<1>3. i + k \in Nat /\ j \in Nat /\ i \in Int
  <2>1. Slots \subseteq Nat
    BY SlotTypes
  <2>2. i \in Int
    BY DEF Slots
  <2> QED BY <1>1, <2>1, <2>2
<1>4. first <= j /\ i < j - k
  BY <1>1, <1>2, <1>3
<1>5. j - k \in Slots' /\ Msg(j - k)' = Msg(j)
  BY <1>4 DEF Moves
<1> QED BY <1>2, <1>4, <1>5

\* Once _begin_close was executed, no request is left.
LEMMA NoRequests ==
  ASSUME TypeOK, MessagesOK, StagesOK, OrderOK, Begun
  PROVE  \A i \in Slots : Msg(i).from \notin Callers
<1> SUFFICES ASSUME NEW i \in Slots, Msg(i).from \in Callers PROVE FALSE
  OBVIOUS
<1>1. PICK j \in Slots : Msg(j).operation = "begin_close"
  BY DEF OrderOK, Begun
<1>2. reply[Closer] = "none" /\ closer = "begin_close"
  BY <1>1 DEF MessagesOK, FormOK, StagesOK, StageOK
<1> QED BY <1>2 DEF Begun

LEMMA Refusals ==
  ASSUME TypeOK, FlagsOK, NEW b \in BOOLEAN
  PROVE  /\ Refusal(b) \in {"failed", "closed", "none"}
         /\ Refusal(FALSE) = "none" <=> accepting
BY DEF Refusal, TypeOK, FlagsOK

\* One caller d acts, and no barrier changes.
LEMMA BarriersAside ==
  ASSUME TypeOK, BarriersOK, NEW first \in {0, 1}, NEW k \in {0, 1}, NEW new,
         Moves(first, k, new), \A i \in Slots : i < first => Msg(i).operation # "withdraw",
         barriers' = barriers, future' = future, Down' => Down, accepting' => accepting, NEW d,
         \A c \in Callers : c # d => op'[c] = op[c] /\ pc'[c] = pc[c] /\ reply'[c] = reply[c],
         d \in Callers \ barriers /\ pc'[d] \in {"idle", "called", "waiting"} => future[d] # "pending",
         d \in barriers => op'[d] = "wait" /\ pc'[d] # "idle" /\ (accepting' => Withdraws(d)')
  PROVE  BarriersOK'
<1>1. Down' => barriers' = {}
  BY DEF BarriersOK
<1>2. ASSUME NEW c \in Callers \ barriers', pc'[c] \in {"idle", "called", "waiting"}
      PROVE  future'[c] # "pending"
  BY <1>2 DEF BarriersOK
<1>3. ASSUME NEW c \in barriers'
      PROVE  op'[c] = "wait" /\ pc'[c] # "idle" /\ (accepting' => Withdraws(c)')
  <2>1. c \in Callers
    BY DEF TypeOK
  <2>2. CASE c = d
    BY <1>3, <2>2
  <2>3. CASE c # d
    <3>1. /\ op'[c] = "wait" /\ pc'[c] # "idle" /\ pc'[c] = pc[c] /\ reply'[c] = reply[c]
      BY <1>3, <2>1, <2>3 DEF BarriersOK
    <3>2. ASSUME NEW i \in Slots, Msg(i).from = c, Msg(i).operation = "withdraw"
          PROVE  \E j \in Slots' : Msg(j)'.from = c /\ Msg(j)'.operation = "withdraw"
      <4>1. ~(i < first) /\ i \in Nat
        BY <3>2, SlotTypes
      <4> QED BY <3>2, <4>1 DEF Moves
    <3> QED BY <1>3, <2>1, <3>1, <3>2 DEF BarriersOK, Withdraws
  <2> QED BY <2>2, <2>3
<1> QED BY <1>1, <1>2, <1>3 DEF BarriersOK

-----------------------------------------------------------------------------
\* The callers

\* Each caller has the messages that its stage allows.
LEMMA MessagesOf ==
  ASSUME CInv, NEW c \in Callers, NEW i \in Slots, Msg(i).from = c
  PROVE  \/ Msg(i).operation = "edit" /\ pc[c] = "called" /\ op[c] = "edit" /\ reply[c] = "none"
         \/ /\ Msg(i).operation = "install" /\ pc[c] \in {"called", "abandoned"}
            /\ op[c] = "wait" /\ reply[c] = "none"
         \/ /\ Msg(i).operation = "withdraw" /\ pc[c] \in {"withdrawing", "abandoned"}
            /\ pc[c] = "withdrawing" => reply[c] = "none"
BY DEF CInv, MessagesOK, FormOK, StagesOK, StageOK

\* What a step of c on its own thread has to keep in order.
CallerTurn(c, new) ==
  /\ Moves(0, 0, new)
  /\ UNCHANGED <<accepting, stopped, failure, turn, closing, barriers, applied, future, closer, events>>
  /\ reply'[Closer] = reply[Closer]
  /\ \A d \in Callers : d # c => /\ op'[d] = op[d] /\ pc'[d] = pc[d]
                                 /\ reply'[d] = reply[d] /\ outcome'[d] = outcome[d]
  /\ \A m \in new : accepting /\ m.from = c /\ FormOK(m) /\ StageOK(m)'
  /\ \A i \in Slots : Msg(i).from = c =>
       new = {} /\ \A m : m = Msg(i) => StageOK(m)'
  /\ CallerOK(c)'
  /\ c \notin barriers /\ pc'[c] \in {"idle", "called", "waiting"} => future[c] # "pending"
  /\ c \in barriers => op'[c] = "wait" /\ pc'[c] # "idle" /\ (accepting => Withdraws(c)')

LEMMA CallerStep ==
  ASSUME CInv, TypeOK', NEW c \in Callers, NEW new, CallerTurn(c, new)
  PROVE  CInv'
<1>1. TypeOK /\ MessagesOK /\ StagesOK /\ CallersOK /\ FlagsOK /\ OrderOK /\ BarriersOK
  BY DEF CInv
<1>2. Moves(0, 0, new) /\ c # Closer /\ c # Nobody
  BY NamesAssumption DEF CallerTurn
<1>3. MessagesOK'
  <2>1. \A m \in new : FormOK(m) /\ \A i \in Slots : Msg(i).from # m.from
    BY DEF CallerTurn
  <2> QED BY <1>1, <1>2, <2>1, MessagesStep
<1>4. StagesOK'
  <2>1. ASSUME NEW i \in Slots, NEW m, m = Msg(i)
        PROVE  StageOK(m)'
    <3>1. StageOK(m) /\ FormOK(m)
      BY <1>1, <2>1 DEF StagesOK, MessagesOK
    <3>2. CASE m.from = c
      BY <2>1, <3>2 DEF CallerTurn
    <3>3. CASE m.from # c
      BY <3>1, <3>3, NamesAssumption DEF CallerTurn, StageOK, FormOK
    <3> QED BY <3>2, <3>3
  <2>2. \A m \in new : StageOK(m)'
    BY DEF CallerTurn
  <2> QED BY <1>1, <1>2, <2>1, <2>2, StagesStep
<1>5. CallersOK'
  <2>1. ASSUME NEW d \in Callers, d # c
        PROVE  CallerOK(d)'
    BY <1>1, <2>1 DEF CallerTurn, CallersOK, CallerOK
  <2>2. CallerOK(c)'
    BY DEF CallerTurn
  <2> QED BY <2>1, <2>2 DEF CallersOK, CallerOK
<1>6. FlagsOK'
  BY <1>1 DEF FlagsOK, CallerTurn
<1>7. OrderOK'
  <2>1. closer' = closer /\ (new # {} => closer \in {"open", "flagged"})
    BY <1>1 DEF CallerTurn, FlagsOK
  <2> QED BY <1>1, <1>2, <2>1, OrderStep
<1>8. BarriersOK'
  <2>1. /\ barriers' = barriers /\ future' = future /\ accepting' = accepting
        /\ \A d \in Callers : d # c => op'[d] = op[d] /\ pc'[d] = pc[d] /\ reply'[d] = reply[d]
        /\ c \in Callers \ barriers /\ pc'[c] \in {"idle", "called", "waiting"} => future[c] # "pending"
        /\ c \in barriers => op'[c] = "wait" /\ pc'[c] # "idle" /\ (accepting' => Withdraws(c)')
    BY DEF CallerTurn
  <2>2. Down' => Down
    BY DEF CallerTurn, Down, Begun
  <2>3. \A i \in Slots : i < 0 => Msg(i).operation # "withdraw"
    BY <1>1, SlotTypes
  <2> QED BY <1>1, <1>2, <2>1, <2>2, <2>3, BarriersAside
<1> QED BY <1>3, <1>4, <1>5, <1>6, <1>7, <1>8 DEF CInv

LEMMA CallRequestStep ==
  ASSUME CInv, NEW c \in Callers, NEW kind \in {"edit", "wait"}, CallRequest(c, kind)
  PROVE  CInv'
<1> DEFINE m == [operation |-> First(kind), from |-> c]
<1>1. TypeOK /\ CallersOK /\ FlagsOK /\ BarriersOK
  BY DEF CInv
<1>2. pc[c] = "idle" /\ c # Closer /\ c # Nobody
  BY NamesAssumption DEF CallRequest
<1>3. reply[c] = "none" /\ outcome[c] = "none" /\ c \notin barriers /\ c \notin applied
  BY <1>1, <1>2 DEF BarriersOK, CallersOK, CallerOK
<1>4. /\ m \in Message /\ m.from = c /\ FormOK(m)
      /\ m.operation = IF kind = "wait" THEN "install" ELSE "edit"
  BY <1>2 DEF Message, FormOK, First
<1>5. \A i \in Slots : Msg(i).from # c
  BY <1>2, MessagesOf
<1>6. /\ op' = [op EXCEPT ![c] = kind] /\ reply' = reply
      /\ UNCHANGED <<accepting, stopped, failure, turn, closing, barriers, applied, future, closer, events>>
  BY DEF CallRequest, controlState, context
<1>7. op'[c] = kind /\ (\A d \in Callers : d # c => op'[d] = op[d]) /\ op' \in [Callers -> {"edit", "wait"}]
  BY <1>1, <1>6 DEF TypeOK
<1>8. CASE Refusal(FALSE) = "none"
  <2>1. /\ queue' = Append(queue, m) /\ accepting
        /\ pc' = [pc EXCEPT ![c] = "called"] /\ outcome' = outcome
    BY <1>1, <1>8, Refusals DEF CallRequest, Send
  <2> HIDE DEF m
  <2>2. queue' \in Seq(Message) /\ Moves(0, 0, {m})
    BY <1>1, <1>4, <1>6, <2>1, Sent
  <2>3. pc'[c] = "called" /\ \A d \in Callers : d # c => pc'[d] = pc[d]
    BY <1>1, <2>1 DEF TypeOK
  <2>4. TypeOK'
    BY <1>1, <1>6, <1>7, <2>1, <2>2 DEF TypeOK
  <2>5. StageOK(m)' /\ CallerOK(c)'
    BY <1>2, <1>3, <1>4, <1>6, <1>7, <2>1, <2>3 DEF StageOK, CallerOK
  <2>6. future[c] # "pending"
    BY <1>1, <1>2, <1>3 DEF BarriersOK
  <2>7. CallerTurn(c, {m})
    BY <1>3, <1>4, <1>5, <1>6, <1>7, <2>1, <2>2, <2>3, <2>5, <2>6 DEF CallerTurn
  <2> QED BY <2>4, <2>7, CallerStep
<1>9. CASE Refusal(FALSE) # "none"
  <2>1. Refusal(FALSE) \in {"failed", "closed"}
    BY <1>1, <1>9, Refusals
  <2>2. /\ queue' = queue /\ pc' = [pc EXCEPT ![c] = "returned"]
        /\ outcome' = [outcome EXCEPT ![c] = Refusal(FALSE)]
    BY <1>9 DEF CallRequest, Return
  <2>3. Moves(0, 0, {})
    BY <1>1, <1>6, <2>2, Still
  <2>4. /\ pc'[c] = "returned" /\ outcome'[c] = Refusal(FALSE)
        /\ \A d \in Callers : d # c => pc'[d] = pc[d] /\ outcome'[d] = outcome[d]
        /\ outcome' \in [Callers -> Replies \cup {"timeout"}]
    BY <1>1, <2>1, <2>2 DEF TypeOK, Replies
  <2>5. TypeOK'
    BY <1>1, <1>6, <1>7, <2>2, <2>4 DEF TypeOK
  <2>6. CallerOK(c)'
    BY <1>3, <1>6, <2>1, <2>4 DEF CallerOK
  <2>7. CallerTurn(c, {})
    BY <1>3, <1>5, <1>6, <1>7, <2>3, <2>4, <2>6 DEF CallerTurn
  <2> QED BY <2>5, <2>7, CallerStep
<1> QED BY <1>8, <1>9

LEMMA RepliedStep ==
  ASSUME CInv, NEW c \in Callers, Replied(c)
  PROVE  CInv'
<1>1. TypeOK /\ CallersOK /\ BarriersOK
  BY DEF CInv
<1>2. pc[c] = "called" /\ reply[c] # "none" /\ c # Closer /\ outcome[c] = "none"
  BY <1>1, NamesAssumption DEF CallersOK, CallerOK, Replied
<1>3. \A i \in Slots : Msg(i).from # c
  BY <1>2, MessagesOf
<1>4. /\ reply' = [reply EXCEPT ![c] = "none"]
      /\ op' = op /\ queue' = queue
      /\ UNCHANGED <<accepting, stopped, failure, turn, closing, barriers, applied, future, closer, events>>
  BY DEF Replied, controlState, context
<1>5. /\ reply'[c] = "none" /\ reply'[Closer] = reply[Closer]
      /\ \A d \in Callers : d # c => reply'[d] = reply[d]
      /\ reply' \in [Callers \cup {Closer} -> Replies]
  BY <1>1, <1>2, <1>4 DEF TypeOK, Replies
<1>6. Moves(0, 0, {})
  BY <1>1, <1>4, Still
<1>7. c \notin barriers => future[c] # "pending"
  BY <1>1, <1>2 DEF BarriersOK
<1>8. c \in barriers => op[c] = "wait" /\ (accepting => reply[c] = "ok")
  BY <1>1, <1>2, <1>3 DEF BarriersOK, Withdraws
<1>9. CASE op[c] = "wait" /\ reply[c] = "ok"
  <2>1. pc' = [pc EXCEPT ![c] = "waiting"] /\ outcome' = outcome
    BY <1>9 DEF Replied
  <2>2. pc'[c] = "waiting" /\ \A d \in Callers : d # c => pc'[d] = pc[d]
    BY <1>1, <2>1 DEF TypeOK
  <2>3. TypeOK'
    BY <1>1, <1>4, <1>5, <2>1 DEF TypeOK
  <2>4. CallerOK(c)' /\ Withdraws(c)'
    BY <1>1, <1>2, <1>4, <1>5, <1>9, <2>1, <2>2 DEF CallersOK, CallerOK, Withdraws
  <2>5. CallerTurn(c, {})
    BY <1>3, <1>4, <1>5, <1>6, <1>7, <1>9, <2>1, <2>2, <2>4 DEF CallerTurn
  <2> QED BY <2>3, <2>5, CallerStep
<1>10. CASE ~(op[c] = "wait" /\ reply[c] = "ok")
  <2>1. pc' = [pc EXCEPT ![c] = "returned"] /\ outcome' = [outcome EXCEPT ![c] = reply[c]]
    BY <1>10 DEF Replied, Return
  <2>2. /\ pc'[c] = "returned" /\ outcome'[c] = reply[c] /\ reply[c] \in Replies
        /\ \A d \in Callers : d # c => pc'[d] = pc[d] /\ outcome'[d] = outcome[d]
    BY <1>1, <2>1 DEF TypeOK
  <2>3. TypeOK'
    BY <1>1, <1>4, <1>5, <2>1 DEF TypeOK
  <2>4. CallerOK(c)'
    BY <1>1, <1>4, <1>5, <2>2 DEF CallersOK, CallerOK, Replies
  <2>5. CallerTurn(c, {})
    BY <1>3, <1>4, <1>5, <1>6, <1>7, <1>8, <1>10, <2>2, <2>4 DEF CallerTurn
  <2> QED BY <2>3, <2>5, CallerStep
<1> QED BY <1>9, <1>10

LEMMA AbandonStep ==
  ASSUME CInv, NEW c \in Callers, Abandon(c)
  PROVE  CInv'
<1> DEFINE m == [operation |-> "withdraw", from |-> c]
<1>1. TypeOK /\ CallersOK /\ FlagsOK /\ BarriersOK
  BY DEF CInv
<1>2. /\ pc[c] = "called" /\ op[c] = "wait" /\ c # Closer /\ c # Nobody
      /\ pc' = [pc EXCEPT ![c] = "abandoned"]
      /\ op' = op /\ outcome' = outcome /\ reply' = reply
      /\ UNCHANGED <<accepting, stopped, failure, turn, closing, barriers, applied, future, closer, events>>
  BY NamesAssumption DEF Abandon, controlState, context
<1>3. \A i \in Slots : Msg(i).from = c => Msg(i).operation = "install" /\ reply[c] = "none"
  BY <1>2, MessagesOf
<1>4. pc'[c] = "abandoned" /\ \A d \in Callers : d # c => pc'[d] = pc[d]
  BY <1>1, <1>2 DEF TypeOK
<1>5. CallerOK(c)' /\ (c \in barriers => op[c] = "wait")
  BY <1>1, <1>2, <1>4 DEF CallersOK, CallerOK
<1>6. c \in barriers /\ accepting => reply[c] = "ok" /\ Refusal(FALSE) = "none"
  BY <1>1, <1>2, <1>3, Refusals DEF BarriersOK, Withdraws
<1>7. m \in Message /\ m.from = c /\ FormOK(m) /\ m.operation = "withdraw"
  BY <1>2 DEF Message, FormOK
<1> HIDE DEF m
<1>8. ASSUME NEW o, o.from = c, (o.operation = "install" /\ reply[c] = "none") \/ o = m
      PROVE  StageOK(o)'
  BY <1>2, <1>4, <1>7, <1>8 DEF StageOK
<1>9. CASE reply[c] = "ok" /\ Refusal(FALSE) = "none"
  <2>1. queue' = Append(queue, m) /\ accepting
    BY <1>1, <1>9, Refusals DEF Abandon, Send, m
  <2>2. queue' \in Seq(Message) /\ Moves(0, 0, {m}) /\ \E i \in Slots' : Msg(i)' = m
    BY <1>1, <1>2, <1>7, <2>1, Sent
  <2>3. TypeOK'
    BY <1>1, <1>2, <2>2 DEF TypeOK
  <2>4. Withdraws(c)'
    BY <1>7, <2>2 DEF Withdraws
  <2>5. \A i \in Slots : Msg(i).from # c
    BY <1>3, <1>9
  <2>6. CallerTurn(c, {m})
    BY <1>2, <1>4, <1>5, <1>7, <1>8, <2>1, <2>2, <2>4, <2>5 DEF CallerTurn
  <2> QED BY <2>3, <2>6, CallerStep
<1>10. CASE ~(reply[c] = "ok" /\ Refusal(FALSE) = "none")
  <2>1. queue' = queue
    BY <1>10 DEF Abandon
  <2>2. Moves(0, 0, {})
    BY <1>1, <1>2, <2>1, Still
  <2>3. TypeOK'
    BY <1>1, <1>2, <2>1 DEF TypeOK
  <2>4. \A i \in Slots : Msg(i).from = c => \A o : o = Msg(i) => StageOK(o)'
    BY <1>3, <1>8
  <2>5. CallerTurn(c, {})
    BY <1>2, <1>4, <1>5, <1>6, <1>10, <2>2, <2>4 DEF CallerTurn
  <2> QED BY <2>3, <2>5, CallerStep
<1> QED BY <1>9, <1>10

LEMMA WaitOverStep ==
  ASSUME CInv, NEW c \in Callers, WaitOver(c)
  PROVE  CInv'
<1>1. TypeOK /\ CallersOK /\ BarriersOK
  BY DEF CInv
<1>2. PICK result \in Results(c) :
        outcome' = [outcome EXCEPT ![c] = IF result = "answer" THEN "ok" ELSE result]
  BY DEF WaitOver
<1>3. /\ pc[c] = "waiting" /\ op[c] = "wait"
      /\ pc' = [pc EXCEPT ![c] = IF accepting THEN "leaving" ELSE "returned"]
      /\ op' = op /\ reply' = reply /\ queue' = queue
      /\ UNCHANGED <<accepting, stopped, failure, turn, closing, barriers, applied, future, closer, events>>
  BY <1>1 DEF WaitOver, controlState, context, CallersOK, CallerOK
<1>4. \A i \in Slots : Msg(i).from # c
  BY <1>3, MessagesOf
<1>5. result \in {"timeout", "none", "answer", "failed", "closed"}
  BY <1>1 DEF Results, TypeOK
<1>6. /\ outcome' \in [Callers -> Replies \cup {"timeout"}]
      /\ \A d \in Callers : d # c => outcome'[d] = outcome[d]
  BY <1>1, <1>2, <1>5 DEF TypeOK, Replies
<1>7. /\ pc'[c] = IF accepting THEN "leaving" ELSE "returned"
      /\ pc' \in [Callers -> {"idle", "called", "abandoned", "waiting", "leaving", "withdrawing", "returned"}]
      /\ \A d \in Callers : d # c => pc'[d] = pc[d]
  BY <1>1, <1>3 DEF TypeOK
<1>8. TypeOK'
  BY <1>1, <1>3, <1>6, <1>7 DEF TypeOK
<1>9. Moves(0, 0, {})
  BY <1>1, <1>3, Still
<1>10. CallerOK(c)' /\ (accepting => Withdraws(c)')
  BY <1>1, <1>3, <1>7 DEF CallersOK, CallerOK, Withdraws
<1>11. CallerTurn(c, {})
  BY <1>3, <1>4, <1>6, <1>7, <1>9, <1>10 DEF CallerTurn
<1> QED BY <1>8, <1>11, CallerStep

LEMMA WithdrawStep ==
  ASSUME CInv, NEW c \in Callers, Withdraw(c)
  PROVE  CInv'
<1> DEFINE m == [operation |-> "withdraw", from |-> c]
<1>1. TypeOK /\ CallersOK /\ FlagsOK
  BY DEF CInv
<1>2. /\ pc[c] = "leaving" /\ op[c] = "wait" /\ c # Closer /\ c # Nobody /\ reply[c] = "none"
      /\ op' = op /\ reply' = reply
      /\ UNCHANGED <<accepting, stopped, failure, turn, closing, barriers, applied, future, closer, events>>
  BY <1>1, NamesAssumption DEF Withdraw, controlState, context, CallersOK, CallerOK
<1>3. \A i \in Slots : Msg(i).from # c
  BY <1>2, MessagesOf
<1>4. m \in Message /\ m.from = c /\ FormOK(m) /\ m.operation = "withdraw"
  BY <1>2 DEF Message, FormOK
<1>5. CASE Refusal(FALSE) = "none"
  <2>1. /\ queue' = Append(queue, m) /\ accepting
        /\ pc' = [pc EXCEPT ![c] = "withdrawing"] /\ outcome' = outcome
    BY <1>1, <1>5, Refusals DEF Withdraw, Send
  <2> HIDE DEF m
  <2>2. queue' \in Seq(Message) /\ Moves(0, 0, {m}) /\ \E i \in Slots' : Msg(i)' = m
    BY <1>1, <1>2, <1>4, <2>1, Sent
  <2>3. pc'[c] = "withdrawing" /\ \A d \in Callers : d # c => pc'[d] = pc[d]
    BY <1>1, <2>1 DEF TypeOK
  <2>4. TypeOK'
    BY <1>1, <1>2, <2>1, <2>2 DEF TypeOK
  <2>5. StageOK(m)' /\ CallerOK(c)' /\ Withdraws(c)'
    BY <1>1, <1>2, <1>4, <2>1, <2>2, <2>3 DEF StageOK, CallersOK, CallerOK, Withdraws
  <2>6. CallerTurn(c, {m})
    BY <1>2, <1>3, <1>4, <2>1, <2>2, <2>3, <2>5 DEF CallerTurn
  <2> QED BY <2>4, <2>6, CallerStep
<1>6. CASE Refusal(FALSE) # "none"
  <2>1. Refusal(FALSE) \in {"failed", "closed"} /\ ~accepting
    BY <1>1, <1>6, Refusals
  <2>2. /\ queue' = queue /\ pc' = [pc EXCEPT ![c] = "returned"]
        /\ outcome' = [outcome EXCEPT ![c] = Refusal(FALSE)]
    BY <1>6 DEF Withdraw, Return
  <2>3. Moves(0, 0, {})
    BY <1>1, <1>2, <2>2, Still
  <2>4. /\ pc'[c] = "returned"
        /\ \A d \in Callers : d # c => pc'[d] = pc[d] /\ outcome'[d] = outcome[d]
        /\ outcome' \in [Callers -> Replies \cup {"timeout"}]
    BY <1>1, <2>1, <2>2 DEF TypeOK, Replies
  <2>5. TypeOK'
    BY <1>1, <1>2, <2>2, <2>4 DEF TypeOK
  <2>6. CallerOK(c)'
    BY <1>1, <1>2, <2>4 DEF CallersOK, CallerOK
  <2>7. CallerTurn(c, {})
    BY <1>2, <1>3, <2>1, <2>3, <2>4, <2>6 DEF CallerTurn
  <2> QED BY <2>5, <2>7, CallerStep
<1> QED BY <1>5, <1>6

LEMMA WithdrawnStep ==
  ASSUME CInv, NEW c \in Callers, Withdrawn(c)
  PROVE  CInv'
<1>1. TypeOK /\ CallersOK /\ BarriersOK
  BY DEF CInv
<1>2. /\ pc[c] = "withdrawing" /\ op[c] = "wait" /\ reply[c] # "none" /\ c # Closer
      /\ pc' = [pc EXCEPT ![c] = "returned"]
      /\ outcome' = [outcome EXCEPT ![c] = IF reply[c] = "ok" THEN outcome[c] ELSE reply[c]]
      /\ reply' = [reply EXCEPT ![c] = "none"]
      /\ op' = op /\ queue' = queue
      /\ UNCHANGED <<accepting, stopped, failure, turn, closing, barriers, applied, future, closer, events>>
  BY <1>1, NamesAssumption DEF Withdrawn, Return, controlState, context, CallersOK, CallerOK
<1>3. \A i \in Slots : Msg(i).from # c
  BY <1>2, MessagesOf
<1>4. c \in barriers => ~accepting
  BY <1>2, <1>3, <1>1 DEF BarriersOK, Withdraws
<1>5. /\ pc'[c] = "returned" /\ reply'[Closer] = reply[Closer]
      /\ \A d \in Callers : d # c => pc'[d] = pc[d] /\ outcome'[d] = outcome[d] /\ reply'[d] = reply[d]
      /\ outcome' \in [Callers -> Replies \cup {"timeout"}]
      /\ reply' \in [Callers \cup {Closer} -> Replies]
  BY <1>1, <1>2 DEF TypeOK, Replies
<1>6. TypeOK'
  BY <1>1, <1>2, <1>5 DEF TypeOK
<1>7. Moves(0, 0, {})
  BY <1>1, <1>2, Still
<1>8. CallerOK(c)'
  BY <1>1, <1>2, <1>5 DEF CallersOK, CallerOK
<1>9. CallerTurn(c, {})
  BY <1>2, <1>3, <1>4, <1>5, <1>7, <1>8 DEF CallerTurn
<1> QED BY <1>6, <1>9, CallerStep

-----------------------------------------------------------------------------
\* Other messages, and close()

\* The callers, their barriers and what was applied stay as they are.
Quiet == /\ UNCHANGED <<pc, op, outcome, applied, barriers, future>>
         /\ \A c \in Callers : reply'[c] = reply[c]

LEMMA QuietStep ==
  ASSUME CInv, TypeOK', Quiet, NEW first \in {0, 1}, NEW k \in {0, 1}, NEW new, Moves(first, k, new),
         \A i \in Slots : i < first => Msg(i).operation # "withdraw",
         accepting' => accepting, Down' => Down, FlagsOK', MessagesOK', StagesOK', OrderOK'
  PROVE  CInv'
<1>1. TypeOK /\ CallersOK /\ BarriersOK
  BY DEF CInv
<1>2. CallersOK'
  BY <1>1 DEF Quiet, CallersOK, CallerOK
<1>3. BarriersOK'
  <2>1. /\ barriers' = barriers /\ future' = future
        /\ \A c \in Callers : op'[c] = op[c] /\ pc'[c] = pc[c] /\ reply'[c] = reply[c]
        /\ Nobody \notin Callers /\ Nobody \notin barriers
    BY <1>1, NamesAssumption DEF Quiet, TypeOK
  <2> QED BY <1>1, <2>1, BarriersAside
<1> QED BY <1>2, <1>3 DEF CInv

\* A message of the side loop, a timer or the mount service.
LEMMA EventStep ==
  ASSUME CInv, NEW operation \in {"event", "tick", "delivered"}, Event(operation)
  PROVE  CInv'
<1> DEFINE m == [operation |-> operation, from |-> Nobody]
<1>1. TypeOK /\ MessagesOK /\ StagesOK /\ FlagsOK /\ OrderOK
  BY DEF CInv
<1>2. /\ queue' = queue \/ queue' = Append(queue, m)
      /\ UNCHANGED <<pc, op, outcome, reply, accepting, stopped, failure, turn, closing, barriers,
                     applied, future, closer>>
      /\ events' \in 0..MaxEvents
  <2>1. events < MaxEvents /\ events' = events + 1 /\ events \in 0..MaxEvents /\ MaxEvents \in Nat
    BY <1>1, CallersAssumption DEF Event, TypeOK
  <2> QED BY <2>1 DEF Event, Notify, Send, callers, context
<1>3. m \in Message /\ m.from = Nobody /\ FormOK(m) /\ StageOK(m)'
  BY NamesAssumption DEF Message, FormOK, StageOK, Nobody, Closer
<1> HIDE DEF m
<1>4. PICK new \in {{}, {m}} : queue' \in Seq(Message) /\ Moves(0, 0, new)
  BY <1>1, <1>2, <1>3, Still, Sent DEF TypeOK
<1>5. TypeOK' /\ Quiet
  BY <1>1, <1>2, <1>4 DEF TypeOK, Quiet
<1>6. \A o \in new : o = m
  OBVIOUS
<1>7. MessagesOK'
  BY <1>1, <1>3, <1>4, <1>5, <1>6, MessagesStep
<1>8. StagesOK'
  BY <1>1, <1>2, <1>3, <1>4, <1>6, StagesAside
<1>9. OrderOK'
  BY <1>1, <1>2, <1>3, <1>4, <1>6, NamesAssumption, OrderStep
<1>10. FlagsOK' /\ (Down' => Down) /\ accepting' = accepting
  BY <1>1, <1>2 DEF FlagsOK, Down, Begun
<1>11. \A i \in Slots : i < 0 => Msg(i).operation # "withdraw"
  BY <1>1, SlotTypes
<1> QED BY <1>4, <1>5, <1>7, <1>8, <1>9, <1>10, <1>11, QuietStep

LEMMA TakeStep ==
  ASSUME CInv, Take
  PROVE  CInv'
<1>1. TypeOK /\ MessagesOK /\ StagesOK /\ FlagsOK /\ OrderOK
  BY DEF CInv
<1>2. /\ turn = NoMessage
      /\ UNCHANGED <<pc, op, outcome, reply, accepting, stopped, failure, closing, barriers,
                     applied, future, closer, events>>
  BY DEF Take, callers, context
<1>3. queue' \in Seq(Message) /\ turn' \in Message /\ Moves(1, 1, {})
  BY <1>1, Taken
<1>4. TypeOK' /\ Quiet
  BY <1>1, <1>2, <1>3 DEF TypeOK, Quiet
<1>5. MessagesOK'
  BY <1>1, <1>3, <1>4, MessagesStep
<1>6. StagesOK'
  BY <1>1, <1>2, <1>3, StagesAside
<1>7. OrderOK'
  BY <1>1, <1>2, <1>3, OrderStep
<1>8. FlagsOK' /\ (Down' => Down) /\ accepting' = accepting
  BY <1>1, <1>2 DEF FlagsOK, Down, Begun
<1>9. \A i \in Slots : i < 1 => Msg(i).operation # "withdraw"
  BY <1>1, <1>2, SlotTypes DEF Msg
<1> QED BY <1>3, <1>4, <1>5, <1>6, <1>7, <1>8, <1>9, QuietStep

\* The steps of the closer that send nothing.
LEMMA FlagStep ==
  ASSUME CInv, CloseCall \/ BeginClose \/ CloseReturn
  PROVE  CInv'
<1>1. TypeOK /\ MessagesOK /\ StagesOK /\ FlagsOK /\ OrderOK
  BY DEF CInv
<1>2. UNCHANGED <<queue, turn, pc, op, outcome, reply, stopped, failure, barriers, applied, future, events>>
  BY DEF CloseCall, BeginClose, CloseReturn, callers, context
<1>3. /\ closer \in {"open", "flagged", "stopping"}
      /\ closer' \in {"flagged", "refusing", "closed"}
      /\ closer \in {"open", "flagged"} => closer' \in {"flagged", "refusing"}
      /\ closer' \in {"flagged", "refusing"} => closer \in {"open", "flagged"}
      /\ closing' \in BOOLEAN /\ accepting' \in BOOLEAN /\ (accepting' => accepting)
      /\ accepting' => closer' = "flagged"
  <2>1. closing \in BOOLEAN /\ accepting \in BOOLEAN
    BY <1>1 DEF TypeOK
  <2>2. CASE CloseCall
    BY <1>1, <2>1, <2>2 DEF CloseCall
  <2>3. CASE BeginClose
    BY <1>1, <2>1, <2>3 DEF BeginClose
  <2>4. CASE CloseReturn
    BY <1>1, <2>1, <2>4 DEF CloseReturn, FlagsOK
  <2> QED BY <2>2, <2>3, <2>4
<1>4. TypeOK' /\ Quiet
  BY <1>1, <1>2, <1>3 DEF TypeOK, Quiet
<1>5. Moves(0, 0, {})
  BY <1>1, <1>2, Still
<1>6. MessagesOK'
  BY <1>1, <1>4, <1>5, MessagesStep
<1>7. \A i \in Slots : Msg(i).from # Closer
  BY <1>1, <1>3 DEF StagesOK, StageOK, MessagesOK, FormOK
<1>8. StagesOK'
  BY <1>1, <1>2, <1>5, <1>7, StagesAside
<1>9. OrderOK'
  BY <1>1, <1>3, <1>5, OrderStep
<1>10. FlagsOK' /\ (Down' => Down)
  BY <1>1, <1>2, <1>3 DEF FlagsOK, Down, Begun
<1>11. \A i \in Slots : i < 0 => Msg(i).operation # "withdraw"
  BY <1>1, SlotTypes
<1> QED BY <1>3, <1>4, <1>5, <1>6, <1>8, <1>9, <1>10, <1>11, QuietStep

LEMMA CloseNextStep ==
  ASSUME CInv, CloseNext
  PROVE  CInv'
<1>1. TypeOK /\ MessagesOK /\ StagesOK /\ FlagsOK /\ OrderOK
  BY DEF CInv
<1>2. PICK step \in {"begin_close", "close_wait", "close_finish", "finish_close"} :
        /\ closer' = step /\ queue' = Append(queue, [operation |-> step, from |-> Closer])
        /\ \/ closer = "refusing" /\ step = "begin_close"
           \/ closer = "begin_close" /\ step = "close_wait" /\ reply[Closer] = "ok"
           \/ closer = "close_wait" /\ step = "close_finish" /\ reply[Closer] = "ok"
           \/ closer = "close_finish" /\ step = "finish_close" /\ reply[Closer] = "ok"
  BY DEF CloseNext, Send
<1>20. /\ reply' = [reply EXCEPT ![Closer] = "none"]
       /\ UNCHANGED <<accepting, stopped, failure, turn, closing, barriers, applied, future,
                      pc, op, outcome, events>>
  BY DEF CloseNext, callers, context
<1> DEFINE m == [operation |-> step, from |-> Closer]
<1>3. m \in Message /\ m.from = Closer /\ m.operation = step /\ FormOK(m)
  BY NamesAssumption DEF Message, FormOK
<1> HIDE DEF m
<1>4. queue' \in Seq(Message) /\ Moves(0, 0, {m}) /\ \E i \in Slots' : Msg(i)' = m
  BY <1>1, <1>2, <1>20, <1>3, Sent DEF m
<1>5. /\ reply' \in [Callers \cup {Closer} -> Replies] /\ reply'[Closer] = "none"
      /\ \A c \in Callers : reply'[c] = reply[c]
  BY <1>1, <1>20, NamesAssumption DEF TypeOK, Replies
<1>6. TypeOK' /\ Quiet
  BY <1>1, <1>2, <1>20, <1>4, <1>5 DEF TypeOK, Quiet
<1>7. \A i \in Slots : Msg(i).from # Closer
  BY <1>1, <1>2 DEF StagesOK, StageOK, MessagesOK, FormOK
<1>8. MessagesOK'
  BY <1>1, <1>3, <1>4, <1>6, <1>7, MessagesStep
<1>9. StagesOK'
  <2>1. StageOK(m)'
    BY <1>2, <1>3, <1>5, NamesAssumption DEF StageOK
  <2>2. \A c \in Callers \cup {Closer} : c # Closer => reply'[c] = reply[c]
    BY <1>5
  <2> QED BY <1>1, <1>2, <1>20, <1>4, <1>7, <2>1, <2>2, StagesAside
<1>10. OrderOK'
  <2>1. CASE closer = "refusing"
    <3>1. \E j \in Slots' : Msg(j)' = m /\ j \in Nat /\ \A i \in Slots' : i \in Nat /\ i <= j
      <4>1. queue \in Seq(Message) /\ Len(queue) \in Nat
        BY <1>1, SlotTypes DEF TypeOK
      <4>2. PICK last \in Nat \ {0} : last = Len(queue) + 1
        BY <4>1
      <4>3. Len(queue') = last /\ queue'[last] = m
        BY <1>2, <4>1, <4>2 DEF m
      <4>4. Slots' = 0..last /\ Msg(last)' = m
        BY <4>2, <4>3 DEF Slots, Msg
      <4> QED BY <4>4
    <3>2. PICK j \in Slots' : Msg(j)' = m /\ j \in Nat /\ \A i \in Slots' : i \in Nat /\ i <= j
      BY <3>1
    <3>3. ASSUME NEW i \in Slots', Msg(i)'.from \in Callers
          PROVE  i < j /\ Msg(j)'.operation = "begin_close"
      <4>1. i # j
        BY <1>3, <3>2, <3>3, NamesAssumption
      <4> QED BY <1>2, <1>3, <2>1, <3>2, <4>1
    <3> QED BY <3>2, <3>3 DEF OrderOK
  <2>2. CASE closer # "refusing"
    BY <1>1, <1>2, <1>3, <1>4, <2>2, NamesAssumption, OrderStep
  <2> QED BY <2>1, <2>2
<1>11. FlagsOK' /\ (Down' => Down) /\ accepting' = accepting
  BY <1>1, <1>2, <1>20, <1>5 DEF FlagsOK, Down, Begun
<1>12. \A i \in Slots : i < 0 => Msg(i).operation # "withdraw"
  BY <1>1, SlotTypes
<1> QED BY <1>4, <1>6, <1>8, <1>9, <1>10, <1>11, <1>12, QuietStep

\* Behind the last message of the closer, stop() finds no request to answer.
LEMMA StopAnswersNobody ==
  ASSUME CInv, Stop
  PROVE  reply' = reply
<1>1. TypeOK /\ MessagesOK /\ StagesOK /\ OrderOK /\ Begun /\ reply[Closer] = "ok"
  BY DEF CInv, Stop, Begun
<1>2. \A i \in Slots : Msg(i).from \notin Callers /\ Msg(i).from # Closer
  BY <1>1, NoRequests DEF StagesOK, StageOK
<1>3. queue \in Seq(Message) /\ reply \in [Callers \cup {Closer} -> Replies]
  BY <1>1 DEF TypeOK
<1>4. ASSUME NEW o \in ToSet(queue)
      PROVE  o.from \notin Callers \cup {Closer}
  <2>1. PICK i \in 1..Len(queue) : o = queue[i]
    BY <1>3, <1>4 DEF ToSet
  <2>2. i \in Slots /\ Msg(i) = o
    BY <1>3, <2>1 DEF Slots, Msg
  <2> QED BY <1>2, <2>2
<1>5. reply' = [c \in Callers \cup {Closer} |->
                  IF \E o \in ToSet(queue) : o.from = c THEN "closed" ELSE reply[c]]
  BY <1>3 DEF Stop
<1> HIDE DEF ToSet
<1>6. reply' = [c \in Callers \cup {Closer} |-> reply[c]]
  BY <1>4, <1>5
<1> QED BY <1>3, <1>6

LEMMA StopStep ==
  ASSUME CInv, Stop
  PROVE  CInv'
<1>1. TypeOK /\ MessagesOK /\ StagesOK /\ FlagsOK /\ OrderOK /\ Begun
  BY DEF CInv, Stop, Begun
<1>2. /\ closer = "finish_close" /\ closer' = "stopping" /\ reply[Closer] = "ok"
      /\ accepting' = FALSE /\ stopped' = TRUE /\ queue' = <<>> /\ reply' = reply
      /\ UNCHANGED <<failure, turn, closing, barriers, applied, future, pc, op, outcome, events>>
  BY StopAnswersNobody DEF Stop, callers, context
<1>3. TypeOK' /\ Quiet
  <2>1. queue' \in Seq(Message)
    BY <1>2, EmptySeq
  <2> QED BY <1>1, <1>2, <2>1 DEF TypeOK, Quiet
<1>4. Slots' = {0} /\ 0 \in Slots /\ Msg(0)' = Msg(0)
  BY <1>1, <1>2, SlotTypes DEF Slots, Msg
<1>5. Msg(0).from \notin Callers /\ Msg(0).from # Closer
  BY <1>1, <1>2, <1>4, NoRequests DEF StagesOK, StageOK
<1>6. MessagesOK'
  BY <1>1, <1>4 DEF MessagesOK, FormOK
<1>7. StagesOK'
  BY <1>1, <1>4, <1>5, <1>6 DEF StagesOK, StageOK, MessagesOK, FormOK
<1>8. OrderOK' /\ FlagsOK'
  BY <1>2, <1>4, <1>5 DEF OrderOK, FlagsOK
<1>9. CallersOK'
  BY <1>2 DEF CInv, CallersOK, CallerOK
<1>10. BarriersOK'
  BY <1>1, <1>2 DEF CInv, BarriersOK, Down, Begun
<1> QED BY <1>3, <1>6, <1>7, <1>8, <1>9, <1>10 DEF CInv

-----------------------------------------------------------------------------
\* The execution of a message

LEMMA Answered ==
  ASSUME TypeOK, NEW result \in Replies, Answer(result)
  PROVE  /\ reply' \in [Callers \cup {Closer} -> Replies]
         /\ \A c \in Callers \cup {Closer} :
              reply'[c] = IF c = turn.from THEN result ELSE reply[c]
<1>1. reply \in [Callers \cup {Closer} -> Replies]
  BY DEF TypeOK
<1>2. reply' = [c \in Callers \cup {Closer} |-> IF c = turn.from THEN result ELSE reply[c]]
  BY <1>1 DEF Answer
<1> QED BY <1>1, <1>2

\* Who of "waits" has no barrier any more has been told.
Tells(waits) ==
  /\ barriers' \subseteq waits
  /\ future' \in [Callers -> {"none", "pending", "answer", "failed", "closed"}]
  /\ \A c \in Callers \ barriers' :
       future'[c] # "pending" \/ (c \notin waits /\ future'[c] = future[c])

LEMMA TurnTells ==
  ASSUME TypeOK, NEW waits \in SUBSET Callers, AfterTurn(waits) \/ CheckBarriers(waits)
  PROVE  Tells(waits)
<1>1. CASE CheckBarriers(waits)
  BY <1>1 DEF CheckBarriers, Tells, TypeOK
<1>2. CASE closing /\ barriers' = waits /\ UNCHANGED future
  BY <1>2 DEF Tells, TypeOK
<1> QED BY <1>1, <1>2 DEF AfterTurn

LEMMA FailureTells ==
  ASSUME TypeOK, NEW why \in {"failed", "closed"}, FailBarriers(why)
  PROVE  Tells(barriers) /\ barriers' = {}
BY DEF FailBarriers, Tells, TypeOK

\* The controller thread executed the message in its turn.
Serves(new, waits) ==
  /\ turn # NoMessage /\ turn' = NoMessage
  /\ queue' \in Seq(Message) /\ Moves(1, 0, new)
  /\ UNCHANGED <<pc, op, outcome, stopped, closer, events>>
  /\ reply' \in [Callers \cup {Closer} -> Replies]
  /\ \A c \in Callers \cup {Closer} : c # turn.from => reply'[c] = reply[c]
  /\ \/ applied' = applied
     \/ turn.operation = "edit" /\ applied' = applied \cup {turn.from}
  /\ accepting' \in BOOLEAN /\ failure' \in BOOLEAN /\ closing' \in BOOLEAN
  /\ accepting' => accepting /\ failure' = failure
  /\ \A m \in new : /\ accepting /\ turn.from \in Callers /\ m.from = turn.from
                    /\ FormOK(m) /\ StageOK(m)'
  /\ Tells(waits)
  /\ \/ turn.operation # "withdraw" /\ waits = barriers
     \/ turn.operation = "withdraw" /\ waits = barriers \ {turn.from}
     \/ turn.operation = "install" /\ waits = barriers \cup {turn.from}
  /\ turn.operation = "install" => \A c : c = turn.from /\ accepting' => Withdraws(c)'
  /\ Down' => barriers' = {}

LEMMA ExecuteStep ==
  ASSUME CInv, NEW new, NEW waits, Serves(new, waits)
  PROVE  CInv'
<1>1. TypeOK /\ MessagesOK /\ StagesOK /\ CallersOK /\ FlagsOK /\ OrderOK /\ BarriersOK
  BY DEF CInv
<1>0. PICK d : d = turn.from
  OBVIOUS
<1>2. turn \in Message /\ 0 \in Slots /\ Msg(0) = turn /\ Slots \subseteq Nat /\ FormOK(turn)
  BY <1>1, SlotTypes DEF Serves, Msg, TypeOK, MessagesOK
<1>3. d = Nobody \/ \A i \in Slots : 1 <= i => Msg(i).from # d
  BY <1>0, <1>1, <1>2 DEF MessagesOK
<1>4. d \in Callers => pc[d] \in {"called", "abandoned", "withdrawing"}
                       /\ (turn.operation = "edit" => op[d] = "edit")
                       /\ (turn.operation = "install" => op[d] = "wait")
                       /\ (turn.operation = "withdraw" => pc[d] \in {"abandoned", "withdrawing"})
  BY <1>0, <1>1, <1>2 DEF StagesOK, StageOK, FormOK
<1>5. turn.operation \in {"edit", "install", "withdraw"} <=> d \in Callers
  BY <1>0, <1>2 DEF FormOK
<1>6. Moves(1, 0, new)
  BY DEF Serves
<1>7. /\ UNCHANGED <<pc, op, outcome, stopped, closer, events>>
      /\ \A c \in Callers \cup {Closer} : c # d => reply'[c] = reply[c]
      /\ (applied' = applied \/ (turn.operation = "edit" /\ applied' = applied \cup {d}))
      /\ accepting' => accepting /\ failure' = failure
  BY <1>0 DEF Serves
<1>8. Tells(waits) /\ (Down' => barriers' = {})
      /\ (\/ turn.operation # "withdraw" /\ waits = barriers
          \/ turn.operation = "withdraw" /\ waits = barriers \ {d}
          \/ turn.operation = "install" /\ waits = barriers \cup {d})
  BY <1>0 DEF Serves
<1>9. \A m \in new : accepting /\ d \in Callers /\ m.from = d /\ FormOK(m) /\ StageOK(m)'
  BY <1>0 DEF Serves
<1>10. barriers' \subseteq Callers /\ applied' \subseteq Callers
  BY <1>1, <1>5, <1>7, <1>8 DEF Tells, TypeOK
<1>11. TypeOK'
  <2>1. queue' \in Seq(Message) /\ turn' = NoMessage /\ accepting' \in BOOLEAN /\ failure' \in BOOLEAN
        /\ closing' \in BOOLEAN /\ reply' \in [Callers \cup {Closer} -> Replies]
    BY DEF Serves
  <2> QED BY <1>1, <1>7, <1>8, <1>10, <2>1 DEF TypeOK, Tells
<1>12. MessagesOK'
  BY <1>1, <1>3, <1>6, <1>9, <1>11, MessagesStep
<1>13. StagesOK'
  <2>1. \A c \in Callers : c # d => op'[c] = op[c] /\ pc'[c] = pc[c] /\ (c \in applied' => c \in applied)
    BY <1>7
  <2> QED BY <1>1, <1>3, <1>6, <1>7, <1>9, <2>1, StagesAside
<1>14. CallersOK'
  <2>1. ASSUME NEW c \in Callers, c # d
        PROVE  CallerOK(c)'
    BY <1>1, <1>7, <2>1 DEF CallersOK, CallerOK
  <2>2. ASSUME d \in Callers
        PROVE  CallerOK(d)'
    BY <1>1, <1>4, <1>7, <2>2 DEF CallersOK, CallerOK
  <2> QED BY <2>1, <2>2 DEF CallersOK, CallerOK
<1>15. FlagsOK'
  BY <1>1, <1>7 DEF FlagsOK
<1>16. OrderOK'
  <2>1. closer' \notin {"open", "flagged", "refusing"} => \A m \in new : m.from \notin Callers
    BY <1>1, <1>7, <1>9 DEF FlagsOK
  <2> QED BY <1>1, <1>6, <1>7, <2>1, OrderStep
<1>17. BarriersOK'
  <2>1. ASSUME NEW c \in Callers \ barriers', pc'[c] \in {"idle", "called", "waiting"}
        PROVE  future'[c] # "pending"
    <3>1. c \notin waits /\ future'[c] = future[c] => c \notin barriers
      BY <1>4, <1>7, <1>8, <2>1
    <3> QED BY <1>1, <1>7, <1>8, <2>1, <3>1 DEF Tells, BarriersOK
  <2>2. ASSUME NEW c \in barriers'
        PROVE  op'[c] = "wait" /\ pc'[c] # "idle" /\ (accepting' => Withdraws(c)')
    <3>1. c \in Callers /\ c \in waits
      BY <1>8, <1>10, <2>2 DEF Tells
    <3>2. CASE c = d
      <4>1. turn.operation = "install"
        BY <1>1, <1>4, <1>5, <1>8, <3>1, <3>2 DEF BarriersOK
      <4>2. accepting' => Withdraws(d)'
        BY <1>0, <4>1 DEF Serves
      <4> QED BY <1>4, <1>7, <3>1, <3>2, <4>1, <4>2
    <3>3. CASE c # d
      <4>1. c \in barriers /\ op'[c] = "wait" /\ pc'[c] = pc[c] /\ pc[c] # "idle" /\ reply'[c] = reply[c]
        BY <1>1, <1>7, <1>8, <3>1, <3>3 DEF BarriersOK
      <4>2. ASSUME NEW i \in Slots, Msg(i).from = c, Msg(i).operation = "withdraw"
            PROVE  \E j \in Slots' : Msg(j)'.from = c /\ Msg(j)'.operation = "withdraw"
        <5>1. 1 <= i
          BY <1>0, <1>2, <3>3, <4>2
        <5> QED BY <1>6, <4>2, <5>1 DEF Moves
      <4> QED BY <1>1, <1>7, <4>1, <4>2 DEF BarriersOK, Withdraws
    <3> QED BY <3>2, <3>3
  <2> QED BY <1>8, <2>1, <2>2 DEF BarriersOK
<1> QED BY <1>11, <1>12, <1>13, <1>14, <1>15, <1>16, <1>17 DEF CInv

LEMMA TurnOK ==
  ASSUME CInv, turn # NoMessage
  PROVE  /\ turn \in Message /\ FormOK(turn) /\ StageOK(turn)
         /\ turn.from \in Callers => turn.from # Closer /\ ~Begun
<1>1. TypeOK /\ MessagesOK /\ StagesOK /\ OrderOK
  BY DEF CInv
<1>2. turn \in Message /\ 0 \in Slots /\ Msg(0) = turn
  BY <1>1, SlotTypes DEF Msg, TypeOK
<1>3. FormOK(turn) /\ StageOK(turn)
  BY <1>1, <1>2 DEF MessagesOK, StagesOK
<1> QED BY <1>1, <1>2, <1>3, NoRequests, NamesAssumption

\* The frame of the actions that execute a message
LEMMA Frame ==
  ASSUME CInv, NEW operations, Execute(operations)
  PROVE  /\ turn # NoMessage /\ turn.operation \in operations /\ turn' = NoMessage
         /\ ~failure \/ turn.operation \in Allowed
         /\ UNCHANGED <<pc, op, outcome, stopped, closer, events>>
BY DEF Execute, callers

LEMMA RefusedStep ==
  ASSUME CInv, ExecuteRefused
  PROVE  CInv'
<1>1. TypeOK /\ BarriersOK /\ FlagsOK
  BY DEF CInv
<1>2. /\ turn # NoMessage /\ failure /\ turn.operation \notin Allowed
      /\ turn' = NoMessage /\ Answer("failed")
      /\ UNCHANGED <<queue, barriers, applied, future, pc, op, outcome, failure, accepting, closing,
                     stopped, closer, events>>
  BY DEF ExecuteRefused, context, callers, sound
<1>3. barriers = {} /\ ~accepting
  BY <1>1, <1>2 DEF BarriersOK, Down, FlagsOK
<1>4. /\ reply' \in [Callers \cup {Closer} -> Replies]
      /\ \A c \in Callers \cup {Closer} : c # turn.from => reply'[c] = reply[c]
  BY <1>1, <1>2, Answered DEF Replies
<1>5. Moves(1, 0, {}) /\ queue' \in Seq(Message)
  BY <1>1, <1>2, Done DEF TypeOK
<1>6. Tells({})
  BY <1>1, <1>2, <1>3 DEF Tells, TypeOK
<1>7. failure' \in BOOLEAN /\ accepting' \in BOOLEAN /\ closing' \in BOOLEAN
  BY <1>1, <1>2 DEF TypeOK
<1>8. Serves({}, {})
  BY <1>2, <1>3, <1>4, <1>5, <1>6, <1>7 DEF Serves
<1> QED BY <1>8, ExecuteStep

LEMMA EditStep ==
  ASSUME CInv, ExecuteEdit
  PROVE  CInv'
<1>1. TypeOK /\ BarriersOK /\ FlagsOK
  BY DEF CInv
<1>2. /\ turn # NoMessage /\ turn.operation = "edit" /\ turn' = NoMessage
      /\ UNCHANGED <<pc, op, outcome, stopped, closer, events>>
  BY Frame DEF ExecuteEdit
<1>3. turn.from \in Callers /\ turn.from # Closer
  BY <1>2, TurnOK DEF FormOK
<1>4. Moves(1, 0, {}) /\ queue' \in Seq(Message)
  BY <1>1, <1>2, Done DEF TypeOK, ExecuteEdit
<1>5. PICK result \in {"ok", "error"} : Answer(result)
  BY DEF ExecuteEdit
<1>6. /\ reply' \in [Callers \cup {Closer} -> Replies]
      /\ \A c \in Callers \cup {Closer} : c # turn.from => reply'[c] = reply[c]
  BY <1>1, <1>5, Answered DEF Replies
<1>7. applied' = applied \/ applied' = applied \cup {turn.from}
  BY DEF ExecuteEdit
<1>8. CASE AfterTurn(barriers) /\ UNCHANGED sound
  <2>1. barriers \in SUBSET Callers
    BY <1>1 DEF TypeOK
  <2>2. Tells(barriers)
    BY <1>1, <1>8, <2>1, TurnTells
  <2>3. UNCHANGED <<failure, accepting, closing>>
    BY <1>8 DEF sound
  <2>4. Down' => barriers' = {}
    BY <1>1, <1>2, <1>3, <1>6, <2>2, <2>3 DEF BarriersOK, Down, Begun, Tells
  <2>5. failure' \in BOOLEAN /\ accepting' \in BOOLEAN /\ closing' \in BOOLEAN
    BY <1>1, <2>3 DEF TypeOK
  <2>6. Serves({}, barriers)
    BY <1>2, <1>4, <1>6, <1>7, <2>2, <2>3, <2>4, <2>5 DEF Serves
  <2> QED BY <2>6, ExecuteStep
<1>9. CASE Poison
  <2>1. Tells(barriers) /\ barriers' = {}
    BY <1>1, <1>9, FailureTells DEF Poison
  <2>2. Serves({}, barriers)
    BY <1>2, <1>4, <1>6, <1>7, <1>9, <2>1 DEF Serves, Poison
  <2> QED BY <2>2, ExecuteStep
<1> QED BY <1>8, <1>9 DEF ExecuteEdit

LEMMA ExecuteEventStep ==
  ASSUME CInv, ExecuteEvent
  PROVE  CInv'
<1>1. TypeOK /\ BarriersOK /\ FlagsOK
  BY DEF CInv
<1>2. /\ turn # NoMessage /\ turn.operation \in {"event", "tick", "delivered"} /\ turn' = NoMessage
      /\ UNCHANGED <<pc, op, outcome, stopped, closer, events, queue, applied, reply>>
  BY Frame DEF ExecuteEvent
<1>3. Moves(1, 0, {}) /\ queue' \in Seq(Message) /\ reply' \in [Callers \cup {Closer} -> Replies]
  BY <1>1, <1>2, Done DEF TypeOK
<1>4. CASE AfterTurn(barriers) /\ UNCHANGED sound
  <2>1. barriers \in SUBSET Callers
    BY <1>1 DEF TypeOK
  <2>2. Tells(barriers)
    BY <1>1, <1>4, <2>1, TurnTells
  <2>3. UNCHANGED <<failure, accepting, closing>>
    BY <1>4 DEF sound
  <2>4. Down' => barriers' = {}
    BY <1>1, <1>2, <2>2, <2>3 DEF BarriersOK, Down, Begun, Tells
  <2>5. failure' \in BOOLEAN /\ accepting' \in BOOLEAN /\ closing' \in BOOLEAN
    BY <1>1, <2>3 DEF TypeOK
  <2>6. Serves({}, barriers)
    BY <1>2, <1>3, <2>2, <2>3, <2>4, <2>5 DEF Serves
  <2> QED BY <2>6, ExecuteStep
<1>5. CASE Poison
  <2>1. Tells(barriers) /\ barriers' = {}
    BY <1>1, <1>5, FailureTells DEF Poison
  <2>2. Serves({}, barriers)
    BY <1>2, <1>3, <1>5, <2>1 DEF Serves, Poison
  <2> QED BY <2>2, ExecuteStep
<1> QED BY <1>4, <1>5 DEF ExecuteEvent

LEMMA WithdrawTurnStep ==
  ASSUME CInv, ExecuteWithdraw
  PROVE  CInv'
<1>1. TypeOK /\ BarriersOK /\ FlagsOK
  BY DEF CInv
<1>2. /\ turn # NoMessage /\ turn.operation = "withdraw" /\ turn' = NoMessage
      /\ UNCHANGED <<pc, op, outcome, stopped, closer, events>>
  BY Frame DEF ExecuteWithdraw
<1>3. turn.from \in Callers /\ turn.from # Closer
  BY <1>2, TurnOK DEF FormOK
<1>4. UNCHANGED <<queue, applied, failure, accepting, closing>> /\ Answer("ok")
  BY DEF ExecuteWithdraw, sound
<1>5. Moves(1, 0, {}) /\ queue' \in Seq(Message)
  BY <1>1, <1>2, <1>4, Done DEF TypeOK
<1>6. /\ reply' \in [Callers \cup {Closer} -> Replies]
      /\ \A c \in Callers \cup {Closer} : c # turn.from => reply'[c] = reply[c]
  BY <1>1, <1>4, Answered DEF Replies
<1>7. Tells(barriers \ {turn.from})
  <2>1. barriers \ {turn.from} \in SUBSET Callers /\ AfterTurn(barriers \ {turn.from})
    BY <1>1 DEF TypeOK, ExecuteWithdraw
  <2> QED BY <1>1, <2>1, TurnTells
<1>8. Down' => barriers' = {}
  BY <1>1, <1>2, <1>3, <1>4, <1>6, <1>7 DEF BarriersOK, Down, Begun, Tells
<1>9. failure' \in BOOLEAN /\ accepting' \in BOOLEAN /\ closing' \in BOOLEAN
  BY <1>1, <1>4 DEF TypeOK
<1>10. Serves({}, barriers \ {turn.from})
  BY <1>2, <1>4, <1>5, <1>6, <1>7, <1>8, <1>9 DEF Serves
<1> QED BY <1>10, ExecuteStep

LEMMA InstallStep ==
  ASSUME CInv, ExecuteInstall
  PROVE  CInv'
<1>1. TypeOK /\ BarriersOK /\ FlagsOK
  BY DEF CInv
<1>2. /\ turn # NoMessage /\ turn.operation = "install" /\ turn' = NoMessage
      /\ ~failure
      /\ UNCHANGED <<pc, op, outcome, stopped, closer, events>>
  BY Frame DEF ExecuteInstall, Allowed
<1>3. PICK c \in Callers : c = turn.from /\ c # Closer
  BY <1>2, TurnOK DEF FormOK
<1>4. pc[c] \in {"called", "abandoned"} /\ ~Begun
  BY <1>2, <1>3, TurnOK DEF StageOK
<1>5. UNCHANGED <<applied, failure, accepting, closing>> /\ Answer("ok")
  BY DEF ExecuteInstall, sound
<1>6. /\ reply' \in [Callers \cup {Closer} -> Replies] /\ reply'[c] = "ok"
      /\ \A d \in Callers \cup {Closer} : d # turn.from => reply'[d] = reply[d]
  BY <1>1, <1>3, <1>5, Answered DEF Replies
<1>7. Tells(barriers \cup {turn.from})
  <2>1. barriers \cup {turn.from} \in SUBSET Callers /\ CheckBarriers(barriers \cup {turn.from})
    BY <1>1, <1>3 DEF TypeOK, ExecuteInstall
  <2> QED BY <1>1, <2>1, TurnTells
<1>8. ~Down'
  BY <1>2, <1>3, <1>4, <1>5, <1>6 DEF Down, Begun
<1>9. failure' \in BOOLEAN /\ accepting' \in BOOLEAN /\ closing' \in BOOLEAN
  BY <1>1, <1>5 DEF TypeOK
<1> DEFINE m == [operation |-> "withdraw", from |-> c]
<1>10. m \in Message /\ m.from = c /\ FormOK(m) /\ m.operation = "withdraw"
  BY <1>3, NamesAssumption DEF Message, FormOK
<1>11. CASE pc[c] = "abandoned" /\ Refusal(FALSE) = "none"
  <2>1. queue' = Append(queue, m) /\ accepting
    BY <1>1, <1>3, <1>11, Refusals DEF ExecuteInstall, Send
  <2> HIDE DEF m
  <2>2. queue' \in Seq(Message) /\ Moves(1, 0, {m}) /\ \E i \in Slots' : Msg(i)' = m
    BY <1>1, <1>2, <1>10, <2>1, DoneSent
  <2>3. StageOK(m)' /\ Withdraws(c)'
    BY <1>2, <1>3, <1>10, <1>11, <2>2 DEF StageOK, Withdraws
  <2>4. Serves({m}, barriers \cup {turn.from})
    BY <1>2, <1>3, <1>5, <1>6, <1>7, <1>8, <1>9, <1>10, <2>1, <2>2, <2>3 DEF Serves
  <2> QED BY <2>4, ExecuteStep
<1>12. CASE ~(pc[c] = "abandoned" /\ Refusal(FALSE) = "none")
  <2>1. queue' = queue /\ (accepting => pc[c] = "called")
    BY <1>1, <1>3, <1>4, <1>12, Refusals DEF ExecuteInstall
  <2>2. queue' \in Seq(Message) /\ Moves(1, 0, {})
    BY <1>1, <1>2, <2>1, Done DEF TypeOK
  <2>3. accepting' => Withdraws(c)'
    BY <1>2, <1>5, <1>6, <2>1 DEF Withdraws
  <2>4. Serves({}, barriers \cup {turn.from})
    BY <1>2, <1>3, <1>5, <1>6, <1>7, <1>8, <1>9, <2>2, <2>3 DEF Serves
  <2> QED BY <2>4, ExecuteStep
<1> QED BY <1>11, <1>12

LEMMA CloseTurnStep ==
  ASSUME CInv, ExecuteBeginClose \/ ExecuteClosing
  PROVE  CInv'
<1>1. TypeOK /\ BarriersOK /\ FlagsOK
  BY DEF CInv
<1>2. /\ turn # NoMessage /\ turn' = NoMessage
      /\ turn.operation \in {"begin_close", "close_wait", "close_finish", "finish_close"}
      /\ UNCHANGED <<pc, op, outcome, stopped, closer, events>>
  BY Frame DEF ExecuteBeginClose, ExecuteClosing
<1>3. turn.from = Closer /\ closer = turn.operation
  BY <1>2, TurnOK DEF FormOK, StageOK
<1>4. UNCHANGED <<queue, applied, failure, accepting>> /\ closing' \in BOOLEAN /\ Answer("ok")
  BY <1>1 DEF ExecuteBeginClose, ExecuteClosing, sound, context, TypeOK
<1>5. Moves(1, 0, {}) /\ queue' \in Seq(Message)
  BY <1>1, <1>2, <1>4, Done DEF TypeOK
<1>6. /\ reply' \in [Callers \cup {Closer} -> Replies]
      /\ \A c \in Callers \cup {Closer} : c # turn.from => reply'[c] = reply[c]
  BY <1>1, <1>4, Answered DEF Replies
<1>7. Tells(barriers) /\ barriers' = {}
  <2>1. CASE ExecuteBeginClose
    BY <1>1, <2>1, FailureTells DEF ExecuteBeginClose
  <2>2. CASE ExecuteClosing
    <3>1. turn.operation \in {"close_wait", "close_finish", "finish_close"}
      BY <2>2, Frame DEF ExecuteClosing
    <3>2. Down
      BY <1>3, <3>1 DEF Down, Begun
    <3>3. barriers' = barriers /\ future' = future
      BY <2>2 DEF ExecuteClosing, context
    <3> QED BY <1>1, <3>2, <3>3 DEF BarriersOK, Tells, TypeOK
  <2> QED BY <2>1, <2>2
<1>8. failure' \in BOOLEAN /\ accepting' \in BOOLEAN
  BY <1>1, <1>4 DEF TypeOK
<1>9. Serves({}, barriers)
  BY <1>2, <1>4, <1>5, <1>6, <1>7, <1>8 DEF Serves
<1> QED BY <1>9, ExecuteStep

-----------------------------------------------------------------------------
\* The invariant

LEMMA InitCInv == Init => CInv
<1> SUFFICES ASSUME Init PROVE CInv
  OBVIOUS
<1>1. queue = <<>> /\ queue \in Seq(Message) /\ Len(queue) = 0
  BY EmptySeq DEF Init
<1>2. MaxEvents \in Nat
  BY CallersAssumption
<1>3. TypeOK
  <2>1. /\ turn = NoMessage /\ accepting = TRUE /\ stopped = FALSE /\ failure = FALSE /\ closing = FALSE
        /\ barriers = {} /\ applied = {} /\ closer = "open" /\ events \in 0..MaxEvents
    BY <1>2 DEF Init
  <2>2. /\ pc \in [Callers -> {"idle"}] /\ op \in [Callers -> {"edit"}]
        /\ reply \in [Callers \cup {Closer} -> {"none"}]
        /\ future \in [Callers -> {"none"}] /\ outcome \in [Callers -> {"none"}]
    BY DEF Init
  <2> QED BY <1>1, <2>1, <2>2 DEF TypeOK, Replies
<1>4. Slots = {0} /\ Msg(0) = NoMessage
  BY <1>1 DEF Init, Slots, Msg
<1>5. FormOK(NoMessage) /\ StageOK(NoMessage)
  BY NamesAssumption DEF NoMessage, FormOK, StageOK, Nobody, Closer
<1>6. MessagesOK /\ StagesOK
  BY <1>4, <1>5 DEF MessagesOK, StagesOK
<1>7. CallersOK /\ FlagsOK /\ OrderOK
  BY DEF Init, CallersOK, CallerOK, FlagsOK, OrderOK
<1>8. BarriersOK
  BY DEF Init, BarriersOK, Down, Begun
<1> QED BY <1>3, <1>6, <1>7, <1>8 DEF CInv

LEMMA StutterStep ==
  ASSUME CInv, UNCHANGED vars
  PROVE  CInv'
<1>1. TypeOK /\ MessagesOK /\ StagesOK /\ FlagsOK /\ OrderOK
  BY DEF CInv
<1>2. UNCHANGED <<queue, turn, pc, op, outcome, reply, accepting, stopped, failure, closing, barriers,
                  applied, future, closer, events>>
  BY DEF vars, context, callers
<1>3. Moves(0, 0, {})
  BY <1>1, <1>2, Still
<1>4. TypeOK' /\ Quiet
  BY <1>1, <1>2 DEF TypeOK, Quiet
<1>5. MessagesOK'
  BY <1>1, <1>3, <1>4, MessagesStep
<1>6. StagesOK'
  BY <1>1, <1>2, <1>3, StagesAside
<1>7. OrderOK'
  BY <1>1, <1>2, <1>3, OrderStep
<1>8. FlagsOK' /\ (Down' => Down) /\ accepting' = accepting
  BY <1>1, <1>2 DEF FlagsOK, Down, Begun
<1>9. \A i \in Slots : i < 0 => Msg(i).operation # "withdraw"
  BY <1>1, SlotTypes
<1> QED BY <1>3, <1>4, <1>5, <1>6, <1>7, <1>8, <1>9, QuietStep

LEMMA NextCInv == CInv /\ [Next]_vars => CInv'
<1> SUFFICES ASSUME CInv, [Next]_vars PROVE CInv'
  OBVIOUS
<1>1. CASE Take
  BY <1>1, TakeStep
<1>2. CASE Execution
  BY <1>2, RefusedStep, EditStep, InstallStep, WithdrawTurnStep, ExecuteEventStep, CloseTurnStep
     DEF Execution
<1>3. CASE Closing \/ CloseCall
  BY <1>3, FlagStep, CloseNextStep, StopStep DEF Closing
<1>4. ASSUME NEW c \in Callers, NEW kind \in {"edit", "wait"}, CallRequest(c, kind)
      PROVE  CInv'
  BY <1>4, CallRequestStep
<1>5. ASSUME NEW c \in Callers, GoOn(c) \/ WaitOver(c) \/ Abandon(c)
      PROVE  CInv'
  BY <1>5, RepliedStep, WithdrawStep, WithdrawnStep, WaitOverStep, AbandonStep DEF GoOn
<1>6. ASSUME NEW operation \in {"event", "tick", "delivered"}, Event(operation)
      PROVE  CInv'
  BY <1>6, EventStep
<1>7. CASE UNCHANGED vars
  BY <1>7, StutterStep
<1> QED BY <1>1, <1>2, <1>3, <1>4, <1>5, <1>6, <1>7 DEF Next, Drain

\* The messages on their way, the stages of their senders, the flags and the
\* barriers belong together, whatever the threads do (ingress.py, controller.py).
THEOREM ControllerInductive == Spec => []CInv
<1>1. Init => CInv
  BY InitCInv
<1>2. CInv /\ [Next]_vars => CInv'
  BY NextCInv
<1> QED BY <1>1, <1>2, PTL DEF Spec

\* Every variable has its type (the queue of Controller holds messages of its
\* operations only, each reply is for its sender).
THEOREM ControllerTypes == Spec => []TypeOK
<1>1. CInv => TypeOK
  BY DEF CInv
<1> QED BY <1>1, ControllerInductive, PTL

\* For any number of callers: nobody waits for a barrier of a Context that was
\* poisoned or closed (poison, _begin_close, begin_close of the controller).
THEOREM WaitersTold == Spec => []NoStrandedWaiter
<1>1. CInv => NoStrandedWaiter
  BY DEF CInv, BarriersOK, NoStrandedWaiter
<1> QED BY <1>1, ControllerInductive, PTL

\* For any number of callers: a call that ended, was cancelled or timed out
\* leaves no barrier behind (_wait, _wait_async).
THEOREM NoBarrierLeaks == Spec => []NoLeakedBarrier
<1>1. ASSUME CInv, AtRest
      PROVE  barriers = {}
  <2>1. TypeOK /\ CallersOK /\ BarriersOK /\ FlagsOK
    BY <1>1 DEF CInv
  <2>2. queue = <<>> /\ turn = NoMessage /\ accepting
        /\ \A c \in Callers : pc[c] \in {"idle", "abandoned", "returned"}
    BY <1>1 DEF AtRest
  <2>3. Slots = {0} /\ Msg(0).operation = "none"
    BY <2>2 DEF Slots, Msg, NoMessage
  <2>4. \A c \in Callers : ~Withdraws(c)
    BY <2>2, <2>3 DEF Withdraws
  <2> QED BY <2>1, <2>2, <2>4 DEF BarriersOK, TypeOK
<1>2. CInv => NoLeakedBarrier
  BY <1>1 DEF NoLeakedBarrier
<1> QED BY <1>2, ControllerInductive, PTL

-----------------------------------------------------------------------------
\* The calls of edits implement RequestService

Asked(c) == pc[c] # "idle" /\ op[c] = "edit"
up == ~Down

\* What a step that changes only the state of d leaves to the other clients
Others(d) == \A c \in Callers : c # d => (told(c)' = told(c)) /\ (Asked(c)' <=> Asked(c))

LEMMA OthersAside ==
  ASSUME NEW d,
         \A c \in Callers : c # d => /\ op'[c] = op[c] /\ pc'[c] = pc[c]
                                     /\ reply'[c] = reply[c] /\ outcome'[c] = outcome[c]
  PROVE  Others(d)
BY DEF Others, told, Asked

\* The mapped variables
LEMMA Mapped ==
  /\ Service!Init <=> /\ up = TRUE /\ {c \in Callers : Asked(c)} = {} /\ applied = {}
                      /\ [c \in Callers |-> told(c)] = [c \in Callers |-> "none"]
  /\ (up' = up /\ {c \in Callers : Asked(c)}' = {c \in Callers : Asked(c)}
      /\ applied' = applied /\ [c \in Callers |-> told(c)]' = [c \in Callers |-> told(c)])
     => UNCHANGED Service!vars
BY DEF Service!Init, Service!vars, Asked, up

LEMMA UpStays ==
  ASSUME Down' <=> Down
  PROVE  up' = up
BY Zenon DEF up

LEMMA SameClients ==
  ASSUME NEW d, Others(d), d \in Callers => (told(d)' = told(d)) /\ (Asked(d)' <=> Asked(d))
  PROVE  /\ {c \in Callers : Asked(c)}' = {c \in Callers : Asked(c)}
         /\ [c \in Callers |-> told(c)]' = [c \in Callers |-> told(c)]
<1>1. \A c \in Callers : (told(c)' = told(c)) /\ (Asked(c)' <=> Asked(c))
  BY DEF Others
<1> QED BY <1>1

LEMMA Stays ==
  ASSUME NEW d, Others(d), d \in Callers => (told(d)' = told(d)) /\ (Asked(d)' <=> Asked(d)),
         applied' = applied, Down' <=> Down
  PROVE  UNCHANGED Service!vars
BY UpStays, SameClients, Mapped

LEMMA GoesDown ==
  ASSUME NEW d, Others(d), d \in Callers => (told(d)' = told(d)) /\ (Asked(d)' <=> Asked(d)),
         applied' = applied, Down => Down'
  PROVE  [Service!Next]_(Service!vars)
<1>1. CASE Down' <=> Down
  BY <1>1, Stays
<1>2. CASE ~Down /\ Down'
  <2>1. up /\ up' = FALSE
    BY <1>2, Zenon DEF up
  <2>2. Service!GoDown
    BY <2>1, SameClients DEF Service!GoDown, Asked, up
  <2> QED BY <2>2 DEF Service!Next
<1> QED BY <1>1, <1>2

\* A caller acts: an edit is asked for, or refused; or a call that came back
\* ends as the reply says.
LEMMA CallerImplements ==
  ASSUME CInv, NEW c \in Callers,
         \/ \E kind \in {"edit", "wait"} : CallRequest(c, kind)
         \/ GoOn(c) \/ WaitOver(c) \/ Abandon(c)
  PROVE  [Service!Next]_(Service!vars)
<1>1. TypeOK /\ CallerOK(c) /\ c # Closer
  BY NamesAssumption DEF CInv, CallersOK
<1>2. /\ UNCHANGED <<accepting, stopped, failure, closing, barriers, applied, closer>>
      /\ reply'[Closer] = reply[Closer]
      /\ \A d \in Callers : d # c => /\ op'[d] = op[d] /\ pc'[d] = pc[d]
                                     /\ reply'[d] = reply[d] /\ outcome'[d] = outcome[d]
  <2>1. CASE \E kind \in {"edit", "wait"} : CallRequest(c, kind)
    BY <1>1, <2>1 DEF CallRequest, Return, controlState, context, TypeOK
  <2>2. CASE Replied(c)
    BY <1>1, <2>2 DEF Replied, Return, controlState, context, TypeOK
  <2>3. CASE Withdraw(c)
    BY <1>1, <2>3 DEF Withdraw, Return, controlState, context, TypeOK
  <2>4. CASE Withdrawn(c)
    BY <1>1, <2>4 DEF Withdrawn, Return, controlState, context, TypeOK
  <2>5. CASE WaitOver(c)
    BY <1>1, <2>5 DEF WaitOver, Return, controlState, context, TypeOK
  <2>6. CASE Abandon(c)
    BY <1>1, <2>6 DEF Abandon, Return, controlState, context, TypeOK
  <2> QED BY <2>1, <2>2, <2>3, <2>4, <2>5, <2>6 DEF GoOn
<1>3. Others(c) /\ applied' = applied /\ (Down' <=> Down)
  BY <1>2, OthersAside DEF Down, Begun
<1>4. ASSUME NEW kind \in {"edit", "wait"}, CallRequest(c, kind)
      PROVE  [Service!Next]_(Service!vars)
  <2>1. /\ pc[c] = "idle" /\ outcome[c] = "none" /\ reply[c] = "none" /\ reply' = reply
        /\ op'[c] = kind /\ told(c) = "none" /\ ~Asked(c)
    BY <1>1, <1>4 DEF CallRequest, CallerOK, TypeOK, told, Asked
  <2>2. CASE Refusal(FALSE) = "none"
    <3>1. outcome' = outcome /\ pc'[c] = "called"
      BY <1>1, <1>4, <2>2 DEF CallRequest, TypeOK
    <3>2. told(c)' = "none" /\ (Asked(c)' <=> kind = "edit")
      BY <2>1, <3>1 DEF told, Asked
    <3>3. CASE kind = "wait"
      BY <1>3, <2>1, <3>2, <3>3, Stays
    <3>4. CASE kind = "edit"
      <4>1. {d \in Callers : Asked(d)}' = {d \in Callers : Asked(d)} \cup {c}
        BY <1>3, <3>2, <3>4 DEF Others
      <4>2. [d \in Callers |-> told(d)]' = [d \in Callers |-> told(d)]
        BY <1>3, <2>1, <3>2 DEF Others
      <4>3. Service!Ask(c)
        BY <1>3, <2>1, <4>1, <4>2, UpStays DEF Service!Ask, Asked, up
      <4> QED BY <4>3 DEF Service!Next
    <3> QED BY <3>3, <3>4
  <2>3. CASE Refusal(FALSE) # "none"
    <3>1. outcome'[c] \in {"failed", "closed"} /\ pc'[c] = "returned"
      BY <1>1, <1>4, <2>3 DEF CallRequest, Return, Refusal, TypeOK
    <3>2. /\ told(c)' = IF kind = "edit" THEN "refused" ELSE "none"
          /\ Asked(c)' <=> kind = "edit"
      BY <2>1, <3>1 DEF told, Asked
    <3>3. CASE kind = "wait"
      BY <1>3, <2>1, <3>2, <3>3, Stays
    <3>4. CASE kind = "edit"
      <4>1. {d \in Callers : Asked(d)}' = {d \in Callers : Asked(d)} \cup {c}
        BY <1>3, <3>2, <3>4 DEF Others
      <4>2. [d \in Callers |-> told(d)]' = [[d \in Callers |-> told(d)] EXCEPT ![c] = "refused"]
        BY <1>3, <3>2, <3>4 DEF Others
      <4>3. Service!Refuse(c)
        BY <1>3, <2>1, <4>1, <4>2, UpStays DEF Service!Refuse, Asked, up
      <4> QED BY <4>3 DEF Service!Next
    <3> QED BY <3>3, <3>4
  <2> QED BY <2>2, <2>3
<1>5. CASE GoOn(c) \/ WaitOver(c) \/ Abandon(c)
  <2>1. op' = op /\ pc[c] # "idle" /\ pc'[c] # "idle"
    BY <1>1, <1>5 DEF GoOn, Replied, Withdraw, Withdrawn, WaitOver, Abandon, Return, TypeOK
  <2>2. (told(c)' = told(c)) /\ (Asked(c)' <=> Asked(c))
    <3>1. CASE op[c] = "wait"
      BY <2>1, <3>1 DEF told, Asked
    <3>2. CASE op[c] = "edit"
      <4>1. Replied(c)
        BY <1>1, <1>5, <3>2 DEF CallerOK, GoOn, Withdraw, Withdrawn, WaitOver, Abandon
      <4>2. outcome[c] = "none" /\ outcome'[c] = reply[c] /\ reply[c] # "none"
        BY <1>1, <3>2, <4>1 DEF CallerOK, Replied, Return, TypeOK
      <4> QED BY <2>1, <3>2, <4>2 DEF told, Asked
    <3> QED BY <1>1, <3>1, <3>2 DEF TypeOK
  <2> QED BY <1>3, <2>2, Stays
<1> QED BY <1>4, <1>5

\* An edit is applied, answered with an error, or both and the service fails.
LEMMA EditImplements ==
  ASSUME CInv, ExecuteEdit
  PROVE  [Service!Next]_(Service!vars)
<1>1. TypeOK /\ CallersOK
  BY DEF CInv
<1>2. /\ turn # NoMessage /\ turn.operation = "edit" /\ ~failure
      /\ UNCHANGED <<pc, op, outcome, closer>>
  BY Frame DEF ExecuteEdit, Allowed
<1>3. PICK c \in Callers : c = turn.from /\ c # Closer /\ ~Down
  BY <1>2, TurnOK DEF FormOK, Down
<1>4. /\ pc[c] = "called" /\ op[c] = "edit" /\ reply[c] = "none" /\ outcome[c] = "none"
      /\ c \notin applied
  BY <1>1, <1>2, <1>3, TurnOK DEF StageOK, CallersOK, CallerOK
<1>5. ASSUME NEW result \in {"ok", "error"}, Answer(result)
      PROVE  /\ reply'[c] = result /\ Others(c) /\ reply'[Closer] = reply[Closer]
             /\ told(c) = "none" /\ told(c)' = result /\ Asked(c) /\ (Asked(c)' <=> Asked(c))
  <2>1. \A d \in Callers \cup {Closer} : reply'[d] = IF d = c THEN result ELSE reply[d]
    BY <1>1, <1>3, <1>5, Answered DEF Replies
  <2>2. Others(c)
    BY <1>2, <2>1, OthersAside
  <2> QED BY <1>2, <1>3, <1>4, <2>1, <2>2 DEF told, Asked
<1>6. ASSUME NEW result \in {"ok", "error"}, Answer(result)
      PROVE  /\ {d \in Callers : Asked(d)}' = {d \in Callers : Asked(d)}
             /\ [d \in Callers |-> told(d)]' = [[d \in Callers |-> told(d)] EXCEPT ![c] = result]
             /\ c \in {d \in Callers : Asked(d)} /\ [d \in Callers |-> told(d)][c] = "none"
  BY <1>5, <1>6 DEF Others
<1>7. up = TRUE
  BY <1>3, Zenon DEF up
<1>8. CASE UNCHANGED sound /\ applied' = applied \cup {c} /\ Answer("ok")
  <2>1. Down' <=> Down
    BY <1>2, <1>5, <1>8 DEF sound, Down, Begun
  <2>2. up' = TRUE
    BY <1>7, <2>1, UpStays
  <2>3. Service!Apply(c)
    BY <1>4, <1>6, <1>7, <1>8, <2>2 DEF Service!Apply, Asked, up
  <2> QED BY <2>3 DEF Service!Next
<1>9. CASE UNCHANGED sound /\ applied' = applied /\ Answer("error")
  <2>1. Down' <=> Down
    BY <1>2, <1>5, <1>9 DEF sound, Down, Begun
  <2>2. Service!Answer(c, "error")
    BY <1>6, <1>9, <2>1, UpStays DEF Service!Answer, Asked, up
  <2> QED BY <2>2 DEF Service!Next
<1>10. CASE Poison /\ applied' = applied \cup {c} /\ Answer("error")
  <2>1. Down'
    BY <1>10 DEF Poison, Down
  <2>2. up' = FALSE
    BY <2>1, Zenon DEF up
  <2>3. Service!Apply(c)
    BY <1>4, <1>6, <1>7, <1>10, <2>2 DEF Service!Apply, Asked, up
  <2> QED BY <2>3 DEF Service!Next
<1> QED BY <1>3, <1>8, <1>9, <1>10 DEF ExecuteEdit

\* Refused by a poisoned controller
LEMMA RefusalImplements ==
  ASSUME CInv, ExecuteRefused
  PROVE  [Service!Next]_(Service!vars)
<1>1. TypeOK /\ CallersOK
  BY DEF CInv
<1>2. /\ turn # NoMessage /\ failure /\ failure' /\ Answer("failed")
      /\ UNCHANGED <<pc, op, outcome, closer, applied>>
  BY DEF ExecuteRefused, callers, context, sound
<1>3. PICK d : d = turn.from
  OBVIOUS
<1>4. \A c \in Callers \cup {Closer} : reply'[c] = IF c = d THEN "failed" ELSE reply[c]
  BY <1>1, <1>2, <1>3, Answered DEF Replies
<1>5. Others(d) /\ (Down' <=> Down)
  BY <1>2, <1>4, OthersAside DEF Down
<1>6. CASE turn.operation = "edit"
  <2>1. /\ d \in Callers /\ op[d] = "edit" /\ pc[d] = "called" /\ reply[d] = "none"
        /\ outcome[d] = "none" /\ d \notin applied
    BY <1>1, <1>2, <1>3, <1>6, TurnOK DEF FormOK, StageOK, CallersOK, CallerOK
  <2>2. told(d) = "none" /\ told(d)' = "refused" /\ Asked(d) /\ (Asked(d)' <=> Asked(d))
    BY <1>2, <1>4, <2>1 DEF told, Asked
  <2>3. /\ {c \in Callers : Asked(c)}' = {c \in Callers : Asked(c)}
        /\ [c \in Callers |-> told(c)]' = [[c \in Callers |-> told(c)] EXCEPT ![d] = "refused"]
        /\ d \in {c \in Callers : Asked(c)} /\ [c \in Callers |-> told(c)][d] = "none"
    BY <1>5, <2>1, <2>2 DEF Others
  <2>4. Service!Answer(d, "refused")
    BY <1>2, <1>5, <2>1, <2>3, UpStays DEF Service!Answer, Asked, up
  <2> QED BY <2>1, <2>4 DEF Service!Next
<1>7. CASE turn.operation # "edit"
  <2>1. d \in Callers => op[d] = "wait"
    BY <1>1, <1>2, <1>3, <1>7, TurnOK DEF FormOK, StageOK, CallersOK, CallerOK
  <2>2. d \in Callers => (told(d)' = told(d)) /\ (Asked(d)' <=> Asked(d))
    BY <1>2, <2>1 DEF told, Asked
  <2> QED BY <1>2, <1>5, <2>2, Stays
<1> QED BY <1>6, <1>7

\* The messages of a wait and of the side loop, and those of the closer
LEMMA TurnImplements ==
  ASSUME CInv, ExecuteInstall \/ ExecuteWithdraw \/ ExecuteEvent \/ ExecuteBeginClose \/ ExecuteClosing
  PROVE  [Service!Next]_(Service!vars)
<1>1. TypeOK /\ CallersOK
  BY DEF CInv
<1>2. /\ turn # NoMessage /\ UNCHANGED <<pc, op, outcome, closer, applied>>
      /\ turn.operation \in {"install", "withdraw", "event", "tick", "delivered", "begin_close",
                             "close_wait", "close_finish", "finish_close"}
  BY Frame DEF ExecuteInstall, ExecuteWithdraw, ExecuteEvent, ExecuteBeginClose, ExecuteClosing, context
<1>3. PICK d : d = turn.from
  OBVIOUS
<1>4. \A c \in Callers \cup {Closer} : c # d => reply'[c] = reply[c]
  <2>1. CASE Answer("ok")
    BY <1>1, <1>3, <2>1, Answered DEF Replies
  <2>2. CASE reply' = reply
    BY <2>2
  <2> QED BY <2>1, <2>2
          DEF ExecuteInstall, ExecuteWithdraw, ExecuteEvent, ExecuteBeginClose, ExecuteClosing
<1>5. Others(d)
  BY <1>2, <1>4, OthersAside
<1>6. d \in Callers => op[d] = "wait" /\ d # Closer
  BY <1>1, <1>2, <1>3, TurnOK DEF FormOK, StageOK, CallersOK, CallerOK
<1>7. d \in Callers => (told(d)' = told(d)) /\ (Asked(d)' <=> Asked(d))
  BY <1>2, <1>6 DEF told, Asked
<1>8. failure => failure'
  BY DEF ExecuteInstall, ExecuteWithdraw, ExecuteEvent, ExecuteBeginClose, ExecuteClosing, sound, Poison
<1>9. Begun => Begun'
  <2>1. CASE d # Closer
    BY <1>2, <1>4, <2>1 DEF Begun
  <2>2. CASE d = Closer
    <3>1. ASSUME closer = "begin_close"
          PROVE  reply[Closer] = "none"
      BY <1>2, <1>3, <2>2, TurnOK DEF StageOK
    <3> QED BY <1>2, <3>1 DEF Begun
  <2> QED BY <2>1, <2>2
<1> QED BY <1>2, <1>5, <1>7, <1>8, <1>9, GoesDown DEF Down

\* Steps of the closer, messages taken, and messages nobody waits for
LEMMA AsideImplements ==
  ASSUME CInv, Take \/ Closing \/ CloseCall
               \/ \E operation \in {"event", "tick", "delivered"} : Event(operation)
  PROVE  [Service!Next]_(Service!vars)
<1>1. TypeOK
  BY DEF CInv
<1>2. UNCHANGED <<pc, op, outcome, applied, failure>>
  BY DEF Take, Closing, CloseCall, BeginClose, CloseNext, Stop, CloseReturn, Event, callers, context
<1>3. \A c \in Callers : reply'[c] = reply[c]
  <2>1. CASE CloseNext
    BY <1>1, <2>1, NamesAssumption DEF CloseNext, TypeOK
  <2>2. CASE Stop
    BY <2>2, StopAnswersNobody
  <2> QED BY <2>1, <2>2 DEF Take, Closing, CloseCall, BeginClose, CloseReturn, Event
<1>4. Begun => Begun'
  <2>1. CASE CloseNext
    BY <2>1 DEF CloseNext, Begun
  <2>2. CASE Stop
    BY <2>2 DEF Stop, Begun
  <2>3. CASE CloseCall \/ BeginClose \/ CloseReturn
    BY <2>3 DEF CloseCall, BeginClose, CloseReturn, Begun
  <2> QED BY <2>1, <2>2, <2>3 DEF Take, Closing, Event, Begun
<1>5. Others(Nobody) /\ Nobody \notin Callers
  BY <1>2, <1>3, OthersAside, NamesAssumption
<1> QED BY <1>2, <1>4, <1>5, GoesDown DEF Down

\* For any number of callers: an edit is applied at most once, before its
\* answer; a refused edit was not applied, and none is once the Context is down
\* (enqueue, _drain, poison and stop of controller.py).
THEOREM ImplementsService == Spec => AnswersTell
<1>1. Init => Service!Init
  <2> SUFFICES ASSUME Init PROVE Service!Init
    OBVIOUS
  <2>1. ~Down
    BY DEF Init, Down, Begun
  <2>2. up = TRUE
    BY <2>1, Zenon DEF up
  <2>3. \A c \in Callers : told(c) = "none" /\ ~Asked(c)
    BY DEF Init, told, Asked
  <2>4. applied = {} /\ {c \in Callers : Asked(c)} = {}
        /\ [c \in Callers |-> told(c)] = [c \in Callers |-> "none"]
    BY <2>3 DEF Init
  <2> QED BY <2>2, <2>4, Mapped
<1>2. CInv /\ [Next]_vars => [Service!Next]_(Service!vars)
  <2> SUFFICES ASSUME CInv, [Next]_vars PROVE [Service!Next]_(Service!vars)
    OBVIOUS
  <2>1. CASE Drain
    BY <2>1, AsideImplements, EditImplements, RefusalImplements, TurnImplements DEF Drain, Execution
  <2>2. CASE Closing \/ CloseCall \/ \E operation \in {"event", "tick", "delivered"} : Event(operation)
    BY <2>2, AsideImplements
  <2>3. ASSUME NEW c \in Callers, \/ \E kind \in {"edit", "wait"} : CallRequest(c, kind)
                                  \/ GoOn(c) \/ WaitOver(c) \/ Abandon(c)
        PROVE  [Service!Next]_(Service!vars)
    BY <2>3, CallerImplements
  <2>4. CASE UNCHANGED vars
    <3>1. UNCHANGED <<pc, op, outcome, reply, applied, failure, closer>>
      BY <2>4 DEF vars, callers, context
    <3>2. Others(Nobody) /\ Nobody \notin Callers /\ (Down' <=> Down)
      BY <3>1, OthersAside, NamesAssumption DEF Down, Begun
    <3> QED BY <3>1, <3>2, Stays
  <2> QED BY <2>1, <2>2, <2>3, <2>4 DEF Next
<1> QED BY <1>1, <1>2, ControllerInductive, PTL DEF Spec, AnswersTell, Service!Spec

=============================================================================
