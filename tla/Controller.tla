------------------------------ MODULE Controller ------------------------------
(***************************************************************************)
(* The ingress of a Context (controller.py, the waits of ingress.py, and   *)
(* close() of context.py): callers put messages into one queue, a single   *)
(* thread executes them one after the other and answers each, a failure    *)
(* inside the engine poisons the controller, and close() shuts it down     *)
(* behind whatever was accepted before.                                    *)
(*                                                                         *)
(* What a message does to the graph is abstracted to whether it was        *)
(* applied; Runs has the rest.                                             *)
(***************************************************************************)
EXTENDS Naturals, Sequences, FiniteSets, SequencesExt

CONSTANTS
  Callers,     \* the threads that use the Context, one request each
  MaxEvents    \* bound: messages from the side loop and the mount service

ASSUME CallersAssumption == IsFiniteSet(Callers) /\ MaxEvents \in Nat

VARIABLES
  queue,      \* Controller.queue
  accepting,  \* Controller.accepting
  stopped,    \* Controller.stopped
  failure,    \* Controller.failure is not None
  turn,       \* the message being executed, if any
  closing,    \* Context._closing
  barriers,   \* the callers whose future is in Context._barriers
  applied,    \* the callers whose edit has been published in the graph
  pc,         \* where each caller is
  op,         \* what each caller wants: "edit" or "wait"
  reply,      \* the reply of the message it sent last
  future,     \* the future of its barrier
  outcome,    \* how its call ended
  closer,     \* where the thread in close() is
  events      \* how many events were sent

context == <<barriers, applied, future>>
callers == <<pc, op, outcome>>
vars == <<queue, accepting, stopped, failure, turn, closing, context, callers, reply, closer, events>>

Nobody == "nobody"
Closer == "closer"
Message == [operation: {"edit", "install", "withdraw", "event", "tick", "delivered",
                        "begin_close", "close_wait", "close_finish", "finish_close"},
            from: Callers \cup {Nobody, Closer}]
NoMessage == [operation |-> "none", from |-> Nobody]
ASSUME NamesAssumption == Nobody \notin Callers /\ Closer \notin Callers
Replies == {"none", "ok", "error", "failed", "closed"}

TypeOK ==
  /\ queue \in Seq(Message) /\ turn \in Message \cup {NoMessage}
  /\ accepting \in BOOLEAN /\ stopped \in BOOLEAN /\ failure \in BOOLEAN /\ closing \in BOOLEAN
  /\ barriers \in SUBSET Callers /\ applied \in SUBSET Callers
  /\ pc \in [Callers -> {"idle", "called", "abandoned", "waiting", "leaving", "withdrawing", "returned"}]
  /\ op \in [Callers -> {"edit", "wait"}]
  /\ reply \in [Callers \cup {Closer} -> Replies]
  /\ future \in [Callers -> {"none", "pending", "answer", "failed", "closed"}]
  /\ outcome \in [Callers -> Replies \cup {"timeout"}]
  /\ closer \in {"open", "flagged", "refusing", "begin_close", "close_wait", "close_finish",
                 "finish_close", "stopping", "closed"}
  /\ events \in 0..MaxEvents

-----------------------------------------------------------------------------
\* Controller.enqueue, under the lock: why a message is refused, if it is
Refusal(internal) == CASE failure /\ ~internal -> "failed"
                       [] stopped \/ (~accepting /\ ~internal) -> "closed"
                       [] OTHER -> "none"

Send(operation, from) ==
  queue' = Append(queue, [operation |-> operation, from |-> from])

\* notify: a message that is refused is dropped.
Notify(operation, internal) ==
  IF Refusal(internal) = "none" THEN Send(operation, Nobody) ELSE UNCHANGED queue

Return(c, result) == /\ pc' = [pc EXCEPT ![c] = "returned"]
                     /\ outcome' = [outcome EXCEPT ![c] = result]

-----------------------------------------------------------------------------
\* The callers.  A wait is three messages long: install, then the barrier's
\* future, then withdraw (_wait, _wait_async).

controlState == <<accepting, stopped, failure, turn, closing, context, closer, events>>

First(kind) == IF kind = "wait" THEN "install" ELSE "edit"
CallRequest(c, kind) ==
  /\ pc[c] = "idle"
  /\ op' = [op EXCEPT ![c] = kind]
  /\ IF Refusal(FALSE) = "none"
     THEN /\ Send(First(kind), c)
          /\ pc' = [pc EXCEPT ![c] = "called"] /\ UNCHANGED outcome
     ELSE Return(c, Refusal(FALSE)) /\ UNCHANGED queue
  /\ UNCHANGED <<reply, controlState>>

\* The reply of the request arrived.
Replied(c) ==
  /\ pc[c] = "called" /\ reply[c] # "none"
  /\ IF op[c] = "wait" /\ reply[c] = "ok"
     THEN pc' = [pc EXCEPT ![c] = "waiting"] /\ UNCHANGED outcome
     ELSE Return(c, reply[c])
  /\ reply' = [reply EXCEPT ![c] = "none"]
  /\ UNCHANGED <<op, queue, controlState>>

\* _wait_async is cancelled before "install" is answered, or as it is: the done
\* callback of the reply withdraws the barrier.
AbandonForgotten(c) ==
  /\ pc[c] = "called" /\ op[c] = "wait"
  /\ pc' = [pc EXCEPT ![c] = "abandoned"]
  /\ UNCHANGED <<op, outcome, reply, queue, controlState>>
Abandon(c) ==
  /\ pc[c] = "called" /\ op[c] = "wait"
  /\ pc' = [pc EXCEPT ![c] = "abandoned"]
  /\ IF reply[c] = "ok" /\ Refusal(FALSE) = "none" THEN Send("withdraw", c) ELSE UNCHANGED queue
  /\ UNCHANGED <<op, outcome, reply, controlState>>

\* The wait is over, or timed out: withdraw the barrier, if the Context still
\* accepts messages.
ResultsUnchecked(c) == {"timeout", future[c]}
Results(c) == {"timeout"} \cup ({future[c]} \ {"pending"})
WaitOver(c) ==
  /\ pc[c] = "waiting"
  /\ \E result \in Results(c) :
       outcome' = [outcome EXCEPT ![c] = IF result = "answer" THEN "ok" ELSE result]
  /\ pc' = [pc EXCEPT ![c] = IF accepting THEN "leaving" ELSE "returned"]
  /\ UNCHANGED <<op, reply, queue, controlState>>

\* A refusal of the withdrawal replaces the result of the wait.
Withdraw(c) ==
  /\ pc[c] = "leaving"
  /\ IF Refusal(FALSE) = "none"
     THEN /\ Send("withdraw", c)
          /\ pc' = [pc EXCEPT ![c] = "withdrawing"] /\ UNCHANGED outcome
     ELSE Return(c, Refusal(FALSE)) /\ UNCHANGED queue
  /\ UNCHANGED <<op, reply, controlState>>

Withdrawn(c) ==
  /\ pc[c] = "withdrawing" /\ reply[c] # "none"
  /\ Return(c, IF reply[c] = "ok" THEN outcome[c] ELSE reply[c])
  /\ reply' = [reply EXCEPT ![c] = "none"]
  /\ UNCHANGED <<op, queue, controlState>>

\* A message nobody waits for: a result or a timer of the side loop ("event"),
\* a wakeup or an acknowledgement of the mount service (both internal).
Event(operation) ==
  /\ events < MaxEvents /\ events' = events + 1
  /\ Notify(operation, operation # "event")
  /\ UNCHANGED <<callers, reply, accepting, stopped, failure, turn, closing, context, closer>>

-----------------------------------------------------------------------------
\* _drain, on the controller thread: take a message, execute and answer it.

Take ==
  /\ turn = NoMessage /\ queue # <<>>
  /\ turn' = Head(queue) /\ queue' = Tail(queue)
  /\ UNCHANGED <<accepting, stopped, failure, closing, context, callers, reply, closer, events>>

\* The messages that are executed even by a poisoned controller.
AllowedInstall == {"begin_close", "close_wait", "close_finish", "finish_close", "delivered", "install"}
AllowedUnfinished == {"begin_close", "close_wait", "finish_close", "delivered"}
Allowed == {"begin_close", "close_wait", "close_finish", "finish_close", "delivered"}

Answer(result) ==
  reply' = [c \in DOMAIN reply |-> IF c = turn.from THEN result ELSE reply[c]]

\* _check_barriers: some of the waits are over.
CheckBarriers(waits) ==
  \E over \in SUBSET waits :
    /\ barriers' = waits \ over
    /\ future' = [c \in Callers |-> IF c \in over THEN "answer"
                                    ELSE IF c \in waits THEN "pending" ELSE future[c]]

\* _after_turn
AfterTurn(waits) ==
  \/ ~closing /\ CheckBarriers(waits)
  \/ closing /\ barriers' = waits /\ UNCHANGED future

\* The waiters of the barriers get an exception.
FailBarriers(why) ==
  /\ barriers' = {}
  /\ future' = [c \in Callers |-> IF c \in barriers THEN why ELSE future[c]]

\* poison: an error in the engine itself
Poison ==
  /\ failure' = TRUE /\ accepting' = FALSE /\ closing' = TRUE
  /\ FailBarriers("failed")

sound == <<failure, accepting, closing>>

Execute(operations) ==
  /\ turn # NoMessage /\ turn.operation \in operations
  /\ ~failure \/ turn.operation \in Allowed
  /\ turn' = NoMessage
  /\ UNCHANGED <<callers, stopped, closer, events>>

\* The controller was poisoned after the message had been accepted.
ExecuteRefusedSilently ==
  /\ turn # NoMessage /\ failure /\ turn.operation \notin Allowed
  /\ turn' = NoMessage
  /\ UNCHANGED <<queue, context, callers, sound, stopped, closer, events, reply>>
ExecuteRefused ==
  /\ turn # NoMessage /\ failure /\ turn.operation \notin Allowed
  /\ turn' = NoMessage /\ Answer("failed")
  /\ UNCHANGED <<queue, context, callers, sound, stopped, closer, events>>

\* An edit is published; or it is invalid and changes nothing; or it is
\* published and deriving its consequences fails.
ExecuteEdit ==
  /\ Execute({"edit"}) /\ UNCHANGED queue
  /\ \/ /\ applied' = applied \cup {turn.from} /\ Answer("ok")
        /\ AfterTurn(barriers) /\ UNCHANGED sound
     \/ /\ Answer("error") /\ AfterTurn(barriers) /\ UNCHANGED <<applied, sound>>
     \/ /\ applied' = applied \cup {turn.from} /\ Answer("error") /\ Poison

ExecuteInstall ==
  /\ Execute({"install"})
  /\ CheckBarriers(barriers \cup {turn.from}) /\ Answer("ok")
  /\ IF pc[turn.from] = "abandoned" /\ Refusal(FALSE) = "none"
     THEN Send("withdraw", turn.from) ELSE UNCHANGED queue
  /\ UNCHANGED <<applied, sound>>

ExecuteWithdraw ==
  /\ Execute({"withdraw"}) /\ UNCHANGED <<queue, applied, sound>>
  /\ AfterTurn(barriers \ {turn.from}) /\ Answer("ok")

\* A message of class 5 that raises poisons the controller.
ExecuteEvent ==
  /\ Execute({"event", "tick", "delivered"}) /\ UNCHANGED <<queue, applied, reply>>
  /\ \/ AfterTurn(barriers) /\ UNCHANGED sound
     \/ ~failure /\ Poison

ExecuteBeginClose ==
  /\ Execute({"begin_close"}) /\ UNCHANGED <<queue, applied, failure, accepting>>
  /\ closing' = TRUE /\ FailBarriers("closed") /\ Answer("ok")

ExecuteClosing ==
  /\ Execute({"close_wait", "close_finish", "finish_close"})
  /\ Answer("ok") /\ UNCHANGED <<queue, context, sound>>

-----------------------------------------------------------------------------
\* Context.close() on its caller's thread

CloseCall == /\ closer = "open" /\ closer' = "flagged" /\ closing' = TRUE
             /\ UNCHANGED <<queue, accepting, stopped, failure, turn, context, callers, reply, events>>

\* Controller.begin_close: first refuse, then send, or messages would be
\* executed behind _begin_close.
BeginCloseAccepting ==
  /\ closer = "flagged" /\ closer' = "refusing"
  /\ UNCHANGED <<queue, accepting, stopped, failure, turn, closing, context, callers, reply, events>>
BeginClose == /\ closer = "flagged" /\ closer' = "refusing" /\ accepting' = FALSE
              /\ UNCHANGED <<queue, stopped, failure, turn, closing, context, callers, reply, events>>

\* From one message to the next, each after the reply of the one before; the
\* last waits for the side loop too.
CloseNext ==
  /\ \E step \in {<<"refusing", "begin_close">>, <<"begin_close", "close_wait">>,
                   <<"close_wait", "close_finish">>, <<"close_finish", "finish_close">>} :
       /\ closer = step[1] /\ closer' = step[2] /\ Send(step[2], Closer)
       /\ closer = "refusing" \/ reply[Closer] = "ok"
  /\ reply' = [reply EXCEPT ![Closer] = "none"]
  /\ UNCHANGED <<accepting, stopped, failure, turn, closing, context, callers, events>>

\* stop: what is still queued is answered here.
Stop ==
  /\ closer = "finish_close" /\ reply[Closer] = "ok" /\ closer' = "stopping"
  /\ accepting' = FALSE /\ stopped' = TRUE
  /\ reply' = [c \in DOMAIN reply |->
                 IF \E m \in ToSet(queue) : m.from = c THEN "closed" ELSE reply[c]]
  /\ queue' = <<>>
  /\ UNCHANGED <<failure, turn, closing, context, callers, events>>

CloseReturn == /\ closer = "stopping" /\ turn = NoMessage /\ closer' = "closed"
               /\ UNCHANGED <<queue, accepting, stopped, failure, turn, closing, context, callers,
                              reply, events>>

-----------------------------------------------------------------------------
Init ==
  /\ queue = <<>> /\ turn = NoMessage
  /\ accepting = TRUE /\ stopped = FALSE /\ failure = FALSE /\ closing = FALSE
  /\ barriers = {} /\ applied = {}
  /\ pc = [c \in Callers |-> "idle"] /\ op = [c \in Callers |-> "edit"]
  /\ reply = [c \in Callers \cup {Closer} |-> "none"]
  /\ future = [c \in Callers |-> "none"] /\ outcome = [c \in Callers |-> "none"]
  /\ closer = "open" /\ events = 0

Execution == \/ ExecuteRefused \/ ExecuteEdit \/ ExecuteInstall \/ ExecuteWithdraw
             \/ ExecuteEvent \/ ExecuteBeginClose \/ ExecuteClosing
Drain == Take \/ Execution
GoOn(c) == Replied(c) \/ Withdraw(c) \/ Withdrawn(c) \/ (future[c] # "pending" /\ WaitOver(c))
Closing == BeginClose \/ CloseNext \/ Stop \/ CloseReturn

Next == \/ Drain \/ Closing \/ CloseCall
        \/ \E c \in Callers : \/ \E kind \in {"edit", "wait"} : CallRequest(c, kind)
                              \/ GoOn(c) \/ WaitOver(c) \/ Abandon(c)
        \/ \E operation \in {"event", "tick", "delivered"} : Event(operation)

Spec == Init /\ [][Next]_vars

\* The controller thread drains, a caller goes on when its future is done, and
\* a close() that began continues.
Fairness == /\ WF_vars(Drain) /\ WF_vars(Closing)
            /\ \A c \in Callers : WF_vars(GoOn(c))
FairSpec == Spec /\ Fairness

-----------------------------------------------------------------------------
\* Properties

\* The engine no longer works for the callers: it was poisoned, or _begin_close
\* was executed.
Begun == \/ closer \in {"close_wait", "close_finish", "finish_close", "stopping", "closed"}
         \/ closer = "begin_close" /\ reply[Closer] = "ok"
Down == failure \/ Begun

\* Whoever waited when the Context was poisoned or closed is told so, and no
\* wait is installed behind that (poison, _begin_close, the order in which
\* begin_close() refuses and sends).
NoStrandedWaiter ==
  Down => /\ barriers = {}
          /\ \A c \in Callers : pc[c] \in {"called", "waiting"} => future[c] # "pending"

\* A caller that is done, by an answer, a timeout or a cancellation, leaves no
\* barrier behind (the withdrawals of _wait and _wait_async).
AtRest == /\ queue = <<>> /\ turn = NoMessage /\ accepting
          /\ \A c \in Callers : pc[c] \in {"idle", "abandoned", "returned"}
NoLeakedBarrier == AtRest => barriers = {}

\* Every call comes back, whatever happens to the Context in the meantime
\* ("the failing request still receives its original exception", and stop()
\* answers what was never executed).
CallReturns == \A c \in Callers :
  pc[c] \in {"called", "leaving", "withdrawing"} ~> pc[c] \in {"waiting", "abandoned", "returned"}

\* close() returns, also of a Context that was poisoned before or that is being
\* poisoned (the operations _drain lets through after a failure).
CloseReturns == closer = "flagged" ~> closer = "closed"

\* An edit is applied at most once and answered after it; a caller that was
\* refused (ClosedContextError, ControllerFailedError) knows that its edit was
\* not applied; and nothing is applied once the Context is down.
told(c) == LET result == IF outcome[c] # "none" THEN outcome[c] ELSE reply[c]
           IN IF op[c] # "edit" THEN "none"
              ELSE IF result \in {"failed", "closed"} THEN "refused" ELSE result
Service == INSTANCE RequestService WITH
  Clients <- Callers, up <- ~Down, applied <- applied,
  asked <- {c \in Callers : pc[c] # "idle" /\ op[c] = "edit"},
  answer <- [c \in Callers |-> told(c)]
AnswersTell == Service!Spec

-----------------------------------------------------------------------------
\* What makes the invariants inductive

\* The message being executed and those behind it
Slots == 0..Len(queue)
Msg(i) == IF i = 0 THEN turn ELSE queue[i]

\* A caller, and the closer, has one message on its way at most.
FormOK(m) ==
  /\ m.from \in Callers <=> m.operation \in {"edit", "install", "withdraw"}
  /\ m.from = Closer <=> m.operation \in {"begin_close", "close_wait", "close_finish", "finish_close"}
MessagesOK ==
  /\ \A i \in Slots : FormOK(Msg(i))
  /\ \A i, j \in Slots : Msg(i).from # Nobody /\ Msg(i).from = Msg(j).from => i = j

\* Where the sender of a message is
StageOK(m) ==
  LET c == m.from
  IN /\ m.operation = "edit" => /\ op[c] = "edit" /\ pc[c] = "called"
                                /\ reply[c] = "none" /\ c \notin applied
     /\ m.operation = "install" => /\ op[c] = "wait" /\ reply[c] = "none"
                                   /\ pc[c] \in {"called", "abandoned"}
     /\ m.operation = "withdraw" => /\ pc[c] \in {"withdrawing", "abandoned"}
                                    /\ pc[c] = "withdrawing" => reply[c] = "none"
     /\ c = Closer => reply[c] = "none" /\ closer = m.operation
StagesOK == \A i \in Slots : StageOK(Msg(i))

\* What the callers of edits, and those who have not called, were told
CallerOK(c) ==
  /\ pc[c] \in {"idle", "waiting", "leaving"} => reply[c] = "none"
  /\ pc[c] \in {"idle", "called"} => outcome[c] = "none"
  /\ pc[c] \in {"waiting", "abandoned", "leaving", "withdrawing"} => op[c] = "wait"
  /\ outcome[c] = "timeout" => op[c] = "wait"
  /\ c \in applied => op[c] = "edit" /\ pc[c] # "idle"
CallersOK == \A c \in Callers : CallerOK(c)

\* A refusal is for good.
FlagsOK == accepting => ~failure /\ ~stopped /\ closer \in {"open", "flagged"}

\* No request is behind begin_close, or left once it was executed.
OrderOK ==
  closer \notin {"open", "flagged", "refusing"} =>
    \A i \in Slots : Msg(i).from \in Callers =>
      \E j \in Slots : i < j /\ Msg(j).operation = "begin_close"

\* Who has a barrier, and will withdraw it
Withdraws(c) == \/ pc[c] = "called" /\ reply[c] = "ok"
                \/ pc[c] \in {"waiting", "leaving"}
                \/ \E i \in Slots : Msg(i).from = c /\ Msg(i).operation = "withdraw"
BarriersOK ==
  /\ Down => barriers = {}
  /\ \A c \in Callers \ barriers :
       pc[c] \in {"idle", "called", "waiting"} => future[c] # "pending"
  /\ \A c \in barriers : op[c] = "wait" /\ pc[c] # "idle" /\ (accepting => Withdraws(c))

CInv == TypeOK /\ MessagesOK /\ StagesOK /\ CallersOK /\ FlagsOK /\ OrderOK /\ BarriersOK

=============================================================================
