------------------------------ MODULE EventBus ------------------------------
(***************************************************************************)
(* MudBus: a synchronous publish-subscribe bus with a bounded log.  The    *)
(* bus is used from one thread, but handlers are code: while an emit       *)
(* notifies them they may emit, subscribe and unsubscribe, so emits nest.  *)
(* Coroutines on the event loop wait for events between the emits.         *)
(***************************************************************************)
EXTENDS Integers, Sequences, SequencesExt

CONSTANTS
  Types,       \* event types
  Waiters,     \* coroutines that call wait_for
  MaxLog,      \* maxlen of the log
  MaxEvents,   \* bound on the events emitted
  MaxRegs      \* bound on the subscriptions made

ASSUME LogHasRoom   == MaxLog \in Nat \ {0}
ASSUME BusBounds    == MaxEvents \in Nat /\ MaxRegs \in Nat

VARIABLES
  sequence,   \* the last sequence number given
  log,        \* the deque of committed events
  regs,       \* every subscription ever made, in order; each has its own callable
  handlers,   \* handlers[ty]: the subscriptions notified of ty, in order
  stack,      \* the emits in progress, innermost last
  promises,   \* promises[ty]: the futures registered under ty
  wait,       \* wait[w]: what became of the future of w
  calls,      \* history: the handler calls made, or scheduled, in order
  latest      \* history: the last event of each type

vars == <<sequence, log, regs, handlers, stack, promises, wait, calls, latest>>

Event  == [type : Types, seq : Nat]
Reg    == [type : Types, once : BOOLEAN, async : BOOLEAN]
\* One emit in progress: the index of the list iterator, the subscription whose
\* handler is running (0: none), those subscribed when it began.
Frame  == [type : Types, seq : Nat, next : Nat, running : Nat, due : SUBSET Nat]
Wait   == [state : {"none", "waiting", "answered", "timeout"}, type : Types \cup {""},
           since : Nat, seq : Nat]

Top       == stack[Len(stack)]
SetTop(f) == stack' = [stack EXCEPT ![Len(stack)] = f]

\* The iterator has reached the end of the list.
NotifiedAll(f) == f.running = 0 /\ f.next > Len(handlers[f.type])

\* Code that may call the bus is running: a handler, or the application.
CallerRuns == stack # <<>> => Top.running # 0

\* Mutants of Logged: the deque has no maxlen; when full it drops the new event.
LoggedUnbounded(e) == Append(log, e)
LoggedKeepsOldest(e) == IF Len(log) < MaxLog THEN Append(log, e) ELSE log

Logged(e) == IF Len(log) < MaxLog THEN Append(log, e) ELSE Append(Tail(log), e)

\* list.remove: later subscriptions move one place to the front.
Removed(r) == [handlers EXCEPT ![regs[r].type] = RemoveFirst(@, r)]

-----------------------------------------------------------------------------
Init ==
  /\ sequence = 0
  /\ log = <<>>
  /\ regs = <<>>
  /\ handlers = [ty \in Types |-> <<>>]
  /\ stack = <<>>
  /\ promises = [ty \in Types |-> {}]
  /\ wait = [w \in Waiters |-> [state |-> "none", type |-> "", since |-> 0, seq |-> 0]]
  /\ calls = <<>>
  /\ latest = [ty \in Types |-> 0]

\* emit up to STEP 3: the event is committed before anybody is told.
Emit(ty) ==
  /\ CallerRuns
  /\ sequence < MaxEvents
  /\ sequence' = sequence + 1
  /\ log' = Logged([type |-> ty, seq |-> sequence + 1])
  /\ latest' = [latest EXCEPT ![ty] = sequence + 1]
  /\ stack' = Append(stack, [type |-> ty, seq |-> sequence + 1, next |-> 1, running |-> 0,
                             due |-> ToSet(handlers[ty])])
  /\ UNCHANGED <<regs, handlers, promises, wait, calls>>

\* One turn of the loop in _notify_handlers, which iterates the list itself.  A
\* coroutine function is only scheduled; a one_time_wrapper that scheduled one
\* unsubscribes at once.
CallNext ==
  LET r == handlers[Top.type][Top.next]
  IN /\ stack # <<>>
     /\ Top.running = 0
     /\ ~NotifiedAll(Top)
     /\ calls' = Append(calls, [reg |-> r, seq |-> Top.seq])
     /\ SetTop([Top EXCEPT !.next = @ + 1, !.running = IF regs[r].async THEN 0 ELSE r])
     /\ handlers' = IF regs[r].async /\ regs[r].once THEN Removed(r) ELSE handlers
     /\ UNCHANGED <<sequence, log, regs, promises, wait, latest>>

\* Mutants of HandlerEnds: an exception ends the loop; an exception leaves the
\* one-time handler subscribed.
ErrorEndsLoop(raised) ==
  LET r == Top.running
  IN /\ stack # <<>>
     /\ r # 0
     /\ SetTop([Top EXCEPT !.running = 0,
                           !.next = IF raised THEN Len(handlers[Top.type]) + 1 ELSE @])
     /\ handlers' = IF regs[r].once THEN Removed(r) ELSE handlers
     /\ UNCHANGED <<sequence, log, regs, promises, wait, calls, latest>>

ErrorKeepsOnce(raised) ==
  LET r == Top.running
  IN /\ stack # <<>>
     /\ r # 0
     /\ SetTop([Top EXCEPT !.running = 0])
     /\ handlers' = IF regs[r].once /\ ~raised THEN Removed(r) ELSE handlers
     /\ UNCHANGED <<sequence, log, regs, promises, wait, calls, latest>>

\* A sync handler returns or raises: it makes no difference.  The wrapper of
\* once unsubscribes in a finally clause.
HandlerEnds(raised) ==
  LET r == Top.running
  IN /\ stack # <<>>
     /\ r # 0
     /\ SetTop([Top EXCEPT !.running = 0])
     /\ handlers' = IF regs[r].once THEN Removed(r) ELSE handlers
     /\ UNCHANGED <<sequence, log, regs, promises, wait, calls, latest>>

\* Mutants of Answered: a future that is done is set again; only one future is set.
AnsweredAgain(ty) == promises[ty]
AnsweredFirst(ty) == {w \in promises[ty] : wait[w].state = "waiting" /\ w = CHOOSE x \in promises[ty] : TRUE}

\* The futures an event of type ty resolves.
Answered(ty) == {w \in promises[ty] : wait[w].state = "waiting"}

\* The loop is over: _resolve_wait_promises, and emit returns.
FinishEmit ==
  LET ty == Top.type
  IN /\ stack # <<>>
     /\ NotifiedAll(Top)
     /\ wait' = [w \in Waiters |-> IF w \in Answered(ty)
                                   THEN [wait[w] EXCEPT !.state = "answered", !.seq = Top.seq]
                                   ELSE wait[w]]
     /\ promises' = [promises EXCEPT ![ty] = {}]
     /\ stack' = Front(stack)
     /\ UNCHANGED <<sequence, log, regs, handlers, calls, latest>>

\* Mutant of Subscribe: the newest handler comes first.
SubscribeInFront(ty, once, async) ==
  /\ CallerRuns
  /\ Len(regs) < MaxRegs
  /\ regs' = Append(regs, [type |-> ty, once |-> once, async |-> async])
  /\ handlers' = [handlers EXCEPT ![ty] = <<Len(regs) + 1>> \o @]
  /\ UNCHANGED <<sequence, log, stack, promises, wait, calls, latest>>

\* on and once.
Subscribe(ty, once, async) ==
  /\ CallerRuns
  /\ Len(regs) < MaxRegs
  /\ regs' = Append(regs, [type |-> ty, once |-> once, async |-> async])
  /\ handlers' = [handlers EXCEPT ![ty] = Append(@, Len(regs) + 1)]
  /\ UNCHANGED <<sequence, log, stack, promises, wait, calls, latest>>

\* The closure that on returned; a second call finds nothing to remove.
Unsubscribe(r) ==
  /\ CallerRuns
  /\ handlers' = Removed(r)
  /\ UNCHANGED <<sequence, log, regs, stack, promises, wait, calls, latest>>

WaitFor(w, ty) ==
  /\ stack = <<>>
  /\ wait[w].state = "none"
  /\ wait' = [wait EXCEPT ![w] = [state |-> "waiting", type |-> ty, since |-> sequence, seq |-> 0]]
  /\ promises' = [promises EXCEPT ![ty] = @ \cup {w}]
  /\ UNCHANGED <<sequence, log, regs, handlers, stack, calls, latest>>

\* asyncio.wait_for cancels the future; nobody takes it off the list.
TimeOut(w) ==
  /\ stack = <<>>
  /\ wait[w].state = "waiting"
  /\ wait' = [wait EXCEPT ![w].state = "timeout"]
  /\ UNCHANGED <<sequence, log, regs, handlers, stack, promises, calls, latest>>

ClearEventLog ==
  /\ CallerRuns
  /\ log' = <<>>
  /\ UNCHANGED <<sequence, regs, handlers, stack, promises, wait, calls, latest>>

Next ==
  \/ \E ty \in Types : Emit(ty)
  \/ CallNext
  \/ \E raised \in BOOLEAN : HandlerEnds(raised)
  \/ FinishEmit
  \/ \E ty \in Types, once, async \in BOOLEAN : Subscribe(ty, once, async)
  \/ \E r \in DOMAIN regs : Unsubscribe(r)
  \/ \E w \in Waiters : (\E ty \in Types : WaitFor(w, ty)) \/ TimeOut(w)
  \/ ClearEventLog

Spec == Init /\ [][Next]_vars

-----------------------------------------------------------------------------
TypeOK ==
  /\ sequence \in Nat
  /\ log \in Seq(Event)
  /\ Len(log) <= MaxLog
  /\ regs \in Seq(Reg)
  /\ handlers \in [Types -> Seq(Nat)]
  /\ stack \in Seq(Frame)
  /\ promises \in [Types -> SUBSET Waiters]
  /\ wait \in [Waiters -> Wait]
  /\ calls \in Seq([reg : Nat, seq : Nat])
  /\ latest \in [Types -> Nat]

\* The log is the recent past without a gap: consecutive numbers up to the last
\* one given, however emits nest and whenever the deque drops its oldest.
LogIsRecentPast ==
  \A i \in 1..Len(log) : log[i].seq = sequence - Len(log) + i

\* "Handlers are called in registration order": one event reaches its handlers in
\* the order they subscribed in, and each at most once, although subscriptions
\* come and go while the list is iterated.
RegistrationOrder ==
  \A i, j \in 1..Len(calls) :
    i < j /\ calls[i].seq = calls[j].seq => calls[i].reg < calls[j].reg

Called(r, n) == \E i \in 1..Len(calls) : calls[i] = [reg |-> r, seq |-> n]

\* The handlers an emit that is about to return owed a call and did not make it.
Passed(f) == {r \in f.due : r \in ToSet(handlers[f.type]) /\ ~Called(r, f.seq)}

\* An emit passes over a handler only behind one that was unsubscribed while it
\* ran: no exception, nested emit or new subscription costs anybody an event.
PassedOnlyBehindARemoval ==
  stack # <<>> /\ NotifiedAll(Top) =>
    \A r \in Passed(Top) : \E s \in Top.due : s < r /\ s \notin ToSet(handlers[Top.type])

\* A one-time handler hears of a second event only from inside itself.
OnceUnlessReentered ==
  [][\A r \in DOMAIN regs :
       /\ regs[r].once
       /\ \E i \in 1..Len(calls) : calls[i].reg = r
       /\ calls' # calls
       /\ calls'[Len(calls')].reg = r
       => \E k \in 1..Len(stack) : stack[k].running = r]_vars

\* A coroutine does not sleep through its event: one of its type that was
\* committed since it began to wait is still being emitted, or it is not waiting.
NobodySleepsThrough ==
  \A w \in Waiters :
    wait[w].state = "waiting" /\ latest[wait[w].type] > wait[w].since =>
      \E k \in 1..Len(stack) : stack[k].type = wait[w].type

\* The answer and the timeout of a wait race, and the first one stands.
FirstOutcomeStands ==
  [][\A w \in Waiters : wait[w].state \in {"answered", "timeout"} => wait'[w] = wait[w]]_vars

\* What emit owes the handlers, while they subscribe, unsubscribe, raise and emit:
\* order, nobody passed over but behind a removal, and once means once.
DeliveryHolds == [](RegistrationOrder /\ PassedOnlyBehindARemoval) /\ OnceUnlessReentered

\* What wait_for owes a coroutine: its event wakes it, and one outcome stands.
WaitsHold == []NobodySleepsThrough /\ FirstOutcomeStands

(***************************************************************************)
(* A statement of core/bus.py that the code does not keep.                 *)
(***************************************************************************)
\* emit: "When it returns: ... All sync handlers have been called."
AllHandlersCalled == stack # <<>> /\ NotifiedAll(Top) => Passed(Top) = {}
=============================================================================
