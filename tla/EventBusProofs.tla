--------------------------- MODULE EventBusProofs ---------------------------
(***************************************************************************)
(* What holds of EventBus for any event types, waiters, log length and     *)
(* number of events and subscriptions.                                     *)
(***************************************************************************)
EXTENDS EventBus, SequenceTheorems, TLAPS

-----------------------------------------------------------------------------
(***************************************************************************)
(* Only Emit and ClearEventLog touch the log.                              *)
(***************************************************************************)
LEMMA LogSteps ==
  ASSUME [Next]_vars
  PROVE  \/ \E ty \in Types : Emit(ty)
         \/ ClearEventLog
         \/ UNCHANGED <<sequence, log>>
<1>1. ASSUME CallNext \/ FinishEmit \/ (\E raised \in BOOLEAN : HandlerEnds(raised))
      PROVE  UNCHANGED <<sequence, log>>
  BY <1>1 DEF CallNext, FinishEmit, HandlerEnds
<1>2. ASSUME \/ \E ty \in Types, once, async \in BOOLEAN : Subscribe(ty, once, async)
             \/ \E r \in DOMAIN regs : Unsubscribe(r)
             \/ \E w \in Waiters : (\E ty \in Types : WaitFor(w, ty)) \/ TimeOut(w)
      PROVE  UNCHANGED <<sequence, log>>
  BY <1>2 DEF Subscribe, Unsubscribe, WaitFor, TimeOut
<1>3. CASE UNCHANGED vars
  BY <1>3 DEF vars
<1> QED
  BY <1>1, <1>2, <1>3 DEF Next

\* l holds the events up to the n-th, without a gap.
UpTo(l, n) == \A i \in 1..Len(l) : l[i].seq = n - Len(l) + i

LEMMA AppendIsNext ==
  ASSUME NEW S, NEW l \in Seq(S), NEW n \in Nat, NEW e \in S, UpTo(l, n), e.seq = n + 1
  PROVE  UpTo(Append(l, e), n + 1)
<1> DEFINE m == Append(l, e)
<1>1. Len(m) = Len(l) + 1 /\ Len(l) \in Nat
  OBVIOUS
<1>2. m[Len(l) + 1] = e /\ \A i \in 1..Len(l) : m[i] = l[i]
  OBVIOUS
<1> HIDE DEF m
<1>3. ASSUME NEW i \in 1..Len(m)
      PROVE  m[i].seq = n + 1 - Len(m) + i
  <2>1. CASE i \in 1..Len(l)
    BY <1>1, <1>2, <2>1 DEF UpTo
  <2>2. CASE i = Len(l) + 1
    BY <1>1, <1>2, <2>2
  <2> QED
    BY <1>1, <2>1, <2>2
<1> QED
  BY <1>3 DEF UpTo, m

LEMMA TailStaysUpTo ==
  ASSUME NEW S, NEW l \in Seq(S), NEW n \in Nat, UpTo(l, n), l # <<>>
  PROVE  UpTo(Tail(l), n)
<1> DEFINE m == Tail(l)
<1>1. Len(m) = Len(l) - 1 /\ Len(l) \in Nat
  OBVIOUS
<1>2. \A i \in 1..Len(m) : m[i] = l[i + 1]
  OBVIOUS
<1> HIDE DEF m
<1>3. ASSUME NEW i \in 1..Len(m)
      PROVE  m[i].seq = n - Len(m) + i
  BY <1>1, <1>2 DEF UpTo
<1> QED
  BY <1>3 DEF UpTo, m

LogInvariant ==
  /\ sequence \in Nat
  /\ log \in Seq(Event)
  /\ Len(log) <= MaxLog
  /\ LogIsRecentPast

\* The log is the recent past without a gap: numbers that follow one another up
\* to the last one given, whatever handlers do while an emit notifies them.
THEOREM LogIsComplete == Spec => []LogIsRecentPast
<1>1. Init => LogInvariant
  <2>1. Init => sequence = 0 /\ log = <<>>
    BY DEF Init
  <2>2. sequence = 0 /\ log = <<>> => LogInvariant
    BY LogHasRoom DEF LogInvariant, LogIsRecentPast
  <2> QED
    BY <2>1, <2>2
<1>2. LogInvariant /\ [Next]_vars => LogInvariant'
  <2> SUFFICES ASSUME LogInvariant, [Next]_vars
               PROVE  LogInvariant'
    OBVIOUS
  <2>1. ASSUME NEW ty \in Types, Emit(ty)
        PROVE  LogInvariant'
    <3> DEFINE e == [type |-> ty, seq |-> sequence + 1]
    <3>1. sequence' = sequence + 1 /\ log' = Logged(e)
      BY <2>1 DEF Emit
    <3>2. /\ sequence \in Nat
          /\ log \in Seq(Event)
          /\ Len(log) <= MaxLog
          /\ UpTo(log, sequence)
      BY DEF LogInvariant, LogIsRecentPast, UpTo
    <3>3. e \in Event /\ e.seq = sequence + 1
      BY <3>2 DEF Event
    <3> HIDE DEF e
    <3>4. CASE Len(log) < MaxLog
      <4>1. log' = Append(log, e)
        BY <3>1, <3>4 DEF Logged
      <4>2. UpTo(log', sequence')
        BY <3>1, <3>2, <3>3, <4>1, AppendIsNext
      <4>3. log' \in Seq(Event) /\ Len(log') <= MaxLog
        BY <3>2, <3>3, <3>4, <4>1, LogHasRoom
      <4> QED
        BY <3>1, <3>2, <4>2, <4>3 DEF LogInvariant, LogIsRecentPast, UpTo
    <3>5. CASE ~(Len(log) < MaxLog)
      <4>1. log' = Append(Tail(log), e)
        BY <3>1, <3>5 DEF Logged
      <4>2. log # <<>> /\ Tail(log) \in Seq(Event) /\ Len(Tail(log)) = Len(log) - 1
        BY <3>2, <3>5, LogHasRoom
      <4>3. UpTo(log', sequence')
        BY <3>1, <3>2, <3>3, <4>1, <4>2, AppendIsNext, TailStaysUpTo
      <4>4. log' \in Seq(Event) /\ Len(log') <= MaxLog
        BY <3>2, <3>3, <4>1, <4>2, LogHasRoom
      <4> QED
        BY <3>1, <3>2, <4>3, <4>4 DEF LogInvariant, LogIsRecentPast, UpTo
    <3> QED
      BY <3>4, <3>5
  <2>2. CASE ClearEventLog
    BY <2>2, LogHasRoom DEF ClearEventLog, LogInvariant, LogIsRecentPast
  <2>3. CASE UNCHANGED <<sequence, log>>
    BY <2>3 DEF LogInvariant, LogIsRecentPast
  <2> QED
    BY <2>1, <2>2, <2>3, LogSteps
<1>3. LogInvariant => LogIsRecentPast
  BY DEF LogInvariant
<1> QED
  BY <1>1, <1>2, <1>3, PTL DEF Spec

-----------------------------------------------------------------------------
(***************************************************************************)
(* What the calls owed and made rest on.                                   *)
(***************************************************************************)
Increasing(s) == \A i, j \in 1..Len(s) : i < j => s[i] < s[j]

\* list.remove takes the one occurrence out of an increasing list and moves what is
\* behind it one place to the front.
LEMMA RemovedFirst ==
  ASSUME NEW s \in Seq(Nat), Increasing(s), NEW e, NEW n \in 1..Len(s), s[n] = e
  PROVE  RemoveFirst(s, e) = SubSeq(s, 1, n-1) \o SubSeq(s, n+1, Len(s))
<1>1. {i \in 1..Len(s) : s[i] = e} = {n}
  BY DEF Increasing
<1>2. Min({n}) = n
  BY DEF Min
<1> QED
  BY <1>1, <1>2 DEF RemoveFirst, RemoveAt, SelectInSeq

LEMMA RemoveFirstShifts ==
  ASSUME NEW s \in Seq(Nat), Increasing(s), NEW e, NEW n \in 1..Len(s), s[n] = e
  PROVE  /\ RemoveFirst(s, e) \in Seq(Nat)
         /\ Len(RemoveFirst(s, e)) = Len(s) - 1
         /\ \A i \in 1..n-1 : RemoveFirst(s, e)[i] = s[i]
         /\ \A i \in n+1..Len(s) : RemoveFirst(s, e)[i - 1] = s[i]
<1> DEFINE a == SubSeq(s, 1, n-1)
           b == SubSeq(s, n+1, Len(s))
<1>0. Len(s) \in Nat /\ n \in Nat
  OBVIOUS
<1>1. a \in Seq(Nat) /\ Len(a) = n - 1 /\ \A i \in 1..n-1 : a[i] = s[i]
  OBVIOUS
<1>2. b \in Seq(Nat) /\ Len(b) = Len(s) - n /\ \A i \in n+1..Len(s) : b[i - n] = s[i]
  OBVIOUS
<1>3. RemoveFirst(s, e) = a \o b
  BY RemovedFirst
<1> HIDE DEF a, b
<1>4. /\ a \o b \in Seq(Nat)
      /\ Len(a \o b) = Len(a) + Len(b)
      /\ \A i \in 1..Len(a) + Len(b) : (a \o b)[i] = IF i <= Len(a) THEN a[i] ELSE b[i - Len(a)]
  BY <1>1, <1>2, ConcatProperties
<1>5. Len(a \o b) = Len(s) - 1
  BY <1>0, <1>1, <1>2, <1>4
<1>6. ASSUME NEW i \in 1..n-1
      PROVE  (a \o b)[i] = s[i]
  <2>1. Len(a) = n - 1 /\ Len(b) = Len(s) - n
    BY <1>1, <1>2
  <2>2. i \in 1..Len(a) + Len(b) /\ i <= Len(a)
    BY <1>0, <2>1
  <2> QED
    BY <1>1, <1>4, <2>2
<1>7. ASSUME NEW i \in n+1..Len(s)
      PROVE  (a \o b)[i - 1] = s[i]
  <2>1. Len(a) = n - 1 /\ Len(b) = Len(s) - n
    BY <1>1, <1>2
  <2>2. i - 1 \in 1..Len(a) + Len(b) /\ ~(i - 1 <= Len(a)) /\ i - 1 - Len(a) = i - n
    BY <1>0, <2>1
  <2> QED
    BY <1>2, <1>4, <2>2
<1> QED
  BY <1>3, <1>4, <1>5, <1>6, <1>7

LEMMA RemovalProperties ==
  ASSUME NEW s \in Seq(Nat), Increasing(s), NEW e, NEW m, m = RemoveFirst(s, e)
  PROVE  /\ m \in Seq(Nat)
         /\ Increasing(m)
         /\ ToSet(m) = ToSet(s) \ {e}
         /\ \A i \in 1..Len(m) :
              \/ i \in 1..Len(s) /\ m[i] = s[i]
              \/ i + 1 \in 1..Len(s) /\ m[i] = s[i + 1] /\ e \in ToSet(s) /\ e < m[i]
<1>0. /\ Len(s) \in Nat
      /\ DOMAIN s = 1..Len(s)
      /\ \A i \in 1..Len(s) : s[i] \in Nat
  OBVIOUS
<1>1. CASE ~\E n \in 1..Len(s) : s[n] = e
  BY <1>0, <1>1 DEF RemoveFirst, ToSet
<1>2. ASSUME NEW n \in 1..Len(s), s[n] = e
      PROVE  /\ m \in Seq(Nat)
             /\ Increasing(m)
             /\ ToSet(m) = ToSet(s) \ {e}
             /\ \A i \in 1..Len(m) :
                  \/ i \in 1..Len(s) /\ m[i] = s[i]
                  \/ i + 1 \in 1..Len(s) /\ m[i] = s[i + 1] /\ e \in ToSet(s) /\ e < m[i]
  <2>0. n \in Nat
    BY <1>0
  <2>1. /\ m \in Seq(Nat)
        /\ Len(m) = Len(s) - 1
        /\ \A i \in 1..n-1 : m[i] = s[i]
        /\ \A i \in n+1..Len(s) : m[i - 1] = s[i]
    BY <1>2, RemoveFirstShifts
  <2>2. DOMAIN m = 1..Len(m)
    BY <2>1
  <2>3. \A i \in n..Len(s)-1 : i + 1 \in n+1..Len(s) /\ i + 1 - 1 = i
    BY <1>0, <2>0
  <2>4. \A i \in n..Len(s)-1 : m[i] = s[i + 1]
    BY <2>1, <2>3
  <2>5. \A i \in 1..Len(m) : i \in 1..n-1 \/ i \in n..Len(s)-1
    BY <1>0, <2>0, <2>1
  <2>6. Increasing(m)
    <3> SUFFICES ASSUME NEW i \in 1..Len(m), NEW j \in 1..Len(m), i < j
                 PROVE  m[i] < m[j]
      BY DEF Increasing
    <3>1. CASE i \in 1..n-1 /\ j \in 1..n-1
      BY <1>0, <2>0, <2>1, <3>1 DEF Increasing
    <3>2. CASE i \in 1..n-1 /\ j \in n..Len(s)-1
      <4>1. i < j + 1 /\ j + 1 \in 1..Len(s) /\ i \in 1..Len(s)
        BY <1>0, <2>0, <3>2
      <4> QED
        BY <2>1, <2>4, <3>2, <4>1 DEF Increasing
    <3>3. CASE i \in n..Len(s)-1 /\ j \in n..Len(s)-1
      <4>1. i + 1 < j + 1 /\ j + 1 \in 1..Len(s) /\ i + 1 \in 1..Len(s)
        BY <1>0, <2>0, <3>3
      <4> QED
        BY <2>4, <3>3, <4>1 DEF Increasing
    <3> QED
      BY <2>0, <2>5, <3>1, <3>2, <3>3
  <2>7. ASSUME NEW i \in 1..Len(m)
        PROVE  \/ i \in 1..Len(s) /\ m[i] = s[i] /\ m[i] # e
               \/ i + 1 \in 1..Len(s) /\ m[i] = s[i + 1] /\ e \in ToSet(s) /\ e < m[i]
    <3>1. CASE i \in 1..n-1
      <4>1. i \in 1..Len(s) /\ i < n
        BY <1>0, <2>0, <3>1
      <4>2. s[i] < e
        BY <1>2, <4>1 DEF Increasing
      <4>3. m[i] = s[i]
        BY <2>1, <3>1
      <4>4. s[i] \in Nat /\ e \in Nat
        BY <1>0, <1>2, <4>1
      <4> QED
        BY <4>1, <4>2, <4>3, <4>4
    <3>2. CASE i \in n..Len(s)-1
      <4>1. i + 1 \in 1..Len(s) /\ n < i + 1
        BY <1>0, <2>0, <3>2
      <4>2. e < s[i + 1]
        BY <1>2, <4>1 DEF Increasing
      <4>3. e \in ToSet(s)
        BY <1>0, <1>2 DEF ToSet
      <4> QED
        BY <2>4, <3>2, <4>1, <4>2, <4>3
    <3> QED
      BY <2>5, <3>1, <3>2
  <2>8. ToSet(m) \subseteq ToSet(s) \ {e}
    <3> SUFFICES ASSUME NEW i \in 1..Len(m)
                 PROVE  m[i] \in ToSet(s) /\ m[i] # e
      BY <2>2 DEF ToSet
    <3>1. e \in Nat
      BY <1>0, <1>2
    <3>2. m[i] # e
      <4>1. m[i] \in Nat
        BY <2>1
      <4> QED
        BY <2>7, <3>1, <4>1
    <3>3. PICK k \in 1..Len(s) : m[i] = s[k]
      BY <2>7
    <3> QED
      BY <1>0, <3>2, <3>3 DEF ToSet
  <2>9. ASSUME NEW i \in 1..Len(s), s[i] # e
        PROVE  s[i] \in ToSet(m)
    <3>1. CASE i < n
      <4>1. i \in 1..n-1 /\ i \in 1..Len(m)
        BY <1>0, <2>0, <2>1, <3>1
      <4> QED
        BY <2>1, <2>2, <4>1 DEF ToSet
    <3>2. CASE i > n
      <4>1. i \in n+1..Len(s) /\ i - 1 \in 1..Len(m)
        BY <1>0, <2>0, <2>1, <3>2
      <4> QED
        BY <2>1, <2>2, <4>1 DEF ToSet
    <3> QED
      BY <1>0, <1>2, <2>0, <2>9, <3>1, <3>2
  <2>10. ToSet(s) \ {e} \subseteq ToSet(m)
    BY <1>0, <2>9 DEF ToSet
  <2> QED
    BY <2>1, <2>6, <2>7, <2>8, <2>10
<1> QED
  BY <1>1, <1>2

\* The handler lists hold subscriptions of their type, oldest first.
HandlersInOrder ==
  \A ty \in Types : /\ Increasing(handlers[ty])
                    /\ ToSet(handlers[ty]) \subseteq {r \in 1..Len(regs) : regs[r].type = ty}

\* Emits nest: an inner one is later, and none is of the future.  What subscribed
\* while one runs is younger than all it is due to.
FramesInOrder ==
  /\ \A k \in 1..Len(stack) : /\ stack[k].seq <= sequence
                              /\ stack[k].next >= 1
                              /\ stack[k].running \in 0..Len(regs)
                              /\ stack[k].due \subseteq 1..Len(regs)
                              /\ \A e \in ToSet(handlers[stack[k].type]), r \in stack[k].due :
                                   e < r => e \in stack[k].due
  /\ \A k, l \in 1..Len(stack) : k < l => stack[k].seq < stack[l].seq

CallsArePast ==
  \A i \in 1..Len(calls) : calls[i].seq <= sequence /\ calls[i].reg \in 1..Len(regs)

\* What an emit has called was subscribed before what its iterator has still ahead.
CalledAreBehind ==
  \A k \in 1..Len(stack), i \in 1..Len(calls) :
    calls[i].seq = stack[k].seq =>
      \A j \in 1..Len(handlers[stack[k].type]) :
        j >= stack[k].next => calls[i].reg < handlers[stack[k].type][j]

\* A subscription that came to lie behind the iterator without a call was moved
\* there by the removal of an older one.
Excused(f, r) ==
  \/ Called(r, f.seq)
  \/ \E s \in f.due : s < r /\ s \notin ToSet(handlers[f.type])

BehindAreExcused ==
  \A k \in 1..Len(stack) :
    \A j \in 1..Len(handlers[stack[k].type]) :
      LET r == handlers[stack[k].type][j]
      IN  j < stack[k].next /\ r \in stack[k].due => Excused(stack[k], r)

\* A one-time handler that was called and is still subscribed is running.
OnceIsRunning ==
  \A r \in DOMAIN regs :
    /\ regs[r].once
    /\ r \in ToSet(handlers[regs[r].type])
    /\ \E i \in 1..Len(calls) : calls[i].reg = r
    => \E k \in 1..Len(stack) : stack[k].running = r

Deliveries ==
  /\ TypeOK
  /\ HandlersInOrder
  /\ FramesInOrder
  /\ CallsArePast
  /\ RegistrationOrder
  /\ CalledAreBehind
  /\ BehindAreExcused
  /\ OnceIsRunning


\* The types of the elements.
Typed ==
  /\ sequence \in Nat
  /\ {Len(regs), Len(stack), Len(calls)} \subseteq Nat
  /\ DOMAIN regs = 1..Len(regs)
  /\ \A r \in 1..Len(regs) : regs[r].type \in Types
  /\ \A ty \in Types : handlers[ty] \in Seq(Nat) /\ Len(handlers[ty]) \in Nat
  /\ \A k \in 1..Len(stack) : /\ stack[k] \in Frame
                              /\ stack[k].type \in Types
                              /\ {stack[k].seq, stack[k].next, stack[k].running} \subseteq Nat
                              /\ stack[k].due \subseteq Nat
  /\ \A i \in 1..Len(calls) : {calls[i].seq, calls[i].reg} \subseteq Nat

LEMMA FrameTyped ==
  ASSUME Typed, NEW k \in 1..Len(stack)
  PROVE  /\ stack[k] \in Frame /\ stack[k].type \in Types /\ stack[k].next \in Nat
         /\ stack[k].seq \in Nat /\ stack[k].running \in Nat /\ stack[k].due \subseteq Nat
         /\ handlers[stack[k].type] \in Seq(Nat) /\ Len(handlers[stack[k].type]) \in Nat
<1>1. stack[k] \in Frame /\ stack[k].type \in Types /\ stack[k].due \subseteq Nat
  BY DEF Typed
<1>2. stack[k].next \in Nat /\ stack[k].seq \in Nat /\ stack[k].running \in Nat
  BY DEF Typed
<1>3. handlers[stack[k].type] \in Seq(Nat) /\ Len(handlers[stack[k].type]) \in Nat
  BY <1>1 DEF Typed
<1> QED
  BY <1>1, <1>2, <1>3

LEMMA ElementTypes == TypeOK => Typed
<1> SUFFICES ASSUME TypeOK
             PROVE  Typed
  OBVIOUS
<1>1. regs \in Seq(Reg) /\ stack \in Seq(Frame) /\ calls \in Seq([reg : Nat, seq : Nat])
  BY DEF TypeOK
<1>2. \A r \in 1..Len(regs) : regs[r] \in Reg
  BY <1>1
<1>3. \A k \in 1..Len(stack) : stack[k] \in Frame
  BY <1>1
<1>4. \A i \in 1..Len(calls) : calls[i] \in [reg : Nat, seq : Nat]
  BY <1>1, ElementOfSeq
<1>5. \A ty \in Types : handlers[ty] \in Seq(Nat) /\ Len(handlers[ty]) \in Nat
  BY DEF TypeOK
<1>6. {Len(regs), Len(stack), Len(calls)} \subseteq Nat /\ DOMAIN regs = 1..Len(regs)
  BY <1>1
<1>7. sequence \in Nat
  BY DEF TypeOK
<1> QED
  BY <1>2, <1>3, <1>4, <1>5, <1>6, <1>7 DEF Typed, Reg, Frame

LEMMA ElementTypesNext == TypeOK' => Typed'
  BY ElementTypes, PTL

\* What a step other than a subscription leaves of a handler list: an element that
\* moved to the front did so because an older one was taken out.
Thinned(old, new) ==
  /\ new \in Seq(Nat)
  /\ Increasing(new)
  /\ ToSet(new) \subseteq ToSet(old)
  /\ \A j \in 1..Len(new) :
       \/ j \in 1..Len(old) /\ new[j] = old[j]
       \/ /\ j + 1 \in 1..Len(old)
          /\ new[j] = old[j + 1]
          /\ \E e \in ToSet(old) \ ToSet(new) : e < new[j]

HandlersThinned == \A ty \in Types : Thinned(handlers[ty], handlers'[ty])

LEMMA SameIsThinned ==
  ASSUME TypeOK, HandlersInOrder, handlers' = handlers
  PROVE  HandlersThinned
<1> SUFFICES ASSUME NEW ty \in Types
             PROVE  Thinned(handlers[ty], handlers[ty])
  BY DEF HandlersThinned
<1>1. handlers[ty] \in Seq(Nat) /\ Increasing(handlers[ty])
  BY DEF TypeOK, HandlersInOrder
<1> QED
  BY <1>1 DEF Thinned

LEMMA RemovedIsThinned ==
  ASSUME TypeOK, HandlersInOrder, NEW r \in 1..Len(regs), handlers' = Removed(r)
  PROVE  /\ HandlersThinned
         /\ handlers' \in [Types -> Seq(Nat)]
         /\ r \notin ToSet(handlers'[regs[r].type])
<1>0. regs[r].type \in Types /\ handlers \in [Types -> Seq(Nat)]
  <2>1. regs \in Seq(Reg) /\ handlers \in [Types -> Seq(Nat)]
    BY DEF TypeOK
  <2>2. regs[r] \in Reg
    BY <2>1
  <2> QED
    BY <2>1, <2>2 DEF Reg
<1>1. PICK ty \in Types : ty = regs[r].type
  BY <1>0
<1>2. PICK old \in Seq(Nat) : old = handlers[ty] /\ Increasing(old)
  BY <1>0 DEF HandlersInOrder
<1>3. PICK new : new = handlers'[ty] /\ new = RemoveFirst(old, r)
  BY <1>0, <1>1, <1>2 DEF Removed
<1>4. new \in Seq(Nat) /\ Increasing(new) /\ ToSet(new) = ToSet(old) \ {r}
  BY <1>2, <1>3, RemovalProperties
<1>5. Thinned(old, new)
  <2>1. \A i \in 1..Len(new) :
          \/ i \in 1..Len(old) /\ new[i] = old[i]
          \/ i + 1 \in 1..Len(old) /\ new[i] = old[i + 1] /\ r \in ToSet(old) /\ r < new[i]
    BY <1>2, <1>3, RemovalProperties
  <2> QED
    BY <1>4, <2>1 DEF Thinned
<1>6. ASSUME NEW other \in Types, other # ty
      PROVE  handlers'[other] = handlers[other] /\ Thinned(handlers[other], handlers'[other])
  <2>1. handlers'[other] = handlers[other]
    BY <1>0, <1>1, <1>6 DEF Removed
  <2>2. handlers[other] \in Seq(Nat) /\ Increasing(handlers[other])
    BY <1>0 DEF HandlersInOrder
  <2> QED
    BY <2>1, <2>2 DEF Thinned
<1>7. handlers' \in [Types -> Seq(Nat)]
  <2>1. handlers' = [handlers EXCEPT ![ty] = new]
    BY <1>1, <1>2, <1>3 DEF Removed
  <2> QED
    BY <1>0, <1>4, <2>1
<1>8. \A any \in Types : Thinned(handlers[any], handlers'[any])
  BY <1>2, <1>3, <1>5, <1>6
<1> QED
  BY <1>1, <1>3, <1>4, <1>7, <1>8 DEF HandlersThinned

-----------------------------------------------------------------------------
(***************************************************************************)
(* Steps that neither call a handler nor subscribe one.                    *)
(***************************************************************************)
FramesGoOn ==
  \A k \in 1..Len(stack') :
    \/ /\ k \in 1..Len(stack)
       /\ stack'[k].type = stack[k].type
       /\ stack'[k].seq = stack[k].seq
       /\ stack'[k].next = stack[k].next
       /\ stack'[k].due = stack[k].due
       /\ stack'[k].running \in {0, stack[k].running}
    \/ /\ k = Len(stack')
       /\ stack'[k].seq = sequence'
       /\ sequence' = sequence + 1
       /\ stack'[k].next = 1
       /\ stack'[k].due = ToSet(handlers[stack'[k].type])
       /\ stack'[k].running = 0

\* A handler stops running only when nothing is left of its one time.
RunningGoesOn ==
  \A k \in 1..Len(stack) :
    \/ stack[k].running = 0
    \/ k \in 1..Len(stack') /\ stack'[k].running = stack[k].running
    \/ ~regs[stack[k].running].once
    \/ stack[k].running \notin ToSet(handlers'[regs[stack[k].running].type])

QuietStep ==
  /\ TypeOK'
  /\ UNCHANGED <<regs, calls>>
  /\ sequence' >= sequence
  /\ HandlersThinned
  /\ FramesGoOn
  /\ RunningGoesOn

LEMMA QuietOrder == Deliveries /\ QuietStep => HandlersInOrder'
<1> SUFFICES ASSUME Deliveries, QuietStep, NEW ty \in Types
             PROVE  /\ Increasing(handlers'[ty])
                    /\ ToSet(handlers'[ty]) \subseteq {r \in 1..Len(regs) : regs[r].type = ty}
  BY DEF HandlersInOrder, QuietStep
<1>1. Thinned(handlers[ty], handlers'[ty])
  BY DEF QuietStep, HandlersThinned
<1> QED
  BY <1>1 DEF Thinned, Deliveries, HandlersInOrder

LEMMA QuietFrames == Deliveries /\ QuietStep => FramesInOrder'
<1> SUFFICES ASSUME Deliveries, QuietStep
             PROVE  FramesInOrder'
  OBVIOUS
<1> USE DEF Deliveries, QuietStep
<1>1. Typed /\ Typed'
  BY ElementTypes, ElementTypesNext
<1>2. ASSUME NEW ty \in Types
      PROVE  /\ ToSet(handlers'[ty]) \subseteq ToSet(handlers[ty])
             /\ ToSet(handlers[ty]) \subseteq 1..Len(regs)
  BY DEF HandlersThinned, Thinned, HandlersInOrder
<1>3. ASSUME NEW k \in 1..Len(stack')
      PROVE  /\ stack'[k].seq <= sequence'
             /\ stack'[k].next >= 1
             /\ stack'[k].running \in 0..Len(regs)
             /\ stack'[k].due \subseteq 1..Len(regs)
             /\ \A e \in ToSet(handlers'[stack'[k].type]), r \in stack'[k].due :
                  e < r => e \in stack'[k].due
  <2>1. CASE k \in 1..Len(stack) /\ stack'[k].type = stack[k].type /\ stack'[k].seq = stack[k].seq
             /\ stack'[k].next = stack[k].next /\ stack'[k].due = stack[k].due
             /\ stack'[k].running \in {0, stack[k].running}
    <3>1. /\ stack[k].seq <= sequence
          /\ stack[k].next >= 1
          /\ stack[k].running \in 0..Len(regs)
          /\ stack[k].due \subseteq 1..Len(regs)
          /\ \A e \in ToSet(handlers[stack[k].type]), r \in stack[k].due :
               e < r => e \in stack[k].due
      BY <2>1 DEF FramesInOrder
    <3>2. stack[k].seq \in Nat /\ stack[k].type \in Types /\ sequence \in Nat /\ sequence' \in Nat
      BY <1>1, <2>1 DEF Typed
    <3>3. stack'[k].running \in 0..Len(regs)
      BY <1>1, <2>1, <3>1 DEF Typed
    <3>4. \A e \in ToSet(handlers'[stack'[k].type]) : e \in ToSet(handlers[stack[k].type])
      BY <1>2, <2>1, <3>2
    <3> QED
      BY <2>1, <3>1, <3>2, <3>3, <3>4
  <2>2. CASE stack'[k].seq = sequence' /\ stack'[k].next = 1
             /\ stack'[k].due = ToSet(handlers[stack'[k].type]) /\ stack'[k].running = 0
    <3>1. stack'[k].type \in Types /\ Len(regs) \in Nat /\ sequence' \in Nat
      BY <1>1 DEF Typed
    <3>2. ToSet(handlers'[stack'[k].type]) \subseteq stack'[k].due /\ stack'[k].due \subseteq 1..Len(regs)
      BY <1>2, <2>2, <3>1
    <3> QED
      BY <2>2, <3>1, <3>2
  <2> QED
    BY <2>1, <2>2 DEF FramesGoOn
<1>4. ASSUME NEW k \in 1..Len(stack'), NEW l \in 1..Len(stack'), k < l
      PROVE  stack'[k].seq < stack'[l].seq
  <2>1. k # Len(stack') /\ k \in 1..Len(stack) /\ stack'[k].seq = stack[k].seq
    BY <1>1, <1>4 DEF FramesGoOn, Typed
  <2>2. stack[k].seq <= sequence /\ stack[k].seq \in Nat
    BY <1>1, <2>1 DEF FramesInOrder, Typed
  <2>3. CASE l \in 1..Len(stack) /\ stack'[l].seq = stack[l].seq
    BY <1>4, <2>1, <2>3 DEF FramesInOrder
  <2>4. CASE stack'[l].seq = sequence' /\ sequence' = sequence + 1
    BY <1>1, <2>1, <2>2, <2>4 DEF Typed
  <2> QED
    BY <2>3, <2>4 DEF FramesGoOn
<1> QED
  BY <1>1, <1>3, <1>4 DEF FramesInOrder

LEMMA QuietBehind == Deliveries /\ QuietStep => CalledAreBehind'
<1> SUFFICES ASSUME Deliveries, QuietStep,
                    NEW k \in 1..Len(stack'), NEW i \in 1..Len(calls), calls[i].seq = stack'[k].seq,
                    NEW j \in 1..Len(handlers'[stack'[k].type]), j >= stack'[k].next
             PROVE  calls[i].reg < handlers'[stack'[k].type][j]
  BY DEF CalledAreBehind, QuietStep
<1> USE DEF Deliveries, QuietStep
<1>1. stack'[k].type \in Types /\ sequence \in Nat /\ calls[i].seq \in Nat
  BY ElementTypes, ElementTypesNext DEF Typed
<1>2. calls[i].seq <= sequence
  BY DEF CallsArePast
<1>3. /\ k \in 1..Len(stack)
      /\ stack'[k].type = stack[k].type
      /\ stack'[k].seq = stack[k].seq
      /\ stack'[k].next = stack[k].next
  BY <1>1, <1>2 DEF FramesGoOn
<1>4. PICK old \in Seq(Nat), new \in Seq(Nat) : /\ old = handlers[stack[k].type]
                                                /\ new = handlers'[stack[k].type]
                                                /\ Thinned(old, new)
  BY <1>1, <1>3, ElementTypes, ElementTypesNext DEF Typed, HandlersThinned
<1>5. PICK m \in 1..Len(old) : new[j] = old[m] /\ (m = j \/ m = j + 1)
  <2>1. j \in 1..Len(new)
    BY <1>3, <1>4
  <2> QED
    BY <1>4, <2>1 DEF Thinned
<1>6. m >= stack[k].next
  <2>1. stack[k].next \in Nat /\ j \in Nat
    BY <1>3, ElementTypes, ElementTypesNext DEF Typed
  <2> QED
    BY <1>3, <1>5, <2>1
<1> QED
  BY <1>3, <1>4, <1>5, <1>6 DEF CalledAreBehind

LEMMA QuietExcused == Deliveries /\ QuietStep => BehindAreExcused'
<1> SUFFICES ASSUME Deliveries, QuietStep,
                    NEW k \in 1..Len(stack'), NEW j \in 1..Len(handlers'[stack'[k].type]),
                    j < stack'[k].next, NEW r, r = handlers'[stack'[k].type][j], r \in stack'[k].due
             PROVE  Excused(stack[k], r)'
  BY DEF BehindAreExcused
<1> USE DEF Deliveries, QuietStep
<1>1. Typed /\ Typed'
  BY ElementTypes, ElementTypesNext
<1>2. /\ k \in 1..Len(stack)
      /\ stack'[k].type = stack[k].type
      /\ stack'[k].seq = stack[k].seq
      /\ stack'[k].next = stack[k].next
      /\ stack'[k].due = stack[k].due
  <2>1. Len(handlers'[stack'[k].type]) \in Nat
    BY <1>1 DEF Typed
  <2>2. stack'[k].next # 1
    BY <2>1
  <2> QED
    BY <2>2 DEF FramesGoOn
<1>3. PICK old \in Seq(Nat), new \in Seq(Nat) : /\ old = handlers[stack[k].type]
                                                /\ new = handlers'[stack[k].type]
                                                /\ Thinned(old, new)
  BY <1>1, <1>2 DEF Typed, HandlersThinned
<1>4. PICK m \in 1..Len(old) : /\ r = old[m]
                               /\ \/ m = j
                                  \/ m = j + 1 /\ \E e \in ToSet(old) \ ToSet(new) : e < r
  <2>1. j \in 1..Len(new) /\ r = new[j]
    BY <1>2, <1>3
  <2>2. \/ j \in 1..Len(old) /\ new[j] = old[j]
        \/ /\ j + 1 \in 1..Len(old)
           /\ new[j] = old[j + 1]
           /\ \E e \in ToSet(old) \ ToSet(new) : e < new[j]
    BY <1>3, <2>1 DEF Thinned
  <2> QED
    BY <2>1, <2>2
<1>5. CASE m = j
  <2>1. Excused(stack[k], r)
    BY <1>2, <1>3, <1>4, <1>5 DEF BehindAreExcused
  <2>2. ToSet(handlers'[stack[k].type]) \subseteq ToSet(handlers[stack[k].type])
    BY <1>3 DEF Thinned
  <2>3. \A s, n : Called(s, n) => Called(s, n)'
    BY DEF Called
  <2> QED
    BY <1>2, <2>1, <2>2, <2>3 DEF Excused
<1>6. ASSUME NEW e \in ToSet(old) \ ToSet(new), e < r
      PROVE  Excused(stack[k], r)'
  <2>1. e \in stack[k].due
    BY <1>2, <1>3, <1>6 DEF FramesInOrder
  <2> QED
    BY <1>2, <1>3, <1>6, <2>1 DEF Excused
<1> QED
  BY <1>4, <1>5, <1>6

LEMMA QuietOnce == Deliveries /\ QuietStep => OnceIsRunning'
<1> SUFFICES ASSUME Deliveries, QuietStep,
                    NEW r \in DOMAIN regs, regs[r].once, r \in ToSet(handlers'[regs[r].type]),
                    \E i \in 1..Len(calls) : calls[i].reg = r
             PROVE  \E k \in 1..Len(stack') : stack'[k].running = r
  BY DEF OnceIsRunning, QuietStep
<1> USE DEF Deliveries, QuietStep
<1>1. regs[r].type \in Types /\ r \in 1..Len(regs) /\ Len(regs) \in Nat
  BY ElementTypes DEF Typed
<1>2. r \in ToSet(handlers[regs[r].type])
  BY <1>1 DEF HandlersThinned, Thinned
<1>3. PICK k \in 1..Len(stack) : stack[k].running = r
  BY <1>2 DEF OnceIsRunning
<1> QED
  BY <1>1, <1>3 DEF RunningGoesOn

LEMMA QuietDeliveries == Deliveries /\ QuietStep => Deliveries'
<1> SUFFICES ASSUME Deliveries, QuietStep
             PROVE  Deliveries'
  OBVIOUS
<1>1. RegistrationOrder'
  BY DEF Deliveries, QuietStep, RegistrationOrder
<1>2. CallsArePast'
  <2>1. \A i \in 1..Len(calls) : calls[i].seq \in Nat
    BY ElementTypes DEF Deliveries, Typed
  <2>2. sequence \in Nat /\ sequence' \in Nat /\ sequence' >= sequence
    BY ElementTypes, ElementTypesNext DEF Deliveries, QuietStep, Typed
  <2> QED
    BY <2>1, <2>2 DEF Deliveries, QuietStep, CallsArePast
<1> QED
  BY <1>1, <1>2, QuietOrder, QuietFrames, QuietBehind, QuietExcused, QuietOnce
  DEF Deliveries, QuietStep

LEMMA LoggedType ==
  ASSUME TypeOK, NEW e \in Event
  PROVE  Logged(e) \in Seq(Event) /\ Len(Logged(e)) <= MaxLog
<1>1. log \in Seq(Event) /\ Len(log) <= MaxLog
  BY DEF TypeOK
<1>2. CASE Len(log) < MaxLog
  BY <1>1, <1>2, LogHasRoom DEF Logged
<1>3. CASE ~(Len(log) < MaxLog)
  <2>1. log # <<>> /\ Tail(log) \in Seq(Event) /\ Len(Tail(log)) = Len(log) - 1
    BY <1>1, <1>3, LogHasRoom
  <2> QED
    BY <1>1, <1>3, <2>1, LogHasRoom DEF Logged
<1> QED
  BY <1>2, <1>3

\* The emit in progress is the last frame.
LEMMA TopFrame ==
  ASSUME TypeOK, stack # <<>>
  PROVE  /\ Len(stack) \in 1..Len(stack)
         /\ Top = stack[Len(stack)]
         /\ Top \in Frame
<1>1. stack \in Seq(Frame)
  BY DEF TypeOK
<1>2. Len(stack) \in 1..Len(stack)
  BY <1>1
<1> QED
  BY <1>1, <1>2, ElementOfSeq DEF Top

LEMMA SetTopEffect ==
  ASSUME TypeOK, stack # <<>>, NEW f \in Frame, SetTop(f)
  PROVE  /\ stack' \in Seq(Frame)
         /\ Len(stack') = Len(stack)
         /\ stack'[Len(stack)] = f
         /\ \A k \in 1..Len(stack) : k # Len(stack) => stack'[k] = stack[k]
<1>1. stack \in Seq(Frame) /\ Len(stack) \in 1..Len(stack)
  BY TopFrame DEF TypeOK
<1> QED
  BY <1>1, ExceptSeq DEF SetTop

LEMMA EmitQuiet ==
  ASSUME Deliveries, NEW ty \in Types, Emit(ty)
  PROVE  QuietStep
<1> DEFINE f == [type |-> ty, seq |-> sequence + 1, next |-> 1, running |-> 0,
                 due |-> ToSet(handlers[ty])]
           e == [type |-> ty, seq |-> sequence + 1]
<1>1. TypeOK /\ Typed /\ HandlersInOrder
  BY ElementTypes DEF Deliveries
<1>2. stack \in Seq(Frame) /\ sequence \in Nat /\ latest \in [Types -> Nat]
  BY <1>1 DEF TypeOK
<1>3. f \in Frame /\ e \in Event
  <2>1. ToSet(handlers[ty]) \subseteq 1..Len(regs) /\ Len(regs) \in Nat
    BY <1>1 DEF HandlersInOrder, Typed
  <2>2. ToSet(handlers[ty]) \in SUBSET Nat
    BY <2>1
  <2> QED
    BY <1>2, <2>2 DEF Frame, Event
<1>4. /\ sequence' = sequence + 1
      /\ log' = Logged(e)
      /\ latest' = [latest EXCEPT ![ty] = sequence + 1]
      /\ stack' = Append(stack, f)
      /\ UNCHANGED <<regs, handlers, promises, wait, calls>>
  BY DEF Emit
<1>5. f.type = ty /\ f.seq = sequence + 1 /\ f.next = 1 /\ f.running = 0 /\ f.due = ToSet(handlers[ty])
  OBVIOUS
<1> HIDE DEF f, e
<1>6. TypeOK'
  <2>1. log' \in Seq(Event) /\ Len(log') <= MaxLog
    BY <1>1, <1>3, <1>4, LoggedType
  <2>2. stack' \in Seq(Frame)
    BY <1>2, <1>3, <1>4
  <2>3. latest' \in [Types -> Nat] /\ sequence' \in Nat
    BY <1>2, <1>4
  <2> QED
    BY <1>1, <1>4, <2>1, <2>2, <2>3 DEF TypeOK
<1>7. /\ Len(stack) \in Nat
      /\ Len(stack') = Len(stack) + 1
      /\ stack'[Len(stack) + 1] = f
      /\ \A k \in 1..Len(stack) : stack'[k] = stack[k]
  BY <1>2, <1>3, <1>4, AppendProperties
<1>8. FramesGoOn
  <2> SUFFICES ASSUME NEW k \in 1..Len(stack')
               PROVE  \/ k \in 1..Len(stack) /\ stack'[k] = stack[k]
                      \/ k = Len(stack') /\ stack'[k] = f
    BY <1>4, <1>5 DEF FramesGoOn
  <2> QED
    BY <1>7
<1>9. RunningGoesOn
  BY <1>7 DEF RunningGoesOn
<1>10. HandlersThinned
  BY <1>1, <1>4, SameIsThinned
<1> QED
  BY <1>2, <1>4, <1>6, <1>8, <1>9, <1>10 DEF QuietStep

LEMMA HandlerEndsQuiet ==
  ASSUME Deliveries, NEW raised \in BOOLEAN, HandlerEnds(raised)
  PROVE  QuietStep
<1> DEFINE f == [Top EXCEPT !.running = 0]
<1>1. TypeOK /\ Typed /\ HandlersInOrder /\ FramesInOrder /\ stack # <<>> /\ Top.running # 0
  BY ElementTypes DEF Deliveries, HandlerEnds
<1>2. Len(stack) \in 1..Len(stack) /\ Top = stack[Len(stack)] /\ Top \in Frame
  BY <1>1, TopFrame
<1>3. PICK r \in 1..Len(regs) : r = Top.running
  BY <1>1, <1>2 DEF FramesInOrder
<1>4. /\ f \in Frame
      /\ f.type = Top.type /\ f.seq = Top.seq /\ f.next = Top.next /\ f.due = Top.due
      /\ f.running = 0
  BY <1>2 DEF Frame
<1>5. /\ SetTop(f)
      /\ handlers' = IF regs[r].once THEN Removed(r) ELSE handlers
      /\ UNCHANGED <<sequence, log, regs, promises, wait, calls, latest>>
  BY <1>3 DEF HandlerEnds
<1> HIDE DEF f
<1>6. /\ stack' \in Seq(Frame)
      /\ Len(stack') = Len(stack)
      /\ stack'[Len(stack)] = f
      /\ \A k \in 1..Len(stack) : k # Len(stack) => stack'[k] = stack[k]
  BY <1>1, <1>4, <1>5, SetTopEffect
<1>7. /\ HandlersThinned
      /\ handlers' \in [Types -> Seq(Nat)]
      /\ regs[r].once => r \notin ToSet(handlers'[regs[r].type])
  <2>1. CASE regs[r].once
    BY <1>1, <1>5, <2>1, RemovedIsThinned
  <2>2. CASE ~regs[r].once
    BY <1>1, <1>5, <2>2, SameIsThinned DEF TypeOK
  <2> QED
    BY <2>1, <2>2
<1>8. TypeOK'
  BY <1>1, <1>5, <1>6, <1>7 DEF TypeOK
<1>9. FramesGoOn
  <2> SUFFICES ASSUME NEW k \in 1..Len(stack)
               PROVE  /\ stack'[k].type = stack[k].type
                      /\ stack'[k].seq = stack[k].seq
                      /\ stack'[k].next = stack[k].next
                      /\ stack'[k].due = stack[k].due
                      /\ stack'[k].running \in {0, stack[k].running}
    BY <1>6 DEF FramesGoOn
  <2>1. CASE k = Len(stack)
    BY <1>2, <1>4, <1>6, <2>1
  <2>2. CASE k # Len(stack)
    BY <1>6, <2>2
  <2> QED
    BY <2>1, <2>2
<1>10. RunningGoesOn
  BY <1>2, <1>3, <1>6, <1>7 DEF RunningGoesOn
<1> QED
  BY <1>1, <1>5, <1>7, <1>8, <1>9, <1>10 DEF QuietStep, Typed

LEMMA FrontEffect ==
  ASSUME NEW S, NEW s \in Seq(S), s # <<>>
  PROVE  /\ Front(s) \in Seq(S)
         /\ Len(Front(s)) = Len(s) - 1
         /\ \A k \in 1..Len(Front(s)) : Front(s)[k] = s[k]
<1>1. Len(s) \in Nat /\ Len(s) >= 1
  OBVIOUS
<1> DEFINE m == SubSeq(s, 1, Len(s) - 1)
<1>2. m \in Seq(S) /\ Len(m) = Len(s) - 1
  <2>1. PICK n \in Nat : n = Len(s) - 1
    BY <1>1
  <2>2. \A i \in 1..n : s[i] \in S
    BY <1>1, <2>1, ElementOfSeq
  <2>3. /\ SubSeq(s, 1, n) \in Seq(S)
        /\ Len(SubSeq(s, 1, n)) = IF 1 <= n THEN n - 1 + 1 ELSE 0
    BY <2>2, SubSeqProperties
  <2> QED
    BY <2>1, <2>3
<1>4. \A k \in 1..Len(s)-1 : m[k] = s[k]
  BY <1>1
<1> HIDE DEF m
<1>3. Front(s) = m
  BY DEF Front, m
<1> QED
  BY <1>1, <1>2, <1>3, <1>4

LEMMA FinishEmitQuiet ==
  ASSUME Deliveries, FinishEmit
  PROVE  QuietStep
<1>1. TypeOK /\ Typed /\ HandlersInOrder /\ stack # <<>> /\ Top.running = 0
  BY ElementTypes DEF Deliveries, FinishEmit, NotifiedAll
<1>2. Len(stack) \in 1..Len(stack) /\ Top = stack[Len(stack)] /\ Top \in Frame
  BY <1>1, TopFrame
<1>3. /\ stack' = Front(stack)
      /\ UNCHANGED <<sequence, log, regs, handlers, calls, latest>>
  BY DEF FinishEmit
<1>4. /\ stack' \in Seq(Frame)
      /\ Len(stack') = Len(stack) - 1
      /\ \A k \in 1..Len(stack') : stack'[k] = stack[k]
  BY <1>1, <1>3, FrontEffect DEF TypeOK
<1>5. TypeOK'
  <2>1. wait' \in [Waiters -> Wait]
    <3>1. wait \in [Waiters -> Wait] /\ Top.seq \in Nat
      BY <1>1, <1>2 DEF TypeOK, Frame
    <3>2. \A w \in Waiters : [wait[w] EXCEPT !.state = "answered", !.seq = Top.seq] \in Wait
      BY <3>1 DEF Wait
    <3> QED
      BY <3>1, <3>2 DEF FinishEmit
  <2>2. promises' \in [Types -> SUBSET Waiters]
    BY <1>1 DEF FinishEmit, TypeOK
  <2> QED
    BY <1>1, <1>3, <1>4, <2>1, <2>2 DEF TypeOK
<1>6. FramesGoOn
  BY <1>2, <1>4 DEF FramesGoOn
<1>7. RunningGoesOn
  <2> SUFFICES ASSUME NEW k \in 1..Len(stack), stack[k].running # 0
               PROVE  k \in 1..Len(stack') /\ stack'[k].running = stack[k].running
    BY DEF RunningGoesOn
  <2>1. k # Len(stack)
    BY <1>1, <1>2
  <2> QED
    BY <1>2, <1>4, <2>1
<1>8. HandlersThinned
  BY <1>1, <1>3, SameIsThinned
<1> QED
  BY <1>1, <1>3, <1>5, <1>6, <1>7, <1>8 DEF QuietStep, Typed

LEMMA OtherQuiet ==
  ASSUME Deliveries,
         \/ \E r \in DOMAIN regs : Unsubscribe(r)
         \/ \E w \in Waiters : (\E ty \in Types : WaitFor(w, ty)) \/ TimeOut(w)
         \/ ClearEventLog
         \/ UNCHANGED vars
  PROVE  QuietStep
<1>1. TypeOK /\ Typed /\ HandlersInOrder
  BY ElementTypes DEF Deliveries
<1>2. UNCHANGED <<sequence, regs, stack, calls>>
  BY DEF Unsubscribe, WaitFor, TimeOut, ClearEventLog, vars
<1>3. FramesGoOn /\ RunningGoesOn
  BY <1>2 DEF FramesGoOn, RunningGoesOn
<1>4. HandlersThinned /\ handlers' \in [Types -> Seq(Nat)]
  <2>1. ASSUME NEW r \in DOMAIN regs, Unsubscribe(r)
        PROVE  HandlersThinned /\ handlers' \in [Types -> Seq(Nat)]
    <3>1. r \in 1..Len(regs)
      BY <1>1 DEF Typed
    <3> QED
      BY <1>1, <2>1, <3>1, RemovedIsThinned DEF Unsubscribe
  <2>2. CASE handlers' = handlers
    BY <1>1, <2>2, SameIsThinned DEF TypeOK
  <2> QED
    BY <2>1, <2>2 DEF WaitFor, TimeOut, ClearEventLog, vars
<1>5. TypeOK'
  <2>1. ASSUME NEW w \in Waiters, NEW ty \in Types, WaitFor(w, ty)
        PROVE  wait' \in [Waiters -> Wait] /\ promises' \in [Types -> SUBSET Waiters]
    <3>1. [state |-> "waiting", type |-> ty, since |-> sequence, seq |-> 0] \in Wait
      BY <1>1 DEF Wait, Typed
    <3> QED
      BY <1>1, <2>1, <3>1 DEF WaitFor, TypeOK
  <2>2. ASSUME NEW w \in Waiters, TimeOut(w)
        PROVE  wait' \in [Waiters -> Wait]
    <3>1. [wait[w] EXCEPT !.state = "timeout"] \in Wait
      BY <1>1 DEF Wait, TypeOK
    <3> QED
      BY <1>1, <2>2, <3>1 DEF TimeOut, TypeOK
  <2>3. CASE ClearEventLog
    BY <1>1, <2>3, LogHasRoom DEF ClearEventLog, TypeOK
  <2>4. ASSUME NEW w \in Waiters, (\E ty \in Types : WaitFor(w, ty)) \/ TimeOut(w)
        PROVE  TypeOK'
    BY <1>1, <2>1, <2>2, <2>4 DEF WaitFor, TimeOut, TypeOK
  <2>5. ASSUME NEW r \in DOMAIN regs, Unsubscribe(r)
        PROVE  TypeOK'
    BY <1>1, <1>4, <2>5 DEF Unsubscribe, TypeOK
  <2>6. CASE UNCHANGED vars
    BY <1>1, <2>6 DEF vars, TypeOK
  <2> QED
    BY <2>3, <2>4, <2>5, <2>6
<1> QED
  BY <1>1, <1>2, <1>3, <1>4, <1>5 DEF QuietStep, Typed

-----------------------------------------------------------------------------
(***************************************************************************)
(* A call, and a subscription.                                             *)
(***************************************************************************)
\* What CallNext does: r, the n-th in the list of the emit's type, is called.
CallAt(n, r) ==
  /\ r \in 1..Len(regs)
  /\ n \in 1..Len(handlers[Top.type])
  /\ r = handlers[Top.type][n]
  /\ regs[r].type = Top.type
  /\ Top.running = 0
  /\ Top.next = n

CallIsLast(r) ==
  /\ Len(calls') = Len(calls) + 1
  /\ calls'[Len(calls) + 1] = [reg |-> r, seq |-> Top.seq]
  /\ \A i \in 1..Len(calls) : calls'[i] = calls[i]

FramesMoved(n, r) ==
  /\ Len(stack') = Len(stack)
  /\ \A k \in 1..Len(stack) :
       /\ stack'[k].type = stack[k].type
       /\ stack'[k].seq = stack[k].seq
       /\ stack'[k].due = stack[k].due
       /\ k # Len(stack) => stack'[k].next = stack[k].next /\ stack'[k].running = stack[k].running
  /\ stack'[Len(stack)].next = n + 1
  /\ stack'[Len(stack)].running = IF regs[r].async THEN 0 ELSE r

CallOf(n, r) ==
  /\ CallAt(n, r)
  /\ CallIsLast(r)
  /\ FramesMoved(n, r)
  /\ HandlersThinned
  /\ regs[r].once /\ regs[r].async => r \notin ToSet(handlers'[Top.type])
  /\ sequence' = sequence
  /\ regs' = regs

LEMMA CallEffect ==
  ASSUME Deliveries, CallNext
  PROVE  TypeOK' /\ \E n, r \in Nat : CallOf(n, r)
<1>1. /\ TypeOK /\ Typed /\ HandlersInOrder /\ FramesInOrder
      /\ stack # <<>> /\ Top.running = 0 /\ ~NotifiedAll(Top)
  BY ElementTypes DEF Deliveries, CallNext
<1>2. Len(stack) \in 1..Len(stack) /\ Top = stack[Len(stack)] /\ Top \in Frame
  BY <1>1, TopFrame
<1>3. Top.type \in Types /\ Top.next \in Nat /\ Top.next >= 1 /\ Top.seq \in Nat
  BY <1>1, <1>2 DEF FramesInOrder, Typed, Frame
<1>4. PICK n \in 1..Len(handlers[Top.type]) : n = Top.next
  BY <1>1, <1>3 DEF NotifiedAll, Typed
<1>5. PICK r \in 1..Len(regs) : r = handlers[Top.type][n] /\ regs[r].type = Top.type
  <2>1. handlers[Top.type] \in Seq(Nat)
    BY <1>1, <1>3 DEF Typed
  <2>2. handlers[Top.type][n] \in ToSet(handlers[Top.type])
    BY <1>4, <2>1 DEF ToSet
  <2> QED
    BY <1>1, <1>3, <2>2 DEF HandlersInOrder
<1> DEFINE m == IF regs[r].async THEN 0 ELSE r
           f == [Top EXCEPT !.next = @ + 1, !.running = m]
           c == [reg |-> r, seq |-> Top.seq]
<1>6. r \in Nat /\ n \in Nat
  BY <1>1, <1>3, <1>4 DEF Typed
<1>7. /\ f \in Frame
      /\ f.type = Top.type /\ f.seq = Top.seq /\ f.due = Top.due /\ f.next = n + 1
      /\ f.running = m
  <2>1. m \in Nat
    BY <1>6
  <2> HIDE DEF m
  <2> QED
    <3>1. PICK t \in Frame, v \in Nat, w \in Nat : t = Top /\ v = t.next + 1 /\ w = m
      BY <1>2, <1>3, <2>1
    <3>2. f = [t EXCEPT !.next = v, !.running = w]
      BY <3>1
    <3> HIDE DEF f
    <3>3. /\ f \in Frame
          /\ f.type = t.type /\ f.seq = t.seq /\ f.due = t.due
          /\ f.next = v /\ f.running = w
      BY <3>2 DEF Frame
    <3> QED
      BY <1>4, <3>1, <3>3
<1>8. c \in [reg : Nat, seq : Nat]
  BY <1>3, <1>6
<1>9. /\ calls' = Append(calls, c)
      /\ SetTop(f)
      /\ handlers' = IF regs[r].async /\ regs[r].once THEN Removed(r) ELSE handlers
      /\ UNCHANGED <<sequence, log, regs, promises, wait, latest>>
  BY <1>4, <1>5 DEF CallNext
<1> HIDE DEF f
<1>10. /\ stack' \in Seq(Frame)
       /\ Len(stack') = Len(stack)
       /\ stack'[Len(stack)] = f
       /\ \A k \in 1..Len(stack) : k # Len(stack) => stack'[k] = stack[k]
  BY <1>1, <1>7, <1>9, SetTopEffect
<1>11. /\ HandlersThinned
       /\ handlers' \in [Types -> Seq(Nat)]
       /\ regs[r].once /\ regs[r].async => r \notin ToSet(handlers'[Top.type])
  <2>1. CASE regs[r].async /\ regs[r].once
    BY <1>1, <1>5, <1>9, <2>1, RemovedIsThinned
  <2>2. CASE ~(regs[r].async /\ regs[r].once)
    BY <1>1, <1>9, <2>2, SameIsThinned DEF TypeOK
  <2> QED
    BY <2>1, <2>2
<1>12. /\ calls' \in Seq([reg : Nat, seq : Nat])
       /\ Len(calls') = Len(calls) + 1
       /\ calls'[Len(calls) + 1] = c
       /\ \A i \in 1..Len(calls) : calls'[i] = calls[i]
  <2>1. calls \in Seq([reg : Nat, seq : Nat])
    BY <1>1 DEF TypeOK
  <2> QED
    BY <1>8, <1>9, <2>1, AppendProperties
<1>13. TypeOK'
  BY <1>1, <1>9, <1>10, <1>11, <1>12 DEF TypeOK
<1>14. FramesMoved(n, r)
  <2>1. ASSUME NEW k \in 1..Len(stack)
        PROVE  /\ stack'[k].type = stack[k].type
               /\ stack'[k].seq = stack[k].seq
               /\ stack'[k].due = stack[k].due
               /\ k # Len(stack) =>
                    stack'[k].next = stack[k].next /\ stack'[k].running = stack[k].running
    BY <1>2, <1>7, <1>10
  <2> QED
    BY <1>7, <1>10, <2>1 DEF FramesMoved
<1>15. CallOf(n, r)
  BY <1>1, <1>4, <1>5, <1>9, <1>11, <1>12, <1>14 DEF CallOf, CallAt, CallIsLast
<1> QED
  BY <1>6, <1>13, <1>15

LEMMA CallKeeps ==
  ASSUME Deliveries, CallNext
  PROVE  Deliveries'
<1> USE DEF Deliveries
<1>0. PICK n \in Nat, r \in Nat : CallOf(n, r)
  BY CallEffect
<1>1. /\ CallAt(n, r)
      /\ CallIsLast(r)
      /\ FramesMoved(n, r)
      /\ HandlersThinned
      /\ sequence' = sequence
      /\ regs' = regs
  BY <1>0 DEF CallOf
<1>2. TypeOK' /\ Typed /\ Typed'
  BY CallEffect, ElementTypes, ElementTypesNext
<1> DEFINE top == Len(stack)
<1>3. top \in 1..Len(stack) /\ stack[top] = Top /\ Top.type \in Types /\ Top.seq \in Nat
  <2>1. stack # <<>>
    BY DEF CallNext
  <2> QED
    BY <1>2, <2>1, TopFrame DEF Typed, Frame
<1>4. HandlersInOrder'
  <2> SUFFICES ASSUME NEW ty \in Types
               PROVE  /\ Increasing(handlers'[ty])
                      /\ ToSet(handlers'[ty]) \subseteq {x \in 1..Len(regs) : regs[x].type = ty}
    BY <1>1 DEF HandlersInOrder
  <2>1. Thinned(handlers[ty], handlers'[ty])
    BY <1>1 DEF HandlersThinned
  <2> QED
    BY <2>1 DEF Thinned, HandlersInOrder
<1>5. FramesInOrder'
  <2>1. ASSUME NEW k \in 1..Len(stack)
        PROVE  /\ stack'[k].seq <= sequence
               /\ stack'[k].next >= 1
               /\ stack'[k].running \in 0..Len(regs)
               /\ stack'[k].due \subseteq 1..Len(regs)
               /\ \A e \in ToSet(handlers'[stack'[k].type]), x \in stack'[k].due :
                    e < x => e \in stack'[k].due
    <3>1. /\ stack[k].seq <= sequence
          /\ stack[k].next >= 1
          /\ stack[k].running \in 0..Len(regs)
          /\ stack[k].due \subseteq 1..Len(regs)
          /\ \A e \in ToSet(handlers[stack[k].type]), x \in stack[k].due :
               e < x => e \in stack[k].due
      BY DEF FramesInOrder
    <3>2. ToSet(handlers'[stack[k].type]) \subseteq ToSet(handlers[stack[k].type])
      BY <1>1, <1>2 DEF HandlersThinned, Thinned, Typed
    <3>3. /\ stack'[k].type = stack[k].type
          /\ stack'[k].seq = stack[k].seq
          /\ stack'[k].due = stack[k].due
          /\ stack'[k].next \in {n + 1, stack[k].next}
          /\ stack'[k].running \in {0, r, stack[k].running}
      BY <1>1 DEF FramesMoved
    <3>4. r \in 0..Len(regs) /\ 0 \in 0..Len(regs) /\ n + 1 >= 1
      BY <1>1, <1>2 DEF CallAt, Typed
    <3> QED
      BY <3>1, <3>2, <3>3, <3>4
  <2>2. \A k, l \in 1..Len(stack) : k < l => stack'[k].seq < stack'[l].seq
    BY <1>1 DEF FramesInOrder, FramesMoved
  <2> QED
    BY <1>1, <2>1, <2>2 DEF FramesInOrder, FramesMoved
<1>6. \A i \in 1..Len(calls') : \/ i \in 1..Len(calls) /\ calls'[i] = calls[i]
                                \/ i = Len(calls) + 1 /\ calls'[i] = [reg |-> r, seq |-> Top.seq]
  BY <1>1, <1>2 DEF CallIsLast, Typed
<1>7. CallsArePast'
  <2>1. Top.seq <= sequence /\ r \in 1..Len(regs) /\ UNCHANGED <<sequence, regs>>
    BY <1>1, <1>3 DEF FramesInOrder, CallAt
  <2> QED
    BY <1>6, <2>1 DEF CallsArePast
<1>8. RegistrationOrder'
  <2> SUFFICES ASSUME NEW i \in 1..Len(calls'), NEW j \in 1..Len(calls'), i < j,
                      calls'[i].seq = calls'[j].seq
               PROVE  calls'[i].reg < calls'[j].reg
    BY DEF RegistrationOrder
  <2>1. i \in 1..Len(calls) /\ calls'[i] = calls[i]
    BY <1>1, <1>2, <1>6 DEF CallIsLast, Typed
  <2>2. CASE j \in 1..Len(calls)
    BY <1>1, <2>1, <2>2 DEF RegistrationOrder, CallIsLast
  <2>3. CASE j = Len(calls) + 1
    <3>1. calls'[j] = [reg |-> r, seq |-> Top.seq]
      BY <1>1, <2>3 DEF CallIsLast
    <3>2. /\ n \in 1..Len(handlers[stack[top].type])
          /\ n >= stack[top].next
          /\ r = handlers[stack[top].type][n]
      BY <1>1, <1>3 DEF CallAt
    <3> QED
      <4>1. calls[i].seq = stack[top].seq /\ calls'[j].reg = r /\ calls'[i].reg = calls[i].reg
        BY <1>3, <2>1, <3>1
      <4> HIDE DEF top
      <4> QED
        BY <1>3, <2>1, <3>2, <4>1 DEF CalledAreBehind
  <2> QED
    BY <1>6, <2>2, <2>3
<1>9. ASSUME NEW k \in 1..Len(stack), NEW j \in 1..Len(handlers'[stack[k].type])
      PROVE  \/ /\ j \in 1..Len(handlers[stack[k].type])
                /\ handlers'[stack[k].type][j] = handlers[stack[k].type][j]
             \/ /\ j + 1 \in 1..Len(handlers[stack[k].type])
                /\ handlers'[stack[k].type][j] = handlers[stack[k].type][j + 1]
                /\ \E e \in ToSet(handlers[stack[k].type]) \ ToSet(handlers'[stack[k].type]) :
                     e < handlers'[stack[k].type][j]
  BY <1>1, <1>2 DEF HandlersThinned, Thinned, Typed
<1>10. CalledAreBehind'
  <2> SUFFICES ASSUME NEW k \in 1..Len(stack), NEW i \in 1..Len(calls'), calls'[i].seq = stack[k].seq,
                      NEW j \in 1..Len(handlers'[stack[k].type]), j >= stack'[k].next
               PROVE  calls'[i].reg < handlers'[stack[k].type][j]
    BY <1>1 DEF CalledAreBehind, FramesMoved
  <2>0. stack[k].next \in Nat /\ j \in Nat /\ stack[k].type \in Types
        /\ Len(handlers[stack[k].type]) \in Nat
    BY <1>2, FrameTyped
  <2>1. PICK m \in 1..Len(handlers[stack[k].type]) :
               m >= j /\ handlers'[stack[k].type][j] = handlers[stack[k].type][m]
    <3>1. \/ /\ j \in 1..Len(handlers[stack[k].type])
             /\ handlers'[stack[k].type][j] = handlers[stack[k].type][j]
          \/ /\ j + 1 \in 1..Len(handlers[stack[k].type])
             /\ handlers'[stack[k].type][j] = handlers[stack[k].type][j + 1]
      BY <1>9
    <3>2. j >= j /\ j + 1 >= j
      BY <2>0
    <3> QED
      BY <3>1, <3>2
  <2>2. m >= stack[k].next /\ (k = top => m > n)
    <3>1. CASE k = top
      <4>1. stack'[k].next = n + 1 /\ stack[k].next = n
        BY <1>1, <1>3, <3>1 DEF FramesMoved, CallAt
      <4> QED
        BY <2>0, <2>1, <4>1
    <3>2. CASE k # top
      <4>1. stack'[k].next = stack[k].next
        BY <1>1, <3>2 DEF FramesMoved
      <4> QED
        BY <2>0, <2>1, <3>2, <4>1
    <3> QED
      BY <3>1, <3>2
  <2>3. CASE i \in 1..Len(calls) /\ calls'[i] = calls[i]
    BY <2>1, <2>2, <2>3 DEF CalledAreBehind
  <2>4. CASE calls'[i] = [reg |-> r, seq |-> Top.seq]
    <3>1. k = top
      <4>1. stack[k].seq = stack[top].seq /\ stack[k].seq \in Nat
        BY <1>2, <1>3, <2>4 DEF Typed
      <4>2. k < top => stack[k].seq < stack[top].seq
        BY <1>3 DEF FramesInOrder
      <4>3. k <= top /\ k \in Nat /\ top \in Nat
        BY <1>2 DEF Typed
      <4> QED
        BY <4>1, <4>2, <4>3
    <3>2. /\ Increasing(handlers[Top.type])
          /\ n \in 1..Len(handlers[Top.type])
          /\ r = handlers[Top.type][n]
      BY <1>1, <1>3 DEF HandlersInOrder, CallAt
    <3> QED
      BY <1>3, <2>1, <2>2, <2>4, <3>1, <3>2 DEF Increasing
  <2> QED
    BY <1>6, <2>3, <2>4
<1>11. \A s, m : Called(s, m) => Called(s, m)'
  <2> SUFFICES ASSUME NEW s, NEW m, NEW i \in 1..Len(calls), calls[i] = [reg |-> s, seq |-> m]
               PROVE  \E j \in 1..Len(calls') : calls'[j] = [reg |-> s, seq |-> m]
    BY DEF Called
  <2>1. i \in 1..Len(calls') /\ calls'[i] = calls[i]
    BY <1>1, <1>2 DEF CallIsLast, Typed
  <2> QED
    BY <2>1
<1>12. BehindAreExcused'
  <2> SUFFICES ASSUME NEW k \in 1..Len(stack), NEW j \in 1..Len(handlers'[stack[k].type]),
                      j < stack'[k].next, NEW x, x = handlers'[stack[k].type][j], x \in stack[k].due
               PROVE  Excused(stack[k], x)'
    BY <1>1 DEF BehindAreExcused, FramesMoved
  <2>0. stack[k].next \in Nat /\ j \in Nat /\ stack[k].type \in Types
    BY <1>2, FrameTyped
  <2>1. /\ stack'[k].type = stack[k].type
        /\ stack'[k].seq = stack[k].seq
        /\ stack'[k].due = stack[k].due
    BY <1>1 DEF FramesMoved
  <2>2. ToSet(handlers'[stack[k].type]) \subseteq ToSet(handlers[stack[k].type])
    BY <1>1, <2>0 DEF HandlersThinned, Thinned
  <2>3. ASSUME Excused(stack[k], x)
        PROVE  Excused(stack[k], x)'
    BY <1>11, <2>1, <2>2, <2>3 DEF Excused
  <2>4. CASE j \in 1..Len(handlers[stack[k].type]) /\ x = handlers[stack[k].type][j]
    <3>1. CASE j < stack[k].next
      BY <2>3, <2>4, <3>1 DEF BehindAreExcused
    <3>2. CASE ~(j < stack[k].next)
      <4>1. k = top /\ j = n
        <5>1. k = top
          BY <1>1, <3>2 DEF FramesMoved
        <5>2. stack'[k].next = n + 1 /\ stack[k].next = n
          BY <1>1, <1>3, <5>1 DEF FramesMoved, CallAt
        <5> QED
          BY <2>0, <3>2, <5>1, <5>2
      <4>2. x = r
        BY <1>1, <1>3, <2>4, <4>1 DEF CallAt
      <4>3. Len(calls) + 1 \in 1..Len(calls')
        BY <1>1, <1>2 DEF CallIsLast, Typed
      <4>4. calls'[Len(calls) + 1] = [reg |-> x, seq |-> stack[k].seq]
        BY <1>1, <1>3, <4>1, <4>2 DEF CallIsLast
      <4>5. Called(x, stack[k].seq)'
        BY <2>1, <4>3, <4>4 DEF Called
      <4> QED
        BY <2>1, <4>5 DEF Excused
    <3> QED
      BY <3>1, <3>2
  <2>5. ASSUME NEW e \in ToSet(handlers[stack[k].type]) \ ToSet(handlers'[stack[k].type]), e < x
        PROVE  Excused(stack[k], x)'
    <3>1. e \in stack[k].due
      BY <2>5 DEF FramesInOrder
    <3> QED
      BY <2>1, <2>5, <3>1 DEF Excused
  <2> QED
    BY <1>9, <2>4, <2>5
<1>13. OnceIsRunning'
  <2> SUFFICES ASSUME NEW x \in DOMAIN regs, regs[x].once, x \in ToSet(handlers'[regs[x].type]),
                      NEW i \in 1..Len(calls'), calls'[i].reg = x
               PROVE  \E k \in 1..Len(stack) : stack'[k].running = x
    BY <1>1 DEF OnceIsRunning, FramesMoved
  <2>1. x \in 1..Len(regs) /\ regs[x].type \in Types
    BY <1>2 DEF Typed
  <2>2. x \in ToSet(handlers[regs[x].type])
    BY <1>1, <2>1 DEF HandlersThinned, Thinned
  <2>3. CASE i \in 1..Len(calls) /\ calls'[i] = calls[i]
    <3>1. PICK k \in 1..Len(stack) : stack[k].running = x
      BY <2>2, <2>3 DEF OnceIsRunning
    <3>2. k # top
      <4>1. stack[top].running = 0
        BY <1>1, <1>3 DEF CallAt
      <4> QED
        BY <1>2, <2>1, <3>1, <4>1 DEF Typed
    <3> QED
      BY <1>1, <3>1, <3>2 DEF FramesMoved
  <2>4. CASE calls'[i] = [reg |-> r, seq |-> Top.seq]
    <3>1. x = r /\ ~regs[r].async
      <4>1. x = r
        BY <2>4
      <4> QED
        BY <1>0, <1>1, <4>1 DEF CallOf, CallAt
    <3> QED
      BY <1>1, <1>3, <3>1 DEF FramesMoved
  <2> QED
    BY <1>6, <2>3, <2>4
<1> QED
  BY <1>2, <1>4, <1>5, <1>7, <1>8, <1>10, <1>12, <1>13

LEMMA SubscribeKeeps ==
  ASSUME Deliveries, NEW ty \in Types, NEW once \in BOOLEAN, NEW async \in BOOLEAN,
         Subscribe(ty, once, async)
  PROVE  Deliveries'
<1> USE DEF Deliveries
<1> DEFINE g == [type |-> ty, once |-> once, async |-> async]
<1>1. TypeOK /\ Typed
  BY ElementTypes
<1>2. PICK new \in Nat : new = Len(regs) + 1
  BY <1>1 DEF Typed
<1>3. UNCHANGED <<sequence, log, stack, promises, wait, calls, latest>>
  BY DEF Subscribe
<1>4. /\ regs' \in Seq(Reg)
      /\ Len(regs') = new
      /\ regs'[new] = g
      /\ \A r \in 1..Len(regs) : regs'[r] = regs[r]
  <2>1. g \in Reg /\ regs \in Seq(Reg) /\ regs' = Append(regs, g)
    BY <1>1 DEF Reg, TypeOK, Subscribe
  <2> HIDE DEF g
  <2> QED
    BY <1>2, <2>1, AppendProperties
<1>5. PICK old \in Seq(Nat) : old = handlers[ty]
  BY <1>1 DEF Typed
<1>6. PICK lst \in Seq(Nat) : /\ lst = Append(old, new)
                              /\ Len(lst) = Len(old) + 1
                              /\ lst[Len(old) + 1] = new
                              /\ \A i \in 1..Len(old) : lst[i] = old[i]
  <2>1. /\ Append(old, new) \in Seq(Nat)
        /\ Len(Append(old, new)) = Len(old) + 1
        /\ Append(old, new)[Len(old) + 1] = new
        /\ \A i \in 1..Len(old) : Append(old, new)[i] = old[i]
    BY AppendProperties
  <2> QED
    BY <2>1
<1>7. handlers' = [handlers EXCEPT ![ty] = lst]
  BY <1>2, <1>5, <1>6 DEF Subscribe
<1>8. TypeOK'
  BY <1>1, <1>3, <1>4, <1>7 DEF TypeOK
<1>9. Typed'
  BY <1>8, ElementTypesNext
<1>10. /\ handlers'[ty] = lst
       /\ \A x \in Types : x # ty => handlers'[x] = handlers[x]
  BY <1>1, <1>7 DEF TypeOK
<1>11. ToSet(lst) = ToSet(old) \cup {new}
  <2>1. DOMAIN old = 1..Len(old) /\ DOMAIN lst = 1..Len(lst) /\ Len(old) \in Nat
    OBVIOUS
  <2>2. \A i \in 1..Len(lst) : i \in 1..Len(old) \/ i = Len(old) + 1
    BY <1>6, <2>1
  <2>3. \A i \in 1..Len(old) : i \in 1..Len(lst)
    BY <1>6, <2>1
  <2>4. Len(old) + 1 \in 1..Len(lst)
    BY <1>6, <2>1
  <2> QED
    BY <1>6, <2>1, <2>2, <2>3, <2>4 DEF ToSet
<1>12. ToSet(old) \subseteq 1..Len(regs) /\ \A i \in 1..Len(old) : old[i] < new
  <2>1. ToSet(old) \subseteq 1..Len(regs)
    BY <1>5 DEF HandlersInOrder
  <2>2. \A i \in 1..Len(old) : old[i] \in ToSet(old)
    BY DEF ToSet
  <2> QED
    BY <1>1, <1>2, <2>1, <2>2 DEF Typed
<1>13. HandlersInOrder'
  <2>1. ASSUME NEW x \in Types, x # ty
        PROVE  /\ Increasing(handlers'[x])
               /\ ToSet(handlers'[x]) \subseteq {r \in 1..Len(regs') : regs'[r].type = x}
    <3>1. handlers'[x] = handlers[x]
      BY <1>10, <2>1
    <3>2. /\ Increasing(handlers[x])
          /\ ToSet(handlers[x]) \subseteq {r \in 1..Len(regs) : regs[r].type = x}
      BY DEF HandlersInOrder
    <3>3. Len(regs) \in Nat
      BY <1>1 DEF Typed
    <3>4. {r \in 1..Len(regs) : regs[r].type = x} \subseteq {r \in 1..Len(regs') : regs'[r].type = x}
      BY <1>2, <1>4, <3>3
    <3> QED
      BY <3>1, <3>2, <3>4
  <2>2. Increasing(lst)
    <3>1. Increasing(old) /\ Len(old) \in Nat
      BY <1>5 DEF HandlersInOrder
    <3> SUFFICES ASSUME NEW i \in 1..Len(lst), NEW j \in 1..Len(lst), i < j
                 PROVE  lst[i] < lst[j]
      BY DEF Increasing
    <3>2. i \in 1..Len(old) /\ lst[i] = old[i]
      BY <1>6, <3>1
    <3>3. CASE j \in 1..Len(old)
      <4>1. lst[j] = old[j]
        BY <1>6, <3>3
      <4> QED
        BY <3>1, <3>2, <3>3, <4>1 DEF Increasing
    <3>4. CASE j = Len(old) + 1
      BY <1>6, <1>12, <3>2, <3>4
    <3> QED
      BY <1>6, <3>1, <3>3, <3>4
  <2>3. ToSet(lst) \subseteq {r \in 1..Len(regs') : regs'[r].type = ty}
    <3>1. ToSet(old) \subseteq {r \in 1..Len(regs) : regs[r].type = ty}
      BY <1>5 DEF HandlersInOrder
    <3> QED
      BY <1>1, <1>2, <1>4, <1>11, <3>1 DEF Typed
  <2> QED
    BY <1>10, <2>1, <2>2, <2>3 DEF HandlersInOrder
<1>14. FramesInOrder'
  <2>1. ASSUME NEW k \in 1..Len(stack)
        PROVE  /\ stack[k].running \in 0..new
               /\ stack[k].due \subseteq 1..new
               /\ \A e \in ToSet(handlers'[stack[k].type]), r \in stack[k].due :
                    e < r => e \in stack[k].due
    <3>1. /\ stack[k].running \in 0..Len(regs)
          /\ stack[k].due \subseteq 1..Len(regs)
          /\ \A e \in ToSet(handlers[stack[k].type]), r \in stack[k].due :
               e < r => e \in stack[k].due
          /\ Len(regs) \in Nat /\ stack[k].type \in Types
      BY <1>1 DEF FramesInOrder, Typed
    <3>2. \A e \in ToSet(handlers'[stack[k].type]) :
            e \in ToSet(handlers[stack[k].type]) \/ e = new
      BY <1>5, <1>10, <1>11, <3>1
    <3>3. Len(regs) < new /\ new \in Nat
      BY <1>2, <3>1
    <3>4. stack[k].running \in 0..new
      BY <3>1, <3>3
    <3>5. stack[k].due \subseteq 1..new
      BY <3>1, <3>3
    <3>6. ASSUME NEW e \in ToSet(handlers'[stack[k].type]), NEW r \in stack[k].due, e < r
          PROVE  e \in stack[k].due
      <4>1. e # new
        <5>1. r \in 1..Len(regs)
          BY <3>1
        <5> QED
          BY <3>1, <3>3, <3>6, <5>1
      <4> QED
        BY <3>1, <3>2, <3>6, <4>1
    <3> QED
      BY <3>4, <3>5, <3>6
  <2> QED
    BY <1>3, <1>4, <2>1 DEF FramesInOrder
<1>15. CallsArePast' /\ RegistrationOrder'
  BY <1>1, <1>2, <1>3, <1>4 DEF CallsArePast, RegistrationOrder, Typed
<1>16. ASSUME NEW x \in Types, NEW j \in 1..Len(handlers'[x])
       PROVE  \/ j \in 1..Len(handlers[x]) /\ handlers'[x][j] = handlers[x][j]
              \/ handlers'[x][j] = new
  BY <1>5, <1>6, <1>10
<1>17. CalledAreBehind'
  <2> SUFFICES ASSUME NEW k \in 1..Len(stack), NEW i \in 1..Len(calls), calls[i].seq = stack[k].seq,
                      NEW j \in 1..Len(handlers'[stack[k].type]), j >= stack[k].next
               PROVE  calls[i].reg < handlers'[stack[k].type][j]
    BY <1>3 DEF CalledAreBehind
  <2>1. stack[k].type \in Types /\ calls[i].reg < new
    BY <1>1, <1>2 DEF Typed, CallsArePast
  <2> QED
    BY <1>16, <2>1 DEF CalledAreBehind
<1>18. BehindAreExcused'
  <2> SUFFICES ASSUME NEW k \in 1..Len(stack), NEW j \in 1..Len(handlers'[stack[k].type]),
                      j < stack[k].next, NEW r, r = handlers'[stack[k].type][j], r \in stack[k].due
               PROVE  Excused(stack[k], r)'
    BY <1>3 DEF BehindAreExcused
  <2>1. stack[k].type \in Types /\ new \notin stack[k].due
    BY <1>1, <1>2 DEF Typed, FramesInOrder
  <2>2. Excused(stack[k], r)
    BY <1>16, <2>1 DEF BehindAreExcused
  <2>3. \A s \in stack[k].due :
          s \notin ToSet(handlers[stack[k].type]) => s \notin ToSet(handlers'[stack[k].type])
    BY <1>5, <1>10, <1>11, <2>1
  <2> QED
    BY <1>3, <2>2, <2>3 DEF Excused, Called
<1>19. OnceIsRunning'
  <2> SUFFICES ASSUME NEW r \in DOMAIN regs', regs'[r].once, r \in ToSet(handlers'[regs'[r].type]),
                      NEW i \in 1..Len(calls), calls[i].reg = r
               PROVE  \E k \in 1..Len(stack) : stack[k].running = r
    BY <1>3 DEF OnceIsRunning
  <2>1. r \in 1..Len(regs) /\ r # new /\ regs'[r] = regs[r] /\ regs[r].type \in Types
    BY <1>1, <1>2, <1>4 DEF CallsArePast, Typed
  <2>2. r \in ToSet(handlers[regs[r].type]) /\ r \in DOMAIN regs
    BY <1>1, <1>5, <1>10, <1>11, <2>1 DEF Typed
  <2> QED
    BY <2>1, <2>2 DEF OnceIsRunning
<1> QED
  BY <1>8, <1>13, <1>14, <1>15, <1>17, <1>18, <1>19

-----------------------------------------------------------------------------
(***************************************************************************)
(* The delivery contract.                                                  *)
(***************************************************************************)
LEMMA InitDeliveries == Init => Deliveries
<1> SUFFICES ASSUME Init
             PROVE  Deliveries
  OBVIOUS
<1>1. /\ sequence = 0 /\ log = <<>> /\ regs = <<>> /\ stack = <<>> /\ calls = <<>>
      /\ handlers = [ty \in Types |-> <<>>]
  BY DEF Init
<1>2. TypeOK
  <2>1. [state |-> "none", type |-> "", since |-> 0, seq |-> 0] \in Wait
    BY DEF Wait
  <2>2. wait \in [Waiters -> Wait]
    BY <2>1 DEF Init
  <2>3. promises \in [Types -> SUBSET Waiters] /\ latest \in [Types -> Nat]
    BY DEF Init
  <2>4. /\ log \in Seq(Event) /\ regs \in Seq(Reg) /\ stack \in Seq(Frame)
        /\ calls \in Seq([reg : Nat, seq : Nat])
        /\ handlers \in [Types -> Seq(Nat)]
    <3>1. /\ <<>> \in Seq(Event) /\ <<>> \in Seq(Reg) /\ <<>> \in Seq(Frame)
          /\ <<>> \in Seq([reg : Nat, seq : Nat]) /\ <<>> \in Seq(Nat)
      BY EmptySeq
    <3> QED
      BY <1>1, <3>1
  <2>5. sequence \in Nat /\ Len(log) <= MaxLog
    <3>1. Len(<<>>) = 0 /\ MaxLog \in Nat
      BY EmptySeq, LogHasRoom
    <3> QED
      BY <1>1, <3>1
  <2> QED
    BY <2>2, <2>3, <2>4, <2>5 DEF TypeOK
<1>3. HandlersInOrder
  BY <1>1 DEF HandlersInOrder, Increasing, ToSet
<1>4. FramesInOrder /\ CallsArePast /\ RegistrationOrder /\ CalledAreBehind /\ BehindAreExcused
  BY <1>1 DEF FramesInOrder, CallsArePast, RegistrationOrder, CalledAreBehind, BehindAreExcused
<1>5. OnceIsRunning
  BY <1>1 DEF OnceIsRunning
<1> QED
  BY <1>2, <1>3, <1>4, <1>5 DEF Deliveries

LEMMA StepDeliveries == Deliveries /\ [Next]_vars => Deliveries'
  BY EmitQuiet, HandlerEndsQuiet, FinishEmitQuiet, OtherQuiet, QuietDeliveries, CallKeeps,
     SubscribeKeeps DEF Next

LEMMA NobodyPassed == Deliveries => PassedOnlyBehindARemoval
<1> SUFFICES ASSUME Deliveries, stack # <<>>, NotifiedAll(Top), NEW r \in Passed(Top)
             PROVE  \E s \in Top.due : s < r /\ s \notin ToSet(handlers[Top.type])
  BY DEF PassedOnlyBehindARemoval
<1>1. Typed /\ Len(stack) \in 1..Len(stack) /\ Top = stack[Len(stack)]
  BY ElementTypes, TopFrame DEF Deliveries
<1>2. r \in Top.due /\ r \in ToSet(handlers[Top.type]) /\ ~Called(r, Top.seq)
  BY DEF Passed
<1>3. PICK j \in 1..Len(handlers[Top.type]) : r = handlers[Top.type][j]
  BY <1>1, <1>2 DEF ToSet, Typed
<1>4. j < Top.next
  BY <1>1 DEF NotifiedAll, Typed
<1>5. Excused(Top, r)
  BY <1>1, <1>2, <1>3, <1>4 DEF Deliveries, BehindAreExcused
<1> QED
  BY <1>2, <1>5 DEF Excused

LEMMA StepOnce ==
  ASSUME Deliveries, [Next]_vars, NEW r \in DOMAIN regs, regs[r].once,
         \E i \in 1..Len(calls) : calls[i].reg = r,
         calls' # calls, calls'[Len(calls')].reg = r
  PROVE  \E k \in 1..Len(stack) : stack[k].running = r
<1>1. CallNext
  BY DEF Next, Emit, HandlerEnds, FinishEmit, Subscribe, Unsubscribe, WaitFor, TimeOut,
     ClearEventLog, vars
<1>2. PICK n \in Nat, m \in Nat : CallAt(n, m) /\ CallIsLast(m)
  BY <1>1, CallEffect DEF CallOf
<1>3. m = r
  BY <1>2 DEF CallIsLast
<1>4. Typed /\ stack # <<>>
  BY <1>1, ElementTypes DEF CallNext, Deliveries
<1>5. Top.type \in Types
  BY <1>4, TopFrame DEF Deliveries, Frame
<1>6. r \in ToSet(handlers[regs[r].type])
  <2>1. r = handlers[Top.type][n] /\ n \in 1..Len(handlers[Top.type])
    BY <1>2, <1>3 DEF CallAt
  <2>2. handlers[Top.type] \in Seq(Nat)
    BY <1>4, <1>5 DEF Typed
  <2>3. r \in ToSet(handlers[Top.type])
    BY <2>1, <2>2 DEF ToSet
  <2>4. regs[r].type = Top.type
    BY <1>5, <2>3 DEF Deliveries, HandlersInOrder
  <2> QED
    BY <2>3, <2>4
<1> QED
  BY <1>6 DEF Deliveries, OnceIsRunning

\* One event reaches its handlers in the order they subscribed in, each at most
\* once; an emit passes over nobody but behind a handler that was unsubscribed
\* while it ran; and a one-time handler is called again only from inside itself:
\* whatever handlers raise, emit, subscribe and unsubscribe.
THEOREM DeliveryIsSound == Spec => DeliveryHolds
<1>1. Deliveries => RegistrationOrder
  BY DEF Deliveries
<1>2. Deliveries /\ [Next]_vars =>
        [\A r \in DOMAIN regs :
           /\ regs[r].once
           /\ \E i \in 1..Len(calls) : calls[i].reg = r
           /\ calls' # calls
           /\ calls'[Len(calls')].reg = r
           => \E k \in 1..Len(stack) : stack[k].running = r]_vars
  BY StepOnce
<1> QED
  BY <1>1, <1>2, InitDeliveries, StepDeliveries, NobodyPassed, PTL
  DEF Spec, DeliveryHolds, OnceUnlessReentered

-----------------------------------------------------------------------------
(***************************************************************************)
(* The coroutines that wait.                                               *)
(***************************************************************************)
\* A coroutine that waits is registered under its type.
Registered == \A w \in Waiters : wait[w].state = "waiting" =>
                /\ wait[w].type \in Types
                /\ w \in promises[wait[w].type]

LatestIsPast == \A ty \in Types : latest[ty] <= sequence

Waits == Registered /\ LatestIsPast /\ NobodySleepsThrough

\* The emits in progress go on, each of its type.
TypesStay == \A k \in 1..Len(stack) : k \in 1..Len(stack') /\ stack'[k].type = stack[k].type

LEMMA SleepersStay ==
  ASSUME Waits, TypesStay, UNCHANGED <<sequence, promises, wait, latest>>
  PROVE  Waits'
<1>1. Registered' /\ LatestIsPast'
  BY DEF Waits, Registered, LatestIsPast
<1>2. NobodySleepsThrough'
  BY DEF Waits, NobodySleepsThrough, TypesStay
<1> QED
  BY <1>1, <1>2 DEF Waits

LEMMA CallStays ==
  ASSUME Deliveries, CallNext
  PROVE  TypesStay /\ UNCHANGED <<sequence, promises, wait, latest>>
<1>1. PICK n \in Nat, m \in Nat : FramesMoved(n, m)
  BY CallEffect DEF CallOf
<1> QED
  BY <1>1 DEF TypesStay, FramesMoved, CallNext

LEMMA HandlerEndsStays ==
  ASSUME Deliveries, NEW raised \in BOOLEAN, HandlerEnds(raised)
  PROVE  TypesStay /\ UNCHANGED <<sequence, promises, wait, latest>>
<1> DEFINE f == [Top EXCEPT !.running = 0]
<1>1. TypeOK /\ stack # <<>> /\ SetTop(f)
  BY DEF Deliveries, HandlerEnds
<1>2. Top = stack[Len(stack)] /\ Top \in Frame
  BY <1>1, TopFrame
<1>3. f \in Frame /\ f.type = Top.type
  BY <1>2 DEF Frame
<1> HIDE DEF f
<1>4. /\ Len(stack') = Len(stack)
      /\ stack'[Len(stack)] = f
      /\ \A k \in 1..Len(stack) : k # Len(stack) => stack'[k] = stack[k]
  BY <1>1, <1>3, SetTopEffect
<1> QED
  BY <1>2, <1>3, <1>4 DEF TypesStay, HandlerEnds

LEMMA EmitWakes ==
  ASSUME Deliveries, Waits, NEW ty \in Types, Emit(ty)
  PROVE  Waits'
<1>1. /\ sequence \in Nat /\ latest \in [Types -> Nat]
      /\ latest' = [latest EXCEPT ![ty] = sequence + 1]
      /\ sequence' = sequence + 1
      /\ promises' = promises /\ wait' = wait
  BY DEF Deliveries, TypeOK, Emit
<1>2. Registered' /\ LatestIsPast'
  BY <1>1 DEF Waits, Registered, LatestIsPast
<1>3. /\ Len(stack') = Len(stack) + 1
      /\ stack'[Len(stack) + 1].type = ty
      /\ \A k \in 1..Len(stack) : stack'[k] = stack[k]
      /\ Len(stack) \in Nat
  <2> DEFINE f == [type |-> ty, seq |-> sequence + 1, next |-> 1, running |-> 0,
                   due |-> ToSet(handlers[ty])]
  <2>1. stack' = Append(stack, f) /\ f.type = ty
    BY DEF Emit
  <2>2. PICK g : g = f
    OBVIOUS
  <2> HIDE DEF f
  <2>3. stack \in Seq(Frame) /\ stack' \in Seq(Frame)
    BY EmitQuiet DEF Deliveries, TypeOK, QuietStep
  <2> QED
    BY <2>1, <2>3
<1>4. NobodySleepsThrough'
  <2> SUFFICES ASSUME NEW w \in Waiters, wait[w].state = "waiting",
                      latest'[wait[w].type] > wait[w].since
               PROVE  \E k \in 1..Len(stack') : stack'[k].type = wait[w].type
    BY <1>1 DEF NobodySleepsThrough
  <2>1. wait[w].type \in Types
    BY DEF Waits, Registered
  <2>2. CASE wait[w].type = ty
    BY <1>3, <2>2
  <2>3. CASE wait[w].type # ty
    <3>1. latest[wait[w].type] > wait[w].since
      BY <1>1, <2>1, <2>3
    <3>2. PICK k \in 1..Len(stack) : stack[k].type = wait[w].type
      BY <3>1 DEF Waits, NobodySleepsThrough
    <3> QED
      BY <1>3, <3>2
  <2> QED
    BY <2>2, <2>3
<1> QED
  BY <1>2, <1>4 DEF Waits

LEMMA FinishEmitWakes ==
  ASSUME Deliveries, Waits, FinishEmit
  PROVE  Waits'
<1>1. TypeOK /\ stack # <<>>
  BY DEF Deliveries, FinishEmit
<1>2. /\ Len(stack) \in 1..Len(stack)
      /\ Top = stack[Len(stack)]
      /\ Top \in Frame
  BY <1>1, TopFrame
<1>3. PICK ty \in Types : ty = Top.type
  BY <1>2 DEF Frame
<1>4. /\ wait' = [w \in Waiters |-> IF w \in Answered(ty)
                                   THEN [wait[w] EXCEPT !.state = "answered", !.seq = Top.seq]
                                   ELSE wait[w]]
      /\ promises' = [promises EXCEPT ![ty] = {}]
      /\ stack' = Front(stack)
      /\ UNCHANGED <<sequence, latest>>
  BY <1>3 DEF FinishEmit
<1>5. wait \in [Waiters -> Wait] /\ promises \in [Types -> SUBSET Waiters] /\ stack \in Seq(Frame)
  BY <1>1 DEF TypeOK
<1>6. /\ Len(stack') = Len(stack) - 1
      /\ \A k \in 1..Len(stack') : stack'[k] = stack[k]
  BY <1>1, <1>4, <1>5, FrontEffect
\* Whoever still waits waits for another type, and did so before.
<1>7. ASSUME NEW w \in Waiters, wait'[w].state = "waiting"
      PROVE  /\ wait'[w] = wait[w]
             /\ wait[w].type \in Types \ {ty}
             /\ w \in promises[wait[w].type]
  <2>1. w \notin Answered(ty)
    <3> SUFFICES ASSUME w \in Answered(ty)
                 PROVE  FALSE
      OBVIOUS
    <3>1. wait'[w] = [wait[w] EXCEPT !.state = "answered", !.seq = Top.seq]
      BY <1>4
    <3>2. wait[w] \in Wait
      BY <1>5
    <3>3. wait'[w].state = "answered"
      BY <3>1, <3>2 DEF Wait
    <3> QED
      BY <1>7, <3>3
  <2>2. wait'[w] = wait[w]
    BY <1>4, <2>1
  <2>3. wait[w].type \in Types /\ w \in promises[wait[w].type]
    BY <1>7, <2>2 DEF Waits, Registered
  <2>4. wait[w].type # ty
    BY <1>7, <2>1, <2>2, <2>3 DEF Answered
  <2> QED
    BY <2>2, <2>3, <2>4
<1>8. Registered' /\ LatestIsPast'
  <2>1. Registered'
    BY <1>4, <1>5, <1>7 DEF Registered
  <2>2. LatestIsPast'
    BY <1>4 DEF Waits, LatestIsPast
  <2> QED
    BY <2>1, <2>2
<1>9. NobodySleepsThrough'
  <2> SUFFICES ASSUME NEW w \in Waiters, wait'[w].state = "waiting",
                      latest[wait'[w].type] > wait'[w].since
               PROVE  \E k \in 1..Len(stack') : stack'[k].type = wait'[w].type
    BY <1>4 DEF NobodySleepsThrough
  <2>1. wait'[w] = wait[w] /\ wait[w].type # ty
    BY <1>7
  <2>2. PICK k \in 1..Len(stack) : stack[k].type = wait[w].type
    BY <2>1 DEF Waits, NobodySleepsThrough
  <2>3. k \in 1..Len(stack')
    BY <1>2, <1>3, <1>6, <2>1, <2>2
  <2> QED
    BY <1>6, <2>1, <2>2, <2>3
<1> QED
  BY <1>8, <1>9 DEF Waits

LEMMA WaitForWaits ==
  ASSUME Deliveries, Waits, NEW w \in Waiters, NEW ty \in Types, WaitFor(w, ty)
  PROVE  Waits'
<1> DEFINE new == [state |-> "waiting", type |-> ty, since |-> sequence, seq |-> 0]
<1>1. /\ wait \in [Waiters -> Wait] /\ promises \in [Types -> SUBSET Waiters]
      /\ sequence \in Nat /\ latest \in [Types -> Nat]
      /\ wait' = [wait EXCEPT ![w] = new]
      /\ promises' = [promises EXCEPT ![ty] = @ \cup {w}]
      /\ UNCHANGED <<sequence, stack, latest>>
  BY DEF Deliveries, TypeOK, WaitFor
<1>2. new.type = ty /\ new.since = sequence
  OBVIOUS
<1> HIDE DEF new
<1>3. /\ wait'[w] = new
      /\ \A v \in Waiters : v # w => wait'[v] = wait[v]
      /\ \A x \in Types : promises[x] \subseteq promises'[x]
      /\ w \in promises'[ty]
  BY <1>1
<1>4. Registered' /\ LatestIsPast'
  BY <1>1, <1>2, <1>3 DEF Waits, Registered, LatestIsPast
<1>5. NobodySleepsThrough'
  <2>1. ~(latest[ty] > sequence)
    BY <1>1 DEF Waits, LatestIsPast
  <2> QED
    BY <1>1, <1>2, <1>3, <2>1 DEF Waits, NobodySleepsThrough
<1> QED
  BY <1>4, <1>5 DEF Waits

LEMMA TimeOutWaits ==
  ASSUME Deliveries, Waits, NEW w \in Waiters, TimeOut(w)
  PROVE  Waits'
<1>1. /\ wait \in [Waiters -> Wait]
      /\ wait' = [wait EXCEPT ![w].state = "timeout"]
      /\ UNCHANGED <<sequence, stack, promises, latest>>
  BY DEF Deliveries, TypeOK, TimeOut
<1>2. wait'[w].state = "timeout"
  BY <1>1 DEF Wait
<1>3. \A v \in Waiters : v # w => wait'[v] = wait[v]
  BY <1>1
<1>4. Registered' /\ LatestIsPast'
  BY <1>1, <1>2, <1>3 DEF Waits, Registered, LatestIsPast
<1>5. NobodySleepsThrough'
  BY <1>1, <1>2, <1>3 DEF Waits, NobodySleepsThrough
<1> QED
  BY <1>4, <1>5 DEF Waits

LEMMA InitWaits == Init => Waits
<1> SUFFICES ASSUME Init
             PROVE  Waits
  OBVIOUS
<1>1. \A w \in Waiters : wait[w].state # "waiting"
  BY DEF Init
<1>2. LatestIsPast
  <2>1. latest = [ty \in Types |-> 0] /\ sequence = 0
    BY DEF Init
  <2> QED
    BY <2>1 DEF LatestIsPast
<1> QED
  BY <1>1, <1>2 DEF Waits, Registered, NobodySleepsThrough

LEMMA StepWaits == Deliveries /\ Waits /\ [Next]_vars => Waits'
<1> SUFFICES ASSUME Deliveries, Waits, [Next]_vars
             PROVE  Waits'
  OBVIOUS
<1>1. ASSUME NEW ty \in Types, Emit(ty)
      PROVE  Waits'
  BY <1>1, EmitWakes
<1>2. CASE CallNext
  BY <1>2, CallStays, SleepersStay
<1>3. ASSUME NEW raised \in BOOLEAN, HandlerEnds(raised)
      PROVE  Waits'
  BY <1>3, HandlerEndsStays, SleepersStay
<1>4. CASE FinishEmit
  BY <1>4, FinishEmitWakes
<1>5. ASSUME NEW ty \in Types, NEW once \in BOOLEAN, NEW async \in BOOLEAN, Subscribe(ty, once, async)
      PROVE  Waits'
  BY <1>5, SleepersStay DEF Subscribe, TypesStay
<1>6. ASSUME NEW r \in DOMAIN regs, Unsubscribe(r)
      PROVE  Waits'
  BY <1>6, SleepersStay DEF Unsubscribe, TypesStay
<1>7. ASSUME NEW w \in Waiters, NEW ty \in Types, WaitFor(w, ty)
      PROVE  Waits'
  BY <1>7, WaitForWaits
<1>8. ASSUME NEW w \in Waiters, TimeOut(w)
      PROVE  Waits'
  BY <1>8, TimeOutWaits
<1>9. CASE ClearEventLog
  BY <1>9, SleepersStay DEF ClearEventLog, TypesStay
<1>10. CASE UNCHANGED vars
  BY <1>10, SleepersStay DEF vars, TypesStay
<1> QED
  BY <1>1, <1>2, <1>3, <1>4, <1>5, <1>6, <1>7, <1>8, <1>9, <1>10 DEF Next

LEMMA StepOutcome ==
  ASSUME TypeOK, [Next]_vars, NEW w \in Waiters, wait[w].state \in {"answered", "timeout"}
  PROVE  wait'[w] = wait[w]
<1>0. wait \in [Waiters -> Wait]
  BY DEF TypeOK
<1>1. CASE FinishEmit
  BY <1>0, <1>1 DEF FinishEmit, Answered
<1>2. ASSUME NEW v \in Waiters, NEW ty \in Types, WaitFor(v, ty)
      PROVE  wait'[w] = wait[w]
  BY <1>0, <1>2 DEF WaitFor
<1>3. ASSUME NEW v \in Waiters, TimeOut(v)
      PROVE  wait'[w] = wait[w]
  BY <1>0, <1>3 DEF TimeOut
<1>4. CASE wait' = wait
  BY <1>4
<1> QED
  BY <1>1, <1>2, <1>3, <1>4
  DEF Next, Emit, CallNext, HandlerEnds, Subscribe, Unsubscribe, ClearEventLog, vars

\* A coroutine does not sleep through an event of its type, and the first of its
\* answer and its timeout stands: however emits nest, and whatever handlers do.
THEOREM WaitsAreSound == Spec => WaitsHold
<1>1. Deliveries => TypeOK
  BY DEF Deliveries
<1>2. Waits => NobodySleepsThrough
  BY DEF Waits
<1>3. TypeOK /\ [Next]_vars =>
        [\A w \in Waiters : wait[w].state \in {"answered", "timeout"} => wait'[w] = wait[w]]_vars
  BY StepOutcome
<1> QED
  BY <1>1, <1>2, <1>3, InitDeliveries, StepDeliveries, InitWaits, StepWaits, PTL
  DEF Spec, WaitsHold, FirstOutcomeStands
=============================================================================
