-------------------------- MODULE LedgerFileProofs --------------------------
(***************************************************************************)
(* Every acknowledged event is a line of its own, except one for each      *)
(* stray write: for any number of writers and appends, failures and        *)
(* crashes.                                                                *)
(***************************************************************************)
EXTENDS LedgerFile, FiniteSetTheorems, SequenceTheorems, TLAPS

\* What the steps need of the types, and what a busy writer has put into its job.
Typed ==
  /\ TypeOK
  /\ acked \subseteq Events
  /\ \A w \in Writers :
       /\ pc[w] \in {"lock", "write", "unlock", "close"} => event[w] \in 1..issued
       /\ pc[w] \in {"lock", "write"} => done[w] \in 0..2 /\ ~failed[w]
       /\ pc[w] = "lock" => done[w] = 0
       /\ pc[w] \in {"down", "idle"} => done[w] = 0 /\ ~failed[w]

\* Whoever is between flock and unlock holds the lock.
Locked == \A w \in Writers : pc[w] \in {"write", "unlock"} => lock = w

\* w is in the middle of its line.
Midway(w) == pc[w] = "write" /\ done[w] > 0

\* The line w is writing, or has written, is not one of its own.
Doomed(w) ==
  \/ Midway(w) /\ open # Bytes(event[w], 0, done[w])
  \/ pc[w] \in {"unlock", "close"} /\ ~failed[w] /\ ~Intact(event[w])

Damaged == {e \in acked : ~Intact(e)} \cup {event[w] : w \in {v \in Writers : Doomed(v)}}

\* An unfinished line that nobody is going to finish.
Abandoned == open # <<>> /\ \A w \in Writers : ~Midway(w)

Bounded == Cardinality(Damaged) + (IF Abandoned THEN 1 ELSE 0) <= stray

IInv == Typed /\ Locked /\ Bounded

-----------------------------------------------------------------------------
\* A set of one more element is larger by one at most.
LEMMA OneMore ==
  ASSUME NEW S, NEW T, NEW x, IsFiniteSet(S), T \subseteq S \cup {x}
  PROVE  IsFiniteSet(T) /\ Cardinality(T) \in Nat /\ Cardinality(S) \in Nat
           /\ Cardinality(T) <= Cardinality(S) + 1
<1>1. IsFiniteSet(S \cup {x}) /\ Cardinality(S \cup {x}) <= Cardinality(S) + 1
  <2>1. IsFiniteSet(S \cup {x})  BY FS_AddElement
  <2>2. Cardinality(S \cup {x}) = IF x \in S THEN Cardinality(S) ELSE Cardinality(S) + 1
    BY FS_AddElement
  <2>3. Cardinality(S) \in Nat  BY FS_CardinalityType
  <2> QED  BY <2>1, <2>2, <2>3
<1>2. IsFiniteSet(T) /\ Cardinality(T) <= Cardinality(S \cup {x})  BY <1>1, FS_Subset
<1>3. Cardinality(S) \in Nat /\ Cardinality(T) \in Nat /\ Cardinality(S \cup {x}) \in Nat
  BY <1>1, <1>2, FS_CardinalityType
<1> QED  BY <1>1, <1>2, <1>3

LEMMA NoMore ==
  ASSUME NEW S, NEW T, IsFiniteSet(S), T \subseteq S
  PROVE  Cardinality(T) \in Nat /\ Cardinality(S) \in Nat /\ Cardinality(T) <= Cardinality(S)
BY FS_Subset, FS_CardinalityType

\* The damaged events are finitely many.
LEMMA DamagedFinite == Typed => IsFiniteSet(Damaged)
<1> SUFFICES ASSUME Typed PROVE IsFiniteSet(Damaged)  OBVIOUS
<1>1. IsFiniteSet(Events)  BY BoundType, FS_Interval DEF Events
<1>2. IsFiniteSet(Events \cup {NULL})  BY <1>1, FS_AddElement
<1>3. \A w \in Writers : event[w] \in Events \cup {NULL}  BY DEF Typed, TypeOK
<1>4. acked \subseteq Events  BY DEF Typed
<1>5. Damaged \subseteq Events \cup {NULL}  BY <1>3, <1>4 DEF Damaged
<1> QED  BY <1>2, <1>5, FS_Subset

\* A line that is intact stays so: the file only grows.
LEMMA IntactStays ==
  ASSUME Typed, NEW e, Intact(e),
         \/ UNCHANGED closed
         \/ \E line \in Seq(Pieces) : closed' = Append(closed, line)
  PROVE  Intact(e)'
<1>1. PICK i \in DOMAIN closed : closed[i] = Text(e)  BY DEF Intact
<1>2. CASE UNCHANGED closed  BY <1>1, <1>2 DEF Intact, Text, Half
<1>3. CASE \E line \in Seq(Pieces) : closed' = Append(closed, line)
  <2>1. PICK line \in Seq(Pieces) : closed' = Append(closed, line)  BY <1>3
  <2>2. i \in DOMAIN closed' /\ closed'[i] = closed[i]  BY <1>1, <2>1 DEF Typed, TypeOK
  <2> QED  BY <1>1, <2>2 DEF Intact, Text, Half
<1> QED  BY <1>2, <1>3

\* The bytes of a line are pieces; all of them are its text.
LEMMA BytesAre ==
  ASSUME NEW e \in Events, NEW m \in 0..2, NEW n \in 0..2, m <= n
  PROVE  /\ Bytes(e, m, n) \in Seq(Pieces)
         /\ Bytes(e, 0, m) \o Bytes(e, m, n) = Bytes(e, 0, n)
         /\ Bytes(e, 0, 2) = Text(e)
         /\ Bytes(e, 0, 0) = <<>>
         /\ n > m => Bytes(e, m, n) # <<>>
<1>1. Text(e) \in Seq(Pieces) /\ Len(Text(e)) = 2
  BY DEF Text, Half, Pieces
<1>2. \A i, j \in 0..2 : i <= j => /\ Bytes(e, i, j) \in Seq(Pieces)
                                   /\ Len(Bytes(e, i, j)) = j - i
                                   /\ \A k \in 1..(j - i) : Bytes(e, i, j)[k] = Text(e)[i + k]
  BY <1>1, SubSeqProperties DEF Bytes
<1>3. Bytes(e, 0, m) \o Bytes(e, m, n) = Bytes(e, 0, n)
  BY <1>1, ConcatAdjacentSubSeq DEF Bytes
<1>4. Bytes(e, 0, 2) = Text(e)
  BY <1>1, <1>2, SeqEqual
<1>5. Bytes(e, 0, 0) = <<>>  BY <1>2, EmptySeq
<1>6. n > m => Bytes(e, m, n) # <<>>  BY <1>2
<1> QED  BY <1>2, <1>3, <1>4, <1>5, <1>6

-----------------------------------------------------------------------------
\* A raw write leaves sequences, and closes one line at most.
LEMMA PutEffect ==
  ASSUME Typed, NEW w \in Writers, event[w] \in Events, NEW n \in 1..LineEnd,
         done[w] < n, Put(w, n)
  PROVE  /\ open' \in Seq(Pieces) /\ closed' \in Seq(Seq(Pieces))
         /\ \/ UNCHANGED closed
            \/ \E line \in Seq(Pieces) : closed' = Append(closed, line)
<1> DEFINE e == event[w]
           d == done[w]
<1>1. d \in 0..2 /\ open \in Seq(Pieces) /\ closed \in Seq(Seq(Pieces)) /\ e \in Events
  BY DEF Typed, TypeOK, LineEnd
<1> HIDE DEF d, e
<1>2. CASE n < LineEnd
  <2>1. UNCHANGED closed /\ open' = open \o Bytes(e, d, n)  BY <1>2 DEF Put, e, d
  <2>2. Bytes(e, d, n) \in Seq(Pieces)
    <3>1. n \in 0..2 /\ d <= n  BY <1>1, <1>2 DEF LineEnd, d
    <3> QED  BY <1>1, <3>1, BytesAre
  <2> QED  BY <1>1, <2>1, <2>2
<1>3. CASE n = LineEnd
  <2>1. closed' = Append(closed, open \o Bytes(e, d, 2)) /\ open' = <<>>
    BY <1>3 DEF Put, e, d, LineEnd
  <2>2. Bytes(e, d, 2) \in Seq(Pieces)
    <3>1. d <= 2 /\ 2 \in 0..2  BY <1>1
    <3> QED  BY <1>1, <3>1, BytesAre
  <2>3. open \o Bytes(e, d, 2) \in Seq(Pieces)  BY <1>1, <2>2
  <2>4. closed' \in Seq(Seq(Pieces))  BY <1>1, <2>1, <2>3
  <2>5. open' \in Seq(Pieces)  BY <2>1
  <2> QED  BY <2>1, <2>3, <2>4, <2>5
<1> QED  BY <1>2, <1>3 DEF LineEnd

LEMMA TypedInit == Init => Typed
<1> SUFFICES ASSUME Init PROVE Typed  OBVIOUS
<1>1. closed \in Seq(Seq(Pieces)) /\ open \in Seq(Pieces)  BY DEF Init
<1>2. issued \in 0..MaxEvents /\ stray \in Nat /\ acked = {}  BY BoundType DEF Init
<1>3. verdict \in [status : {"empty", "ok", "corrupt"}, event : Events \cup {NULL}, busy : BOOLEAN]
  BY DEF Init
<1> QED  BY <1>1, <1>2, <1>3 DEF Init, Typed, TypeOK, LineEnd

\* What the verification returns is a result.
LEMMA VerdictType ==
  ASSUME Typed, NEW w \in Writers, Start(w)
  PROVE  verdict' \in [status : {"empty", "ok", "corrupt"}, event : Events \cup {NULL}, busy : BOOLEAN]
<1>1. verdict' = Parsed(LastLine) \/ verdict' = Result("empty", NULL)
  BY DEF Start, Verified
<1>2. \A s \in {"empty", "ok", "corrupt"}, e \in Events \cup {NULL} :
        Result(s, e) \in [status : {"empty", "ok", "corrupt"}, event : Events \cup {NULL}, busy : BOOLEAN]
  BY DEF Result
<1>3. Parsed(LastLine) \in [status : {"empty", "ok", "corrupt"}, event : Events \cup {NULL}, busy : BOOLEAN]
  <2>1. CASE \E e \in Events : LastLine = Text(e) /\ Reads(e)
    <3>1. (CHOOSE e \in Events : LastLine = Text(e)) \in Events  BY <2>1
    <3> QED  BY <2>1, <3>1, <1>2 DEF Parsed
  <2>2. CASE ~(\E e \in Events : LastLine = Text(e) /\ Reads(e))  BY <2>2, <1>2 DEF Parsed
  <2> QED  BY <2>1, <2>2
<1> QED  BY <1>1, <1>2, <1>3

LEMMA TypedStep == Typed /\ [Next]_vars => Typed'
<1> SUFFICES ASSUME Typed, [Next]_vars PROVE Typed'  OBVIOUS
<1> USE DEF LineEnd, Goto, Leave
<1>0. /\ issued \in 0..MaxEvents /\ MaxEvents \in Nat /\ issued \in Nat
      /\ 1..issued \subseteq Events
  BY BoundType DEF Typed, TypeOK, Events
<1>1. CASE UNCHANGED vars  BY <1>1 DEF vars, job, Typed, TypeOK, Events, Pieces
<1>2. ASSUME NEW w \in Writers, Start(w) PROVE Typed'
  BY <1>2, VerdictType DEF Start, Typed, TypeOK
<1>3. ASSUME NEW w \in Writers, BeginAppend(w) PROVE Typed'
  <2>1. /\ issued' = issued + 1 /\ issued' \in 0..MaxEvents
        /\ issued' \in 1..issued' /\ 1..issued \subseteq 1..issued' /\ issued' \in Events
    BY <1>0, <1>3 DEF BeginAppend, Events
  <2>2. TypeOK'
    <3>1. acked' \subseteq 1..issued'  BY <1>3, <2>1 DEF BeginAppend, Typed, TypeOK
    <3>2. event' \in [Writers -> Events \cup {NULL}]  BY <1>3, <2>1 DEF BeginAppend, Typed, TypeOK
    <3> QED  BY <1>3, <2>1, <3>1, <3>2 DEF BeginAppend, Typed, TypeOK
  <2>3. \A v \in Writers : v # w => UNCHANGED <<pc[v], event[v], done[v], failed[v]>>
    BY <1>3 DEF BeginAppend, Typed, TypeOK
  <2>4. pc'[w] = "lock" /\ event'[w] = issued + 1 /\ done'[w] = 0 /\ ~failed'[w]
    BY <1>3 DEF BeginAppend, Typed, TypeOK
  <2>5. acked' \subseteq Events  BY <1>3 DEF BeginAppend, Typed
  <2>6. ASSUME NEW v \in Writers
        PROVE  /\ pc'[v] \in {"lock", "write", "unlock", "close"} => event'[v] \in 1..issued'
               /\ pc'[v] \in {"lock", "write"} => done'[v] \in 0..2 /\ ~failed'[v]
               /\ pc'[v] = "lock" => done'[v] = 0
               /\ pc'[v] \in {"down", "idle"} => done'[v] = 0 /\ ~failed'[v]
    <3>1. CASE v = w  BY <2>1, <2>4, <3>1
    <3>2. CASE v # w
      <4>1. UNCHANGED <<pc[v], event[v], done[v], failed[v]>>  BY <2>3, <3>2
      <4> QED  BY <2>1, <4>1 DEF Typed
    <3> QED  BY <3>1, <3>2
  <2> QED  BY <2>2, <2>5, <2>6 DEF Typed
<1>4. ASSUME NEW w \in Writers, OpenFails(w) \/ Crash(w) PROVE Typed'
  <2>1. lock' \in Writers \cup {NULL} /\ stray' \in Nat
    BY <1>4 DEF OpenFails, Crash, Typed, TypeOK
  <2>2. /\ Leave(w, "idle") \/ Leave(w, "down")
        /\ UNCHANGED <<closed, open, issued, acked, verdict>>
    BY <1>4 DEF OpenFails, Crash
  <2>3. TypeOK'
    <3>1. PICK where \in {"idle", "down"} : Leave(w, where)  BY <2>2
    <3>2. /\ pc' \in [Writers -> {"down", "idle", "lock", "write", "unlock", "close"}]
          /\ event' \in [Writers -> Events \cup {NULL}]
          /\ done' \in [Writers -> 0..LineEnd] /\ failed' \in [Writers -> BOOLEAN]
      BY <3>1 DEF Typed, TypeOK
    <3> QED  BY <2>1, <2>2, <3>2 DEF Typed, TypeOK
  <2>4. ASSUME NEW v \in Writers
        PROVE  /\ v = w => pc'[v] \in {"idle", "down"} /\ done'[v] = 0 /\ ~failed'[v]
               /\ v # w => UNCHANGED <<pc[v], event[v], done[v], failed[v]>>
    BY <2>2 DEF Typed, TypeOK
  <2> QED  BY <2>2, <2>3, <2>4 DEF Typed
<1>5. ASSUME NEW w \in Writers, Lock(w) PROVE Typed'
  BY <1>5 DEF Lock, Typed, TypeOK
<1>6. ASSUME NEW w \in Writers, Unlock(w) PROVE Typed'
  BY <1>6 DEF Unlock, Typed, TypeOK
<1>7. ASSUME NEW w \in Writers, WriteFails(w) PROVE Typed'
  BY <1>7 DEF WriteFails, Typed, TypeOK
<1>8. ASSUME NEW w \in Writers, NEW n \in 1..LineEnd, Write(w, n) PROVE Typed'
  <2>1. open' \in Seq(Pieces) /\ closed' \in Seq(Seq(Pieces))
    BY <1>0, <1>8, PutEffect DEF Write, Typed
  <2>2. n \in 0..3  OBVIOUS
  <2> QED  BY <1>8, <2>1, <2>2 DEF Write, Typed, TypeOK
<1>9. ASSUME NEW w \in Writers, NEW n \in 1..LineEnd, LateWrite(w, n) PROVE Typed'
  <2>1. open' \in Seq(Pieces) /\ closed' \in Seq(Seq(Pieces))
    BY <1>0, <1>9, PutEffect DEF LateWrite, Typed
  <2>2. n \in 0..3  OBVIOUS
  <2> QED  BY <1>9, <2>1, <2>2 DEF LateWrite, Typed, TypeOK
<1>10. ASSUME NEW w \in Writers, Return(w) PROVE Typed'
  <2>1. acked' \subseteq 1..issued /\ acked' \subseteq Events
    BY <1>0, <1>10 DEF Return, Typed, TypeOK
  <2> QED  BY <1>10, <2>1 DEF Return, Typed, TypeOK
<1>11. QED
  BY <1>1, <1>2, <1>3, <1>4, <1>5, <1>6, <1>7, <1>8, <1>9, <1>10 DEF Next, Advance

LEMMA LockedStep == Typed /\ Locked /\ [Next]_vars => Locked'
<1> SUFFICES ASSUME Typed, Locked, [Next]_vars PROVE Locked'  OBVIOUS
<1> USE DEF Goto, Leave, Locked, Typed, TypeOK
<1>1. CASE UNCHANGED vars  BY <1>1 DEF vars, job
<1>2. ASSUME NEW w \in Writers, Start(w) \/ OpenFails(w) \/ BeginAppend(w) \/ Return(w) PROVE Locked'
  BY <1>2 DEF Start, OpenFails, BeginAppend, Return
<1>3. ASSUME NEW w \in Writers, Lock(w) PROVE Locked'
  BY <1>3, NullIsNone DEF Lock
<1>4. ASSUME NEW w \in Writers, Unlock(w) \/ Crash(w) PROVE Locked'
  BY <1>4 DEF Unlock, Crash
<1>5. ASSUME NEW w \in Writers, WriteFails(w) PROVE Locked'
  BY <1>5 DEF WriteFails
<1>6. ASSUME NEW w \in Writers, NEW n \in 1..LineEnd, Write(w, n) \/ LateWrite(w, n) PROVE Locked'
  BY <1>6 DEF Write, LateWrite
<1>7. QED
  BY <1>1, <1>2, <1>3, <1>4, <1>5, <1>6 DEF Next, Advance

-----------------------------------------------------------------------------
\* Two ways to keep the bound: nothing is damaged or abandoned that was not, or
\* one thing is, and stray counts it or an abandoned line is no more.
LEMMA KeepBound ==
  ASSUME Typed, Bounded, stray' = stray, Damaged' \subseteq Damaged, Abandoned' => Abandoned
  PROVE  Bounded'
<1>1. /\ Cardinality(Damaged') \in Nat /\ Cardinality(Damaged) \in Nat
      /\ Cardinality(Damaged') <= Cardinality(Damaged)
  BY DamagedFinite, NoMore
<1> HIDE DEF Damaged, Abandoned
<1> QED  BY <1>1 DEF Bounded, Typed, TypeOK

LEMMA CountOne ==
  ASSUME Typed, Bounded, stray' = stray + 1, NEW x,
         \/ Damaged' \subseteq Damaged
         \/ Damaged' \subseteq Damaged \cup {x} /\ ~Abandoned'
  PROVE  Bounded'
<1>1. Cardinality(Damaged') \in Nat /\ Cardinality(Damaged) \in Nat
  BY DamagedFinite, NoMore, OneMore
<1>2. CASE Damaged' \subseteq Damaged
  <2>1. Cardinality(Damaged') <= Cardinality(Damaged)  BY <1>2, DamagedFinite, NoMore
  <2> HIDE DEF Damaged, Abandoned
  <2> QED  BY <1>1, <2>1 DEF Bounded, Typed, TypeOK
<1>3. CASE Damaged' \subseteq Damaged \cup {x} /\ ~Abandoned'
  <2>1. Cardinality(Damaged') <= Cardinality(Damaged) + 1  BY <1>3, DamagedFinite, OneMore
  <2> QED  BY <1>1, <1>3, <2>1 DEF Bounded, Typed, TypeOK
<1> QED  BY <1>2, <1>3

LEMMA TradeOne ==
  ASSUME Typed, Bounded, stray' = stray, NEW x,
         Damaged' \subseteq Damaged \cup {x}, Abandoned, ~Abandoned'
  PROVE  Bounded'
<1>1. /\ Cardinality(Damaged') \in Nat /\ Cardinality(Damaged) \in Nat
      /\ Cardinality(Damaged') <= Cardinality(Damaged) + 1
  BY DamagedFinite, OneMore
<1> QED  BY <1>1 DEF Bounded, Typed, TypeOK

\* A step of w that writes nothing: what others are doomed to stays.
LEMMA QuietStep ==
  ASSUME Typed, NEW w \in Writers, UNCHANGED <<closed, open>>,
         \A v \in Writers \ {w} : UNCHANGED <<pc[v], event[v], done[v], failed[v]>>,
         acked' \subseteq acked \cup (IF Doomed(w) \/ Intact(event[w]) THEN {event[w]} ELSE {}),
         Doomed(w)' => Doomed(w) /\ event'[w] = event[w]
  PROVE  Damaged' \subseteq Damaged
<1>1. \A e : Intact(e)' <=> Intact(e)  BY DEF Intact, Text, Half
<1>2. \A v \in Writers \ {w} : Doomed(v)' <=> Doomed(v)
  BY <1>1 DEF Doomed, Midway, Bytes, Text, Half
<1>3. ASSUME NEW e \in acked', ~Intact(e)' PROVE e \in Damaged
  BY <1>1, <1>3 DEF Damaged
<1>4. ASSUME NEW v \in Writers, Doomed(v)' PROVE event'[v] \in Damaged
  BY <1>2, <1>4 DEF Damaged
<1> QED  BY <1>3, <1>4 DEF Damaged

\* A raw write of w: an event that was not damaged may be only if its writer is
\* midway, or w itself.
LEMMA WriteStep ==
  ASSUME Typed, NEW w \in Writers, NEW n \in 1..LineEnd, Write(w, n) \/ LateWrite(w, n)
  PROVE  /\ \A x : Intact(x) => Intact(x)'
         /\ \A v \in Writers \ {w} : (Doomed(v)' => Doomed(v) \/ Midway(v)) /\ (Midway(v)' <=> Midway(v))
         /\ UNCHANGED <<acked, event>>
<1>1. /\ event[w] \in Events /\ done[w] < n /\ Put(w, n)
      /\ UNCHANGED <<acked, event>>
      /\ \A v \in Writers \ {w} : UNCHANGED <<pc[v], done[v], failed[v]>>
  <2>1. event[w] \in 1..issued /\ 1..issued \subseteq Events
    BY BoundType DEF Write, LateWrite, Typed, TypeOK, Events
  <2> QED  BY <2>1 DEF Write, LateWrite, Goto, Typed, TypeOK
<1>2. ASSUME NEW e, Intact(e) PROVE Intact(e)'
  BY <1>1, <1>2, PutEffect, IntactStays
<1>3. ASSUME NEW v \in Writers \ {w}
      PROVE (Doomed(v)' => Doomed(v) \/ Midway(v)) /\ (Midway(v)' <=> Midway(v))
  BY <1>1, <1>2 DEF Doomed, Midway
<1> QED  BY <1>1, <1>2, <1>3

LEMMA BoundedStep == Typed /\ Locked /\ Bounded /\ [Next]_vars => Bounded'
<1> SUFFICES ASSUME Typed, Locked, Bounded, [Next]_vars PROVE Bounded'  OBVIOUS
<1>1. CASE UNCHANGED vars
  BY <1>1 DEF vars, job, Bounded, Damaged, Abandoned, Doomed, Midway, Intact, Text, Half, Bytes
<1>2. ASSUME NEW w \in Writers, Start(w) \/ BeginAppend(w) \/ OpenFails(w) \/ Lock(w) \/ Unlock(w) \/ Return(w)
      PROVE Bounded'
  <2>1. /\ UNCHANGED <<closed, open>> /\ stray' = stray
        /\ \A v \in Writers \ {w} : UNCHANGED <<pc[v], event[v], done[v], failed[v]>>
    BY <1>2 DEF Start, BeginAppend, OpenFails, Lock, Unlock, Return, Goto, Leave, Typed, TypeOK
  <2>2. ~Midway(w) /\ ~Midway(w)'
    BY <1>2 DEF Start, BeginAppend, OpenFails, Lock, Unlock, Return, Goto, Leave, Typed, TypeOK, Midway
  <2>3. acked' \subseteq acked \cup (IF Doomed(w) \/ Intact(event[w]) THEN {event[w]} ELSE {})
    BY <1>2 DEF Start, BeginAppend, OpenFails, Lock, Unlock, Return, Doomed
  <2>4. Doomed(w)' => Doomed(w) /\ event'[w] = event[w]
    <3>1. CASE Unlock(w)
      <4>1. pc[w] = "unlock" /\ UNCHANGED <<event, failed, closed>>  BY <3>1 DEF Unlock
      <4> QED  BY <4>1, <2>2 DEF Doomed, Intact, Text, Half
    <3>2. CASE ~Unlock(w)
      <4>1. pc'[w] \notin {"unlock", "close"}
        BY <1>2, <3>2 DEF Start, BeginAppend, OpenFails, Lock, Return, Goto, Leave, Typed, TypeOK
      <4> QED  BY <4>1, <2>2 DEF Doomed
    <3> QED  BY <3>1, <3>2
  <2>5. Damaged' \subseteq Damaged  BY <2>1, <2>3, <2>4, QuietStep
  <2>6. Abandoned' => Abandoned
    BY <2>1, <2>2 DEF Abandoned, Midway
  <2> QED  BY <2>1, <2>5, <2>6, KeepBound
<1>3. ASSUME NEW w \in Writers, WriteFails(w) \/ Crash(w) PROVE Bounded'
  <2>1. /\ UNCHANGED <<closed, open, acked>>
        /\ stray' = IF Midway(w) THEN stray + 1 ELSE stray
        /\ \A v \in Writers \ {w} : UNCHANGED <<pc[v], event[v], done[v], failed[v]>>
    BY <1>3 DEF WriteFails, Crash, Goto, Leave, Typed, TypeOK, Midway
  <2>2. ~Doomed(w)' /\ ~Midway(w)'
    BY <1>3 DEF WriteFails, Crash, Goto, Leave, Typed, TypeOK, Doomed, Midway
  <2>3. Damaged' \subseteq Damaged  BY <2>1, <2>2, QuietStep
  <2>4. CASE Midway(w)  BY <2>1, <2>3, <2>4, CountOne
  <2>5. CASE ~Midway(w)
    <3>1. Abandoned' => Abandoned  BY <2>1, <2>5 DEF Abandoned, Midway
    <3> QED  BY <2>1, <2>3, <2>5, <3>1, KeepBound
  <2> QED  BY <2>4, <2>5
<1>4. ASSUME NEW w \in Writers, NEW n \in 1..LineEnd, Write(w, n) PROVE Bounded'
  <2> DEFINE e == event[w]
             d == done[w]
  <2>1. /\ pc[w] = "write" /\ d < n /\ Put(w, n) /\ stray' = stray
        /\ done'[w] = n /\ pc'[w] = (IF n = LineEnd THEN "unlock" ELSE "write") /\ failed'[w] = failed[w]
        /\ d \in 0..2 /\ ~failed[w] /\ n \in 1..3
    BY <1>4 DEF Write, Goto, Typed, TypeOK, LineEnd
  <2>2. e \in Events
    <3>1. event[w] \in 1..issued /\ 1..issued \subseteq Events
      BY <2>1, BoundType DEF Typed, TypeOK, Events
    <3> QED  BY <3>1
  <2>3. \A v \in Writers \ {w} : ~Midway(v)  BY <2>1 DEF Locked, Midway
  <2>4. /\ \A x : Intact(x) => Intact(x)'
        /\ \A v \in Writers \ {w} : (Doomed(v)' => Doomed(v)) /\ ~Midway(v)'
        /\ UNCHANGED <<acked, event>>
    <3>1. Write(w, n) \/ LateWrite(w, n)  BY <1>4
    <3>2. /\ \A x : Intact(x) => Intact(x)'
          /\ \A v \in Writers \ {w} : (Doomed(v)' => Doomed(v) \/ Midway(v)) /\ (Midway(v)' <=> Midway(v))
          /\ UNCHANGED <<acked, event>>
      BY <3>1, WriteStep
    <3> QED  BY <2>3, <3>2
  <2>5. ~Abandoned'
    <3>1. CASE n = LineEnd  BY <2>1, <3>1 DEF Put, Abandoned, LineEnd
    <3>2. CASE n # LineEnd
      <4>1. Midway(w)'  BY <2>1, <3>2 DEF Midway
      <4> QED  BY <4>1 DEF Abandoned
    <3> QED  BY <3>1, <3>2
  <2>6. Damaged' \subseteq Damaged \cup {e}  BY <2>4 DEF Damaged
  <2>7. CASE open = Bytes(e, 0, d)
    <3>1. CASE n = LineEnd
      <4>1. closed' = Append(closed, open \o Bytes(e, d, 2))  BY <2>1, <3>1 DEF Put, LineEnd
      <4>2. open \o Bytes(e, d, 2) = Text(e)
        <5>1. d <= 2 /\ 2 \in 0..2  BY <2>1
        <5> QED  BY <2>1, <2>2, <2>7, <5>1, BytesAre
      <4>3. Len(closed') \in DOMAIN closed' /\ closed'[Len(closed')] = Text(e)
        BY <4>1, <4>2 DEF Typed, TypeOK
      <4>4. Intact(e)'  BY <4>3, <2>4 DEF Intact, Text, Half
      <4>5. ~Doomed(w)'  BY <2>1, <2>4, <3>1, <4>4 DEF Doomed, Midway
      <4>6. Damaged' \subseteq Damaged  BY <2>4, <4>5 DEF Damaged
      <4> QED  BY <2>1, <2>5, <4>6, KeepBound
    <3>2. CASE n # LineEnd
      <4>1. open' = open \o Bytes(e, d, n) /\ n \in 0..2 /\ d <= n
        BY <2>1, <3>2 DEF Put, LineEnd
      <4>2. open' = Bytes(e, 0, n)  BY <2>1, <2>2, <2>7, <4>1, BytesAre
      <4>3. ~Doomed(w)'  BY <2>1, <2>4, <3>2, <4>2 DEF Doomed, Midway, Bytes, Text, Half
      <4>4. Damaged' \subseteq Damaged  BY <2>4, <4>3 DEF Damaged
      <4> QED  BY <2>1, <2>5, <4>4, KeepBound
    <3> QED  BY <3>1, <3>2
  <2>8. CASE open # Bytes(e, 0, d) /\ d > 0
    <3>1. Doomed(w)  BY <2>1, <2>8 DEF Doomed, Midway
    <3>2. e \in Damaged  BY <3>1 DEF Damaged
    <3> QED  BY <2>1, <2>5, <2>6, <3>2, KeepBound
  <2>9. CASE open # Bytes(e, 0, d) /\ d = 0
    <3>1. open # <<>>  BY <2>2, <2>9, BytesAre
    <3>2. Abandoned  BY <2>3, <2>9, <3>1 DEF Abandoned, Midway
    <3> QED  BY <2>1, <2>5, <2>6, <3>2, TradeOne
  <2> QED  BY <2>1, <2>7, <2>8, <2>9
<1>5. ASSUME NEW w \in Writers, NEW n \in 1..LineEnd, LateWrite(w, n) PROVE Bounded'
  <2>1. /\ pc[w] = "close" /\ pc'[w] = "close" /\ failed[w] /\ failed'[w] /\ stray' = stray + 1
        /\ Put(w, n) /\ done[w] < n
    BY <1>5 DEF LateWrite, Typed, TypeOK
  <2>2. ~Doomed(w)' /\ ~Midway(w)  BY <2>1 DEF Doomed, Midway
  <2>3. /\ \A x : Intact(x) => Intact(x)'
        /\ \A v \in Writers \ {w} : (Doomed(v)' => Doomed(v) \/ Midway(v)) /\ (Midway(v)' <=> Midway(v))
        /\ UNCHANGED <<acked, event>>
    <3>1. Write(w, n) \/ LateWrite(w, n)  BY <1>5
    <3> HIDE DEF Doomed, Midway
    <3> QED  BY <3>1, WriteStep
  <2>4. CASE \E v \in Writers : Midway(v)
    <3>1. PICK v \in Writers : Midway(v)  BY <2>4
    <3>2. \A u \in Writers \ {v} : ~Midway(u)  BY <3>1 DEF Locked, Midway
    <3>3. Damaged' \subseteq Damaged \cup {event[v]}  BY <2>2, <2>3, <3>2 DEF Damaged
    <3>4. ~Abandoned'  BY <2>2, <2>3, <3>1 DEF Abandoned
    <3> QED  BY <2>1, <3>3, <3>4, CountOne
  <2>5. CASE \A v \in Writers : ~Midway(v)
    <3>1. Damaged' \subseteq Damaged  BY <2>2, <2>3, <2>5 DEF Damaged
    <3> QED  BY <2>1, <3>1, CountOne
  <2> QED  BY <2>4, <2>5
<1>6. QED
  BY <1>1, <1>2, <1>3, <1>4, <1>5 DEF Next, Advance

-----------------------------------------------------------------------------
LEMMA InitBounded == Init => Locked /\ Bounded
<1> SUFFICES ASSUME Init PROVE Locked /\ Bounded  OBVIOUS
<1>1. Damaged = {} /\ ~Abandoned /\ Locked
  BY DEF Init, Damaged, Abandoned, Doomed, Midway, Locked
<1> QED  BY <1>1, FS_EmptySet DEF Bounded, Init

LEMMA Inductive == Spec => []IInv
<1>1. Init => IInv  BY TypedInit, InitBounded DEF IInv
<1>2. IInv /\ [Next]_vars => IInv'  BY TypedStep, LockedStep, BoundedStep DEF IInv
<1> QED  BY <1>1, <1>2, PTL DEF Spec

\* File, jobs and verdict keep their types.
THEOREM TypeCorrect == Spec => []TypeOK
<1>1. IInv => TypeOK  BY DEF IInv, Typed
<1> QED  BY <1>1, Inductive, PTL

\* A failed or killed append costs one acknowledged event at most, for any number
\* of writers and appends; without one, every acknowledged event has its line.
THEOREM DamageHolds == Spec => []DamageIsBounded
<1>1. IInv => DamageIsBounded
  <2> SUFFICES ASSUME IInv PROVE DamageIsBounded  OBVIOUS
  <2>1. {e \in acked : ~Intact(e)} \subseteq Damaged  BY DEF Damaged
  <2>2. /\ Cardinality({e \in acked : ~Intact(e)}) \in Nat /\ Cardinality(Damaged) \in Nat
        /\ Cardinality({e \in acked : ~Intact(e)}) <= Cardinality(Damaged)
    BY <2>1, DamagedFinite, NoMore DEF IInv
  <2>3. Cardinality(Damaged) + (IF Abandoned THEN 1 ELSE 0) <= stray /\ stray \in Nat
    BY DEF IInv, Bounded, Typed, TypeOK
  <2> HIDE DEF Damaged, Abandoned
  <2> QED  BY <2>2, <2>3 DEF DamageIsBounded
<1> QED  BY <1>1, Inductive, PTL

-----------------------------------------------------------------------------
\* As long as nothing went wrong every closed line is an event's.
Whole == stray = 0 => \A i \in DOMAIN closed : \E e \in Events : closed[i] = Text(e)

\* And then nothing is damaged, and no line unfinished but the one being written.
LEMMA Unharmed ==
  ASSUME Typed, Locked, Bounded, stray = 0
  PROVE  /\ \A w \in Writers : ~Doomed(w)
         /\ open # <<>> => \E w \in Writers : Midway(w)
<1>1. IsFiniteSet(Damaged) /\ Cardinality(Damaged) \in Nat
  BY DamagedFinite, FS_CardinalityType
<1>2. Cardinality(Damaged) = 0 /\ ~Abandoned
  <2> HIDE DEF Damaged, Abandoned
  <2> QED  BY <1>1 DEF Bounded
<1>3. Damaged = {}
  BY <1>1, <1>2, FS_EmptySet
<1> QED
  BY <1>2, <1>3 DEF Damaged, Abandoned

\* The last line of an unharmed file that nobody writes to is an event's.
LEMMA LastIsWhole ==
  ASSUME Typed, Locked, Bounded, Whole, stray = 0, lock = NULL
  PROVE  LastLine = <<>> \/ \E e \in Events : LastLine = Text(e)
<1>1. open = <<>>
  BY Unharmed, NullIsNone DEF Locked, Midway
<1>2. CASE NonEmpty = {}
  BY <1>1, <1>2 DEF LastLine
<1>3. CASE NonEmpty # {}
  <2>1. closed \in Seq(Seq(Pieces)) /\ Len(closed) \in Nat /\ DOMAIN closed = 1..Len(closed)
    BY DEF Typed, TypeOK
  <2>2. \E i \in NonEmpty : \A j \in NonEmpty : j <= i
    <3>1. \A i \in DOMAIN closed : closed[i] # <<>>
      BY DEF Whole, Text
    <3>2. NonEmpty = 1..Len(closed)
      BY <2>1, <3>1 DEF NonEmpty
    <3>3. Len(closed) >= 1
      BY <1>3, <2>1, <3>2
    <3>4. Len(closed) \in NonEmpty /\ \A j \in NonEmpty : j <= Len(closed)
      BY <2>1, <3>2, <3>3
    <3> HIDE DEF NonEmpty
    <3> QED
      BY <3>4
  <2>3. PICK i \in NonEmpty : LastLine = closed[i]
    BY <1>1, <1>3, <2>2 DEF LastLine
  <2> QED
    BY <2>3 DEF Whole, NonEmpty
<1> QED
  BY <1>2, <1>3

LEMMA WholeStep == IInv /\ Whole /\ [Next]_vars => Whole'
<1> SUFFICES ASSUME IInv, Whole, [Next]_vars, stray' = 0
             PROVE  \A i \in DOMAIN closed' : \E e \in Events : closed'[i] = Text(e)
  BY DEF Whole, Text, Half
<1> USE DEF IInv
<1>1. CASE UNCHANGED <<closed, stray>>
  BY <1>1 DEF Whole
<1>2. ASSUME NEW w \in Writers, WriteFails(w) \/ Crash(w)
      PROVE  UNCHANGED <<closed, stray>>
  BY <1>2 DEF WriteFails, Crash, Typed, TypeOK
<1>3. ASSUME NEW w \in Writers, NEW n \in 1..LineEnd, LateWrite(w, n) PROVE FALSE
  BY <1>3 DEF LateWrite, Typed, TypeOK
<1>4. ASSUME NEW w \in Writers, NEW n \in 1..LineEnd, Write(w, n), n # LineEnd
      PROVE  UNCHANGED <<closed, stray>>
  BY <1>4 DEF Write, Put
<1>5. ASSUME NEW w \in Writers, Write(w, LineEnd)
      PROVE  \A i \in DOMAIN closed' : \E e \in Events : closed'[i] = Text(e)
  <2> DEFINE e == event[w]
             d == done[w]
  <2>1. /\ pc[w] = "write" /\ stray = 0
        /\ closed' = Append(closed, open \o Bytes(e, d, 2))
    BY <1>5 DEF Write, Put, LineEnd
  <2>2. e \in Events /\ d \in 0..2
    <3>1. event[w] \in 1..issued /\ 1..issued \subseteq Events
      BY <2>1, BoundType DEF Typed, TypeOK, Events
    <3> QED
      BY <2>1, <3>1 DEF Typed
  <2>3. open = Bytes(e, 0, d)
    <3>1. CASE d > 0
      BY <2>1, <3>1, Unharmed DEF Doomed, Midway
    <3>2. CASE d = 0
      <4>1. \A v \in Writers : ~Midway(v)
        BY <2>1, <3>2 DEF Locked, Midway
      <4>2. open = <<>>
        BY <2>1, <4>1, Unharmed
      <4> QED
        BY <2>2, <3>2, <4>2, BytesAre
    <3> QED
      BY <2>2, <3>1, <3>2
  <2>4. open \o Bytes(e, d, 2) = Text(e)
    <3>1. d <= 2 /\ 2 \in 0..2
      BY <2>2
    <3> QED
      BY <2>2, <2>3, <3>1, BytesAre
  <2> HIDE DEF e, d
  <2>5. closed' = Append(closed, Text(e))
    BY <2>1, <2>4
  <2>6. closed \in Seq(Seq(Pieces)) /\ \A i \in DOMAIN closed : \E x \in Events : closed[i] = Text(x)
    BY <2>1 DEF Typed, TypeOK, Whole
  <2> HIDE DEF IInv
  <2>7. ASSUME NEW i \in DOMAIN closed' PROVE \E x \in Events : closed'[i] = Text(x)
    <3>1. (i \in DOMAIN closed /\ closed'[i] = closed[i]) \/ closed'[i] = Text(e)
      BY <2>5, <2>6
    <3> QED
      BY <2>2, <2>6, <3>1
  <2> QED
    BY <2>7
<1>6. ASSUME NEW w \in Writers, Start(w) \/ Lock(w) \/ Unlock(w) \/ Return(w) \/ BeginAppend(w) \/ OpenFails(w)
      PROVE  UNCHANGED <<closed, stray>>
  BY <1>6 DEF Start, Lock, Unlock, Return, BeginAppend, OpenFails
<1>7. CASE UNCHANGED vars
  BY <1>1, <1>7 DEF vars
<1> QED
  BY <1>1, <1>2, <1>3, <1>4, <1>5, <1>6, <1>7 DEF Next, Advance

LEMMA CorruptStep ==
  ASSUME \A e \in Events : Shape[e] = "plain"
  PROVE  IInv /\ Whole /\ CorruptMeansDamaged /\ [Next]_vars => CorruptMeansDamaged'
<1> SUFFICES ASSUME IInv, Whole, CorruptMeansDamaged, [Next]_vars PROVE CorruptMeansDamaged'
  OBVIOUS
<1>1. stray \in Nat /\ stray' \in Nat /\ stray' >= stray
  <2>1. stray \in Nat  BY DEF IInv, Typed, TypeOK
  <2>2. stray' = stray \/ stray' = stray + 1
    BY DEF Next, Advance, Start, Lock, Unlock, Return, Write, LateWrite, BeginAppend, OpenFails,
           WriteFails, Crash, vars
  <2> QED  BY <2>1, <2>2
<1>2. CASE UNCHANGED verdict
  BY <1>1, <1>2 DEF CorruptMeansDamaged
<1>3. ASSUME NEW w \in Writers, Start(w) PROVE CorruptMeansDamaged'
  <2>1. stray' = stray
    BY <1>3 DEF Start
  <2>2. CASE stray = 0 /\ lock = NULL
    <3>1. Verified.status # "corrupt"
      <4>1. LastLine = <<>> \/ \E e \in Events : LastLine = Text(e) /\ Reads(e)
        BY <2>2, LastIsWhole DEF IInv, Reads
      <4> QED
        BY <4>1 DEF Verified, Parsed, Result
    <3>2. verdict'.status # "corrupt"
      BY <1>3, <3>1 DEF Start, Result
    <3> QED
      BY <3>2 DEF CorruptMeansDamaged
  <2>3. CASE lock # NULL
    <3>1. Verified.busy
      BY <2>3 DEF Verified, Parsed, Result
    <3>2. Result("empty", NULL).busy
      BY <2>3 DEF Result
    <3>3. verdict' = Verified \/ verdict' = Result("empty", NULL)
      BY <1>3 DEF Start
    <3>4. verdict'.busy
      BY <3>1, <3>2, <3>3
    <3> QED
      BY <3>4 DEF CorruptMeansDamaged
  <2>4. CASE stray > 0
    BY <2>1, <2>4 DEF CorruptMeansDamaged
  <2> QED
    BY <1>1, <2>2, <2>3, <2>4
<1> QED
  BY <1>2, <1>3 DEF Next, Advance, Lock, Unlock, Return, Write, LateWrite, BeginAppend, OpenFails,
                    WriteFails, Crash, vars

\* A starting process calls a ledger corrupt only if an append failed or was killed
\* half way, or while somebody appends: for any number of writers and appends, as
\* long as no line holds a line separator or is longer than the tail that is read.
THEOREM CorruptionHolds ==
  (\A e \in Events : Shape[e] = "plain") /\ Spec => []CorruptMeansDamaged
<1> SUFFICES ASSUME \A e \in Events : Shape[e] = "plain" PROVE Spec => []CorruptMeansDamaged
  OBVIOUS
<1>1. Init => Whole /\ CorruptMeansDamaged
  BY DEF Init, Whole, CorruptMeansDamaged
<1>2. IInv /\ Whole /\ CorruptMeansDamaged /\ [Next]_vars => Whole' /\ CorruptMeansDamaged'
  BY WholeStep, CorruptStep
<1> QED
  BY <1>1, <1>2, Inductive, PTL DEF Spec
=============================================================================
