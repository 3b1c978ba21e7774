-------------------------- MODULE AxisEngineProofs --------------------------
(***************************************************************************)
(* For any characters, axes, grammar, processes and number of interactions,*)
(* and whatever fails: only a character that talks to itself blocks.  With *)
(* the threads of one process: the snapshot is current, no score leaves    *)
(* its range, and the engine implements AxisInteraction.                   *)
(***************************************************************************)
EXTENDS AxisEngine, TLAPS, WellFoundedInduction

OneHomeOnly == \A t, u \in Threads : Home[t] = Home[u]

LEMMA ClampRange ==
  ASSUME NEW x \in Int
  PROVE  Clamp(x) \in 0..Top
  BY TopIsPositive DEF Clamp

LEMMA RawType ==
  ASSUME NEW a \in Axes, NEW ch \in Channels, NEW x \in Int, NEW y \in Int
  PROVE  Raw(a, x, y, ch) \in Int
<1> DEFINE m == Magnitude[a][ch]
           g == Gap(x, y)
<1>1. m \in Int /\ g \in Int
  BY GrammarType, TopIsPositive DEF Gap, ValidGrammar
<1>2. Shift(m, g) \in Int /\ -Shift(m, g) \in Int /\ -m \in Int
  BY <1>1, TopIsPositive DEF Shift
<1>3. Resolver[a] \in {"dominance_shift", "shared_drain", "no_effect"}
  BY GrammarType DEF ValidGrammar
<1> HIDE DEF m, g
<1> QED
  BY <1>2, <1>3 DEF Raw, m, g

\* Scores as they may be read, in range or not.
Table == [Axes -> Int]

LEMMA ScoresAreTables == Scores \subseteq Table
BY TopIsPositive DEF Scores, Table

\* What an interaction makes of any scores is in range.
LEMMA AfterRange ==
  ASSUME NEW x \in Table, NEW y \in Table, NEW ch \in Channels
  PROVE  After(x, y, ch) \in Scores
<1>1. ASSUME NEW a \in Axes
      PROVE  Clamp(x[a] + Raw(a, x[a], y[a], ch)) \in 0..Top
  <2>1. x[a] \in Int /\ y[a] \in Int
    BY DEF Table
  <2>2. x[a] + Raw(a, x[a], y[a], ch) \in Int
    BY <2>1, RawType, TopIsPositive
  <2> QED
    BY <2>2, ClampRange
<1> QED
  BY <1>1 DEF After, Scores

-----------------------------------------------------------------------------
(***************************************************************************)
(* The inductive invariant.                                                *)
(***************************************************************************)
Inside == {"readSpeaker", "readListener", "append", "applySpeaker", "applyListener"}

Turns ==
  /\ turn \in [Threads -> [pc : Pcs,
                           speaker  : Chars \cup {NULL},
                           listener : Chars \cup {NULL},
                           channel  : Channels \cup {NULL},
                           mine     : Table \cup {NULL},
                           theirs   : Table \cup {NULL}]]
  /\ \A t \in Threads : turn[t].pc # "idle" =>
       turn[t].speaker \in Chars /\ turn[t].listener \in Chars /\ turn[t].channel \in Channels
  /\ \A t \in Threads :
       /\ turn[t].pc \in {"readListener", "append", "applySpeaker", "applyListener"} =>
            turn[t].mine \in Table
       /\ turn[t].pc \in {"append", "applySpeaker", "applyListener"} => turn[t].theirs \in Table

TurnOK ==
  /\ Turns
  /\ lock \in [Procs -> [Chars -> Threads \cup {NULL}]]
  /\ scores \in [Chars -> Table]

\* Inside an interaction a thread holds both locks, and they are two.
Holds ==
  \A t \in Threads :
    /\ turn[t].pc = "second" => Mine(t)[Lower(t)] = t
    /\ turn[t].pc \in Inside => /\ Mine(t)[turn[t].speaker] = t
                                /\ Mine(t)[turn[t].listener] = t
                                /\ turn[t].speaker # turn[t].listener

Current ==
  \A t \in Threads :
    /\ turn[t].pc \in {"readListener", "append", "applySpeaker"} =>
         turn[t].mine = scores[turn[t].speaker]
    /\ turn[t].pc \in {"append", "applySpeaker", "applyListener"} =>
         /\ turn[t].theirs = scores[turn[t].listener]
         /\ turn[t].mine \in Scores

RangeOK == scores \in [Chars -> Scores]

Inv == TurnOK /\ Holds /\ Current /\ RangeOK

\* Two threads inside an interaction have no character in common.
LEMMA Exclusion ==
  ASSUME OneHomeOnly, Holds, NEW t \in Threads, NEW u \in Threads, t # u,
         turn[t].pc \in Inside, turn[u].pc \in Inside
  PROVE  {turn[t].speaker, turn[t].listener} \cap {turn[u].speaker, turn[u].listener} = {}
<1>1. Home[t] = Home[u]
  BY DEF OneHomeOnly
<1> QED
  BY <1>1 DEF Holds, Mine

LEMMA LockOrder ==
  ASSUME TurnOK, NEW t \in Threads, turn[t].pc # "idle"
  PROVE  /\ Lower(t) \in Chars /\ Higher(t) \in Chars
         /\ {Lower(t), Higher(t)} = {turn[t].speaker, turn[t].listener}
  BY CharsAreIds DEF Lower, Higher, TurnOK, Turns

LEMMA InitInv == Init => Inv
<1> SUFFICES ASSUME Init PROVE Inv
  OBVIOUS
<1>1. scores \in [Chars -> Scores] /\ scores \in [Chars -> Table]
  BY InitialInRange, ScoresAreTables DEF Init
<1> QED
  BY <1>1 DEF Init, Inv, TurnOK, Turns, Holds, Current, RangeOK, Idle, Pcs, Inside

\* A step of one thread, to a record of the right types.
LEMMA TurnUpdated ==
  ASSUME Turns, NEW t \in Threads,
         NEW r \in [pc : Pcs, speaker : Chars \cup {NULL}, listener : Chars \cup {NULL},
                    channel : Channels \cup {NULL}, mine : Table \cup {NULL},
                    theirs : Table \cup {NULL}],
         turn' = [turn EXCEPT ![t] = r],
         r.pc # "idle" => r.speaker \in Chars /\ r.listener \in Chars /\ r.channel \in Channels,
         r.pc \in {"readListener", "append", "applySpeaker", "applyListener"} => r.mine \in Table,
         r.pc \in {"append", "applySpeaker", "applyListener"} => r.theirs \in Table
  PROVE  Turns'
  BY DEF Turns

\* A step that moves one thread on, keeping what it has read.
LEMMA GotoTurns ==
  ASSUME Turns, NEW t \in Threads, turn[t].pc # "idle", NEW pc \in Pcs, Goto(t, pc),
         \/ pc \in {"second", "readSpeaker", "release"}
         \/ turn[t].pc \in {"append", "applySpeaker", "applyListener"}
  PROVE  Turns'
  BY DEF Goto, Turns

LEMMA IdleTurns ==
  ASSUME Turns, \A t \in Threads : turn'[t] \in {turn[t], Idle}, turn' = [t \in Threads |-> turn'[t]]
  PROVE  Turns'
<1>1. Idle \in [pc : Pcs, speaker : Chars \cup {NULL}, listener : Chars \cup {NULL},
                channel : Channels \cup {NULL}, mine : Table \cup {NULL},
                theirs : Table \cup {NULL}]
  BY DEF Idle, Pcs
<1> QED
  BY <1>1 DEF Turns, Idle

\* The scores a transaction writes are numbers, whatever has become of those it was
\* computed from.
LEMMA AddedTable ==
  ASSUME TurnOK, NEW c \in Chars, NEW delta \in Table
  PROVE  Added(c, delta) \in [Chars -> Table]
<1>1. \A a \in Axes : scores[c][a] \in Int /\ delta[a] \in Int
  BY DEF TurnOK, Table
<1>2. [a \in Axes |-> scores[c][a] + delta[a]] \in Table
  BY <1>1 DEF Table
<1> QED
  BY <1>2 DEF Added, TurnOK

LEMMA DeltaTable ==
  ASSUME NEW x \in Table, NEW y \in Table, NEW ch \in Channels
  PROVE  [a \in Axes |-> After(x, y, ch)[a] - x[a]] \in Table
<1>1. After(x, y, ch) \in Table
  BY AfterRange, ScoresAreTables
<1>2. \A a \in Axes : After(x, y, ch)[a] \in Int /\ x[a] \in Int
  BY <1>1 DEF Table
<1> HIDE DEF After
<1> QED
  BY <1>2 DEF Table

LEMMA StepTurnOK ==
  ASSUME TurnOK, [Next]_vars
  PROVE  TurnOK'
<1>1. ASSUME NEW t \in Threads, NEW s \in Chars, NEW l \in Chars, NEW ch \in Channels,
             Begin(t, s, l, ch)
      PROVE  TurnOK'
  BY <1>1 DEF Begin, TurnOK, Turns, Idle, Pcs
<1>2. ASSUME NEW t \in Threads, LockFirst(t)
      PROVE  TurnOK'
  <2>1. Home[t] \in Procs /\ Lower(t) \in Chars
    BY <1>2, HomeType, LockOrder DEF LockFirst
  <2> QED
    BY <1>2, <2>1, GotoTurns DEF LockFirst, TurnOK, Pcs
<1>3. ASSUME NEW t \in Threads, LockSecond(t)
      PROVE  TurnOK'
  <2>1. Home[t] \in Procs /\ Higher(t) \in Chars
    BY <1>3, HomeType, LockOrder DEF LockSecond
  <2> QED
    BY <1>3, <2>1, GotoTurns DEF LockSecond, TurnOK, Pcs
<1>4. ASSUME NEW t \in Threads, ReadSpeaker(t) \/ ReadListener(t)
      PROVE  TurnOK'
  <2>1. /\ turn[t].speaker \in Chars /\ turn[t].listener \in Chars
        /\ turn[t].channel \in Channels
    BY <1>4 DEF ReadSpeaker, ReadListener, TurnOK, Turns
  <2>2. scores[turn[t].speaker] \in Table /\ scores[turn[t].listener] \in Table
    BY <2>1 DEF TurnOK
  <2>3. lock' = lock /\ scores' = scores
    BY <1>4 DEF ReadSpeaker, ReadListener
  <2>4. CASE ReadSpeaker(t)
    <3> DEFINE x == scores[turn[t].speaker]
    <3>1. turn' = [turn EXCEPT ![t].pc = "readListener", ![t].mine = x]
      BY <2>4 DEF ReadSpeaker
    <3>2. x \in Table
      BY <2>2
    <3> HIDE DEF x
    <3> DEFINE r == [turn[t] EXCEPT !.pc = "readListener", !.mine = x]
    <3>3. /\ turn' = [turn EXCEPT ![t] = r]
          /\ r \in [pc : Pcs, speaker : Chars \cup {NULL}, listener : Chars \cup {NULL},
                    channel : Channels \cup {NULL}, mine : Table \cup {NULL},
                    theirs : Table \cup {NULL}]
          /\ r.pc = "readListener" /\ r.mine \in Table
          /\ r.speaker \in Chars /\ r.listener \in Chars /\ r.channel \in Channels
      BY <2>1, <3>1, <3>2 DEF TurnOK, Turns, Pcs
    <3> HIDE DEF r
    <3>4. Turns'
      BY <3>3, TurnUpdated DEF TurnOK
    <3> QED
      BY <2>3, <3>4 DEF TurnOK
  <2>5. CASE ReadListener(t)
    <3> DEFINE x == scores[turn[t].listener]
    <3>1. turn' = [turn EXCEPT ![t].pc = "append", ![t].theirs = x] /\ turn[t].mine \in Table
      BY <2>5 DEF ReadListener, TurnOK, Turns
    <3>2. x \in Table
      BY <2>2
    <3> HIDE DEF x
    <3> DEFINE r == [turn[t] EXCEPT !.pc = "append", !.theirs = x]
    <3>3. /\ turn' = [turn EXCEPT ![t] = r]
          /\ r \in [pc : Pcs, speaker : Chars \cup {NULL}, listener : Chars \cup {NULL},
                    channel : Channels \cup {NULL}, mine : Table \cup {NULL},
                    theirs : Table \cup {NULL}]
          /\ r.pc = "append" /\ r.theirs \in Table /\ r.mine \in Table
          /\ r.speaker \in Chars /\ r.listener \in Chars /\ r.channel \in Channels
      BY <2>1, <3>1, <3>2 DEF TurnOK, Turns, Pcs
    <3> HIDE DEF r
    <3>4. Turns'
      BY <3>3, TurnUpdated DEF TurnOK
    <3> QED
      BY <2>3, <3>4 DEF TurnOK
  <2> QED
    BY <1>4, <2>4, <2>5
<1>5. ASSUME NEW t \in Threads, AppendLedger(t) \/ ReadFails(t)
      PROVE  TurnOK'
  <2>1. PICK pc \in {"applySpeaker", "release"} :
          /\ Goto(t, pc) /\ turn[t].pc # "idle" /\ lock' = lock /\ scores' = scores
          /\ pc = "applySpeaker" => turn[t].pc = "append"
    BY <1>5 DEF AppendLedger, ReadFails
  <2> QED
    BY <2>1, GotoTurns DEF TurnOK, Pcs
<1>6. ASSUME NEW t \in Threads, ApplySpeaker(t)
      PROVE  TurnOK'
  <2>1. /\ turn[t].mine \in Table /\ turn[t].theirs \in Table
        /\ turn[t].speaker \in Chars /\ turn[t].channel \in Channels
    BY <1>6 DEF ApplySpeaker, TurnOK, Turns
  <2>2. Added(turn[t].speaker, SpeakerDelta(t)) \in [Chars -> Table]
    BY <2>1, DeltaTable, AddedTable DEF SpeakerDelta
  <2>3. scores' \in [Chars -> Table] /\ lock' = lock
    BY <1>6, <2>2 DEF ApplySpeaker, TurnOK
  <2> QED
    BY <1>6, <2>3, GotoTurns DEF ApplySpeaker, TurnOK, Pcs
<1>7. ASSUME NEW t \in Threads, ApplyListener(t)
      PROVE  TurnOK'
  <2>1. /\ turn[t].mine \in Table /\ turn[t].theirs \in Table
        /\ turn[t].listener \in Chars /\ turn[t].channel \in Channels
    BY <1>7 DEF ApplyListener, TurnOK, Turns
  <2>2. Added(turn[t].listener, ListenerDelta(t)) \in [Chars -> Table]
    BY <2>1, DeltaTable, AddedTable DEF ListenerDelta
  <2>3. scores' \in [Chars -> Table] /\ lock' = lock
    BY <1>7, <2>2 DEF ApplyListener, TurnOK
  <2> QED
    BY <1>7, <2>3, GotoTurns DEF ApplyListener, TurnOK, Pcs
<1>8. ASSUME NEW t \in Threads, Release(t)
      PROVE  TurnOK'
  <2>1. lock' \in [Procs -> [Chars -> Threads \cup {NULL}]] /\ scores' = scores
    BY <1>8 DEF Release, TurnOK
  <2>2. turn' = [turn EXCEPT ![t] = Idle] /\ turn' = [u \in Threads |-> turn'[u]]
    BY <1>8 DEF Release, TurnOK, Turns
  <2> QED
    BY <2>1, <2>2, IdleTurns DEF TurnOK, Turns
<1>9. ASSUME NEW p \in Procs, Crash(p)
      PROVE  TurnOK'
  BY <1>9, IdleTurns DEF Crash, TurnOK
<1>10. CASE UNCHANGED vars
  BY <1>10 DEF vars, TurnOK, Turns
<1> QED
  BY <1>1, <1>2, <1>3, <1>4, <1>5, <1>6, <1>7, <1>8, <1>9, <1>10 DEF Next, Resolve

\* Locks are taken only when free, released only by their holder, and lost
\* only with the process.
LEMMA StepHolds ==
  ASSUME TurnOK, Holds, [Next]_vars
  PROVE  Holds'
<1>0. TurnOK'
  BY StepTurnOK
<1>1. ASSUME NEW t \in Threads, NEW s \in Chars, NEW l \in Chars, NEW ch \in Channels,
             Begin(t, s, l, ch)
      PROVE  Holds'
  BY <1>1 DEF Begin, TurnOK, Idle, Holds, Inside, Mine, Lower
<1>2. ASSUME NEW t \in Threads, LockFirst(t)
      PROVE  Holds'
  <2>1. Home[t] \in Procs /\ Lower(t) \in Chars
    BY <1>2, HomeType, LockOrder DEF LockFirst
  <2>2. \A u \in Threads : /\ turn'[u].speaker = turn[u].speaker
                           /\ turn'[u].listener = turn[u].listener
                           /\ turn'[u].pc = IF u = t THEN "second" ELSE turn[u].pc
    BY <1>2 DEF LockFirst, Goto, TurnOK, Turns
  <2>3. \A u \in Threads : Lower(u)' = Lower(u)
    BY <2>2 DEF Lower
  <2>4. lock[Home[t]][Lower(t)] = NULL /\ lock' = [lock EXCEPT ![Home[t]][Lower(t)] = t]
    BY <1>2 DEF LockFirst, Mine
  <2>5. \A p \in Procs, c \in Chars : lock'[p][c] = IF p = Home[t] /\ c = Lower(t) THEN t ELSE lock[p][c]
    BY <2>1, <2>4 DEF TurnOK
  <2>6. \A u \in Threads : Home[u] \in Procs
    BY HomeType
  <2>7. ASSUME NEW u \in Threads, turn[u].pc = "second" \/ turn[u].pc \in Inside
        PROVE  turn[u].speaker \in Chars /\ turn[u].listener \in Chars /\ Lower(u) \in Chars
    BY <2>7, LockOrder DEF TurnOK, Turns, Inside
  <2> QED
    BY <1>0, <2>1, <2>2, <2>3, <2>4, <2>5, <2>6, <2>7, NullIsNoThread DEF Holds, Mine, Inside
<1>3. ASSUME NEW t \in Threads, LockSecond(t)
      PROVE  Holds'
  <2>1. Home[t] \in Procs /\ Lower(t) \in Chars /\ Higher(t) \in Chars
    BY <1>3, HomeType, LockOrder DEF LockSecond
  <2>2. \A u \in Threads : /\ turn'[u].speaker = turn[u].speaker
                           /\ turn'[u].listener = turn[u].listener
                           /\ turn'[u].pc = IF u = t THEN "readSpeaker" ELSE turn[u].pc
    BY <1>3 DEF LockSecond, Goto, TurnOK, Turns
  <2>3. \A u \in Threads : Lower(u)' = Lower(u)
    BY <2>2 DEF Lower
  <2>4. /\ turn[t].pc = "second"
        /\ lock[Home[t]][Higher(t)] = NULL
        /\ lock' = [lock EXCEPT ![Home[t]][Higher(t)] = t]
        /\ lock[Home[t]][Lower(t)] = t
    BY <1>3 DEF LockSecond, Mine, Holds
  <2>5. \A p \in Procs, c \in Chars : lock'[p][c] = IF p = Home[t] /\ c = Higher(t) THEN t ELSE lock[p][c]
    BY <2>1, <2>4 DEF TurnOK
  <2>6. \A u \in Threads : Home[u] \in Procs
    BY HomeType
  <2>7. ASSUME NEW u \in Threads, turn[u].pc = "second" \/ turn[u].pc \in Inside
        PROVE  turn[u].speaker \in Chars /\ turn[u].listener \in Chars /\ Lower(u) \in Chars
    BY <2>7, LockOrder DEF TurnOK, Turns, Inside
  <2>8. /\ Lower(t) # Higher(t)
        /\ {Lower(t), Higher(t)} = {turn[t].speaker, turn[t].listener}
    BY <2>4, NullIsNoThread, LockOrder
  <2> QED
    BY <2>1, <2>2, <2>3, <2>4, <2>5, <2>6, <2>7, <2>8, NullIsNoThread DEF Holds, Mine, Inside
<1>4. ASSUME lock' = lock,
             \A u \in Threads : /\ turn'[u].speaker = turn[u].speaker
                                /\ turn'[u].listener = turn[u].listener
                                /\ turn'[u].pc = "second" => turn[u].pc = "second"
                                /\ turn'[u].pc \in Inside => turn[u].pc \in Inside
      PROVE  Holds'
  BY <1>4 DEF Holds, Mine, Lower
<1>5. ASSUME NEW t \in Threads,
             \/ ReadSpeaker(t) \/ ReadListener(t) \/ AppendLedger(t) \/ ApplySpeaker(t)
             \/ ApplyListener(t) \/ ReadFails(t)
      PROVE  Holds'
  BY <1>4, <1>5 DEF ReadSpeaker, ReadListener, AppendLedger, ApplySpeaker, ApplyListener, ReadFails,
     Goto, TurnOK, Turns, Inside
<1>6. ASSUME NEW t \in Threads, Release(t)
      PROVE  Holds'
  <2>1. \A u \in Threads : turn'[u] = IF u = t THEN Idle ELSE turn[u]
    BY <1>6 DEF Release, TurnOK, Turns
  <2>2. \A p \in Procs, c \in Chars, u \in Threads \ {t} : lock[p][c] = u => lock'[p][c] = u
    BY <1>6 DEF Release, TurnOK, Turns
  <2>3. ASSUME NEW u \in Threads, turn[u].pc = "second" \/ turn[u].pc \in Inside
        PROVE  turn[u].speaker \in Chars /\ turn[u].listener \in Chars /\ Lower(u) \in Chars
    BY <2>3, LockOrder DEF TurnOK, Turns, Inside
  <2>4. \A u \in Threads \ {t} : Lower(u)' = Lower(u)
    BY <2>1 DEF Lower
  <2> QED
    BY <2>1, <2>2, <2>3, <2>4, HomeType DEF Holds, Mine, Inside, Idle
<1>7. ASSUME NEW p \in Procs, Crash(p)
      PROVE  Holds'
  <2>1. \A u \in Threads : turn'[u] = IF Home[u] = p THEN Idle ELSE turn[u]
    BY <1>7 DEF Crash
  <2>2. \A q \in Procs \ {p} : lock'[q] = lock[q]
    BY <1>7 DEF Crash, TurnOK
  <2>3. \A u \in Threads : Home[u] # p => Lower(u)' = Lower(u)
    BY <2>1 DEF Lower
  <2> QED
    BY <2>1, <2>2, <2>3, HomeType DEF Holds, Mine, Inside, Idle
<1>8. CASE UNCHANGED vars
  BY <1>4, <1>8 DEF vars
<1> QED
  BY <1>1, <1>2, <1>3, <1>5, <1>6, <1>7, <1>8 DEF Next, Resolve

LEMMA MinusPlus == \A x, y \in Int : x + (y - x) = y
  OBVIOUS

\* What a transaction makes of the scores it was computed from.
LEMMA AddedSpeaker ==
  ASSUME Inv, NEW t \in Threads, turn[t].pc = "applySpeaker"
  PROVE  /\ turn[t].speaker \in Chars
         /\ Added(turn[t].speaker, SpeakerDelta(t)) =
              [scores EXCEPT ![turn[t].speaker] = After(turn[t].mine, turn[t].theirs, turn[t].channel)]
         /\ After(turn[t].mine, turn[t].theirs, turn[t].channel) \in Scores
<1> DEFINE r == turn[t]
           new == After(r.mine, r.theirs, r.channel)
<1>1. r.speaker \in Chars /\ r.listener \in Chars /\ r.channel \in Channels
  BY DEF Inv, TurnOK, Turns
<1>2. r.mine = scores[r.speaker] /\ r.mine \in Scores /\ r.theirs \in Scores
  BY <1>1 DEF Inv, Current, RangeOK
<1>3. new \in Scores
  BY <1>1, <1>2, AfterRange, ScoresAreTables
<1>4. ASSUME NEW a \in Axes
      PROVE  r.mine[a] + (new[a] - r.mine[a]) = new[a]
  <2>1. r.mine[a] \in Int /\ new[a] \in Int
    BY <1>2, <1>3, TopIsPositive DEF Scores
  <2> HIDE DEF new, r
  <2> QED
    BY <2>1, MinusPlus
<1>5. [a \in Axes |-> scores[r.speaker][a] + SpeakerDelta(t)[a]] = new
  <2>1. [a \in Axes |-> scores[r.speaker][a] + SpeakerDelta(t)[a]] = [a \in Axes |-> new[a]]
    BY <1>2, <1>4 DEF SpeakerDelta
  <2> QED
    BY <1>3, <2>1 DEF Scores
<1> QED
  BY <1>1, <1>3, <1>5 DEF Added

LEMMA AddedListener ==
  ASSUME Inv, NEW t \in Threads, turn[t].pc = "applyListener"
  PROVE  /\ turn[t].listener \in Chars
         /\ Added(turn[t].listener, ListenerDelta(t)) =
              [scores EXCEPT ![turn[t].listener] = After(turn[t].theirs, turn[t].mine, turn[t].channel)]
         /\ After(turn[t].theirs, turn[t].mine, turn[t].channel) \in Scores
<1> DEFINE r == turn[t]
           new == After(r.theirs, r.mine, r.channel)
<1>1. r.speaker \in Chars /\ r.listener \in Chars /\ r.channel \in Channels
  BY DEF Inv, TurnOK, Turns
<1>2. r.theirs = scores[r.listener] /\ r.mine \in Scores /\ r.theirs \in Scores
  BY <1>1 DEF Inv, Current, RangeOK
<1>3. new \in Scores
  BY <1>1, <1>2, AfterRange, ScoresAreTables
<1>4. ASSUME NEW a \in Axes
      PROVE  r.theirs[a] + (new[a] - r.theirs[a]) = new[a]
  <2>1. r.theirs[a] \in Int /\ new[a] \in Int
    BY <1>2, <1>3, TopIsPositive DEF Scores
  <2> HIDE DEF new, r
  <2> QED
    BY <2>1, MinusPlus
<1>5. [a \in Axes |-> scores[r.listener][a] + ListenerDelta(t)[a]] = new
  <2>1. [a \in Axes |-> scores[r.listener][a] + ListenerDelta(t)[a]] = [a \in Axes |-> new[a]]
    BY <1>2, <1>4 DEF ListenerDelta
  <2> QED
    BY <1>3, <2>1 DEF Scores
<1> QED
  BY <1>1, <1>3, <1>5 DEF Added

LEMMA StepRange ==
  ASSUME Inv, [Next]_vars
  PROVE  RangeOK'
<1> USE DEF Inv
<1>1. ASSUME NEW t \in Threads, ApplySpeaker(t)
      PROVE  RangeOK'
  <2>1. PICK new \in Scores : \/ scores' = [scores EXCEPT ![turn[t].speaker] = new]
                              \/ scores' = scores
    BY <1>1, AddedSpeaker DEF ApplySpeaker
  <2> QED
    BY <2>1 DEF RangeOK
<1>2. ASSUME NEW t \in Threads, ApplyListener(t)
      PROVE  RangeOK'
  <2>1. PICK new \in Scores : \/ scores' = [scores EXCEPT ![turn[t].listener] = new]
                              \/ scores' = scores
    BY <1>2, AddedListener DEF ApplyListener
  <2> QED
    BY <2>1 DEF RangeOK
<1>3. ASSUME UNCHANGED scores
      PROVE  RangeOK'
  BY <1>3 DEF RangeOK
<1> QED
  BY <1>1, <1>2, <1>3 DEF Next, Resolve, Begin, LockFirst, LockSecond, ReadSpeaker, ReadListener,
     AppendLedger, Release, ReadFails, Crash, vars

\* A transaction changes the scores of nobody another thread is talking about.
LEMMA StepCurrent ==
  ASSUME OneHomeOnly, Inv, [Next]_vars
  PROVE  Current'
<1> USE DEF Inv
<1>1. ASSUME UNCHANGED scores,
             \A u \in Threads : turn'[u].pc \in Inside \ {"readSpeaker"} => turn'[u] = turn[u]
      PROVE  Current'
  BY <1>1 DEF Current, Inside
<1>2. ASSUME NEW t \in Threads, NEW s \in Chars, NEW l \in Chars, NEW ch \in Channels,
             Begin(t, s, l, ch)
      PROVE  Current'
  BY <1>1, <1>2 DEF Begin, Inside, TurnOK, Turns, Idle
<1>3. ASSUME NEW t \in Threads, LockFirst(t) \/ LockSecond(t) \/ ReadFails(t)
      PROVE  Current'
  BY <1>1, <1>3 DEF LockFirst, LockSecond, ReadFails, Goto, Inside, TurnOK, Turns
<1>4. ASSUME NEW t \in Threads, Release(t)
      PROVE  Current'
  BY <1>1, <1>4 DEF Release, Inside, TurnOK, Turns, Idle
<1>5. ASSUME NEW p \in Procs, Crash(p)
      PROVE  Current'
  BY <1>1, <1>5 DEF Crash, Inside, TurnOK, Turns, Idle
<1>6. ASSUME NEW t \in Threads, ReadSpeaker(t)
      PROVE  Current'
  BY <1>6 DEF ReadSpeaker, Current, TurnOK, Turns
<1>7. ASSUME NEW t \in Threads, ReadListener(t)
      PROVE  Current'
  <2>1. scores[turn[t].speaker] \in Scores
    BY <1>7 DEF ReadListener, TurnOK, Turns, RangeOK
  <2> QED
    BY <1>7, <2>1 DEF ReadListener, Current, TurnOK, Turns
<1>8. ASSUME NEW t \in Threads, AppendLedger(t)
      PROVE  Current'
  BY <1>8 DEF AppendLedger, Goto, Current, TurnOK, Turns
<1>9. ASSUME NEW t \in Threads, NEW c \in Chars, NEW pc \in {"applyListener", "release"},
             turn[t].pc \in Inside,
             c \in {turn[t].speaker, turn[t].listener},
             Goto(t, pc), pc = "applyListener" => turn[t].pc = "applySpeaker" /\ c = turn[t].speaker,
             \A d \in Chars \ {c} : scores'[d] = scores[d]
      PROVE  Current'
  <2>1. ASSUME NEW u \in Threads \ {t}, turn[u].pc \in Inside
        PROVE  /\ turn'[u] = turn[u]
               /\ scores'[turn[u].speaker] = scores[turn[u].speaker]
               /\ scores'[turn[u].listener] = scores[turn[u].listener]
    <3>1. c \notin {turn[u].speaker, turn[u].listener}
      BY <1>9, <2>1, Exclusion
    <3>2. turn[u].speaker \in Chars /\ turn[u].listener \in Chars
      BY <2>1 DEF TurnOK, Turns, Inside
    <3> QED
      BY <1>9, <2>1, <3>1, <3>2 DEF Goto, TurnOK, Turns
  <2>2. ASSUME NEW u \in Threads \ {t}
        PROVE  turn'[u] = turn[u]
    BY <1>9, <2>2 DEF Goto, TurnOK, Turns
  <2>3. turn'[t].pc = pc /\ turn'[t].theirs = turn[t].theirs /\ turn'[t].mine = turn[t].mine
        /\ turn'[t].listener = turn[t].listener
    BY <1>9 DEF Goto, TurnOK, Turns
  <2>4. pc = "applyListener" => turn'[t].theirs = scores'[turn'[t].listener] /\ turn'[t].mine \in Scores
    <3>1. turn[t].speaker # turn[t].listener /\ turn[t].listener \in Chars
      BY <1>9 DEF Holds, TurnOK, Turns, Inside
    <3> QED
      BY <1>9, <2>3, <3>1 DEF Current
  <2> QED
    BY <1>9, <2>1, <2>2, <2>3, <2>4 DEF Current, Inside
<1>10. ASSUME NEW t \in Threads, ApplySpeaker(t)
       PROVE  Current'
  <2>1. turn[t].speaker \in Chars
    BY <1>10, AddedSpeaker DEF ApplySpeaker
  <2>2. \A d \in Chars \ {turn[t].speaker} : scores'[d] = scores[d]
    BY <1>10, <2>1 DEF ApplySpeaker, Added, RangeOK
  <2> QED
    BY <1>9, <1>10, <2>1, <2>2 DEF ApplySpeaker, Inside
<1>11. ASSUME NEW t \in Threads, ApplyListener(t)
       PROVE  Current'
  <2>1. turn[t].listener \in Chars
    BY <1>11, AddedListener DEF ApplyListener
  <2>2. \A d \in Chars \ {turn[t].listener} : scores'[d] = scores[d]
    BY <1>11, <2>1 DEF ApplyListener, Added, RangeOK
  <2> QED
    BY <1>9, <1>11, <2>1, <2>2 DEF ApplyListener, Inside
<1>12. CASE UNCHANGED vars
  BY <1>1, <1>12 DEF vars
<1> QED
  BY <1>2, <1>3, <1>4, <1>5, <1>6, <1>7, <1>8, <1>10, <1>11, <1>12 DEF Next, Resolve

LEMMA StepInv == OneHomeOnly /\ Inv /\ [Next]_vars => Inv'
  BY StepTurnOK, StepHolds, StepCurrent, StepRange DEF Inv

-----------------------------------------------------------------------------
\* With one server process no score ever leaves [0.0, 1.0], and what an
\* interaction computes from is what it changes: whatever the grammar, the
\* number of threads, the failures and the crashes, self-talk included.
THEOREM RangeHolds ==
  ASSUME OneHomeOnly
  PROVE  Spec => []ScoresSound
<1>1. Inv => ScoresSound
  BY DEF Inv, RangeOK, Current, ScoresSound, ScoresInRange, SnapshotIsCurrent
<1> QED
  BY <1>1, InitInv, StepInv, PTL DEF Spec

-----------------------------------------------------------------------------
(***************************************************************************)
(* Deadlock freedom: a lock that is taken is held by a thread that will    *)
(* give it back, or by one that waits for a lock of a higher character.    *)
(***************************************************************************)
Kept ==
  \A p \in Procs, c \in Chars :
    lock[p][c] # NULL =>
      /\ Home[lock[p][c]] = p
      /\ \/ turn[lock[p][c]].pc = "second" /\ c = Lower(lock[p][c])
         \/ turn[lock[p][c]].pc \in Inside \cup {"release"}

LEMMA StepKept ==
  ASSUME TurnOK, Kept, [Next]_vars
  PROVE  Kept'
<1>0. ASSUME NEW p \in Procs, NEW c \in Chars
      PROVE  lock[p][c] \in Threads \cup {NULL}
  BY DEF TurnOK
<1>1. ASSUME lock' = lock,
             \A u \in Threads :
               /\ turn[u].pc = "second" => turn'[u] = turn[u]
               /\ turn[u].pc \in Inside \cup {"release"} => turn'[u].pc \in Inside \cup {"release"}
      PROVE  Kept'
  <2>1. \A u \in Threads : turn[u].pc = "second" => Lower(u)' = Lower(u)
    BY <1>1 DEF Lower
  <2> QED
    BY <1>0, <1>1, <2>1 DEF Kept
<1>2. ASSUME NEW t \in Threads, NEW s \in Chars, NEW l \in Chars, NEW ch \in Channels,
             Begin(t, s, l, ch)
      PROVE  Kept'
  BY <1>1, <1>2 DEF Begin, Inside, TurnOK, Turns
<1>3. ASSUME NEW t \in Threads,
             \/ ReadSpeaker(t) \/ ReadListener(t) \/ AppendLedger(t) \/ ApplySpeaker(t)
             \/ ApplyListener(t) \/ ReadFails(t)
      PROVE  Kept'
  <2>1. /\ lock' = lock /\ turn[t].pc # "second"
        /\ \A u \in Threads \ {t} : turn'[u] = turn[u]
        /\ turn'[t].pc \in Inside \cup {"release"}
    BY <1>3 DEF ReadSpeaker, ReadListener, AppendLedger, ApplySpeaker, ApplyListener, ReadFails,
       Goto, TurnOK, Turns, Inside
  <2> QED
    BY <1>1, <2>1
<1>4. ASSUME NEW t \in Threads, NEW k \in Chars, NEW pc \in {"second", "readSpeaker"},
             Goto(t, pc), lock' = [lock EXCEPT ![Home[t]][k] = t],
             IF pc = "second" THEN k = Lower(t) /\ turn[t].pc = "first" ELSE turn[t].pc = "second"
      PROVE  Kept'
  <2>1. \A p \in Procs, c \in Chars : lock'[p][c] = IF p = Home[t] /\ c = k THEN t ELSE lock[p][c]
    BY <1>4, HomeType DEF TurnOK
  <2>2. \A u \in Threads \ {t} : turn'[u] = turn[u] /\ Lower(u)' = Lower(u)
    BY <1>4 DEF Goto, TurnOK, Turns, Lower
  <2>3. turn'[t].pc = pc /\ Lower(t)' = Lower(t)
    BY <1>4 DEF Goto, TurnOK, Turns, Lower
  <2>4. NULL # t
    BY NullIsNoThread
  <2> QED
    BY <1>0, <1>4, <2>1, <2>2, <2>3, <2>4, NullIsNoThread DEF Kept, Inside
<1>5. ASSUME NEW t \in Threads, LockFirst(t)
      PROVE  Kept'
  BY <1>4, <1>5, LockOrder DEF LockFirst
<1>6. ASSUME NEW t \in Threads, LockSecond(t)
      PROVE  Kept'
  BY <1>4, <1>6, LockOrder DEF LockSecond
<1>7. ASSUME NEW t \in Threads, Release(t)
      PROVE  Kept'
  <2>1. \A u \in Threads \ {t} : turn'[u] = turn[u] /\ Lower(u)' = Lower(u)
    BY <1>7 DEF Release, TurnOK, Turns, Lower
  <2>2. \A p \in Procs, c \in Chars :
          lock'[p][c] = IF p = Home[t] /\ lock[p][c] = t THEN NULL ELSE lock[p][c]
    BY <1>7, HomeType DEF Release, TurnOK
  <2> QED
    BY <1>0, <2>1, <2>2 DEF Kept
<1>8. ASSUME NEW q \in Procs, Crash(q)
      PROVE  Kept'
  <2>1. \A u \in Threads : Home[u] # q => turn'[u] = turn[u] /\ Lower(u)' = Lower(u)
    BY <1>8 DEF Crash, Lower
  <2>2. \A p \in Procs, c \in Chars : lock'[p][c] = IF p = q THEN NULL ELSE lock[p][c]
    BY <1>8 DEF Crash, TurnOK
  <2> QED
    BY <1>0, <2>1, <2>2 DEF Kept
<1>9. CASE UNCHANGED vars
  BY <1>1, <1>9 DEF vars
<1> QED
  BY <1>2, <1>3, <1>5, <1>6, <1>7, <1>8, <1>9 DEF Next, Resolve

\* Of deadlocked threads that serve two characters each, the one whose first lock is
\* the highest would wait for a thread whose first lock is higher still.
LEMMA NoCycle ==
  ASSUME NEW Last \in Nat, Chars \subseteq 0..Last, TurnOK, Holds, Kept
  PROVE  OnlySelfTalkBlocks
<1> SUFFICES ASSUME NEW T \in SUBSET Threads, T # {}, \A t \in T : Awaits(t) \in T,
                    \A t \in T : ~SelfTalk(t)
             PROVE  FALSE
  BY DEF OnlySelfTalkBlocks, Deadlocked
<1>1. ASSUME NEW t \in T
      PROVE  /\ turn[t].pc \in {"first", "second"}
             /\ Lower(t) \in Chars /\ Higher(t) \in Chars
             /\ turn[t].pc = "second" => Lower(t) < Higher(t)
             /\ Awaits(t) \in T
             /\ Awaits(t) = lock[Home[t]][IF turn[t].pc = "first" THEN Lower(t) ELSE Higher(t)]
  <2>1. turn[t].pc \in {"first", "second"} /\ Awaits(t) \in T
    BY NullIsNoThread DEF Awaits
  <2>2. Lower(t) \in Chars /\ Higher(t) \in Chars
    BY <2>1, LockOrder
  <2>3. turn[t].speaker \in Nat /\ turn[t].listener \in Nat
    BY <2>1, CharsAreIds DEF TurnOK, Turns
\* Who holds the lock of the only character he serves waits for himself.
  <2>4. ASSUME turn[t].pc = "second", turn[t].speaker = turn[t].listener
        PROVE  FALSE
    <3>1. Lower(t) = Higher(t)
      BY <2>3, <2>4 DEF Lower, Higher
    <3>2. Awaits(t) = t
      BY <2>4, <3>1 DEF Awaits, Holds
    <3> QED
      BY <2>4, <3>2 DEF SelfTalk
  <2>5. turn[t].pc = "second" => Lower(t) < Higher(t)
    BY <2>3, <2>4 DEF Lower, Higher
  <2> QED
    BY <2>1, <2>2, <2>5 DEF Awaits, Mine
\* Whoever is waited for holds his first lock, the one waited for, and waits for
\* his second.
<1>2. ASSUME NEW t \in T
      PROVE  /\ turn[Awaits(t)].pc = "second"
             /\ Lower(Awaits(t)) = IF turn[t].pc = "first" THEN Lower(t) ELSE Higher(t)
  <2>1. PICK u \in T, c \in Chars :
          /\ u = Awaits(t) /\ u = lock[Home[t]][c] /\ u # NULL /\ Home[t] \in Procs
          /\ c = IF turn[t].pc = "first" THEN Lower(t) ELSE Higher(t)
    BY <1>1, HomeType, NullIsNoThread
  <2>2. turn[u].pc \notin Inside \cup {"release"}
    BY <1>1, <2>1 DEF Inside
  <2>3. turn[u].pc = "second" /\ c = Lower(u)
    BY <2>1, <2>2 DEF Kept
  <2> QED
    BY <2>1, <2>3
<1> DEFINE Gaps == {Last - Lower(t) : t \in {v \in T : turn[v].pc = "second"}}
<1>4. Gaps \subseteq Nat /\ Gaps # {}
  <2>1. \A t \in T : Lower(t) \in 0..Last
    BY <1>1
  <2>2. PICK t \in T : TRUE
    OBVIOUS
  <2>3. Awaits(t) \in T /\ turn[Awaits(t)].pc = "second"
    BY <1>1, <1>2
  <2> QED
    BY <2>1, <2>3
<1>5. PICK g \in Gaps : \A h \in Gaps : ~(h < g)
  <2>1. PICK g \in Gaps : \A h \in Gaps : ~(<<h, g>> \in OpToRel(<, Nat))
    <3>1. IsWellFoundedOn(OpToRel(<, Nat), Nat)
      BY NatLessThanWellFounded
    <3> HIDE DEF Gaps
    <3> QED
      BY <1>4, <3>1, WFMin
  <2>2. \A h \in Gaps : h < g => <<h, g>> \in OpToRel(<, Nat)
    <3> HIDE DEF Gaps
    <3> QED
      BY <1>4 DEF OpToRel
  <2> QED
    BY <2>1, <2>2
<1>6. PICK t \in T : turn[t].pc = "second" /\ g = Last - Lower(t)
  BY <1>5
<1>7. LET u == Awaits(t)
      IN u \in T /\ turn[u].pc = "second" /\ Lower(u) = Higher(t) /\ Lower(t) < Higher(t)
  BY <1>1, <1>2, <1>6
<1> QED
  <2> DEFINE u == Awaits(t)
  <2>1. Last - Lower(u) \in Gaps
    BY <1>7
  <2>2. Lower(u) \in Nat /\ Lower(t) \in Nat /\ Lower(t) < Lower(u)
    BY <1>1, <1>7, CharsAreIds
  <2>3. Last - Lower(u) < Last - Lower(t)
    BY <2>2
  <2> QED
    BY <1>5, <1>6, <2>1, <2>3

\* For any number of characters, threads and server processes, and whatever fails:
\* wherever threads wait for each other for ever, one of them serves a character that
\* whispers to itself.  Taking the locks in the order of the ids is enough for
\* everybody else.
THEOREM DeadlockFreedom ==
  ASSUME NEW Last \in Nat, Chars \subseteq 0..Last
  PROVE  Spec => []OnlySelfTalkBlocks
<1>1. Init => TurnOK /\ Holds /\ Kept
  BY InitInv DEF Init, Inv, Kept
<1>2. TurnOK /\ Holds /\ Kept /\ [Next]_vars => (TurnOK /\ Holds /\ Kept)'
  BY StepTurnOK, StepHolds, StepKept
<1>3. TurnOK /\ Holds /\ Kept => OnlySelfTalkBlocks
  BY NoCycle
<1> QED
  BY <1>1, <1>2, <1>3, PTL DEF Spec

-----------------------------------------------------------------------------
(***************************************************************************)
(* The engine implements AxisInteraction.                                  *)
(***************************************************************************)
Speaks(t, c) == turn[t].pc = "applySpeaker" /\ turn[t].speaker = c
Hears(t, c)  == turn[t].pc \in {"applySpeaker", "applyListener"} /\ turn[t].listener = c

\* The abstract scores: those to come of the parties of an interaction that is
\* recorded and not yet applied, and the stored ones of everybody else.
Mapped ==
  \A c \in Chars :
    /\ \A t \in Threads :
         /\ Speaks(t, c) => Bar[c] = After(turn[t].mine, turn[t].theirs, turn[t].channel)
         /\ Hears(t, c)  => Bar[c] = After(turn[t].theirs, turn[t].mine, turn[t].channel)
    /\ (\A t \in Threads : ~Speaks(t, c) /\ ~Hears(t, c)) => Bar[c] = scores[c]

LEMMA AddBack ==
  ASSUME NEW x \in Scores, NEW y \in Scores
  PROVE  [a \in Axes |-> x[a] + (y[a] - x[a])] = y
<1>1. ASSUME NEW a \in Axes PROVE x[a] + (y[a] - x[a]) = y[a]
  <2>1. x[a] \in Int /\ y[a] \in Int  BY TopIsPositive DEF Scores
  <2> QED  BY <2>1, MinusPlus
<1>2. [a \in Axes |-> x[a] + (y[a] - x[a])] = [a \in Axes |-> y[a]]  BY <1>1
<1> QED  BY <1>2 DEF Scores

LEMMA MappedHolds ==
  ASSUME OneHomeOnly
  PROVE  Inv => Mapped
<1> SUFFICES ASSUME Inv, NEW c \in Chars
             PROVE  /\ \A t \in Threads :
                         /\ Speaks(t, c) => Bar[c] = After(turn[t].mine, turn[t].theirs, turn[t].channel)
                         /\ Hears(t, c)  => Bar[c] = After(turn[t].theirs, turn[t].mine, turn[t].channel)
                    /\ (\A t \in Threads : ~Speaks(t, c) /\ ~Hears(t, c)) => Bar[c] = scores[c]
  BY DEF Mapped
<1> DEFINE S == {t \in Threads : turn[t].pc = "applySpeaker" /\ turn[t].speaker = c}
           L == {t \in Threads : turn[t].pc \in {"applySpeaker", "applyListener"} /\ turn[t].listener = c}
<1>0. Bar[c] = [a \in Axes |-> scores[c][a] + ToApply(c, a)]  BY DEF Bar
<1>1. \A t, u \in Threads : (Speaks(t, c) \/ Hears(t, c)) /\ (Speaks(u, c) \/ Hears(u, c)) => t = u
  BY Exclusion DEF Inv, Speaks, Hears, Inside
<1>2. ASSUME NEW t \in Threads, Speaks(t, c)
      PROVE  Bar[c] = After(turn[t].mine, turn[t].theirs, turn[t].channel)
  <2> DEFINE new == After(turn[t].mine, turn[t].theirs, turn[t].channel)
  <2>1. S = {t}  BY <1>1, <1>2 DEF Speaks
  <2>2. \A a : ToApply(c, a) = SpeakerDelta(t)[a]
    <3> HIDE DEF S
    <3>1. S # {} /\ (CHOOSE u \in S : TRUE) = t  BY <2>1
    <3> QED  BY <3>1 DEF ToApply, S
  <2>3. turn[t].mine = scores[c] /\ turn[t].mine \in Scores /\ new \in Scores
    BY <1>2, AddedSpeaker DEF Speaks, Inv, Current, RangeOK
  <2>4. Bar[c] = [a \in Axes |-> turn[t].mine[a] + (new[a] - turn[t].mine[a])]
    BY <1>0, <2>2, <2>3 DEF SpeakerDelta
  <2> HIDE DEF new
  <2>5. Bar[c] = new  BY <2>3, <2>4, AddBack
  <2> QED  BY <2>5 DEF new
<1>3. ASSUME NEW t \in Threads, Hears(t, c)
      PROVE  Bar[c] = After(turn[t].theirs, turn[t].mine, turn[t].channel)
  <2> DEFINE new == After(turn[t].theirs, turn[t].mine, turn[t].channel)
  <2>0. turn[t].speaker # turn[t].listener /\ turn[t].pc \in Inside /\ turn[t].pc # "idle"
    BY <1>3 DEF Hears, Inv, Holds, Inside
  <2>1. L = {t} /\ S = {}
    <3>1. ~Speaks(t, c)  BY <1>3, <2>0 DEF Hears, Speaks
    <3> QED  BY <1>1, <1>3, <3>1 DEF Speaks, Hears
  <2>2. \A a : ToApply(c, a) = ListenerDelta(t)[a]
    <3> HIDE DEF S, L
    <3>1. S = {} /\ L # {} /\ (CHOOSE u \in L : TRUE) = t  BY <2>1
    <3> QED  BY <3>1 DEF ToApply, S, L
  <2>3. turn[t].theirs = scores[c] /\ turn[t].theirs \in Scores /\ turn[t].mine \in Scores
    BY <1>3 DEF Hears, Inv, Current, RangeOK
  <2>4. new \in Scores  BY <2>0, <2>3, AfterRange, ScoresAreTables DEF Inv, TurnOK, Turns
  <2>5. Bar[c] = [a \in Axes |-> turn[t].theirs[a] + (new[a] - turn[t].theirs[a])]
    BY <1>0, <2>2, <2>3 DEF ListenerDelta
  <2> HIDE DEF new
  <2>6. Bar[c] = new  BY <2>3, <2>4, <2>5, AddBack
  <2> QED  BY <2>6 DEF new
<1>4. ASSUME \A t \in Threads : ~Speaks(t, c) /\ ~Hears(t, c)
      PROVE  Bar[c] = scores[c]
  <2>1. S = {} /\ L = {}  BY <1>4 DEF Speaks, Hears
  <2>2. \A a : ToApply(c, a) = 0
    <3> HIDE DEF S, L
    <3> QED  BY <2>1 DEF ToApply, S, L
  <2>3. scores[c] \in Scores  BY DEF Inv, RangeOK
  <2>4. \A a \in Axes : scores[c][a] + 0 = scores[c][a]  BY <2>3, TopIsPositive DEF Scores
  <2>5. Bar[c] = [a \in Axes |-> scores[c][a]]  BY <1>0, <2>2, <2>4
  <2> QED  BY <2>3, <2>5 DEF Scores
<1> QED  BY <1>2, <1>3, <1>4

LEMMA SameAfter ==
  ASSUME NEW x, NEW y, NEW ch
  PROVE  Atomic!After(x, y, ch) = After(x, y, ch)
BY DEF Atomic!After, After, Atomic!Clamp, Clamp, Atomic!Raw, Raw, Atomic!Gap, Gap,
       Atomic!Shift, Shift

\* A step after which every pending party is pending as it was, and everybody
\* else's scores are as they were, is a stutter of the abstract scores.
LEMMA StutterOfBar ==
  ASSUME Mapped, Mapped',
         \A t \in Threads, c \in Chars :
           /\ Speaks(t, c) => Speaks(t, c)' /\ turn'[t] = turn[t]
           /\ Hears(t, c) => Hears(t, c)' /\ turn'[t] = turn[t]
           /\ Speaks(t, c)' => Speaks(t, c)
           /\ Hears(t, c)' => Hears(t, c),
         scores' = scores
  PROVE  Bar' = Bar
<1>1. ASSUME NEW c \in Chars PROVE Bar'[c] = Bar[c]
  BY DEF Mapped
<1> QED  BY <1>1 DEF Bar

\* Without a failure a step changes nothing that is pending, or it appends to
\* the ledger, or it carries out what was pending.
LEMMA StepMaps ==
  ASSUME OneHomeOnly, Inv, Inv', Mapped, Mapped', [Next]_vars
  PROVE  [Atomic!InteractionNext]_<<Bar, ledger, failed>>
<1> SUFFICES ASSUME ~failed'
             PROVE  [Atomic!InteractionNext]_<<Bar, ledger, failed>>
  BY DEF Atomic!InteractionNext
<1> USE DEF Inv
<1>1. ASSUME scores' = scores, ledger' = ledger, failed' = failed,
             \A u \in Threads :
               /\ turn[u].pc \in {"applySpeaker", "applyListener"} => turn'[u] = turn[u]
               /\ turn'[u].pc \in {"applySpeaker", "applyListener"} => turn'[u] = turn[u]
      PROVE  [Atomic!InteractionNext]_<<Bar, ledger, failed>>
  BY <1>1, StutterOfBar DEF Speaks, Hears
<1>2. ASSUME NEW t \in Threads, NEW s \in Chars, NEW l \in Chars, NEW ch \in Channels,
             Begin(t, s, l, ch)
      PROVE  [Atomic!InteractionNext]_<<Bar, ledger, failed>>
  BY <1>1, <1>2 DEF Begin, TurnOK, Turns, Idle
<1>3. ASSUME NEW t \in Threads,
             LockFirst(t) \/ LockSecond(t) \/ ReadSpeaker(t) \/ ReadListener(t) \/ Release(t)
      PROVE  [Atomic!InteractionNext]_<<Bar, ledger, failed>>
  BY <1>1, <1>3 DEF LockFirst, LockSecond, ReadSpeaker, ReadListener, Release, Goto, TurnOK, Turns, Idle
<1>4. ASSUME NEW t \in Threads, AppendLedger(t)
      PROVE  [Atomic!InteractionNext]_<<Bar, ledger, failed>>
  <2> DEFINE r == turn[t]
  <2>0. PICK s \in Chars, l \in Chars, ch \in Channels :
          r.pc = "append" /\ s = r.speaker /\ l = r.listener /\ ch = r.channel
    BY <1>4 DEF AppendLedger, TurnOK, Turns
  <2>1. /\ r.pc = "append" /\ scores' = scores /\ failed' = failed
        /\ ledger' = Append(ledger, [speaker |-> s, listener |-> l, channel |-> ch,
                                     before |-> <<r.mine, r.theirs>>])
        /\ Goto(t, "applySpeaker")
    BY <1>4, <2>0 DEF AppendLedger
  <2>2. s # l
    BY <2>0 DEF Holds, Inside
  <2>3. r.mine = scores[s] /\ r.theirs = scores[l]
    BY <2>0 DEF Current
  <2>4. /\ \A u \in Threads \ {t} : turn'[u] = turn[u]
        /\ turn'[t] = [turn[t] EXCEPT !.pc = "applySpeaker"]
    BY <2>1 DEF Goto, TurnOK, Turns
  <2>5. turn'[t].speaker = s /\ turn'[t].listener = l /\ turn'[t].channel = ch
        /\ turn'[t].mine = r.mine /\ turn'[t].theirs = r.theirs /\ turn'[t].pc = "applySpeaker"
    BY <2>0, <2>4 DEF TurnOK, Turns
  <2>6. \A u \in Threads, c \in {s, l} : ~Speaks(u, c) /\ ~Hears(u, c)
    BY <2>0, Exclusion DEF Speaks, Hears, Inside
  <2>7. Bar[s] = r.mine /\ Bar[l] = r.theirs
    BY <2>2, <2>3, <2>6 DEF Mapped
  <2>8. Bar'[s] = After(Bar[s], Bar[l], ch) /\ Bar'[l] = After(Bar[l], Bar[s], ch)
    <3>1. Speaks(t, s)' /\ Hears(t, l)'  BY <2>5 DEF Speaks, Hears
    <3>2. Bar'[s] = After(turn'[t].mine, turn'[t].theirs, turn'[t].channel)
      BY <2>2, <3>1 DEF Mapped
    <3>3. Bar'[l] = After(turn'[t].theirs, turn'[t].mine, turn'[t].channel)
      BY <2>2, <3>1 DEF Mapped
    <3> HIDE DEF r
    <3> QED  BY <2>5, <2>7, <3>2, <3>3
  <2>9. ASSUME NEW c \in Chars \ {s, l} PROVE Bar'[c] = Bar[c]
    <3>1. \A u \in Threads : /\ Speaks(u, c)' <=> Speaks(u, c)
                             /\ Hears(u, c)' <=> Hears(u, c)
                             /\ Speaks(u, c) \/ Hears(u, c) => turn'[u] = turn[u]
      BY <2>0, <2>4, <2>5 DEF Speaks, Hears
    <3> QED  BY <2>1, <3>1 DEF Mapped
  <2>10. Bar' = [Bar EXCEPT ![s] = After(Bar[s], Bar[l], ch), ![l] = After(Bar[l], Bar[s], ch)]
    <3> QED  BY <2>2, <2>8, <2>9 DEF Bar
  <2>11. Atomic!Interact(s, l, ch)
    <3> QED  BY <2>1, <2>7, <2>10, SameAfter DEF Atomic!Interact, Bar
  <2> QED  BY <2>1, <2>2, <2>11 DEF Atomic!InteractionNext
<1>5. ASSUME NEW t \in Threads, ApplySpeaker(t)
      PROVE  [Atomic!InteractionNext]_<<Bar, ledger, failed>>
  <2> DEFINE r == turn[t]
             new == After(r.mine, r.theirs, r.channel)
  <2>1. /\ r.pc = "applySpeaker" /\ ledger' = ledger /\ failed' = failed
        /\ scores' = [scores EXCEPT ![r.speaker] = new] /\ r.speaker \in Chars
        /\ Goto(t, "applyListener")
    BY <1>5, AddedSpeaker DEF ApplySpeaker
  <2>2. r.listener \in Chars /\ r.listener # r.speaker
    BY <2>1 DEF TurnOK, Turns, Holds, Inside
  <2>3. /\ \A u \in Threads \ {t} : turn'[u] = turn[u]
        /\ turn'[t] = [turn[t] EXCEPT !.pc = "applyListener"]
    BY <2>1 DEF Goto, TurnOK, Turns
  <2>4. ASSUME NEW c \in Chars PROVE Bar'[c] = Bar[c]
    <3>1. CASE c = r.speaker
      <4>1. Bar[c] = new  BY <2>1, <3>1 DEF Mapped, Speaks
      <4>2. ~Speaks(t, c)' /\ ~Hears(t, c)'
        BY <2>1, <2>2, <2>3, <3>1 DEF Speaks, Hears, TurnOK, Turns
      <4>3. ASSUME NEW u \in Threads \ {t} PROVE ~Speaks(u, c)' /\ ~Hears(u, c)'
        <5>1. ~Speaks(u, c) /\ ~Hears(u, c)
          BY <2>1, <3>1, Exclusion DEF Speaks, Hears, Inside
        <5> QED  BY <2>3, <5>1 DEF Speaks, Hears
      <4>4. Bar'[c] = scores'[c]  BY <4>2, <4>3 DEF Mapped
      <4>5. scores'[c] = new
        <5> HIDE DEF new
        <5> QED  BY <2>1, <3>1 DEF RangeOK
      <4> QED  BY <4>1, <4>4, <4>5
    <3>2. CASE c = r.listener
      <4>1. Hears(t, c) /\ Hears(t, c)'
        BY <2>1, <2>3, <3>2 DEF Hears, TurnOK, Turns
      <4>2. turn'[t].mine = r.mine /\ turn'[t].theirs = r.theirs /\ turn'[t].channel = r.channel
        BY <2>3 DEF TurnOK, Turns
      <4> QED  BY <4>1, <4>2 DEF Mapped
    <3>3. CASE c \notin {r.speaker, r.listener}
      <4>1. \A u \in Threads : /\ Speaks(u, c)' <=> Speaks(u, c)
                               /\ Hears(u, c)' <=> Hears(u, c)
                               /\ Speaks(u, c) \/ Hears(u, c) => turn'[u] = turn[u]
        BY <2>1, <2>3, <3>3 DEF Speaks, Hears, TurnOK, Turns
      <4>2. scores'[c] = scores[c]
        <5> HIDE DEF new
        <5> QED  BY <2>1, <3>3 DEF RangeOK
      <4> QED  BY <4>1, <4>2 DEF Mapped
    <3> QED  BY <3>1, <3>2, <3>3
  <2>5. Bar' = Bar  BY <2>4 DEF Bar
  <2> QED  BY <2>1, <2>5
<1>6. ASSUME NEW t \in Threads, ApplyListener(t)
      PROVE  [Atomic!InteractionNext]_<<Bar, ledger, failed>>
  <2> DEFINE r == turn[t]
             new == After(r.theirs, r.mine, r.channel)
  <2>1. /\ r.pc = "applyListener" /\ ledger' = ledger /\ failed' = failed
        /\ scores' = [scores EXCEPT ![r.listener] = new] /\ r.listener \in Chars
        /\ Goto(t, "release")
    BY <1>6, AddedListener DEF ApplyListener
  <2>2. /\ \A u \in Threads \ {t} : turn'[u] = turn[u]
        /\ turn'[t] = [turn[t] EXCEPT !.pc = "release"]
    BY <2>1 DEF Goto, TurnOK, Turns
  <2>3. ASSUME NEW c \in Chars PROVE Bar'[c] = Bar[c]
    <3>1. CASE c = r.listener
      <4>1. Bar[c] = new  BY <2>1, <3>1 DEF Mapped, Hears
      <4>2. ~Speaks(t, c)' /\ ~Hears(t, c)'
        BY <2>1, <2>2 DEF Speaks, Hears, TurnOK, Turns
      <4>3. ASSUME NEW u \in Threads \ {t} PROVE ~Speaks(u, c)' /\ ~Hears(u, c)'
        <5>1. ~Speaks(u, c) /\ ~Hears(u, c)
          BY <2>1, <3>1, Exclusion DEF Speaks, Hears, Inside
        <5> QED  BY <2>2, <5>1 DEF Speaks, Hears
      <4>4. Bar'[c] = scores'[c]  BY <4>2, <4>3 DEF Mapped
      <4>5. scores'[c] = new
        <5> HIDE DEF new
        <5> QED  BY <2>1, <3>1 DEF RangeOK
      <4> QED  BY <4>1, <4>4, <4>5
    <3>2. CASE c # r.listener
      <4>1. \A u \in Threads : /\ Speaks(u, c)' <=> Speaks(u, c)
                               /\ Hears(u, c)' <=> Hears(u, c)
                               /\ Speaks(u, c) \/ Hears(u, c) => turn'[u] = turn[u]
        BY <2>1, <2>2, <3>2 DEF Speaks, Hears, TurnOK, Turns
      <4>2. scores'[c] = scores[c]
        <5> HIDE DEF new
        <5> QED  BY <2>1, <3>2 DEF RangeOK
      <4> QED  BY <4>1, <4>2 DEF Mapped
    <3> QED  BY <3>1, <3>2
  <2>4. Bar' = Bar  BY <2>3 DEF Bar
  <2> QED  BY <2>1, <2>4
<1>7. CASE (\E t \in Threads : ReadFails(t)) \/ (\E p \in Procs : Crash(p))
  BY <1>7 DEF ReadFails, Crash
<1>8. CASE UNCHANGED vars
  BY <1>1, <1>8 DEF vars
<1> QED
  BY <1>2, <1>3, <1>4, <1>5, <1>6, <1>7, <1>8 DEF Next, Resolve

\* The engine's threads, taking locks, reading, appending and writing, do what
\* some sequence of undivided interactions would do, in the order of the ledger,
\* until an append, a read or a transaction fails or the process dies.
THEOREM AtomicityHolds ==
  ASSUME OneHomeOnly
  PROVE  Spec => InteractionsAreAtomic
<1>1. Init => Atomic!InteractionInit
  <2> SUFFICES ASSUME Init PROVE Atomic!InteractionInit  OBVIOUS
  <2>1. Bar \in InitialScores
    <3>1. Inv /\ Mapped  BY InitInv, MappedHolds
    <3>2. \A c \in Chars : Bar[c] = scores[c]
      BY <3>1 DEF Mapped, Init, Speaks, Hears, Idle
    <3>3. Bar = scores  BY <3>1, <3>2 DEF Inv, RangeOK, Bar
    <3> QED  BY <3>3 DEF Init
  <2> QED  BY <2>1 DEF Init, Atomic!InteractionInit, Bar
<1>2. Inv => Mapped
  BY MappedHolds
<1>3. Inv /\ Inv' /\ Mapped /\ Mapped' /\ [Next]_vars
        => [Atomic!InteractionNext]_<<Bar, ledger, failed>>
  BY StepMaps
<1>4. Spec => []Inv
  BY InitInv, StepInv, PTL DEF Spec
<1>5. Spec => Atomic!InteractionInit /\ [][Atomic!InteractionNext]_<<Bar, ledger, failed>>
  BY <1>1, <1>2, <1>3, <1>4, PTL DEF Spec
<1> QED
  BY <1>5, PTL DEF InteractionsAreAtomic, Atomic!InteractionSpec
=============================================================================
