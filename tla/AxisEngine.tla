----------------------------- MODULE AxisEngine -----------------------------
(***************************************************************************)
(* AxisEngine.resolve_chat_interaction as its callers' threads run it: two *)
(* per-character locks taken in ascending id order, two reads, one ledger  *)
(* append, two database transactions.  The locks live in the process; the  *)
(* ledger and the scores outlive it.                                       *)
(***************************************************************************)
EXTENDS AxisResolvers, Sequences

CONSTANTS
  Chars,           \* character ids
  InitialScores,   \* score tables the world may start with
  Threads,
  Procs,
  Home,            \* Home[t]: the server process thread t belongs to
  NULL,
  CanFail,         \* a ledger append or an axis event may raise
  CanCrash,
  MaxTurns         \* bound on the number of interactions begun

ASSUME CharsAreIds      == Chars \subseteq Nat
ASSUME HomeType         == Home \in [Threads -> Procs]
ASSUME InitialInRange   == InitialScores \subseteq [Chars -> Scores]
ASSUME SwitchesType     == {CanFail, CanCrash} \subseteq BOOLEAN /\ MaxTurns \in Nat
ASSUME NullIsNoThread   == NULL \notin Threads /\ NULL \notin Chars /\ NULL \notin Channels
                             /\ NULL \notin Scores

VARIABLES
  scores,   \* character_axis_score
  ledger,   \* chat.mechanical_resolution events
  lock,     \* lock[p][c]: the thread of process p that holds c's lock
  turn,     \* turn[t]: where thread t is in its interaction
  turns,    \* interactions begun
  failed    \* history: something has failed or died

vars == <<scores, ledger, lock, turn, turns, failed>>

Idle == [pc |-> "idle", speaker |-> NULL, listener |-> NULL, channel |-> NULL,
         mine |-> NULL, theirs |-> NULL]

\* Mutant of Lower: the speaker's lock first.
SpeakerFirst(t) == turn[t].speaker

\* The locks in the order sorted([speaker_id, listener_id]) gives.
Lower(t)  == IF turn[t].speaker < turn[t].listener THEN turn[t].speaker ELSE turn[t].listener
Higher(t) == IF turn[t].speaker < turn[t].listener THEN turn[t].listener ELSE turn[t].speaker

Mine(t) == lock[Home[t]]

\* The post-clamp deltas of the two parties.
SpeakerDelta(t)  == LET r == turn[t] IN [a \in Axes |-> After(r.mine, r.theirs, r.channel)[a] - r.mine[a]]

\* Mutant of ListenerDelta: the speaker's scores are read again.
ListenerDeltaFresh(t) ==
  LET r == turn[t]
  IN [a \in Axes |-> After(r.theirs, scores[r.speaker], r.channel)[a] - r.theirs[a]]

ListenerDelta(t) == LET r == turn[t] IN [a \in Axes |-> After(r.theirs, r.mine, r.channel)[a] - r.theirs[a]]

\* apply_axis_event adds the deltas to what the rows hold, unclamped.
Added(c, delta) == [scores EXCEPT ![c] = [a \in Axes |-> scores[c][a] + delta[a]]]

-----------------------------------------------------------------------------
Init ==
  /\ scores \in InitialScores
  /\ ledger = <<>>
  /\ lock = [p \in Procs |-> [c \in Chars |-> NULL]]
  /\ turn = [t \in Threads |-> Idle]
  /\ turns = 0
  /\ failed = FALSE

Goto(t, pc) == turn' = [turn EXCEPT ![t].pc = pc]

\* Whom the game lets a speaker address: say and yell pick a listener from the others
\* in the room, a whisper goes to whoever is named, the speaker included.
Addressable(s, l, ch) == s # l \/ ch = "whisper"

\* _resolve_ids found both characters.
Begin(t, s, l, ch) ==
  /\ turn[t].pc = "idle"
  /\ turns < MaxTurns
  /\ turn' = [turn EXCEPT ![t] = [Idle EXCEPT !.pc = "first", !.speaker = s, !.listener = l,
                                              !.channel = ch]]
  /\ turns' = turns + 1
  /\ UNCHANGED <<scores, ledger, lock, failed>>

LockFirst(t) ==
  /\ turn[t].pc = "first"
  /\ Mine(t)[Lower(t)] = NULL
  /\ lock' = [lock EXCEPT ![Home[t]][Lower(t)] = t]
  /\ Goto(t, "second")
  /\ UNCHANGED <<scores, ledger, turns, failed>>

\* Mutant of LockSecond: only one lock is taken.
SkipSecondLock(t) ==
  /\ turn[t].pc = "second"
  /\ Goto(t, "readSpeaker")
  /\ UNCHANGED <<scores, ledger, lock, turns, failed>>

\* threading.Lock is not reentrant: who speaks to himself waits here for himself.
LockSecond(t) ==
  /\ turn[t].pc = "second"
  /\ Mine(t)[Higher(t)] = NULL
  /\ lock' = [lock EXCEPT ![Home[t]][Higher(t)] = t]
  /\ Goto(t, "readSpeaker")
  /\ UNCHANGED <<scores, ledger, turns, failed>>

\* Mutant of ReadSpeaker: the listener is never read.
ReadSpeakerOnly(t) ==
  /\ turn[t].pc = "readSpeaker"
  /\ turn' = [turn EXCEPT ![t].pc = "append", ![t].mine = scores[turn[t].speaker]]
  /\ UNCHANGED <<scores, ledger, lock, turns, failed>>

ReadSpeaker(t) ==
  /\ turn[t].pc = "readSpeaker"
  /\ turn' = [turn EXCEPT ![t].pc = "readListener", ![t].mine = scores[turn[t].speaker]]
  /\ UNCHANGED <<scores, ledger, lock, turns, failed>>

ReadListener(t) ==
  /\ turn[t].pc = "readListener"
  /\ turn' = [turn EXCEPT ![t].pc = "append", ![t].theirs = scores[turn[t].listener]]
  /\ UNCHANGED <<scores, ledger, lock, turns, failed>>

\* _write_ledger_event swallows a failed append.
AppendLedger(t) ==
  LET r == turn[t]
  IN /\ r.pc = "append"
     /\ \/ ledger' = Append(ledger, [speaker |-> r.speaker, listener |-> r.listener,
                                     channel |-> r.channel, before |-> <<r.mine, r.theirs>>])
           /\ UNCHANGED failed
        \/ CanFail /\ failed' = TRUE /\ UNCHANGED ledger
     /\ Goto(t, "applySpeaker")
     /\ UNCHANGED <<scores, lock, turns>>

\* _apply_to_db swallows a failed transaction, and goes on to the other party.
ApplySpeaker(t) ==
  /\ turn[t].pc = "applySpeaker"
  /\ \/ scores' = Added(turn[t].speaker, SpeakerDelta(t)) /\ UNCHANGED failed
     \/ CanFail /\ failed' = TRUE /\ UNCHANGED scores
  /\ Goto(t, "applyListener")
  /\ UNCHANGED <<ledger, lock, turns>>

ApplyListener(t) ==
  /\ turn[t].pc = "applyListener"
  /\ \/ scores' = Added(turn[t].listener, ListenerDelta(t)) /\ UNCHANGED failed
     \/ CanFail /\ failed' = TRUE /\ UNCHANGED scores
  /\ Goto(t, "release")
  /\ UNCHANGED <<ledger, lock, turns>>

\* Mutant of Release: one of the locks stays taken.
ReleaseFirstOnly(t) ==
  /\ turn[t].pc = "release"
  /\ lock' = [lock EXCEPT ![Home[t]][Lower(t)] = NULL]
  /\ turn' = [turn EXCEPT ![t] = Idle]
  /\ UNCHANGED <<scores, ledger, turns, failed>>

Release(t) ==
  /\ turn[t].pc = "release"
  /\ lock' = [lock EXCEPT ![Home[t]] = [c \in Chars |-> IF @[c] = t THEN NULL ELSE @[c]]]
  /\ turn' = [turn EXCEPT ![t] = Idle]
  /\ UNCHANGED <<scores, ledger, turns, failed>>

\* A read that raises: the finally clause releases, the caller goes on without
\* an ipc_hash.
ReadFails(t) ==
  /\ CanFail
  /\ turn[t].pc \in {"readSpeaker", "readListener"}
  /\ Goto(t, "release")
  /\ failed' = TRUE
  /\ UNCHANGED <<scores, ledger, lock, turns>>

Crash(p) ==
  /\ CanCrash
  /\ turn' = [t \in Threads |-> IF Home[t] = p THEN Idle ELSE turn[t]]
  /\ lock' = [lock EXCEPT ![p] = [c \in Chars |-> NULL]]
  /\ failed' = TRUE
  /\ UNCHANGED <<scores, ledger, turns>>

Resolve(t) ==
  \/ LockFirst(t) \/ LockSecond(t) \/ ReadSpeaker(t) \/ ReadListener(t) \/ AppendLedger(t)
  \/ ApplySpeaker(t) \/ ApplyListener(t) \/ Release(t)

Next ==
  \/ \E t \in Threads : \/ \E s, l \in Chars, ch \in Channels : Addressable(s, l, ch) /\ Begin(t, s, l, ch)
                        \/ Resolve(t)
                        \/ ReadFails(t)
  \/ \E p \in Procs : Crash(p)

Spec == Init /\ [][Next]_vars

\* A thread that can run does; a free lock is not handed to one waiter for ever,
\* because the interactions are finitely many.
FairSpec == Spec /\ \A t \in Threads : WF_vars(Resolve(t))

-----------------------------------------------------------------------------
Pcs == {"idle", "first", "second", "readSpeaker", "readListener", "append", "applySpeaker",
        "applyListener", "release"}

TypeOK ==
  /\ scores \in [Chars -> [Axes -> Int]]
  /\ ledger \in Seq([speaker : Chars, listener : Chars, channel : Channels,
                     before : [Axes -> Int] \X [Axes -> Int]])
  /\ lock \in [Procs -> [Chars -> Threads \cup {NULL}]]
  /\ turn \in [Threads -> [pc : Pcs,
                           speaker  : Chars \cup {NULL},
                           listener : Chars \cup {NULL},
                           channel  : Channels \cup {NULL},
                           mine     : [Axes -> Int] \cup {NULL},
                           theirs   : [Axes -> Int] \cup {NULL}]]
  /\ turns \in Nat /\ failed \in BOOLEAN

\* A score never leaves [0.0, 1.0], although the transaction that writes it does
\* not clamp: the deltas were clamped against what is still in the table, for the
\* locks keep other interactions of the process away.  True of one process.
ScoresInRange == \A c \in Chars : scores[c] \in Scores

\* The snapshot an interaction records, hashes and computes from is the state it
\* changes, whatever other threads do.  True of one process.
SnapshotIsCurrent ==
  \A t \in Threads :
    /\ turn[t].pc \in {"append", "applySpeaker"} => turn[t].mine = scores[turn[t].speaker]
    /\ turn[t].pc \in {"append", "applySpeaker", "applyListener"} =>
         turn[t].theirs = scores[turn[t].listener]

\* The two together: no thread computes from scores another one has changed since,
\* so no delta, clamped against them, pushes a stored score out of [0.0, 1.0].
ScoresSound == ScoresInRange /\ SnapshotIsCurrent

\* The thread that holds the lock t waits for.
Awaits(t) == IF turn[t].pc = "first" THEN Mine(t)[Lower(t)]
             ELSE IF turn[t].pc = "second" THEN Mine(t)[Higher(t)] ELSE NULL

\* Threads that wait for each other, and so for ever.
Deadlocked(T) == T # {} /\ \A t \in T : Awaits(t) \in T

\* A character spoken to by itself: its thread waits for the lock it holds.
SelfTalk(t) == Awaits(t) = t /\ turn[t].speaker = turn[t].listener

\* Two interactions that share a character, or any ring of them, never wait for each
\* other, for the locks are taken in the order of the ids: wherever threads are
\* deadlocked, one of them serves a character that whispers to itself, and the others
\* wait behind it.
OnlySelfTalkBlocks ==
  \A T \in SUBSET Threads : Deadlocked(T) => \E t \in T : SelfTalk(t)

\* An interaction that has begun ends, whatever fails in it, unless it gets stuck
\* behind a character that whispers to itself.
InteractionEnds ==
  \A t \in Threads :
    turn[t].pc # "idle" ~>
      \/ turn[t].pc = "idle"
      \/ \E T \in SUBSET Threads : t \in T /\ Deadlocked(T) /\ \E u \in T : SelfTalk(u)

\* What axis/engine.py says of its lock order and the code does not reach: "Locks are
\* always acquired in ascending ID order to prevent deadlocks when two interactions
\* share a character."  A whisper to oneself is a deadlock on its own.
NoWaitCycle == \A T \in SUBSET Threads : ~Deadlocked(T)

(***************************************************************************)
(* Until something fails the ledger append is where an interaction takes place:   *)
(* the scores of the abstract state include what is still to be applied.   *)
(***************************************************************************)
ToApply(c, a) ==
  LET S == {t \in Threads : turn[t].pc = "applySpeaker" /\ turn[t].speaker = c}
      L == {t \in Threads : turn[t].pc \in {"applySpeaker", "applyListener"} /\ turn[t].listener = c}
  IN IF S # {} THEN SpeakerDelta(CHOOSE t \in S : TRUE)[a]
     ELSE IF L # {} THEN ListenerDelta(CHOOSE t \in L : TRUE)[a] ELSE 0

Bar == [c \in Chars |-> [a \in Axes |-> scores[c][a] + ToApply(c, a)]]

Atomic == INSTANCE AxisInteraction WITH
  current <- Bar,
  log     <- ledger,
  broken  <- failed

\* Interleaved interactions have the effect of some sequence of whole ones, in
\* the order of the ledger, for as long as nothing has failed.
InteractionsAreAtomic == Atomic!InteractionSpec
=============================================================================
