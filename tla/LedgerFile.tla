----------------------------- MODULE LedgerFile -----------------------------
(***************************************************************************)
(* One world's JSONL ledger file and the threads and processes that append *)
(* to it: open, flock, write and flush, unlock, close.  A line is written  *)
(* by one or more raw writes; a failed flush is tried again by close(),    *)
(* after the lock is gone; a process may die anywhere.                     *)
(***************************************************************************)
EXTENDS Naturals, Sequences, FiniteSets

CONSTANTS
  MaxEvents,  \* bound on the number of appends begun
  Writers,    \* threads that append, of one process or of several
  Shape,      \* Shape[e]: how e's line looks to the tail reader
  NULL,
  CanFail,    \* open, write and read may raise OSError
  CanCrash

\* Event ids are fresh (uuid4): the n-th append begun writes event n.
Events == 1..MaxEvents

ASSUME BoundType     == MaxEvents \in Nat
ASSUME NullIsNone    == NULL \notin Events /\ NULL \notin Writers
ASSUME ShapeType     == Shape \in [Events -> {"plain", "separator", "long"}]
ASSUME SwitchesType  == {CanFail, CanCrash} \subseteq BOOLEAN

VARIABLES
  closed,     \* the lines that end in a newline
  open,       \* the bytes after the last newline
  lock,       \* who holds the flock
  pc,         \* where each writer is in append_event
  event,      \* the event it appends
  done,       \* how much of the line it has written
  failed,     \* its flush raised
  issued,     \* appends begun
  acked,      \* events whose append_event returned
  verdict,    \* what the latest verify_world_ledger returned, and whether it ran
              \* while somebody held the lock (it takes none)
  stray       \* raw writes outside the lock, and lines left unfinished

job  == <<pc, event, done, failed>>
vars == <<closed, open, lock, job, issued, acked, verdict, stray>>

\* The bytes of an event's line: two halves of the JSON text, and the newline.
Half(e, i)      == <<e, i>>
Text(e)         == <<Half(e, 1), Half(e, 2)>>
Bytes(e, m, n)  == SubSeq(Text(e), m + 1, n)
LineEnd         == 3

Init ==
  /\ closed = <<>> /\ open = <<>>
  /\ lock = NULL
  /\ pc = [w \in Writers |-> "down"] /\ event = [w \in Writers |-> NULL]
  /\ done = [w \in Writers |-> 0]    /\ failed = [w \in Writers |-> FALSE]
  /\ issued = 0 /\ acked = {}
  /\ verdict = [status |-> "empty", event |-> NULL, busy |-> FALSE]
  /\ stray = 0

Goto(w, where) == pc' = [pc EXCEPT ![w] = where]

-----------------------------------------------------------------------------
(* The check at start-up. *)

NonEmpty == {i \in DOMAIN closed : closed[i] # <<>>}

\* The last non-empty line of the file, with or without a newline.
LastLine ==
  IF open # <<>> THEN open
  ELSE IF NonEmpty = {} THEN <<>>
  ELSE closed[CHOOSE i \in NonEmpty : \A j \in NonEmpty : j <= i]

\* splitlines() also splits at the separators json.dumps leaves as they are, and
\* a line longer than the chunk is cut: either way a fragment is parsed.
Reads(e) == Shape[e] = "plain"

Result(s, e) == [status |-> s, event |-> e, busy |-> lock # NULL]

\* Mutant of Parsed: an id is returned for a corrupt line, too.
ParsedZero(line) ==
  IF \E e \in Events : line = Text(e) /\ Reads(e)
  THEN Result("ok", CHOOSE e \in Events : line = Text(e)) ELSE Result("corrupt", 0)

Parsed(line) ==
  IF \E e \in Events : line = Text(e) /\ Reads(e)
  THEN Result("ok", CHOOSE e \in Events : line = Text(e)) ELSE Result("corrupt", NULL)

\* Mutant of Verified: a file without lines is parsed, too.
VerifiedUnguarded == Parsed(LastLine)

Verified == IF LastLine = <<>> THEN Result("empty", NULL) ELSE Parsed(LastLine)

\* A server process starts and verifies; an unreadable file counts as empty, and
\* whatever the verdict, the process goes on.
Start(w) ==
  /\ pc[w] = "down"
  /\ \/ verdict' = Verified
     \/ CanFail /\ verdict' = Result("empty", NULL)
  /\ Goto(w, "idle")
  /\ UNCHANGED <<closed, open, lock, event, done, failed, issued, acked, stray>>

-----------------------------------------------------------------------------
(* append_event *)

\* w has nothing more to do with its event.
Leave(w, where) ==
  /\ Goto(w, where) /\ event' = [event EXCEPT ![w] = NULL]
  /\ done' = [done EXCEPT ![w] = 0] /\ failed' = [failed EXCEPT ![w] = FALSE]

BeginAppend(w) ==
  /\ pc[w] = "idle"
  /\ issued < MaxEvents
  /\ issued' = issued + 1
  /\ Goto(w, "lock")
  /\ event' = [event EXCEPT ![w] = issued + 1]
  /\ UNCHANGED <<closed, open, lock, done, failed, acked, verdict, stray>>

\* mkdir or open raises: LedgerWriteError.
OpenFails(w) ==
  /\ CanFail
  /\ pc[w] = "lock"
  /\ Leave(w, "idle")
  /\ UNCHANGED <<closed, open, lock, issued, acked, verdict, stray>>

\* Mutant of Lock: no flock.
LockNothing(w) ==
  /\ pc[w] = "lock"
  /\ Goto(w, "write")
  /\ UNCHANGED <<closed, open, lock, event, done, failed, issued, acked, verdict, stray>>

Lock(w) ==
  /\ pc[w] = "lock"
  /\ lock = NULL
  /\ lock' = w
  /\ Goto(w, "write")
  /\ UNCHANGED <<closed, open, event, done, failed, issued, acked, verdict, stray>>

\* The next bytes of w's line, up to n, go to the end of the file.
Put(w, n) ==
  LET e == event[w]  d == done[w]
  IN \/ /\ n < LineEnd
        /\ open' = open \o Bytes(e, d, n)
        /\ UNCHANGED closed
     \/ /\ n = LineEnd
        /\ closed' = Append(closed, open \o Bytes(e, d, 2))
        /\ open' = <<>>

\* One raw write of the flush.
Write(w, n) ==
  /\ pc[w] = "write"
  /\ done[w] < n
  /\ Put(w, n)
  /\ done' = [done EXCEPT ![w] = n]
  /\ Goto(w, IF n = LineEnd THEN "unlock" ELSE "write")
  /\ UNCHANGED <<lock, event, failed, issued, acked, verdict, stray>>

\* A raw write raises; what is not written stays in the buffer.
WriteFails(w) ==
  /\ CanFail
  /\ pc[w] = "write"
  /\ Goto(w, "unlock")
  /\ failed' = [failed EXCEPT ![w] = TRUE]
  /\ stray' = IF done[w] > 0 THEN stray + 1 ELSE stray
  /\ UNCHANGED <<closed, open, lock, event, done, issued, acked, verdict>>

\* Mutant of Unlock: not in a finally clause.
UnlockOnSuccess(w) ==
  /\ pc[w] = "unlock"
  /\ lock' = IF failed[w] THEN lock ELSE NULL
  /\ Goto(w, "close")
  /\ UNCHANGED <<closed, open, event, done, failed, issued, acked, verdict, stray>>

Unlock(w) ==
  /\ pc[w] = "unlock"
  /\ lock' = NULL
  /\ Goto(w, "close")
  /\ UNCHANGED <<closed, open, event, done, failed, issued, acked, verdict, stray>>

\* close() flushes what a failed flush left in the buffer, without the lock.
LateWrite(w, n) ==
  /\ pc[w] = "close" /\ failed[w]
  /\ done[w] < n
  /\ Put(w, n)
  /\ done' = [done EXCEPT ![w] = n]
  /\ stray' = stray + 1
  /\ UNCHANGED <<lock, pc, event, failed, issued, acked, verdict>>

\* append_event returns the id or raises LedgerWriteError, also when the late
\* flush succeeded.
Return(w) ==
  /\ pc[w] = "close"
  /\ acked' = IF failed[w] THEN acked ELSE acked \cup {event[w]}
  /\ Leave(w, "idle")
  /\ UNCHANGED <<closed, open, lock, issued, verdict, stray>>

\* The kernel drops the lock of a dead process.
Crash(w) ==
  /\ CanCrash
  /\ pc[w] # "down"
  /\ Leave(w, "down")
  /\ lock' = IF lock = w THEN NULL ELSE lock
  /\ stray' = IF pc[w] = "write" /\ done[w] > 0 THEN stray + 1 ELSE stray
  /\ UNCHANGED <<closed, open, issued, acked, verdict>>

Advance(w) ==
  \/ Start(w) \/ Lock(w) \/ Unlock(w) \/ Return(w)
  \/ \E n \in 1..LineEnd : Write(w, n)

Next ==
  \E w \in Writers :
    \/ Advance(w)
    \/ BeginAppend(w)
    \/ \E n \in 1..LineEnd : LateWrite(w, n)
    \/ OpenFails(w) \/ WriteFails(w) \/ Crash(w)

Spec == Init /\ [][Next]_vars

\* A thread that can take its next step takes it; a free lock goes to somebody else
\* only finitely often, since the events are finitely many.
FairSpec == Spec /\ \A w \in Writers : WF_vars(Advance(w))

-----------------------------------------------------------------------------
Pieces == {Half(e, i) : e \in Events, i \in 1..2}

TypeOK ==
  /\ closed \in Seq(Seq(Pieces)) /\ open \in Seq(Pieces)
  /\ lock \in Writers \cup {NULL}
  /\ pc \in [Writers -> {"down", "idle", "lock", "write", "unlock", "close"}]
  /\ event \in [Writers -> Events \cup {NULL}]
  /\ done \in [Writers -> 0..LineEnd] /\ failed \in [Writers -> BOOLEAN]
  /\ issued \in 0..MaxEvents /\ acked \subseteq 1..issued
  /\ verdict \in [status : {"empty", "ok", "corrupt"}, event : Events \cup {NULL}, busy : BOOLEAN]
  /\ stray \in Nat

Intact(e) == \E i \in DOMAIN closed : closed[i] = Text(e)

\* The lock lets several processes append: an event whose append_event returned is
\* a line of its own, unless a failed or killed append wrote outside the lock or
\* left its line unfinished, and each time that costs one acknowledged event at most.
DamageIsBounded == Cardinality({e \in acked : ~Intact(e)}) <= stray

\* verify_world_ledger calls "corrupt" only a file that some append damaged
\* or, since it reads without the lock, one that somebody is appending to.
CorruptMeansDamaged == verdict.status = "corrupt" => stray > 0 \/ verdict.busy

\* The lock is given back on every path, so that an append that has begun ends.
AppendEnds ==
  \A w \in Writers : pc[w] = "lock" ~> pc[w] \in {"idle", "down"}
=============================================================================
