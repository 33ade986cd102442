---------------------------- MODULE HistoryFile ----------------------------
(***************************************************************************)
(* The history file that several shells share (src/Src/hist.c): the lock   *)
(* file and its nested count, the fast read that looks for the place where *)
(* this shell left off, the append, the rewrite that trims the file, and   *)
(* the save at exit.                                                       *)
(*                                                                         *)
(* A shell runs hend() once for each command line and savehistfile() when  *)
(* it exits; every system call on the file or on its lock is a step of its *)
(* own, so that the steps of several shells interleave.  A shell may die   *)
(* between any two steps and leave its lock file behind.                   *)
(*                                                                         *)
(* A line of the file is one event; positions and sizes count lines.  The  *)
(* text of an event tells who typed it and is not repeated.  $HISTSIZE is  *)
(* large enough to never drop an event from memory.                        *)
(***************************************************************************)
EXTENDS Integers, Sequences, FiniteSets

CONSTANTS
    Shells,         \* the shells that use the file
    None,           \* no lock file, no copy, no text
    Mode,           \* the option in force: "append", "inc" or "share"
    HISTSAVEBYCOPY, \* the option: rewrite into a copy, then rename it
    Monotonic,      \* zmonotime() reads a clock that is not the file system's
    SAVEHIST,       \* $SAVEHIST
    StaleAge,       \* age at which a lock file is removed (10 s in the code)
    MaxEvents,      \* bound: commands typed in each shell
    MaxTime,        \* bound: the clock stops there
    MaxLives,       \* bound: how often each shell is started
    MaxCrashes,     \* bound: how many shells die
    MaxFailures     \* bound: how many writes fail

ASSUME HistoryAssumption ==
    /\ Mode \in {"append", "inc", "share"}
    /\ {HISTSAVEBYCOPY, Monotonic} \subseteq BOOLEAN
    /\ {SAVEHIST, StaleAge} \subseteq Nat \ {0}
    /\ {MaxEvents, MaxTime, MaxLives, MaxCrashes, MaxFailures} \subseteq Nat

Event == [sh : Shells, n : 1..MaxEvents, stim : 0..MaxTime]

Locked == [owner : Shells, time : 0..MaxTime]

ASSUME NoneAssumption == None \notin Locked

VARIABLES
    file,       \* the history file: a sequence of events
    mtime,      \* its modification time
    newfile,    \* HISTFILE.new while a rewrite is under way, or None
    lock,       \* HISTFILE.LOCK: [owner, time], or None
    now,        \* the clock of the file system and of time()
    shell,      \* the memory of each shell
    count,      \* events typed so far in each shell
    lives,      \* starts left for each shell
    crashes,    \* deaths so far
    failures,   \* failed writes so far
    written     \* history: every event that reached the file, in order

vars == <<file, mtime, newfile, lock, now, shell, count, lives, crashes,
          failures, written>>
disk == <<file, mtime, newfile, written>>
bounds == <<now, lives, crashes>>

(* pc       the next step of the shell                                     *)
(* ring     hist_ring, oldest first: [e, old]; old is HIST_OLD             *)
(* ct       lockhistct                                                     *)
(* linect   histfile_linect                                                *)
(* fsiz ... text   lasthist                                                *)
(* fast, norewrite writeflags of the savehistfile() under way              *)
(* tmp      the ring that pushhiststack() made for the rewrite             *)
Fresh == [pc |-> "off", ring |-> <<>>, ct |-> 0, linect |-> 0,
          fsiz |-> 0, mtim |-> 0, fpos |-> 0, stim |-> 0, text |-> None,
          fast |-> FALSE, norewrite |-> FALSE, tmp |-> <<>>]

Init ==
    /\ file = <<>> /\ mtime = 0 /\ newfile = None /\ lock = None /\ now = 0
    /\ shell = [s \in Shells |-> Fresh]
    /\ count = [s \in Shells |-> 0]
    /\ lives = [s \in Shells |-> MaxLives]
    /\ crashes = 0 /\ failures = 0
    /\ written = <<>>

At(s, pc) == shell[s].pc = pc
Goto(s, pc) == shell' = [shell EXCEPT ![s].pc = pc]
Put(s, r) == shell' = [shell EXCEPT ![s] = r]

Elems(q) == {q[i] : i \in 1..Len(q)}
Last(q, k) == SubSeq(q, IF Len(q) > k THEN Len(q) - k + 1 ELSE 1, Len(q))
Events(ring) == [i \in 1..Len(ring) |-> ring[i].e]

\* The events of the ring that are not HIST_OLD.
Unsaved(ring) ==
    LET unsaved[i \in 0..Len(ring)] ==
            IF i = 0 THEN <<>>
            ELSE IF ring[i].old THEN unsaved[i - 1]
            ELSE Append(unsaved[i - 1], ring[i].e)
    IN  unsaved[Len(ring)]

\* Mutant: what was written is not marked as such.
Imported_unmarked(es) == [i \in 1..Len(es) |-> [e |-> es[i], old |-> FALSE]]

Imported(es) == [i \in 1..Len(es) |-> [e |-> es[i], old |-> TRUE]]

-----------------------------------------------------------------------------
(* The lock.                                                               *)

\* lockhistfile(fn, 0): a nested request or a symlink() that succeeds.
lockhistfile(s, r) ==
    /\ r.ct > 0 \/ lock = None
    /\ lock' = IF r.ct > 0 THEN lock ELSE [owner |-> s, time |-> now]
LockFails(r) == r.ct = 0 /\ lock # None

\* Mutant: an inner request releases the lock of an outer one.
unlockhistfile_nested(r) == lock' = IF r.ct > 0 THEN None ELSE lock

\* unlockhistfile(): the last nested request removes the lock file,
\* whoever made it.
unlockhistfile(r) == lock' = IF r.ct = 1 THEN None ELSE lock

\* Mutant: the count of requests is not taken back.
Released_kept(r) == r

Released(r) == [r EXCEPT !.ct = IF @ = 0 THEN 0 ELSE @ - 1]

-----------------------------------------------------------------------------
(* readhistfile().                                                         *)

\* addhistnode(): a line of another shell that repeats the newest entry of
\* the ring is dropped, any other is added.
AddForeign(ring, e) ==
    IF ring # <<>> /\ ring[Len(ring)].e = e THEN ring
    ELSE Append(ring, [e |-> e, old |-> TRUE])

AddAll(ring, es) ==
    LET add[i \in 0..Len(es)] ==
            IF i = 0 THEN ring ELSE AddForeign(add[i - 1], es[i])
    IN  add[Len(es)]

\* Mutant: a line of the same second as the last one is taken for older.
FirstNotOlder_later(stim) ==
    LET C == {i \in 1..Len(file) : file[i].stim > stim}
    IN  IF C = {} THEN Len(file) + 1 ELSE CHOOSE i \in C : \A k \in C : i <= k

\* The lines from the first that is not older than the last one seen.
FirstNotOlder(stim) ==
    LET C == {i \in 1..Len(file) : file[i].stim >= stim}
    IN  IF C = {} THEN Len(file) + 1 ELSE CHOOSE i \in C : \A k \in C : i <= k

\* Reading from line `from` on; line i is taken to be at offset i - 1 + shift.
Import(r, from, linect, shift) ==
    LET es == SubSeq(file, from, Len(file)) IN
    IF es = <<>> THEN [r EXCEPT !.linect = linect]
    ELSE [r EXCEPT !.ring = AddAll(@, es),
                   !.linect = linect + Len(es),
                   !.fpos = Len(file) - 1 + shift,
                   !.stim = file[Len(file)].stim,
                   !.text = file[Len(file)]]

Search(r, shift) ==
    LET from == FirstNotOlder(r.stim) IN Import(r, from, from - 1, shift)

\* The fast read: nothing if the file looks unchanged; otherwise go to the
\* line seen last and, when it is not there any more, search from the start.
\* The offsets are not reset by that search.
ReadFast(r) ==
    LET q == [r EXCEPT !.fsiz = Len(file), !.mtim = mtime] IN
    IF file = <<>> \/ (r.fsiz = Len(file) /\ r.mtim = mtime) THEN r
    ELSE IF r.text = None THEN Import(q, 1, r.linect, 0)
    ELSE IF r.fpos >= Len(file) THEN Search(q, 0)
    ELSE IF file[r.fpos + 1] = r.text /\ r.text.stim = r.stim
    THEN Import(q, r.fpos + 2, r.linect, 0)
    ELSE Search(q, r.fpos + 1)

\* The read at start-up: every line, not marked as foreign.
ReadAll(r) ==
    IF file = <<>> THEN r
    ELSE [r EXCEPT !.ring = @ \o Imported(file),
                   !.linect = @ + Len(file),
                   !.fpos = Len(file) - 1,
                   !.stim = file[Len(file)].stim,
                   !.text = file[Len(file)]]

-----------------------------------------------------------------------------
(* Starting a shell.  The read waits for the lock; if that fails it is     *)
(* given up and the shell starts with an empty history.                    *)

Start(s) ==
    /\ At(s, "off")
    /\ lives[s] > 0
    /\ lives' = [lives EXCEPT ![s] = @ - 1]
    /\ Goto(s, IF file = <<>> THEN "idle" ELSE "start")
    /\ UNCHANGED <<disk, lock, now, count, crashes, failures>>

StartRead(s) ==
    /\ At(s, "start")
    /\ lockhistfile(s, shell[s])
    /\ Put(s, [ReadAll(shell[s]) EXCEPT !.ct = 1, !.pc = "started"])
    /\ UNCHANGED <<disk, count, bounds, failures>>

Started(s) ==
    /\ At(s, "started")
    /\ unlockhistfile(shell[s])
    /\ Put(s, [Released(shell[s]) EXCEPT !.pc = "idle"])
    /\ UNCHANGED <<disk, count, bounds, failures>>

-----------------------------------------------------------------------------
(* hend(): the end of a command line.                                      *)

\* With SHARE_HISTORY the file is locked once for the read and the write;
\* if another shell has it, neither is done.
HendLocked(s) ==
    /\ At(s, "idle")
    /\ Mode = "share"
    /\ lockhistfile(s, shell[s])
    /\ Put(s, [shell[s] EXCEPT !.ct = @ + 1, !.pc = "read"])
    /\ UNCHANGED <<disk, count, bounds, failures>>

HendUnlocked(s) ==
    /\ At(s, "idle")
    /\ Mode = "share" => LockFails(shell[s])
    /\ Goto(s, "add")
    /\ UNCHANGED <<disk, lock, count, bounds, failures>>

HendRead(s) ==
    /\ At(s, "read")
    /\ Put(s, [ReadFast(shell[s]) EXCEPT !.pc = "add"])
    /\ UNCHANGED <<disk, lock, count, bounds, failures>>

\* The line becomes the newest event; an empty line does not.  With
\* APPEND_HISTORY alone nothing is written here.
AfterAdd(r) ==
    IF Mode = "append" \/ (Mode = "share" /\ r.ct = 0) THEN "hend" ELSE "save"

HendAdd(s) ==
    /\ At(s, "add")
    /\ LET r == shell[s]
           q == [r EXCEPT !.pc = AfterAdd(r), !.fast = TRUE,
                          !.norewrite = FALSE]
       IN  \/ /\ count[s] < MaxEvents
              /\ count' = [count EXCEPT ![s] = @ + 1]
              /\ Put(s, [q EXCEPT !.ring = Append(@,
                            [e |-> [sh |-> s, n |-> count[s] + 1,
                                    stim |-> now], old |-> FALSE])])
           \/ /\ Put(s, q)
              /\ UNCHANGED count
    /\ UNCHANGED <<disk, lock, bounds, failures>>

HendEnd(s) ==
    /\ At(s, "hend")
    /\ unlockhistfile(shell[s])
    /\ Put(s, [Released(shell[s]) EXCEPT !.pc = "idle"])
    /\ UNCHANGED <<disk, count, bounds, failures>>

-----------------------------------------------------------------------------
(* savehistfile().                                                         *)

\* The number of lines from which on the file is rewritten.
Limit == SAVEHIST + SAVEHIST \div 5

\* From hend(): nothing to do if every event is in the file or if the lock
\* is taken; a file that has grown long is rewritten as at exit.
SaveFast(s) ==
    /\ At(s, "save")
    /\ LET r == shell[s] IN
       IF Unsaved(r.ring) = <<>> \/ LockFails(r)
       THEN Goto(s, "hend") /\ UNCHANGED lock
       ELSE /\ lockhistfile(s, r)
            /\ Put(s, [r EXCEPT !.ct = @ + 1, !.pc = "append",
                        !.norewrite = r.linect <= Limit])
    /\ UNCHANGED <<disk, count, bounds, failures>>

\* From zexit(); after a signal the file is not rewritten.
Exit(s) ==
    /\ At(s, "idle")
    /\ \E signalled \in BOOLEAN :
          Put(s, [shell[s] EXCEPT !.pc = "exit", !.fast = FALSE,
                                  !.norewrite = signalled])
    /\ UNCHANGED <<disk, lock, count, bounds, failures>>

ExitLock(s) ==
    /\ At(s, "exit")
    /\ lockhistfile(s, shell[s])
    /\ Put(s, [shell[s] EXCEPT !.ct = @ + 1, !.pc = "append"])
    /\ UNCHANGED <<disk, count, bounds, failures>>

\* The events that are not in the file yet are appended and marked, whether
\* or not the write succeeds.
SaveAppend(s) ==
    /\ At(s, "append")
    /\ LET r == shell[s]
           es == Unsaved(r.ring)
           q == [r EXCEPT !.ring = Imported(Events(@)),
                          !.linect = @ + Len(es)]
           next == IF r.norewrite THEN "saved" ELSE "rw_read"
       IN  \/ es = <<>> /\ Goto(s, next) /\ UNCHANGED <<disk, failures>>
           \/ /\ es # <<>>
              /\ file' = file \o es
              /\ mtime' = now
              /\ written' = written \o es
              /\ Put(s, [q EXCEPT !.pc = next,
                                  !.fpos = Len(file') - 1,
                                  !.stim = es[Len(es)].stim,
                                  !.text = es[Len(es)],
                                  !.fsiz = Len(file'),
                                  !.mtim = now])
              /\ UNCHANGED <<newfile, failures>>
           \/ /\ es # <<>>
              /\ failures < MaxFailures
              /\ failures' = failures + 1
              /\ Put(s, [q EXCEPT !.pc = "saved",
                                  !.fpos = Len(file) + Len(es) - 1,
                                  !.stim = es[Len(es)].stim])
              /\ UNCHANGED disk
    /\ UNCHANGED <<lock, count, bounds>>

\* The rewrite: the last SAVEHIST lines are read into a ring of their own
\* and written out again.  pophiststack() brings lasthist back.
RewriteRead(s) ==
    /\ At(s, "rw_read")
    /\ Put(s, [shell[s] EXCEPT !.tmp = Last(file, SAVEHIST),
                               !.pc = IF file = <<>> THEN "saved"
                                      ELSE "rw_open"])
    /\ UNCHANGED <<disk, lock, count, bounds, failures>>

\* Mutant: the file is truncated before the copy is written.
RewriteOpen_truncates(s) ==
    /\ At(s, "rw_open")
    /\ newfile' = <<>> /\ file' = <<>> /\ mtime' = now
    /\ Goto(s, "rw_write")
    /\ UNCHANGED <<lock, count, bounds, failures, written>>

RewriteOpen(s) ==
    /\ At(s, "rw_open")
    /\ IF HISTSAVEBYCOPY
       THEN newfile' = <<>> /\ UNCHANGED <<file, mtime>>
       ELSE file' = <<>> /\ mtime' = now /\ UNCHANGED newfile
    /\ Goto(s, "rw_write")
    /\ UNCHANGED <<lock, count, bounds, failures, written>>

RewriteWrite(s) ==
    /\ At(s, "rw_write")
    /\ IF HISTSAVEBYCOPY
       THEN newfile' = shell[s].tmp /\ UNCHANGED <<file, mtime>>
       ELSE file' = shell[s].tmp /\ mtime' = now /\ UNCHANGED newfile
    /\ Put(s, [shell[s] EXCEPT !.tmp = <<>>,
                  !.pc = IF HISTSAVEBYCOPY THEN "rw_rename" ELSE "saved"])
    /\ UNCHANGED <<lock, count, bounds, failures, written>>

\* A write error ends the rewrite; the copy is left as it is.
RewriteFails(s) ==
    /\ At(s, "rw_write")
    /\ failures < MaxFailures
    /\ failures' = failures + 1
    /\ Put(s, [shell[s] EXCEPT !.tmp = <<>>, !.pc = "saved"])
    /\ UNCHANGED <<disk, lock, count, bounds>>

\* The copy takes the place of the file; without one rename() fails.
RewriteRename(s) ==
    /\ At(s, "rw_rename")
    /\ IF newfile = None
       THEN UNCHANGED <<file, newfile, mtime>>
       ELSE file' = newfile /\ newfile' = None /\ mtime' = now
    /\ Goto(s, "saved")
    /\ UNCHANGED <<lock, count, bounds, failures, written>>

\* The unlock of savehistfile().  A shell that exits is gone with its memory.
Saved(s) ==
    /\ At(s, "saved")
    /\ unlockhistfile(shell[s])
    /\ LET r == Released(shell[s]) IN
       Put(s, IF r.fast THEN [r EXCEPT !.pc = "hend"] ELSE Fresh)
    /\ UNCHANGED <<disk, count, bounds, failures>>

-----------------------------------------------------------------------------
(* lockhistfile(fn, 1) when the lock file exists (checklocktime()): start- *)
(* up and exit wait for it.                                                *)

Waiting(s) == (At(s, "exit") \/ At(s, "start")) /\ LockFails(shell[s])

\* Mutant: start-up and exit do not wait for the lock.
LockGivenUp_always(s) ==
    /\ Waiting(s)
    /\ Put(s, IF At(s, "exit") THEN Fresh ELSE [shell[s] EXCEPT !.pc = "idle"])
    /\ UNCHANGED <<disk, lock, count, bounds, failures>>

\* The lock file is younger than this clock allows for: give up.  A clock
\* that counts from the start of the machine is always far behind the
\* modification time of a file.
LockGivenUp(s) ==
    /\ Waiting(s)
    /\ Monotonic
    /\ Put(s, IF At(s, "exit") THEN Fresh ELSE [shell[s] EXCEPT !.pc = "idle"])
    /\ UNCHANGED <<disk, lock, count, bounds, failures>>

\* Mutant: the age of the lock file is computed the wrong way round.
LockStale_sign(s) ==
    /\ Waiting(s)
    /\ ~Monotonic
    /\ lock.time - now >= StaleAge
    /\ Goto(s, IF At(s, "exit") THEN "steal_exit" ELSE "steal_start")
    /\ UNCHANGED <<disk, lock, count, bounds, failures>>

\* lstat() finds a lock file that is old enough to be removed ...
LockStale(s) ==
    /\ Waiting(s)
    /\ ~Monotonic
    /\ now - lock.time >= StaleAge
    /\ Goto(s, IF At(s, "exit") THEN "steal_exit" ELSE "steal_start")
    /\ UNCHANGED <<disk, lock, count, bounds, failures>>

\* ... and unlink() removes whichever lock file is there by then.
LockSteal(s) ==
    /\ At(s, "steal_exit") \/ At(s, "steal_start")
    /\ lock' = None
    /\ Goto(s, IF At(s, "steal_exit") THEN "exit" ELSE "start")
    /\ UNCHANGED <<disk, count, bounds, failures>>

-----------------------------------------------------------------------------
(* The environment.                                                        *)

Running(s) == ~At(s, "off")
HoldsLock(s) == lock # None /\ lock.owner = s /\ shell[s].ct > 0

\* kill -9, or the machine goes down: the memory is lost, the files stay.
\* (Bound: early enough for the lock left behind to grow stale.)
Crash(s) ==
    /\ Running(s)
    /\ crashes < MaxCrashes
    /\ HoldsLock(s) => lock.time + StaleAge <= MaxTime
    /\ crashes' = crashes + 1
    /\ Put(s, Fresh)
    /\ UNCHANGED <<disk, lock, now, count, lives, failures>>

\* No shell that is alive keeps the lock for StaleAge: it is held for a few
\* system calls only.
Tick ==
    /\ now < MaxTime
    /\ \A s \in Shells : HoldsLock(s) => now + 1 - lock.time < StaleAge
    /\ now' = now + 1
    /\ UNCHANGED <<disk, lock, shell, count, lives, crashes, failures>>

Hend(s) == HendLocked(s) \/ HendUnlocked(s) \/ HendRead(s) \/ HendAdd(s)
Rewrite(s) == RewriteRead(s) \/ RewriteOpen(s) \/ RewriteWrite(s)
                \/ RewriteRename(s) \/ RewriteFails(s)
Save(s) == SaveFast(s) \/ SaveAppend(s) \/ Rewrite(s) \/ Saved(s) \/ HendEnd(s)
Lock(s) == ExitLock(s) \/ LockGivenUp(s) \/ LockStale(s) \/ LockSteal(s)
Begin(s) == Start(s) \/ StartRead(s) \/ Started(s)

Next == Tick \/ \E s \in Shells :
            Begin(s) \/ Hend(s) \/ Save(s) \/ Exit(s) \/ Lock(s) \/ Crash(s)

Spec == Init /\ [][Next]_vars

\* A shell that has begun to read, save or exit is run by the kernel until it
\* is done; the clock goes on.  Nobody has to start a shell or type a line.
Working(s) == StartRead(s) \/ Started(s) \/ HendRead(s) \/ HendAdd(s)
                \/ Save(s) \/ Lock(s)

FairSpec == Spec /\ WF_vars(Tick) /\ \A s \in Shells : WF_vars(Working(s))

-----------------------------------------------------------------------------
(* Properties.                                                             *)

Writing == {"append", "rw_read", "rw_open", "rw_write", "rw_rename", "saved"}
Pcs == Writing \cup {"off", "start", "started", "idle", "read", "add", "hend",
                     "save", "exit", "steal_exit", "steal_start"}
InRing(s) == Elems(Events(shell[s].ring))

\* The variables have their types; lockhistct counts at most the lock of
\* hend() and that of the read or save inside it.
TypeOK ==
    /\ file \in Seq(Event) /\ written \in Seq(Event)
    /\ newfile = None \/ newfile \in Seq(Event)
    /\ lock = None \/ lock \in Locked
    /\ {mtime, now} \subseteq 0..MaxTime
    /\ \A s \in Shells : /\ shell[s].pc \in Pcs /\ shell[s].ct \in 0..2
                         /\ InRing(s) \subseteq Event

\* Nothing that reached the file is lost before its turn: the file is always
\* the end of what all shells have written, $SAVEHIST lines of it or more,
\* whoever dies or fails to write in the middle of a rewrite (savehistfile()
\* with HIST_SAVE_BY_COPY).
SavedKept ==
    LET n == Len(file) IN
    /\ file = Last(written, n)
    /\ n >= SAVEHIST \/ n = Len(written)

\* No event is written twice: not by the next save, nor by a shell that has
\* imported it from another (HIST_OLD in savehistfile()).
WrittenOnce == Cardinality(Elems(written)) = Len(written)

\* A shell that reads or writes the file has the lock file to itself from
\* the first system call to the last, through the nested requests of hend(),
\* readhistfile() and savehistfile() (lockhistct).
WriterHoldsLock ==
    \A s \in Shells : shell[s].pc \in Writing \cup {"read"} => HoldsLock(s)

\* What has come to the history after the line that a shell saw last.
NewSince(r) ==
    {written[i] : i \in {i \in 1..Len(written) :
                           \A k \in 1..Len(written) : written[k] = r.text => k < i}}

\* A shell that reads what other shells have appended since the line it saw
\* last misses no event that is not older than that one, wherever rewrites
\* have moved the lines (the search in readhistfile(); size and time alike
\* mean unchanged).
ReadSees ==
    [][\A s \in Shells :
          LET r == shell[s]
              LooksUnchanged == r.fsiz = Len(file) /\ r.mtim = mtime
          IN  At(s, "read") /\ shell'[s].pc = "add" /\ ~LooksUnchanged =>
                \A e \in Elems(file) \cap NewSince(r) :
                    e.stim >= r.stim => e \in InRing(s)']_vars

\* A shell that exits leaves none of its events behind: all of them are in
\* the file, unless a write failed or, with a monotonic clock, the lock file
\* of another was in the way at that very step (zexit(), savehistfile()).
ExitSaves ==
    [][\A s \in Shells :
          Running(s) /\ ~Running(s)' /\ crashes' = crashes =>
             \/ failures > 0
             \/ Monotonic /\ LockFails(shell[s])
             \/ InRing(s) \subseteq Elems(written)]_vars

\* A shell that wants to exit gets the lock and ends, even if another one
\* died with the lock held (lockhistfile(), checklocktime()).
ExitEnds == \A s \in Shells : At(s, "exit") ~> At(s, "off")

-----------------------------------------------------------------------------
(* What the code does not keep: see README.md, disagreements.              *)

\* ExitSaves without the monotonic clock's exception: a shell that finds the
\* lock file of a dead one at its exit gives up (checklocktime()).
ExitSavesAlways ==
    [][\A s \in Shells :
          Running(s) /\ ~Running(s)' /\ crashes' = crashes =>
             failures > 0 \/ InRing(s) \subseteq Elems(written)]_vars

\* From hend() the file is rewritten only when it holds more lines than
\* $SAVEHIST and 20% (histfile_linect counts them, and is not told of a rewrite).
RewriteOnlyWhenLong ==
    [][\A s \in Shells : shell[s].fast /\ At(s, "rw_read") =>
          Len(file) > Limit]_vars

\* ReadSees of the whole file: no event that is not older than the last one
\* known is missing after a read.  The time of the last event is that of the
\* last line, and may go back when a shell writes what it has kept for long:
\* the lines that an earlier search has passed over as too old are not too
\* old any more, but are not looked at again (three shells).
ReadSeesAll ==
    [][\A s \in Shells :
          LET r == shell[s]
              LooksUnchanged == r.fsiz = Len(file) /\ r.mtim = mtime
          IN  At(s, "read") /\ shell'[s].pc = "add" /\ ~LooksUnchanged =>
                \A e \in Elems(file) : e.stim >= r.stim => e \in InRing(s)']_vars

=============================================================================
