----------------------------- MODULE JobControl -----------------------------
(***************************************************************************)
(* Job control of the shell: the job table of Src/jobs.c, the pipelines    *)
(* that execpline() of Src/exec.c starts and waits for, the builtins of    *)
(* bin_fg(), and wait_for_processes() of Src/signals.c, which picks up the *)
(* children the kernel reports, in the SIGCHLD handler or called directly. *)
(*                                                                         *)
(* The shell is interactive and MONITOR is set.  Its commands are          *)
(* pipelines of external commands, in the foreground, in the background    *)
(* (&) or disowned (&!), and the job builtins; pipelines whose last part   *)
(* is a function or a loop (superjobs) are not modelled.  A job number -1  *)
(* of the code is 0 here.                                                  *)
(*                                                                         *)
(* The main program and the handler interleave as the signal queue of      *)
(* SignalQueue lets them: SIGCHLD is held back while it is blocked, saved  *)
(* (queued) while queueing_enabled is not zero, and otherwise handled,     *)
(* reaping one child after the other, before the main program goes on.     *)
(***************************************************************************)
EXTENDS Integers, Sequences, FiniteSets, SequencesExt, FiniteSetsExt

CONSTANTS
    Pids,       \* process numbers of the children
    NJobs,      \* entries of the job table (MAX_MAXJOBS)
    MaxProcs,   \* bound: processes of one pipeline
    Codes,      \* exit statuses, death by a signal included; "ok" is status 0
    ChildMax,   \* child_max: entries of bgstatus_list
    NOTIFY,     \* the option NOTIFY
    PidReuse,   \* does the kernel give out a process number again?
    Stoppable   \* bound: the children that are ever stopped (^Z, kill -STOP)

ASSUME JobControlAssumption ==
    /\ IsFiniteSet(Pids)
    /\ NJobs \in Nat \ {0}
    /\ MaxProcs \in Nat \ {0}
    /\ ChildMax \in Nat \ {0}
    /\ "ok" \in Codes /\ {"run", "stop"} \cap Codes = {}
    /\ NOTIFY \in BOOLEAN
    /\ PidReuse \in BOOLEAN
    /\ Stoppable \subseteq Pids

VARIABLES
    child,          \* the kernel's view of each process number
    pending,        \* SIGCHLD is pending
    blocked,        \* SIGCHLD is blocked: child_block()
    queueing,       \* queueing_enabled is not zero
    queued,         \* SIGCHLD is saved in the signal queue
    reaping,        \* wait_for_processes() runs
    jobtab, curjob, prevjob, thisjob,
    lastval,        \* $?
    lastval2,       \* status of the job that finished or stopped last
    bgstatus_list,  \* statuses kept for `wait pid'
    pc,             \* what the main program does
    op,             \* the command it does it for
    target,         \* the job (the process, for `wait pid') waited for
    fglast,         \* last process of that job (the process itself)
    binslot,        \* the entry of the job table the builtin itself takes
    disowned        \* children given up by disown or &!

kernelVars == <<child, pending>>
signalVars == <<blocked, queueing, queued, reaping>>
jobVars == <<jobtab, curjob, prevjob>>
statusVars == <<lastval, lastval2, bgstatus_list>>
mainVars == <<pc, op, target, fglast, binslot>>
vars == <<kernelVars, signalVars, jobVars, thisjob, statusVars, mainVars, disowned>>

Slots == 1 .. NJobs
Statuses == Codes \cup {"run", "stop"}    \* pn->status; "run" is SP_RUNNING
Flags == {"INUSE", "CHANGED", "STOPPED", "DONE", "LOCKED", "BUILTIN"}
Steps == {"idle", "full", "build", "subst", "last", "enter", "test", "suspend",
          "suspended", "after", "bin_reap", "bin", "bin_end", "bin_exit"}
Ops == {"none", "sync", "async", "disown", "builtin", "fg", "wait", "wait_all",
        "wait_pid"}

Proc == [pid : Pids, st : Statuses]
Job == [stat : SUBSET Flags, procs : Seq(Proc)]
FreeJob == [stat |-> {}, procs |-> <<>>]
Terminated(st) == st \in Codes

InUse(tab, j) == "INUSE" \in tab[j].stat
HasProcs(tab, j) == tab[j].procs # <<>>

Init ==
    /\ child = [p \in Pids |-> [st |-> "new", ev |-> "none", code |-> "ok"]]
    /\ pending = FALSE
    /\ blocked = FALSE
    /\ queueing = FALSE
    /\ queued = FALSE
    /\ reaping = FALSE
    /\ jobtab = [j \in Slots |-> FreeJob]
    /\ curjob = 0
    /\ prevjob = 0
    /\ thisjob = 0
    /\ lastval = "ok"
    /\ lastval2 = "ok"
    /\ bgstatus_list = <<>>
    /\ pc = "idle"
    /\ op = "none"
    /\ target = 0
    /\ fglast = 0
    /\ binslot = 0
    /\ disowned = {}

-----------------------------------------------------------------------------
(* The job table.  js is [tab, cur, prev]: jobtab, curjob and prevjob;     *)
(* this is thisjob.                                                        *)

Jobs == [tab |-> jobtab, cur |-> curjob, prev |-> prevjob]
BecomeJobs(js) ==
    /\ jobtab' = js.tab
    /\ curjob' = js.cur
    /\ prevjob' = js.prev

(* initjob(): the first entry that is not in use, 0 if the table is full.  *)
initjob == Min({j \in Slots : jobtab[j].stat = {}} \cup {NJobs + 1}) % (NJobs + 1)

setprevjob(js, this) ==
    LET other == {j \in Slots : InUse(js.tab, j) /\ j # js.cur /\ j # this}
        stopped == {j \in other : "STOPPED" \in js.tab[j].stat}
    IN  [js EXCEPT !.prev = IF stopped # {} THEN Max(stopped)
                            ELSE IF other # {} THEN Max(other) ELSE 0]

deletejob(js, j) == [js EXCEPT !.tab[j] = FreeJob]

(* The end of printjob(): a job that is done leaves the table, and the     *)
(* current and previous job with it; any other has now been reported.      *)
printjob(js, j, this) ==
    LET gone == deletejob(js, j)
        left == IF j = js.cur THEN [gone EXCEPT !.cur = js.prev, !.prev = j] ELSE gone
    IN  IF "DONE" \notin js.tab[j].stat
        THEN [js EXCEPT !.tab[j].stat = @ \ {"CHANGED"}]
        ELSE IF j = left.prev THEN setprevjob(left, this) ELSE left

(* printjob() of each job in turn: those that have changed or, for `jobs',  *)
(* all but the current pipeline.                                            *)
Listed(js, j, this, all) ==
    IF all THEN js.tab[j].stat # {} /\ j # this ELSE "CHANGED" \in js.tab[j].stat

printjobs(js, this, all) ==
    LET upto[j \in 0 .. NJobs] ==
            IF j = 0 THEN js
            ELSE LET before == upto[j - 1]
                 IN  IF Listed(before, j, this, all) THEN printjob(before, j, this)
                     ELSE before
    IN  upto[NJobs]

scanjobs(js, this) == printjobs(js, this, FALSE)

(* Only the current job is looked at, not the one that takes its place.    *)
setcurjob_once(js, this) ==
    IF js.cur # 0 /\ (js.cur = this \/ ~InUse(js.tab, js.cur))
    THEN setprevjob([js EXCEPT !.cur = js.prev], this) ELSE js

setcurjob(js, this) ==
    LET bad(x) == x.cur # 0 /\ (x.cur = this \/ ~InUse(x.tab, x.cur))
        shift(x) == setprevjob([x EXCEPT !.cur = x.prev], this)
    IN  IF ~bad(js) THEN js
        ELSE IF ~bad(shift(js)) THEN shift(js) ELSE shift(shift(js))

makerunning(js, j) ==
    [js EXCEPT
        !.tab[j].stat = @ \ {"STOPPED"},
        !.tab[j].procs = [i \in DOMAIN @ |->
                             IF @[i].st = "stop" THEN [@[i] EXCEPT !.st = "run"] ELSE @[i]]]

(* A job that was done before its last process was forked stays done.      *)
addproc_done(js, j, p) ==
    [js EXCEPT !.tab[j].procs = Append(@, [pid |-> p, st |-> "run"])]

(* addproc(), for the process p forked in job j.                           *)
addproc(js, j, p) ==
    [js EXCEPT !.tab[j].procs = Append(@, [pid |-> p, st |-> "run"]),
               !.tab[j].stat = @ \ {"DONE"}]

(* findproc(): a running process of that number if there is one, otherwise *)
(* the last one met; only jobs that are not done count.                    *)
Entries(tab, p) ==
    {e \in Slots \X (1 .. MaxProcs) :
        /\ "DONE" \notin tab[e[1]].stat
        /\ e[2] <= Len(tab[e[1]].procs)
        /\ tab[e[1]].procs[e[2]].pid = p}
Before(d, e) == d[1] < e[1] \/ (d[1] = e[1] /\ d[2] < e[2])

(* The first process of that number is taken.                              *)
findproc_first(tab, p) ==
    CHOOSE e \in Entries(tab, p) : \A d \in Entries(tab, p) \ {e} : Before(e, d)

findproc(tab, p) ==
    LET live == {e \in Entries(tab, p) : tab[e[1]].procs[e[2]].st = "run"}
    IN  IF live # {} THEN CHOOSE e \in live : \A d \in live \ {e} : Before(e, d)
        ELSE CHOOSE e \in Entries(tab, p) :
                 \A d \in Entries(tab, p) \ {e} : Before(d, e)

-----------------------------------------------------------------------------
(* What one report of the kernel does to the shell.                        *)

(* update_job(), for a job none of whose processes runs any more: val is   *)
(* the status of the last process of the pipeline.                         *)
Settled(job) == \A i \in DOMAIN job.procs : job.procs[i].st # "run"
SomeStopped(job) == \E i \in DOMAIN job.procs : job.procs[i].st = "stop"
Ends(job) ==
    /\ Settled(job)
    /\ SomeStopped(job) => "STOPPED" \notin job.stat

(* A job that is still being built is reported, too.                       *)
update_job_unlocked(js, j, this) ==
    LET job == js.tab[j]
        stops == SomeStopped(job)
        marked == [js EXCEPT !.tab[j].stat =
                       @ \cup {"CHANGED", IF stops THEN "STOPPED" ELSE "DONE"}]
        shuffled == IF stops THEN [marked EXCEPT !.prev = js.cur, !.cur = j]
                    ELSE marked
    IN  IF ~Ends(job) THEN js
        ELSE IF NOTIFY \/ j = this THEN printjob(shuffled, j, this) ELSE shuffled

update_job(js, j, this) ==
    LET job == js.tab[j]
        stops == SomeStopped(job)
        marked == [js EXCEPT !.tab[j].stat =
                       @ \cup {"CHANGED", IF stops THEN "STOPPED" ELSE "DONE"}]
        shuffled == IF stops THEN [marked EXCEPT !.prev = js.cur, !.cur = j]
                    ELSE marked
    IN  IF ~Ends(job) THEN js
        ELSE IF (NOTIFY \/ j = this) /\ "LOCKED" \in job.stat
             THEN printjob(shuffled, j, this)
             ELSE shuffled

(* The list is never full.                                                 *)
addbgstatus_unbounded(list, p, st) == Append(list, [pid |-> p, status |-> st])

(* addbgstatus(): the oldest entry makes room for a new one.               *)
addbgstatus(list, p, st) ==
    Append(IF Len(list) = ChildMax THEN Tail(list) ELSE list,
           [pid |-> p, status |-> st])

-----------------------------------------------------------------------------
(* The kernel.                                                             *)

Report(p, st, ev, code) ==
    /\ child' = [child EXCEPT ![p] = [st |-> st, ev |-> ev, code |-> code]]
    /\ pending' = TRUE
    /\ UNCHANGED <<signalVars, jobVars, thisjob, statusVars, mainVars, disowned>>

Exit(p) ==
    /\ child[p].st \in {"run", "stop"}
    /\ \E c \in Codes : Report(p, "zombie", "exit", c)

Stop(p) ==
    /\ p \in Stoppable
    /\ child[p].st = "run"
    /\ Report(p, "stop", "stop", child[p].code)

Continue(p) ==
    /\ child[p].st = "stop"
    /\ Report(p, "run", "cont", child[p].code)

(* SIGCONT from the shell to the processes ps.                             *)
Continued(ps) ==
    [p \in Pids |->
        IF p \in ps /\ child[p].st = "stop"
        THEN [child[p] EXCEPT !.st = "run", !.ev = "cont"] ELSE child[p]]
killjb(j) ==
    LET ps == {q.pid : q \in {r \in ToSet(jobtab[j].procs) : ~Terminated(r.st)}}
    IN  /\ child' = Continued(ps)
        /\ pending' = (pending \/ Continued(ps) # child)

(* The kernel delivers SIGCHLD: the handler starts, or the signal is kept. *)
Deliver ==
    /\ pending
    /\ ~blocked
    /\ ~reaping
    /\ pending' = FALSE
    /\ IF queueing
       THEN queued' = TRUE /\ UNCHANGED reaping
       ELSE reaping' = TRUE /\ UNCHANGED queued
    /\ UNCHANGED <<child, blocked, queueing, jobVars, thisjob, statusVars, mainVars, disowned>>

-----------------------------------------------------------------------------
(* wait_for_processes(): one action for each child that wait3() returns.   *)

(* A process that was continued is taken for one that is still stopped.    *)
StatusOf_stopped(p) == CASE child[p].ev = "exit" -> child[p].code
                         [] child[p].ev \in {"stop", "cont"} -> "stop"

StatusOf(p) == CASE child[p].ev = "exit" -> child[p].code
                 [] child[p].ev = "stop" -> "stop"
                 [] child[p].ev = "cont" -> "run"

(* What was reported last decides, not the last process of the pipeline.   *)
RecordStatus_reported(p) ==
    LET e == findproc(jobtab, p)
        j == e[1]
        js == [Jobs EXCEPT !.tab[j].procs[e[2]].st = StatusOf(p)]
    IN  /\ bgstatus_list' = IF j # thisjob /\ child[p].ev = "exit"
                            THEN addbgstatus(bgstatus_list, p, StatusOf(p))
                            ELSE bgstatus_list
        /\ BecomeJobs(update_job(js, j, thisjob))
        /\ lastval2' = IF Ends(js.tab[j]) THEN StatusOf(p) ELSE lastval2
        /\ lastval' = IF Ends(js.tab[j]) /\ j = thisjob THEN StatusOf(p) ELSE lastval

(* The status of the pipeline is kept for each of its processes.           *)
RecordStatus_job(p) ==
    LET e == findproc(jobtab, p)
        j == e[1]
        js == [Jobs EXCEPT !.tab[j].procs[e[2]].st = StatusOf(p)]
        val == Last(js.tab[j].procs).st
    IN  /\ bgstatus_list' = IF j # thisjob /\ child[p].ev = "exit"
                            THEN addbgstatus(bgstatus_list, p, val)
                            ELSE bgstatus_list
        /\ BecomeJobs(update_job(js, j, thisjob))
        /\ lastval2' = IF Ends(js.tab[j]) THEN val ELSE lastval2
        /\ lastval' = IF Ends(js.tab[j]) /\ j = thisjob THEN val ELSE lastval

(* The child is known: its status is recorded, update_bg_job() and         *)
(* update_job() follow.                                                    *)
RecordStatus(p) ==
    LET e == findproc(jobtab, p)
        j == e[1]
        js == [Jobs EXCEPT !.tab[j].procs[e[2]].st = StatusOf(p)]
        val == Last(js.tab[j].procs).st
    IN  /\ bgstatus_list' = IF j # thisjob /\ child[p].ev = "exit"
                            THEN addbgstatus(bgstatus_list, p, StatusOf(p))
                            ELSE bgstatus_list
        /\ BecomeJobs(update_job(js, j, thisjob))
        /\ lastval2' = IF Ends(js.tab[j]) THEN val ELSE lastval2
        /\ lastval' = IF Ends(js.tab[j]) /\ j = thisjob THEN val ELSE lastval

Reap(p) ==
    /\ reaping
    /\ child[p].ev # "none"
    /\ child' = [child EXCEPT ![p].ev = "none",
                    ![p].st = IF @ # "zombie" THEN @ ELSE IF PidReuse THEN "new" ELSE "gone"]
    /\ IF Entries(jobtab, p) # {} THEN RecordStatus(p)
       ELSE UNCHANGED <<jobVars, statusVars>>
    /\ disowned' = IF child[p].ev = "exit" THEN disowned \ {p} ELSE disowned
    /\ UNCHANGED <<pending, signalVars, thisjob, mainVars>>

(* No more children to reap.  sigsuspend() returns with its handler, and   *)
(* the signal is blocked again.                                            *)
ReapDone ==
    /\ reaping
    /\ \A p \in Pids : child[p].ev = "none"
    /\ reaping' = FALSE
    /\ IF pc = "suspended" THEN pc' = "test" /\ blocked' = TRUE
       ELSE UNCHANGED <<pc, blocked>>
    /\ UNCHANGED <<kernelVars, queueing, queued, jobVars, thisjob, statusVars,
                   op, target, fglast, binslot, disowned>>

-----------------------------------------------------------------------------
(* execpline(): a pipeline of external commands.                           *)

MainAt(step) == ~reaping /\ pc = step

(* The queue is emptied when the main program stops queueing: what was     *)
(* saved is handled before it goes on.                                     *)
Unqueue ==
    /\ queueing' = FALSE
    /\ queued' = FALSE
    /\ reaping' = queued

StartPipeline(how) ==
    /\ MainAt("idle")
    /\ initjob # 0
    /\ \E p \in Pids : child[p].st = "new"
    /\ thisjob' = initjob
    /\ jobtab' = [jobtab EXCEPT ![initjob].stat = {"INUSE"}]
    /\ blocked' = TRUE
    /\ queueing' = TRUE
    /\ pc' = "build"
    /\ op' = how
    /\ UNCHANGED <<kernelVars, queued, reaping, curjob, prevjob, statusVars,
                   target, fglast, binslot, disowned>>

(* initjob() finds no entry for a pipeline, or for a builtin: execpline()  *)
(* lets signals through again and returns.                                 *)
PipelineFails ==
    /\ MainAt("idle")
    /\ initjob = 0
    /\ thisjob' = 0
    /\ blocked' = TRUE
    /\ queueing' = TRUE
    /\ pc' = "full"
    /\ UNCHANGED <<kernelVars, queued, reaping, jobVars, statusVars, op, target, fglast,
                   binslot, disowned>>

PipelineFailed ==
    /\ MainAt("full")
    /\ blocked' = FALSE
    /\ Unqueue
    /\ pc' = "idle"
    /\ UNCHANGED <<kernelVars, jobVars, thisjob, statusVars, op, target, fglast, binslot,
                   disowned>>

(* execcmd_fork(): one process of the pipeline.                            *)
Fork(p) ==
    /\ MainAt("build") \/ MainAt("last")
    /\ child[p].st = "new"
    /\ Len(jobtab[thisjob].procs) < MaxProcs
    /\ child' = [child EXCEPT ![p].st = "run", ![p].code = "ok"]
    /\ BecomeJobs(addproc(Jobs, thisjob, p))
    /\ blocked' = TRUE
    /\ UNCHANGED <<pending, queueing, queued, reaping, thisjob, statusVars, mainVars, disowned>>

(* The last command of a foreground pipeline is expanded by the shell      *)
(* itself: getoutput() lets signals through while it reads the output of a *)
(* command substitution, and leaves SIGCHLD unblocked.                     *)
SubstBegin ==
    /\ MainAt("build")
    /\ op = "sync"
    /\ Len(jobtab[thisjob].procs) \in 1 .. MaxProcs - 1
    /\ \E p \in Pids : child[p].st = "new"
    /\ Unqueue
    /\ blocked' = FALSE
    /\ pc' = "subst"
    /\ UNCHANGED <<kernelVars, jobVars, thisjob, statusVars, op, target, fglast, binslot, disowned>>

SubstEnd ==
    /\ MainAt("subst")
    /\ queueing' = TRUE
    /\ pc' = "last"
    /\ fglast' = Len(jobtab[thisjob].procs)
    /\ UNCHANGED <<kernelVars, blocked, queued, reaping, jobVars, thisjob, statusVars,
                   op, target, binslot, disowned>>

Complete ==
    /\ jobtab[thisjob].procs # <<>>
    /\ \/ MainAt("build")
       \/ MainAt("last") /\ Len(jobtab[thisjob].procs) > fglast

(* spawnjob(): the job goes on in the background.                          *)
spawnjob ==
    LET js == IF curjob = 0 \/ "STOPPED" \notin jobtab[curjob].stat
              THEN setprevjob([Jobs EXCEPT !.cur = thisjob], thisjob)
              ELSE IF prevjob = 0 \/ "STOPPED" \notin jobtab[prevjob].stat
              THEN [Jobs EXCEPT !.prev = thisjob]
              ELSE Jobs
    IN  [js EXCEPT !.tab[thisjob].stat = @ \cup {"LOCKED"}]

EndPipeline ==
    /\ thisjob' = 0
    /\ blocked' = FALSE
    /\ Unqueue
    /\ pc' = "idle"
    /\ op' = "none"
    /\ target' = 0
    /\ fglast' = 0
    /\ UNCHANGED <<kernelVars, binslot>>

RunInBackground ==
    /\ op = "async"
    /\ Complete
    /\ BecomeJobs(spawnjob)
    /\ lastval' = "ok"
    /\ EndPipeline
    /\ UNCHANGED <<lastval2, bgstatus_list, disowned>>

RunDisowned ==
    /\ op = "disown"
    /\ Complete
    /\ BecomeJobs(deletejob(Jobs, thisjob))
    /\ disowned' = disowned \cup {q.pid : q \in ToSet(jobtab[thisjob].procs)}
    /\ lastval' = "ok"
    /\ EndPipeline
    /\ UNCHANGED <<lastval2, bgstatus_list>>

-----------------------------------------------------------------------------
(* zwaitjob() and waitforpid().                                            *)

(* SIGCHLD is not blocked between the test and the sleep.                  *)
BeginWait_unblocked(j, last) ==
    /\ pc' = "enter"
    /\ target' = j
    /\ fglast' = last
    /\ blocked' = FALSE
    /\ Unqueue

BeginWait(j, last) ==
    /\ pc' = "enter"
    /\ target' = j
    /\ fglast' = last
    /\ blocked' = TRUE
    /\ Unqueue

WaitPipeline ==
    /\ op = "sync"
    /\ Complete
    /\ BeginWait(thisjob, Last(jobtab[thisjob].procs).pid)
    /\ UNCHANGED <<kernelVars, jobVars, thisjob, statusVars, op, binslot, disowned>>

(* The head of zwaitjob(): what has changed already is printed.            *)
EnterWait ==
    /\ MainAt("enter")
    /\ IF op = "wait_pid" THEN UNCHANGED jobVars /\ pc' = "test"
       ELSE IF HasProcs(jobtab, target)
       THEN LET js == [Jobs EXCEPT !.tab[target].stat = @ \cup {"LOCKED"}]
            IN  /\ BecomeJobs(IF "CHANGED" \in jobtab[target].stat
                              THEN printjob(js, target, thisjob) ELSE js)
                /\ pc' = "test"
       ELSE BecomeJobs(deletejob(Jobs, target)) /\ pc' = "after"
    /\ UNCHANGED <<kernelVars, signalVars, thisjob, statusVars, op, target, fglast, binslot, disowned>>

(* Is there anything left to wait for?  waitforpid() unblocks SIGCHLD      *)
(* before it lets signals be queued again, zwaitjob() after.               *)
MustWait ==
    IF op = "wait_pid" THEN child[fglast].st \in {"run", "stop", "zombie"}
    ELSE /\ jobtab[target].stat # {}
         /\ jobtab[target].stat \cap {"DONE", "STOPPED"} = {}

TestWait ==
    /\ MainAt("test")
    /\ pc' = IF MustWait THEN "suspend" ELSE "after"
    /\ blocked' = (blocked /\ (MustWait \/ op # "wait_pid"))
    /\ UNCHANGED <<kernelVars, queueing, queued, reaping, jobVars, thisjob, statusVars,
                   op, target, fglast, binslot, disowned>>

(* sigsuspend(): unblocks the signal and sleeps, in one step.              *)
Suspend ==
    /\ MainAt("suspend")
    /\ pc' = "suspended"
    /\ blocked' = FALSE
    /\ UNCHANGED <<kernelVars, queueing, queued, reaping, jobVars, thisjob, statusVars,
                   op, target, fglast, binslot, disowned>>

WaitPipelineEnds ==
    /\ MainAt("after")
    /\ op = "sync"
    /\ EndPipeline
    /\ UNCHANGED <<jobVars, statusVars, disowned>>

-----------------------------------------------------------------------------
(* The prompt: preprompt() reports the jobs that have changed.             *)
preprompt ==
    /\ MainAt("idle")
    /\ ~NOTIFY
    /\ BecomeJobs(scanjobs(Jobs, thisjob))
    /\ UNCHANGED <<kernelVars, signalVars, thisjob, statusVars, mainVars, disowned>>

-----------------------------------------------------------------------------
(* bin_fg().  The builtin is a pipeline itself, with an entry of the job   *)
(* table of its own; signals are queued again while it works.              *)

BuiltinStart ==
    /\ MainAt("idle")
    /\ initjob # 0
    /\ thisjob' = initjob
    /\ binslot' = initjob
    /\ jobtab' = [jobtab EXCEPT ![initjob].stat = {"INUSE", "BUILTIN"}]
    /\ blocked' = TRUE
    /\ queueing' = TRUE
    /\ reaping' = TRUE
    /\ pc' = "bin_reap"
    /\ op' = "builtin"
    /\ UNCHANGED <<kernelVars, queued, curjob, prevjob, statusVars, target, fglast, disowned>>

BuiltinReady ==
    /\ MainAt("bin_reap")
    /\ BecomeJobs(setcurjob(IF NOTIFY THEN Jobs ELSE scanjobs(Jobs, thisjob), thisjob))
    /\ pc' = "bin"
    /\ UNCHANGED <<kernelVars, signalVars, thisjob, statusVars, op, target, fglast, binslot, disowned>>

(* The job a builtin acts on: by number, or as %+ or %-.                   *)
Named == {j \in Slots : jobtab[j].stat # {} /\ j # thisjob}

(* The builtin is over with status ret.                                    *)
Finish(ret) ==
    /\ lastval' = ret
    /\ pc' = "bin_end"

jobs ==
    /\ MainAt("bin")
    /\ BecomeJobs(printjobs(Jobs, thisjob, TRUE))
    /\ Finish("ok")
    /\ UNCHANGED <<kernelVars, signalVars, thisjob, lastval2, bgstatus_list,
                   op, target, fglast, binslot, disowned>>

disown(j) ==
    /\ MainAt("bin")
    /\ BecomeJobs(deletejob(Jobs, j))
    /\ disowned' = disowned \cup
           {q.pid : q \in {r \in ToSet(jobtab[j].procs) : ~Terminated(r.st)}}
    /\ Finish("ok")
    /\ UNCHANGED <<kernelVars, signalVars, thisjob, lastval2, bgstatus_list,
                   op, target, fglast, binslot>>

(* fg, bg and wait choose a new current and previous job.                  *)
shuffle(js, j, func) ==
    LET a == IF js.cur = j
             THEN [js EXCEPT !.cur = js.prev, !.prev = IF func = "bg" THEN 0 ELSE j]
             ELSE js
        b == IF a.prev \in {j, 0} THEN setprevjob(a, thisjob) ELSE a
    IN  IF b.cur = 0 THEN setprevjob([b EXCEPT !.cur = b.prev], thisjob) ELSE b

Resumed(j, func) ==
    shuffle(IF "STOPPED" \in jobtab[j].stat THEN makerunning(Jobs, j) ELSE Jobs, j, func)

ContinueIfStopped(j) ==
    IF "STOPPED" \in jobtab[j].stat THEN killjb(j) ELSE UNCHANGED kernelVars

fg(j) ==
    /\ MainAt("bin")
    /\ BecomeJobs(printjob(Resumed(j, "fg"), j, thisjob))
    /\ ContinueIfStopped(j)
    /\ thisjob' = j
    /\ op' = "fg"
    /\ BeginWait(j, Last(jobtab[j].procs).pid)
    /\ UNCHANGED <<statusVars, binslot, disowned>>

bg(j) ==
    /\ MainAt("bin")
    /\ IF "STOPPED" \in jobtab[j].stat
       THEN BecomeJobs(printjob(Resumed(j, "bg"), j, thisjob)) /\ Finish("ok")
       ELSE UNCHANGED jobVars /\ Finish("fail")
    /\ ContinueIfStopped(j)
    /\ UNCHANGED <<signalVars, thisjob, lastval2, bgstatus_list, op, target, fglast, binslot, disowned>>

wait(j) ==
    /\ MainAt("bin")
    /\ BecomeJobs(Resumed(j, "wait"))
    /\ ContinueIfStopped(j)
    /\ op' = "wait"
    /\ BeginWait(j, Last(jobtab[j].procs).pid)
    /\ UNCHANGED <<thisjob, statusVars, binslot, disowned>>

(* wait without an argument: one job after the other.                      *)
After(j) == {i \in Named : i > j}

wait_all ==
    /\ MainAt("bin")
    /\ IF Named = {} THEN Finish("ok") /\ UNCHANGED <<signalVars, op, target, fglast>>
       ELSE /\ op' = "wait_all"
            /\ BeginWait(Min(Named), 0)
            /\ UNCHANGED lastval
    /\ UNCHANGED <<kernelVars, jobVars, thisjob, lastval2, bgstatus_list, binslot, disowned>>

(* getbgstatus(): the first entry of that number, which it removes.        *)
BgEntries(p) == {i \in DOMAIN bgstatus_list : bgstatus_list[i].pid = p}
TakeBgStatus(p, default) ==
    IF BgEntries(p) = {}
    THEN lastval' = default /\ UNCHANGED bgstatus_list
    ELSE /\ lastval' = bgstatus_list[Min(BgEntries(p))].status
         /\ bgstatus_list' = RemoveAt(bgstatus_list, Min(BgEntries(p)))

wait_pid(p) ==
    /\ MainAt("bin")
    /\ IF Entries(jobtab, p) # {}
       THEN LET j == findproc(jobtab, p)[1]
            IN  /\ ContinueIfStopped(j)
                /\ BecomeJobs(IF "STOPPED" \in jobtab[j].stat
                              THEN makerunning(Jobs, j) ELSE Jobs)
                /\ op' = "wait_pid"
                /\ BeginWait(0, p)
                /\ UNCHANGED <<lastval, bgstatus_list>>
       ELSE /\ TakeBgStatus(p, "none")
            /\ pc' = "bin_end"
            /\ UNCHANGED <<kernelVars, signalVars, jobVars, op, target, fglast>>
    /\ UNCHANGED <<thisjob, lastval2, binslot, disowned>>

(* Queueing is on again for the rest of bin_fg(), SIGCHLD unblocked.       *)
LeaveWait == queueing' = TRUE /\ blocked' = FALSE

WaitEnds ==
    /\ MainAt("after")
    /\ op \in {"fg", "wait"}
    /\ thisjob' = binslot
    /\ Finish(lastval2)
    /\ LeaveWait
    /\ UNCHANGED <<kernelVars, queued, reaping, jobVars, lastval2, bgstatus_list,
                   op, target, fglast, binslot, disowned>>

WaitPidEnds ==
    /\ MainAt("after")
    /\ op = "wait_pid"
    /\ TakeBgStatus(fglast, lastval2)
    /\ pc' = "bin_end"
    /\ LeaveWait
    /\ UNCHANGED <<kernelVars, queued, reaping, jobVars, thisjob, lastval2,
                   op, target, fglast, binslot, disowned>>

NextOfAll(ret) ==
    IF After(target) # {}
    THEN BeginWait(Min(After(target)), 0) /\ UNCHANGED lastval
    ELSE /\ Finish(ret)
         /\ queueing' = TRUE
         /\ UNCHANGED <<queued, reaping, target, fglast>>

WaitAllEnds ==
    /\ MainAt("after")
    /\ op = "wait_all"
    /\ NextOfAll("ok")
    /\ After(target) = {} => blocked' = FALSE
    /\ UNCHANGED <<kernelVars, jobVars, thisjob, lastval2, bgstatus_list, op, binslot, disowned>>

(* A signal with a trap arrives while `wait' sleeps.  It returns at once,  *)
(* SIGCHLD still blocked; without an argument it goes on to the next job.  *)
WaitInterrupted ==
    /\ MainAt("suspended")
    /\ op \in {"wait", "wait_pid", "wait_all"}
    /\ IF op = "wait_all" THEN NextOfAll("trap")
       ELSE /\ Finish("trap")
            /\ queueing' = TRUE
            /\ UNCHANGED <<queued, reaping, target, fglast>>
    /\ blocked' = TRUE
    /\ UNCHANGED <<kernelVars, jobVars, thisjob, lastval2, bgstatus_list, op, binslot, disowned>>

(* unqueue_signals() at the end of bin_fg() ...                            *)
BuiltinUnqueue ==
    /\ MainAt("bin_end")
    /\ Unqueue
    /\ pc' = "bin_exit"
    /\ UNCHANGED <<kernelVars, blocked, jobVars, thisjob, statusVars, op, target, fglast, binslot,
                   disowned>>

(* ... and the end of execpline() for the builtin itself.                  *)
BuiltinExit ==
    /\ MainAt("bin_exit")
    /\ BecomeJobs(deletejob(Jobs, binslot))
    /\ thisjob' = 0
    /\ binslot' = 0
    /\ blocked' = FALSE
    /\ pc' = "idle"
    /\ op' = "none"
    /\ target' = 0
    /\ fglast' = 0
    /\ UNCHANGED <<kernelVars, queueing, queued, reaping, statusVars, disowned>>

-----------------------------------------------------------------------------
KernelStep == \E p \in Pids : Exit(p) \/ Stop(p) \/ Continue(p)

Handler == Deliver \/ (\E p \in Pids : Reap(p)) \/ ReapDone

Pipeline ==
    \/ \E how \in {"sync", "async", "disown"} : StartPipeline(how)
    \/ PipelineFails \/ PipelineFailed
    \/ \E p \in Pids : Fork(p)
    \/ SubstBegin \/ SubstEnd
    \/ RunInBackground \/ RunDisowned \/ WaitPipeline \/ WaitPipelineEnds
    \/ preprompt

Builtin ==
    \/ BuiltinStart \/ BuiltinReady
    \/ jobs \/ wait_all
    \/ \E j \in Named : fg(j) \/ bg(j) \/ wait(j) \/ disown(j)
    \/ \E p \in Pids : wait_pid(p)
    \/ WaitEnds \/ WaitPidEnds \/ WaitAllEnds \/ WaitInterrupted
    \/ BuiltinUnqueue \/ BuiltinExit

Waiting == EnterWait \/ TestWait \/ Suspend

Next == KernelStep \/ Handler \/ Pipeline \/ Builtin \/ Waiting

Spec == Init /\ [][Next]_vars

(* The handler runs when SIGCHLD comes and reaps until nothing is left,    *)
(* a wait that has begun goes on as long as nothing is in its way (WF),    *)
(* and commands that are let run end, some day, one of them (SF: they may  *)
(* be stopped and continued in the meantime).                              *)
FairSpec ==
    /\ Spec
    /\ WF_vars(Handler)
    /\ WF_vars(Waiting \/ WaitPipelineEnds \/ WaitEnds \/ WaitAllEnds)
    /\ SF_vars(\E p \in Pids : Exit(p) /\ child[p].st = "run")

-----------------------------------------------------------------------------
(* PROPERTIES                                                              *)

(* The job table and the variables around it are well formed.              *)
TypeOK ==
    /\ child \in [Pids -> [st : {"new", "run", "stop", "zombie", "gone"},
                           ev : {"none", "exit", "stop", "cont"}, code : Codes]]
    /\ {pending, blocked, queueing, queued, reaping} \subseteq BOOLEAN
    /\ jobtab \in [Slots -> Job]
    /\ \A j \in Slots : Len(jobtab[j].procs) <= MaxProcs
    /\ {curjob, prevjob, thisjob, binslot, target} \subseteq 0 .. NJobs
    /\ lastval \in Statuses \cup {"fail", "none", "trap"}
    /\ lastval2 \in Statuses
    /\ bgstatus_list \in Seq([pid : Pids, status : Codes]) /\ Len(bgstatus_list) <= ChildMax
    /\ pc \in Steps
    /\ op \in Ops
    /\ fglast \in Pids \cup 0 .. MaxProcs
    /\ disowned \subseteq Pids

Alive(p) == child[p].st \in {"run", "stop", "zombie"}
Tracked(p) ==
    {e \in Entries(jobtab, p) : ~Terminated(jobtab[e[1]].procs[e[2]].st)}

(* The shell never loses sight of a child: until its end has been reported *)
(* every child that was not disowned has exactly one entry in a job that   *)
(* is not done, still marked as running or stopped.                        *)
LiveProcsTracked ==
    \A p \in Pids \ disowned : Alive(p) => Cardinality(Tracked(p)) = 1

(* Once all reports about a child are in, its entry says what the child    *)
(* does, whatever the order in which it was stopped, continued by others   *)
(* and continued by fg, bg and wait.                                       *)
StatusCurrent ==
    \A p \in Pids : \A e \in Tracked(p) :
        child[p].ev = "none" => jobtab[e[1]].procs[e[2]].st = child[p].st

(* The entry of the job table that the main program fills is not given     *)
(* away or deleted by what is reaped meanwhile.                            *)
JobKeptWhileBuilt ==
    /\ pc \in {"build", "subst", "last", "enter"} /\ op \in {"sync", "async", "disown"}
           => InUse(jobtab, thisjob)
    /\ binslot # 0 => jobtab[binslot] = [stat |-> {"INUSE", "BUILTIN"}, procs |-> <<>>]

(* When a builtin looks for the job it is to act on, the current job, if   *)
(* any, is one it may be given: never one that is gone, nor the entry of   *)
(* the builtin itself.  If jobs are reported at the prompt only, there is  *)
(* a current job whenever there is any such job.                           *)
CurJobUsable ==
    pc = "bin" =>
        /\ curjob \in Named \cup {0}
        /\ ~NOTIFY /\ Named # {} => curjob # 0

(* A foreground pipeline that has finished leaves the status of its last   *)
(* process in $?.                                                          *)
ForegroundStatus ==
    [][op = "sync" /\ pc = "after" /\ pc' = "idle" /\ ~InUse(jobtab, target)
       => lastval' = child[fglast].code]_vars

(* The status kept for `wait pid' is the one the process ended with, and   *)
(* it is kept once.                                                        *)
BgStatusRight ==
    /\ \A i \in DOMAIN bgstatus_list :
           bgstatus_list[i].status = child[bgstatus_list[i].pid].code
    /\ \A p \in Pids : Cardinality(BgEntries(p)) <= 1

(* Waiting for jobs ends, whenever SIGCHLD comes: no wake-up is lost.      *)
WaitingEnds ==
    pc = "enter" /\ op # "wait_pid" ~> pc \in {"idle", "bin_end"}

(* A report about a child that has not ended yet is not taken for one      *)
(* about an ended process that had the same number.                        *)
LiveProcFound ==
    \A p \in Pids \ disowned :
        Alive(p) => LET e == findproc(jobtab, p)
                    IN  ~Terminated(jobtab[e[1]].procs[e[2]].st)

-----------------------------------------------------------------------------
(* What the code does not keep: see README.md, disagreements.              *)

(* A job marked as stopped has no process that runs, as far as the shell   *)
(* knows (update_job(): STAT_STOPPED).                                     *)
StoppedMeansStopped ==
    \A j \in Slots : "STOPPED" \in jobtab[j].stat => Settled(jobtab[j])

(* `wait %job' returns the status of the job it has waited for (bin_fg()). *)
WaitReturnsJobStatus ==
    [][op = "wait" /\ pc = "after" /\ pc' = "bin_end" /\ ~InUse(jobtab, target)
       => lastval' = child[fglast].code]_vars
=============================================================================
