---------------------------- MODULE InvokedProcess ----------------------------
(***************************************************************************)
(* Background processes: PendingProcess.start() of one command with input, *)
(* or a Pool of commands, followed by kill(), ensure_not_timed_out() and   *)
(* wait().                                                                 *)
(*                                                                         *)
(* One thread starts and waits; two daemon threads per process read its    *)
(* output.  The operating system is modelled by what the code relies on: a *)
(* write into a full pipe blocks, a pipe ends when nobody holds its other  *)
(* end, and a process a child has left behind holds the child's pipes.     *)
(***************************************************************************)
EXTENDS Integers

CONSTANTS
    Uses,       \* the ways of use that are checked, see Init
    MaxSize,    \* the processes of the largest pool
    Cap         \* what a pipe holds

(***************************************************************************)
(* size: the processes, 1 for start() and the entries of a pool; input:    *)
(* what start() writes to stdin, in units of a write; filter: the child    *)
(* copies stdin to stdout and ends with its input; lines: bound of what    *)
(* another child writes; timeout: one is set; raises: the output callback  *)
(* may raise; leaves: a child may leave a process behind that holds its    *)
(* pipes; works: the child does its work and ends.                         *)
(***************************************************************************)
Use == [size : 1 .. MaxSize, input : Nat, filter : BOOLEAN, lines : Nat, timeout : BOOLEAN,
        raises : BOOLEAN, leaves : BOOLEAN, works : BOOLEAN]

ASSUME InvokedProcessAssumption ==
    /\ MaxSize \in Nat \ {0} /\ Cap \in Nat \ {0} /\ Uses \subseteq Use
    /\ \A u \in Uses : u.input > 0 => u.size = 1

Kinds == {"stdout", "stderr"}

VARIABLES
    use,        \* how the processes are used: chosen once
    caller,     \* what the calling thread is doing, and with which process
    stdin,      \* written by start(), unread in the pipe, and read by a filter
    proc,       \* each process: the stream its next line goes to, and whether
                \* the timeout has passed since the start (overdue)
    stream      \* lines written to a stream and stored by its reader thread

vars == <<use, caller, stdin, proc, stream>>

Procs == 1 .. use.size

TypeOK ==
    /\ use \in Uses
    /\ caller \in [at : {"start", "write", "held", "wait", "join", "done", "raised", "failed"}, p : Procs]
    /\ stdin \in [sent : 0 .. use.input, unread : 0 .. Cap, owed : {0, 1}]
    /\ proc \in [Procs -> [child : {"none", "running", "exited", "reaped"}, left : BOOLEAN, due : Kinds,
                           overdue : BOOLEAN, timed_out : BOOLEAN]]
    /\ stream \in [Procs -> [Kinds -> [made : Nat, got : Nat, reader : {"none", "reading", "ended", "dead"}]]]
    /\ \A p \in Procs, k \in Kinds : stream[p][k].made - stream[p][k].got \in 0 .. Cap

Init ==
    /\ use \in Uses
    /\ caller = [at |-> "start", p |-> 1]
    /\ stdin = [sent |-> 0, unread |-> 0, owed |-> 0]
    /\ proc \in [Procs -> [child : {"none"}, left : {FALSE}, due : Kinds,
                           overdue : {FALSE}, timed_out : {FALSE}]]
    /\ stream = [p \in Procs |-> [k \in Kinds |-> [made |-> 0, got |-> 0, reader |-> "none"]]]
-----------------------------------------------------------------------------
Running(p) == proc[p].child = "running"
Finished(p) == proc[p].child \in {"exited", "reaped"}
\* Someone may still write to the streams of p.
Open(p) == Running(p) \/ proc[p].left

IsAt(where) == caller.at = where
Goes(where) == caller' = [caller EXCEPT !.at = where]
Becomes(p, child) == proc' = [proc EXCEPT ![p].child = child]
\* The child is gone, and may have left a process behind.
Ends(p, child) == \E leave \in {FALSE, use.leaves} : proc' = [proc EXCEPT ![p].child = child, ![p].left = leave]

\* InvokedProcess.__init__: the reader threads start.
Invoked(p) ==
    /\ stream' = [stream EXCEPT ![p] = [k \in Kinds |-> [@[k] EXCEPT !.reader = "reading"]]]
    /\ caller' = IF p = use.size THEN [at |-> "held", p |-> 1] ELSE [at |-> "start", p |-> p + 1]

Start ==
    /\ IsAt("start") /\ Becomes(caller.p, "running")
    /\ IF use.input > 0 THEN Goes("write") /\ UNCHANGED stream ELSE Invoked(caller.p)
    /\ UNCHANGED stdin

\* start() writes all the input itself, before anything reads the output.
WriteInput ==
    /\ IsAt("write") /\ stdin.sent < use.input /\ Running(1) /\ stdin.unread < Cap
    /\ stdin' = [stdin EXCEPT !.sent = @ + 1, !.unread = @ + 1]
    /\ UNCHANGED <<caller, proc, stream>>

\* The child has gone with input still to be written: BrokenPipeError.
BrokenPipe ==
    /\ IsAt("write") /\ stdin.sent < use.input /\ Finished(1) /\ Goes("failed")
    /\ UNCHANGED <<stdin, proc, stream>>

CloseInput ==
    IsAt("write") /\ stdin.sent = use.input /\ Invoked(1) /\ UNCHANGED <<stdin, proc>>
-----------------------------------------------------------------------------
\* A filter reads what it can hold; another child may read or ignore its input.
ChildReads ==
    /\ Running(1) /\ stdin.unread > 0 /\ (use.filter => stdin.owed = 0)
    /\ stdin' = [stdin EXCEPT !.unread = @ - 1, !.owed = IF use.filter THEN 1 ELSE 0]
    /\ UNCHANGED <<caller, proc, stream>>

HasOutput(p) ==
    IF use.filter THEN stdin.owed = 1 ELSE stream[p]["stdout"].made + stream[p]["stderr"].made < use.lines

ChildWrites(p) ==
    LET k == IF use.filter THEN "stdout" ELSE proc[p].due IN
    /\ Open(p) /\ HasOutput(p) /\ stream[p][k].made - stream[p][k].got < Cap
    /\ stream' = [stream EXCEPT ![p][k].made = @ + 1]
    /\ \E next \in Kinds : proc' = [proc EXCEPT ![p].due = next]
    /\ stdin' = [stdin EXCEPT !.owed = 0] /\ UNCHANGED caller

\* A filter ends with its input; another child when it likes.
ChildExits(p) ==
    /\ Running(p) /\ (use.filter => ~IsAt("write") /\ stdin.unread = 0 /\ ~HasOutput(p))
    /\ Ends(p, "exited") /\ UNCHANGED <<caller, stdin, stream>>

LeftEnds(p) ==
    /\ proc[p].left /\ proc' = [proc EXCEPT ![p].left = FALSE]
    /\ UNCHANGED <<caller, stdin, stream>>

\* A line is stored, then the callback is called: raising ends the thread.
Read(p, k) ==
    /\ stream[p][k].reader = "reading" /\ stream[p][k].got < stream[p][k].made
    /\ \E then \in {"reading"} \cup IF use.raises THEN {"dead"} ELSE {} :
           stream' = [stream EXCEPT ![p][k].got = @ + 1, ![p][k].reader = then]
    /\ UNCHANGED <<caller, stdin, proc>>

ReaderEnds(p, k) ==
    /\ stream[p][k].reader = "reading" /\ stream[p][k].got = stream[p][k].made /\ ~Open(p)
    /\ stream' = [stream EXCEPT ![p][k].reader = "ended"]
    /\ UNCHANGED <<caller, stdin, proc>>
-----------------------------------------------------------------------------
\* kill(), and signal() and running(), which reap a child that has finished.
Kill(p) ==
    /\ IsAt("held") /\ IF Finished(p) THEN Becomes(p, "reaped") ELSE Ends(p, "exited")
    /\ UNCHANGED <<caller, stdin, stream>>

TimeoutPasses(p) ==
    /\ use.timeout /\ ~proc[p].overdue /\ stream[p]["stdout"].reader # "none"
    /\ proc' = [proc EXCEPT ![p].overdue = TRUE]
    /\ UNCHANGED <<caller, stdin, stream>>

\* ensure_not_timed_out() where it raises; elsewhere it changes nothing.
Ensure(p) ==
    /\ IsAt("held") /\ (proc[p].timed_out \/ proc[p].overdue)
    /\ \E leave \in {FALSE, use.leaves} : proc' = [proc EXCEPT ![p].timed_out = TRUE,
           ![p].child = IF proc[p].timed_out THEN @ ELSE IF Finished(p) THEN "reaped" ELSE "exited",
           ![p].left = IF proc[p].timed_out \/ Finished(p) THEN @ ELSE leave]
    /\ UNCHANGED <<caller, stdin, stream>>

\* wait(): of the processes of a pool one after the other.
Wait == IsAt("held") /\ Goes("wait") /\ UNCHANGED <<stdin, proc, stream>>

WaitReturns ==
    /\ IsAt("wait") /\ Finished(caller.p)
    /\ Becomes(caller.p, "reaped") /\ Goes("join") /\ UNCHANGED <<stdin, stream>>

\* Bug: the timeout is not passed on.
WaitForever == FALSE /\ UNCHANGED vars
\* The timeout counts from this call; the child is killed and waited for.
WaitTimesOut ==
    /\ IsAt("wait") /\ use.timeout /\ Running(caller.p) /\ Goes("raised")
    /\ \E leave \in {FALSE, use.leaves} :
           proc' = [proc EXCEPT ![caller.p].child = "reaped", ![caller.p].left = leave, ![caller.p].timed_out = TRUE]
    /\ UNCHANGED <<stdin, stream>>

Returned == caller' = IF caller.p = use.size THEN [caller EXCEPT !.at = "done"] ELSE [at |-> "wait", p |-> caller.p + 1]
\* Bug: the output is taken without joining the threads.
JoinNothing == IsAt("join") /\ Returned /\ UNCHANGED <<stdin, proc, stream>>
Join ==
    /\ IsAt("join") /\ \A k \in Kinds : stream[caller.p][k].reader # "reading"
    /\ Returned /\ UNCHANGED <<stdin, proc, stream>>
-----------------------------------------------------------------------------
Calls == Start \/ WriteInput \/ BrokenPipe \/ CloseInput \/ WaitReturns \/ WaitTimesOut \/ Join
Step ==
    \/ Calls \/ Wait \/ ChildReads
    \/ \E p \in Procs : ChildWrites(p) \/ ChildExits(p) \/ LeftEnds(p) \/ Kill(p) \/ TimeoutPasses(p) \/ Ensure(p)
    \/ \E p \in Procs, k \in Kinds : Read(p, k) \/ ReaderEnds(p, k)
Next == Step /\ UNCHANGED use

\* The threads run: a call that can return or time out does.
Fairness ==
    /\ WF_vars(Calls /\ UNCHANGED use)
    /\ \A p \in 1 .. MaxSize, k \in Kinds :
           WF_vars(p \in Procs /\ (Read(p, k) \/ ReaderEnds(p, k)) /\ UNCHANGED use)
\* A child that works does so whatever the caller does.
ChildWorks ==
    /\ WF_vars(use.works /\ ChildReads /\ UNCHANGED use)
    /\ \A p \in 1 .. MaxSize :
           /\ WF_vars(use.works /\ p \in Procs /\ ChildWrites(p) /\ UNCHANGED use)
           /\ WF_vars(use.works /\ p \in Procs /\ ~HasOutput(p) /\ ChildExits(p) /\ UNCHANGED use)

Spec == Init /\ [][Next]_vars /\ Fairness /\ ChildWorks
-----------------------------------------------------------------------------
\* wait() returns all the output of a process whose callback has not raised,
\* what a process it has left behind wrote included (process.py 109-117).
CompleteOutput ==
    IsAt("done") => \A p \in Procs, k \in Kinds : stream[p][k].reader # "dead" => stream[p][k].got = stream[p][k].made

\* However wait() ends, every process has been waited for: nothing is running
\* and no zombie is left (process.py 98-107, and 239-241 for a pool). After the
\* first timeout of a pool, Pool.wait() waits for no other process.
WaitsForAll ==
    IsAt("done") \/ (IsAt("raised") /\ use.size = 1) => \A p \in Procs : proc[p].child = "reaped"

\* With a timeout wait() ends, whatever the child does and whether or not the
\* callback raises, unless a process left behind holds the pipes (process.py
\* 98-111).
WaitEnds ==
    caller.at \in {"wait", "join"} /\ use.timeout /\ ~use.leaves ~> caller.at \in {"done", "raised"}

\* A child that nobody waits for finishes: its output is read while it runs,
\* from both streams (process.py 39-62). A callback that raises stops this.
Drained ==
    \A p \in 1 .. MaxSize :
        p \in Procs /\ Running(p) /\ use.works /\ ~use.raises ~> p \in Procs /\ Finished(p)

\* start() returns: it starts the process in the background (process.py 498-518).
StartReturns == IsAt("write") /\ use.works ~> ~IsAt("write")

\* When wait() has ended, nothing of a process is missing and nothing is left of
\* it (process.py 98-117).
WaitIsComplete == CompleteOutput /\ WaitsForAll

\* Neither wait() nor a child that works hangs (process.py 39-62, 98-111).
NothingHangs == WaitEnds /\ Drained
=============================================================================
