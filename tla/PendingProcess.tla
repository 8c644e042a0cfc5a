---------------------------- MODULE PendingProcess ----------------------------
(* process/process.py: commands that tasks of one event loop run, through the  *)
(* Process facade, and the fake that answers them in tests.  A process is      *)
(* configured first, and run later.  start() is InvokedProcess's concern.      *)
EXTENDS Integers, Sequences, FiniteSets

CONSTANTS Tasks,
          Commands, Wildcard,    \* Wildcard is the pattern "*"
          Scripts,          \* what a fake may answer: functions of commands and Wildcard to results
          Settings,         \* [quiet, tty, timeout], all of BOOLEAN
          Outcomes,         \* what a child may come to: [out, code]
          MaxFakes, MaxRuns \* bounds; a run that had a child counts twice when it is over

VARIABLES fake,     \* Process._fake: the latest, or 0
          scripts,  \* the script of each fake made
          recorded, \* the commands each fake recorded, with its answers
          pending,  \* the process each task has configured, None before
          call,     \* where a task is in run(), and with which child
          children, \* "running", "exited" or "reaped", with what it came to
          log       \* what each call that is over came to

runVars == <<fake, scripts, recorded, pending, call, children, log>>

None   == <<>>
Silent == [out |-> FALSE, code |-> 0]
Results == [out : BOOLEAN, code : Int]
\* What the settings, the fakes and the commands are.
PendingProcessAssumption ==
    /\ Settings \subseteq [quiet : BOOLEAN, tty : BOOLEAN, timeout : BOOLEAN] /\ Outcomes \subseteq Results
    /\ \A script \in Scripts : \A c \in DOMAIN script : script[c] \in Results
Result(how, result) == [how |-> how, out |-> result.out, code |-> result.code]
Idle(t) == call[t].at = "idle"
Logs(t, command, child, result) ==
    log' = Append(log, [pending |-> pending[t], command |-> command, child |-> child, result |-> result])

RunsInit ==
    /\ fake = 0 /\ scripts = <<>> /\ recorded = <<>> /\ children = <<>> /\ log = <<>>
    /\ pending = [t \in Tasks |-> None]
    /\ call = [t \in Tasks |-> [at |-> "idle", command |-> None, child |-> 0]]
-------------------------------------------------------------------------------
\* Process.fake() and reset_fake().
Fake(script) ==
    /\ Len(scripts) < MaxFakes /\ scripts' = Append(scripts, script) /\ recorded' = Append(recorded, <<>>)
    /\ fake' = Len(scripts) + 1
    /\ UNCHANGED <<pending, call, children, log>>
ResetFake == fake # 0 /\ fake' = 0 /\ UNCHANGED <<scripts, recorded, pending, call, children, log>>

\* The fluent configuration: the fake in force is the one it keeps.
Pending(setting) == [fake |-> fake, quiet |-> setting.quiet, tty |-> setting.tty, timeout |-> setting.timeout]
Configure(t, setting) ==
    /\ Idle(t) /\ pending' = [pending EXCEPT ![t] = Pending(setting)]
    /\ UNCHANGED <<fake, scripts, recorded, call, children, log>>

\* ProcessFake._resolve(): the command, else "*", else success.
Resolve(script, command) ==
    IF command \in DOMAIN script THEN script[command]
    ELSE IF Wildcard \in DOMAIN script THEN script[Wildcard] ELSE Silent

\* Bug: the fake in force is asked.
HandleLatest(t, command) ==
    LET result == Resolve(scripts[fake], command) IN
    /\ recorded' = [recorded EXCEPT ![fake] = Append(@, [command |-> command, result |-> result])]
    /\ Logs(t, command, 0, Result("faked", result))
Handle(t, command) ==
    LET result == Resolve(scripts[pending[t].fake], command) IN
    /\ recorded' = [recorded EXCEPT ![pending[t].fake] = Append(@, [command |-> command, result |-> result])]
    /\ Logs(t, command, 0, Result("faked", result))

MayRun(t) == Idle(t) /\ pending[t] # None /\ Len(log) + Len(children) < MaxRuns /\ UNCHANGED <<fake, scripts, pending>>
IsFaked(t) == pending[t].fake # 0
\* What a run returns: a quiet one and one on the terminal have no output.
Output(t, result) == [result EXCEPT !.out = @ /\ ~pending[t].quiet /\ ~pending[t].tty]

\* Answered by the fake: run(), run_sync() and the pipelines.
Faked(t, command) == MayRun(t) /\ IsFaked(t) /\ Handle(t, command) /\ UNCHANGED <<call, children>>
\* start(): there is no fake for it.
Unsupported(t, command) ==
    /\ MayRun(t) /\ IsFaked(t) /\ Logs(t, command, 0, Result("unsupported", Silent))
    /\ UNCHANGED <<recorded, call, children>>

\* subprocess.run() waits for the child and kills it at the timeout: run_sync(),
\* and run() on the terminal.  Where nothing is captured its own exception comes.
Blocks(t, command, expired) ==
    \E result \in Outcomes, late \in {FALSE, pending[t].timeout} :
        /\ children' = Append(children, [at |-> "reaped", result |-> result])
        /\ Logs(t, command, Len(children) + 1,
                IF late THEN Result(expired, Silent) ELSE Result("ran", Output(t, result)))
        /\ UNCHANGED <<recorded, call>>
RunOnTerminal(t, command) == MayRun(t) /\ ~IsFaked(t) /\ pending[t].tty /\ Blocks(t, command, "expired")
RunSync(t, command) ==
    /\ MayRun(t) /\ ~IsFaked(t)
    /\ Blocks(t, command, IF pending[t].tty \/ pending[t].quiet THEN "expired" ELSE "timed_out")

\* run() awaits the output of its child.
Run(t, command) ==
    /\ MayRun(t) /\ ~IsFaked(t) /\ ~pending[t].tty
    /\ \E result \in Outcomes : children' = Append(children, [at |-> "running", result |-> result])
    /\ call' = [call EXCEPT ![t] = [at |-> "awaiting", command |-> command, child |-> Len(children) + 1]]
    /\ UNCHANGED <<recorded, log>>
Comes(t, child, result) ==
    /\ children' = [children EXCEPT ![call[t].child].at = child]
    /\ call' = [call EXCEPT ![t] = [at |-> "idle", command |-> None, child |-> 0]]
    /\ Logs(t, call[t].command, call[t].child, result)
    /\ UNCHANGED <<fake, scripts, recorded, pending>>
Communicated(t) ==
    LET child == children[call[t].child] IN
    /\ call[t].at = "awaiting" /\ child.at = "exited" /\ Comes(t, "reaped", Result("ran", Output(t, child.result)))
\* Bug: the child is left to itself.
TimesOutOnly(t) ==
    call[t].at = "awaiting" /\ pending[t].timeout /\ Comes(t, children[call[t].child].at, Result("timed_out", Silent))
\* The child is killed and waited for.
TimesOut(t) ==
    call[t].at = "awaiting" /\ pending[t].timeout /\ Comes(t, "reaped", Result("timed_out", Silent))
\* A task that is cancelled leaves its child as it is.
Cancelled(t) ==
    call[t].at = "awaiting" /\ Comes(t, children[call[t].child].at, Result("cancelled", Silent))

Exits ==
    /\ \E c \in 1 .. Len(children) :
           children[c].at = "running" /\ children' = [children EXCEPT ![c].at = "exited"]
    /\ UNCHANGED <<fake, scripts, recorded, pending, call, log>>

RunsNext ==
    \/ \E script \in Scripts : Fake(script)
    \/ ResetFake \/ Exits
    \/ \E t \in Tasks :
        \/ \E setting \in Settings : Configure(t, setting)
        \/ \E command \in Commands :
            \/ Faked(t, command) \/ Unsupported(t, command)
            \/ Run(t, command) \/ RunOnTerminal(t, command) \/ RunSync(t, command)
        \/ Communicated(t) \/ TimesOut(t) \/ Cancelled(t)
RunsSpec == RunsInit /\ [][RunsNext]_runVars
-------------------------------------------------------------------------------
FakedBy(f, i) == {j \in 1 .. i : log[j].result.how = "faked" /\ log[j].pending.fake = f}
\* Whatever is faked or reset while tasks run their commands, a process that was
\* configured under a fake starts no child and is recorded by that fake, once and
\* in order, with what its caller got (process.py 254-271, 355-358); any other has
\* a child of its own, which is gone when the call is over unless it was cancelled.
RunAsConfigured ==
    /\ \A f \in 1 .. Len(scripts) :
           /\ Len(recorded[f]) = Cardinality(FakedBy(f, Len(log)))
           /\ \A i \in FakedBy(f, Len(log)) :
                  recorded[f][Cardinality(FakedBy(f, i))] =
                      [command |-> log[i].command, result |-> [out |-> log[i].result.out, code |-> log[i].result.code]]
    /\ \A i \in 1 .. Len(log) :
           /\ (log[i].child = 0) = (log[i].pending.fake # 0)
           /\ log[i].child # 0 /\ log[i].result.how # "cancelled" => children[log[i].child].at = "reaped"
           /\ \A j \in 1 .. i - 1 : log[i].child # 0 => log[j].child # log[i].child
===============================================================================
