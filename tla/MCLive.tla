-------------------------------- MODULE MCLive --------------------------------
(* What must come to an end, side by side: a process that is waited for, a     *)
(* lock that never expires, a turn of an agent.  A behaviour is one of the part *)
(* chosen at its start, with the fairness of that part.                         *)
EXTENDS InvokedProcess
CONSTANTS t1, t2
VARIABLE part

(* InvokedProcess *)
Plain == [size |-> 1, input |-> 0, filter |-> FALSE, lines |-> 2, timeout |-> FALSE,
          raises |-> FALSE, leaves |-> FALSE, works |-> FALSE]

\* start() with input for a child that may ignore it, a timeout, and a callback
\* that may raise.
Waited == [Plain EXCEPT !.input = 3, !.timeout = TRUE, !.raises = TRUE]
\* More lines than both pipes hold, and nobody need wait.
Watched == [Plain EXCEPT !.lines = 5, !.works = TRUE]
\* A filter whose input fits the two pipes and its own buffer.
Fits == [Plain EXCEPT !.input = 5, !.filter = TRUE, !.works = TRUE]
\* Two processes that may leave others behind, and two with a timeout.
Pool == [Plain EXCEPT !.size = 2, !.lines = 1, !.leaves = TRUE]
TimedPool == [Plain EXCEPT !.size = 2, !.lines = 0, !.timeout = TRUE]

Several == {Waited, Watched, Fits, Pool, TimedPool}
TooMuch == {[Fits EXCEPT !.input = 6]}

(* CacheLock, for each way in which a store decides. *)
VARIABLES clock, entry, pc, job, op, claim, driver
TwoTasks == {t1, t2}
L == INSTANCE MCCacheLock WITH Tasks <- TwoTasks, Driver <- "database", Ttl <- 0, Wait <- 2, Sleep <- 1,
                               Second <- 2, Aborts <- TRUE, MaxClock <- 2
locks == <<clock, entry, pc, job, op, claim, driver>>
LocksEnd == L!LocksEnd

(* AgentPipeline: three middlewares. *)
VARIABLES kind, mode, sent, phase, at, merged, hooks
A == INSTANCE AgentPipeline WITH Layers <- 3, Chunks <- 2
turn == <<kind, mode, sent, phase, at, merged, hooks>>
HooksRunOnce == A!HooksRunOnce
-------------------------------------------------------------------------------
InitEach ==
    /\ part \in {"process", "locks", "pipeline"}
    /\ Init /\ (part # "process" => use = Fits)
    /\ L!InitAny /\ (part # "locks" => driver = "array")
    /\ A!Init /\ (part # "pipeline" => mode = "await" /\ kind = [l \in 1 .. 3 |-> "pass"])
Process  == part = "process" /\ Next /\ UNCHANGED <<part, locks, turn>>
Lock     == part = "locks" /\ L!NextAny /\ UNCHANGED <<part, vars, turn>>
Pipeline == part = "pipeline" /\ A!Next /\ UNCHANGED <<part, vars, locks>>
NextEach == Process \/ Lock \/ Pipeline

\* The fairness of the three modules, for the part that was chosen.
Runs(p) == p \in Procs /\ part = "process" /\ UNCHANGED use
FairProcess ==
    /\ WF_vars(part = "process" /\ Calls /\ UNCHANGED use)
    /\ WF_vars(part = "process" /\ use.works /\ ChildReads /\ UNCHANGED use)
    /\ \A p \in 1 .. MaxSize :
         /\ WF_vars(Runs(p) /\ use.works /\ ChildWrites(p))
         /\ WF_vars(Runs(p) /\ use.works /\ ~HasOutput(p) /\ ChildExits(p))
         /\ \A k \in Kinds : WF_vars(Runs(p) /\ (Read(p, k) \/ ReaderEnds(p, k)))
FairLocks ==
    /\ WF_locks(part = "locks" /\ L!Tick /\ UNCHANGED driver)
    /\ \A p \in TwoTasks :
         /\ WF_locks(part = "locks" /\ pc[p] # "gone" /\ L!ServesAny(p) /\ UNCHANGED driver)
         /\ WF_locks(part = "locks" /\ L!ContinuesAny(p) /\ UNCHANGED driver)
FairPipeline ==
    /\ WF_turn(part = "pipeline" /\ (A!Chunk \/ A!Exhausted))
    /\ WF_turn(part = "pipeline" /\ (A!Ends \/ A!Unwinds))
    /\ WF_turn(part = "pipeline" /\ A!LoopCloses)
SpecEach == InitEach /\ [][NextEach]_<<part, vars, locks, turn>> /\ FairProcess /\ FairLocks /\ FairPipeline
===============================================================================
