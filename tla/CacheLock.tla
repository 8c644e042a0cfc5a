------------------------------ MODULE CacheLock ------------------------------
(***************************************************************************)
(* cache/lock.py and the locks of the four stores, for one lock name and   *)
(* tasks that each use a Lock object of their own.  An acquire or release  *)
(* that leaves the event loop is sent, performed by the store, and         *)
(* answered; a task that is cancelled or crashes leaves it under way.      *)
(*                                                                         *)
(* file and redis decide in one atomic operation of the store; array       *)
(* decides without an await; database sends an INSERT and, if the row is   *)
(* there, an UPDATE that reads the clock of the client.                    *)
(***************************************************************************)
EXTENDS Integers

CONSTANTS
    Tasks,      \* each with its Lock object and the owner token in it
    Driver,     \* "array", "file", "redis" or "database"
    Ttl,        \* seconds of the lock, in ticks; 0 never expires
    Wait,       \* the argument of block()
    Sleep,      \* Lock.sleep
    Second,     \* ticks in a second, the unit of the expiration column
    Aborts,     \* may a task be cancelled in an await, or its process crash?
    MaxClock    \* bound of the clock

ASSUME CacheLockAssumption ==
    /\ Driver \in {"array", "file", "redis", "database"}
    /\ Ttl \in Nat /\ Wait \in Nat /\ Sleep \in Nat \ {0} /\ Second \in Nat \ {0}
    /\ Aborts \in BOOLEAN /\ MaxClock \in Nat
    /\ "nobody" \notin Tasks

Never == 0
NoEntry == [owner |-> "nobody", until |-> Never]
NoClaim == -1
NoJob == [runs |-> FALSE, deadline |-> 0, wake |-> 0]
Nothing == [name |-> "nothing", owner |-> "nobody", since |-> 0, until |-> 0, now |-> 0, won |-> FALSE]

VARIABLES
    clock,
    entry,      \* what the store holds for the name, expired or not
    pc, job,    \* where a task is, and its arguments: callback?, deadline, wake-up
    op,         \* a task's operation on the store: under way or "answered"
    claim       \* history: when the attempt an owner won began

vars == <<clock, entry, pc, job, op, claim>>

Store == {"take", "insert", "conflict", "update", "release", "force"}
PC == {"idle", "acquire", "sleep", "run", "held", "release", "gone"}

TypeOK ==
    /\ clock \in Nat
    /\ entry \in [owner : Tasks \cup {"nobody"}, until : Nat]
    /\ pc \in [Tasks -> PC]
    /\ job \in [Tasks -> [runs : BOOLEAN, deadline : Nat, wake : Nat]]
    /\ op \in [Tasks -> [name : Store \cup {"nothing", "answered"}, owner : Tasks \cup {"nobody"},
                         since : Nat, until : Nat, now : Nat, won : BOOLEAN]]
    /\ claim \in [Tasks -> Nat \cup {NoClaim}]

Init ==
    /\ clock = 1
    /\ entry = NoEntry
    /\ pc = [p \in Tasks |-> "idle"]
    /\ job = [p \in Tasks |-> NoJob]
    /\ op = [p \in Tasks |-> Nothing]
    /\ claim = [p \in Tasks |-> NoClaim]
-----------------------------------------------------------------------------
RoundUp(t) == ((t + Second - 1) \div Second) * Second
Expired(until, now) == until # Never /\ until <= now
Live(e) == e # NoEntry /\ ~Expired(e.until, clock)

\* Bug: the seconds are subtracted.
ExpiresAgo(t) == IF Ttl = 0 THEN Never ELSE t - Ttl
\* expires_at(ttl); the database's column holds whole seconds.
ExpiresAt(t) == IF Ttl = 0 THEN Never ELSE IF Driver = "database" THEN RoundUp(t + Ttl) ELSE t + Ttl

Go(p, where) == pc' = [pc EXCEPT ![p] = where]
Send(p, o) == op' = [op EXCEPT ![p] = o]
Answer(p, won) == op' = [op EXCEPT ![p] = [Nothing EXCEPT !.name = "answered", !.won = won]]
Claim(p, since) == claim' = [claim EXCEPT ![p] = IF pc[p] = "gone" THEN @ ELSE since]
Disclaim(o) == claim' = [claim EXCEPT ![o] = NoClaim]

\* Bug: block() does not look at its deadline.
ProceedForever(p, won, j) ==
    /\ Go(p, CASE won /\ j.runs -> "run" [] won /\ ~j.runs -> "held" [] OTHER -> "sleep")
    /\ job' = [job EXCEPT ![p] = [j EXCEPT !.wake = IF won THEN 0 ELSE clock + Sleep]]
\* What get(), block() and async with do with the answer of acquire(): a get()
\* is a block() whose deadline has passed.
Proceed(p, won, j) ==
    /\ Go(p, CASE won /\ j.runs -> "run"
               [] won /\ ~j.runs -> "held"
               [] ~won /\ clock < j.deadline -> "sleep"
               [] OTHER -> "idle")
    /\ job' = [job EXCEPT ![p] = [j EXCEPT !.wake = IF ~won /\ clock < j.deadline THEN clock + Sleep ELSE 0]]

\* ArrayLock.acquire(): no await between the look and the write.
AcquireAtOnce(p, j) ==
    /\ IF Live(entry) THEN UNCHANGED <<entry, claim>>
       ELSE entry' = [owner |-> p, until |-> ExpiresAt(clock)] /\ claim' = [claim EXCEPT ![p] = clock]
    /\ Proceed(p, ~Live(entry), j)
    /\ UNCHANGED op

\* The other locks: the expiration of a row is computed before it is sent.
AcquireByStore(p, j) ==
    /\ Send(p, [Nothing EXCEPT !.name = IF Driver = "database" THEN "insert" ELSE "take",
                               !.owner = p, !.since = clock, !.until = ExpiresAt(clock)])
    /\ Go(p, "acquire")
    /\ job' = [job EXCEPT ![p] = j]
    /\ UNCHANGED <<entry, claim>>

Acquire(p, j) == (IF Driver = "array" THEN AcquireAtOnce(p, j) ELSE AcquireByStore(p, j)) /\ UNCHANGED clock

Get(p) == pc[p] = "idle" /\ \E runs \in BOOLEAN : Acquire(p, [NoJob EXCEPT !.runs = runs])
Block(p) == pc[p] = "idle" /\ clock + Wait <= MaxClock /\ \E runs \in BOOLEAN :
                Acquire(p, [NoJob EXCEPT !.runs = runs, !.deadline = clock + Wait])
Wake(p) == pc[p] = "sleep" /\ (clock >= job[p].wake \/ clock = MaxClock) /\ Acquire(p, job[p])

Granted(p, won, until) ==
    /\ IF won THEN entry' = [owner |-> p, until |-> until] /\ Claim(p, op[p].since)
              ELSE UNCHANGED <<entry, claim>>
    /\ Answer(p, won)
    /\ UNCHANGED <<clock, pc, job>>

\* FileLock.exclusive() under flock, or SET NX PX: the store's own clock.
Take(p) == op[p].name = "take" /\ Granted(p, ~Live(entry), ExpiresAt(clock))

\* The INSERT of DatabaseLock.acquire(); a conflict leaves the row as it is.
Insert(p) ==
    /\ op[p].name = "insert"
    /\ IF entry = NoEntry THEN Granted(p, TRUE, op[p].until)
       ELSE /\ Send(p, [op[p] EXCEPT !.name = "conflict"])
            /\ UNCHANGED <<clock, entry, pc, job, claim>>

\* IntegrityError: the UPDATE is sent with the time of day at this moment.
Retry(p) ==
    /\ pc[p] = "acquire" /\ op[p].name = "conflict"
    /\ Send(p, [op[p] EXCEPT !.name = "update", !.now = clock])
    /\ UNCHANGED <<clock, entry, pc, job, claim>>

\* Bug: the row is taken over whether it has expired or not.
UpdateAny(p) == op[p].name = "update" /\ Granted(p, entry # NoEntry, op[p].until)
Update(p) == /\ op[p].name = "update"
             /\ Granted(p, entry # NoEntry /\ Expired(entry.until, op[p].now), op[p].until)

\* The answer of acquire() or release() reaches the task.
Resume(p) ==
    /\ op[p].name = "answered" /\ pc[p] \in {"acquire", "release"}
    /\ IF pc[p] = "acquire" THEN Proceed(p, op[p].won, job[p])
                            ELSE Go(p, "idle") /\ job' = [job EXCEPT ![p] = NoJob]
    /\ Send(p, Nothing)
    /\ UNCHANGED <<clock, entry, claim>>
-----------------------------------------------------------------------------
\* Bug: the owner of the entry is not compared.
MatchesAny(o, now) == entry # NoEntry /\ ~Expired(entry.until, now)
Matches(o, now) == entry.owner = o /\ ~Expired(entry.until, now)

\* p asks the store to delete the lock of o, or whoever's when forced.
AskRelease(p, name, o) ==
    /\ Go(p, IF Driver = "array" THEN "idle" ELSE "release")
    /\ IF Driver = "array"
       THEN UNCHANGED op /\ entry' = IF name = "force" \/ Matches(o, clock) THEN NoEntry ELSE entry
       ELSE Send(p, [Nothing EXCEPT !.name = name, !.owner = o, !.now = clock]) /\ UNCHANGED entry
    /\ job' = [job EXCEPT ![p] = NoJob]
    /\ UNCHANGED clock

\* Bug: a callback that raises leaves the lock.
EndRunRaises(p) == /\ pc[p] = "run"
                   /\ Go(p, "idle") /\ Disclaim(p) /\ UNCHANGED <<clock, entry, job, op>>
\* The callback or the block returns, raises or is cancelled: `finally`.
EndRun(p) == pc[p] = "run" /\ AskRelease(p, "release", p) /\ Disclaim(p)

ReleaseHeld(p) == pc[p] = "held" /\ AskRelease(p, "release", p) /\ Disclaim(p)

\* The task ends with the lock; another one restores it by its owner.
HandOver(p) == pc[p] = "held" /\ Go(p, "gone") /\ UNCHANGED <<clock, entry, job, op, claim>>
ReleaseRestored(p) == /\ pc[p] = "idle"
                      /\ \E o \in Tasks : pc[o] = "gone" /\ AskRelease(p, "release", o) /\ Disclaim(o)

\* force_release(); the flush of a database store deletes the row as well.
ForceRelease(p) ==
    /\ pc[p] = "idle"
    /\ AskRelease(p, "force", "nobody")
    /\ claim' = IF Driver = "array" THEN [o \in Tasks |-> NoClaim] ELSE claim

\* release(): the DELETE of the database compares with the client's time.
Delete(p) ==
    /\ op[p].name = "release"
    /\ LET held == Matches(op[p].owner, IF Driver = "database" THEN op[p].now ELSE clock)
       IN entry' = (IF held THEN NoEntry ELSE entry) /\ Answer(p, held)
    /\ UNCHANGED <<clock, pc, job, claim>>

DeleteForced(p) ==
    /\ op[p].name = "force"
    /\ entry' = NoEntry
    /\ claim' = [o \in Tasks |-> NoClaim]
    /\ Answer(p, TRUE)
    /\ UNCHANGED <<clock, pc, job>>
-----------------------------------------------------------------------------
\* A task is cancelled at an await, or its process crashes.  What it sent is
\* may still be performed: to_thread() does not stop, a statement has arrived.
Abort(p) ==
    /\ Aborts
    /\ pc[p] \in IF Driver = "array" THEN {"sleep"} ELSE PC \ {"gone"}
    /\ Go(p, "gone") /\ Disclaim(p)
    /\ UNCHANGED <<clock, entry, job, op>>

Tick == clock < MaxClock /\ clock' = clock + 1 /\ UNCHANGED <<entry, pc, job, op, claim>>

Serve(p) == Take(p) \/ Insert(p) \/ Update(p) \/ Delete(p) \/ DeleteForced(p)
Ask(p) == Get(p) \/ Block(p) \/ ReleaseRestored(p) \/ ForceRelease(p)
Keep(p) == ReleaseHeld(p) \/ HandOver(p)
Continue(p) == Wake(p) \/ Retry(p) \/ Resume(p) \/ EndRun(p)

Next == Tick \/ \E p \in Tasks : Serve(p) \/ Ask(p) \/ Keep(p) \/ Continue(p) \/ Abort(p)

Spec == Init /\ [][Next]_vars

\* The store answers, the event loop resumes and wakes tasks, a callback ends
\* and time goes on.
Fairness == WF_vars(Tick) /\ \A p \in Tasks : WF_vars(pc[p] # "gone" /\ Serve(p)) /\ WF_vars(Continue(p))
FairSpec == Spec /\ Fairness
-----------------------------------------------------------------------------
(* The lock of any store is a lease: granted to one owner at a time, for its *)
(* seconds, and taken from nobody who still acts on it.                      *)
Promise == INSTANCE Lease WITH Owners <- Tasks, lease <- IF Live(entry) THEN entry ELSE NoEntry
ImplementsLease == Promise!Spec

(* No two owners act on the lock at once, whatever was cancelled, delayed    *)
(* past its expiration or released late.                                     *)
Exclusive == \A o, u \in Tasks : Promise!Holds(o) /\ Promise!Holds(u) => o = u

(* get(), block() and async with give the lock back: a lock that is still    *)
(* valid belongs to a task that runs, holds, asks, releases, or was aborted. *)
NoLeak == Live(entry) => pc[entry.owner] \notin {"idle", "sleep"}

(* block() never waits for ever: it gets the lock or raises, even if the     *)
(* holder crashed with a lock that does not expire.                          *)
BlockEnds == \A p \in Tasks :
    pc[p] \in {"acquire", "sleep"} ~> pc[p] \notin {"acquire", "sleep"}

(* What a callback held is given back once it ended, on every path, unless   *)
(* the task itself is cancelled before the release is sent.                  *)
RunReleases == \A p \in Tasks :
    pc[p] = "run" ~> pc[p] = "gone" \/ ~(Live(entry) /\ entry.owner = p)

(* Neither an asker waits for ever nor does an ended callback keep its lock  *)
(* (cache/lock.py 36-65).                                                    *)
LocksEnd == BlockEnds /\ RunReleases
=============================================================================
