---------------------------- MODULE ProcessProofs ----------------------------
(* Proofs about InvokedProcess, for pools and pipes of any size, any input   *)
(* and output, any timeout and any callback, and about PendingProcess, for   *)
(* any tasks, commands, fakes and outcomes.                                  *)
EXTENDS InvokedProcess, PendingProcess, FiniteSetTheorems, SequenceTheorems, TLAPS

States == {"none", "running", "exited", "reaped"}
Readers == {"none", "reading", "ended", "dead"}
Proc == [child : States, left : BOOLEAN, due : Kinds, overdue : BOOLEAN, timed_out : BOOLEAN]
Line == [made : Nat, got : Nat, reader : Readers]

ProcsOK == proc \in [Procs -> Proc]
StreamsOK ==
    /\ stream \in [Procs -> [Kinds -> Line]]
    /\ \A p \in Procs, k \in Kinds : stream[p][k].made - stream[p][k].got \in 0 .. Cap
CallerOK ==
    /\ use \in Uses
    /\ caller \in [at : {"start", "write", "held", "wait", "join", "done", "raised", "failed"}, p : Procs]
InputOK == stdin \in [sent : 0 .. use.input, unread : 0 .. Cap, owed : {0, 1}]

(* The type invariant in the parts that the proofs use.                      *)
LEMMA TypeParts ==
    /\ TypeOK <=> CallerOK /\ InputOK /\ ProcsOK /\ StreamsOK
    /\ TypeOK' <=> CallerOK' /\ InputOK' /\ ProcsOK' /\ StreamsOK'
BY DEF TypeOK, CallerOK, InputOK, ProcsOK, StreamsOK, Proc, Line, States, Readers

(* A process that was started has its readers; one whose wait() is over.     *)
Started(q) == proc[q].child # "none" /\ \A k \in Kinds : stream[q][k].reader # "none"
Waited(q) == proc[q].child = "reaped" /\ \A k \in Kinds : stream[q][k].reader # "reading"
Unread(q) == \A k \in Kinds : stream[q][k].reader = "none"

(* What the calling thread has done by the time it is where it is.           *)
Placed ==
    /\ IsAt("start") => \A q \in Procs : IF q < caller.p THEN Started(q) ELSE Unread(q)
    /\ caller.at \in {"write", "failed"} => use.size = 1 /\ Unread(1) /\ proc[1].child # "none"
    /\ caller.at \in {"held", "wait", "join", "done", "raised"} => \A q \in Procs : Started(q)
    /\ caller.at \in {"wait", "join"} => \A q \in Procs : q < caller.p => Waited(q)
    /\ caller.at \in {"join", "raised"} => proc[caller.p].child = "reaped"
    /\ IsAt("held") => caller.p = 1
    /\ IsAt("done") => \A q \in Procs : Waited(q)

(* A reader ends when it has read everything and nobody can write any more.  *)
Drain == \A p \in Procs, k \in Kinds :
    stream[p][k].reader = "ended" => stream[p][k].got = stream[p][k].made /\ ~Open(p)

Inv == TypeOK /\ Placed /\ Drain

(* There is a first process, and the caller is at one of them.               *)
LEMMA Sizes == ASSUME CallerOK PROVE use.size \in Nat \ {0} /\ Procs \subseteq Nat /\ 1 \in Procs /\ caller.p \in Procs
BY InvokedProcessAssumption DEF CallerOK, Procs, Use

(* Whatever happens to a process, nothing begins again.                      *)
Quiet == \A q \in Procs :
    /\ proc'[q].child = "none" <=> proc[q].child = "none"
    /\ proc[q].child = "reaped" => proc'[q].child = "reaped"
    /\ Open(q)' => Open(q)
    /\ \A k \in Kinds :
         /\ stream'[q][k].reader = "none" <=> stream[q][k].reader = "none"
         /\ stream'[q][k].reader = "reading" => stream[q][k].reader = "reading"
         /\ stream'[q][k].reader = "ended" =>
              \/ stream[q][k].reader = "ended" /\ stream'[q][k] = stream[q][k]
              \/ stream'[q][k].got = stream'[q][k].made /\ ~Open(q)'

-----------------------------------------------------------------------------
(* What the steps do to the state of the processes.                          *)
LEMMA ProcsMove ==
    ASSUME TypeOK, Placed, NEW p \in Procs, UNCHANGED use,
           \/ ChildExits(p) \/ LeftEnds(p) \/ Kill(p) \/ TimeoutPasses(p) \/ Ensure(p)
           \/ (WaitReturns /\ p = caller.p) \/ (WaitTimesOut /\ p = caller.p)
    PROVE  ProcsOK' /\ UNCHANGED <<stdin, stream>> /\ Quiet
<1>0. ProcsOK /\ CallerOK /\ Procs' = Procs /\ proc[p] \in Proc
  BY TypeParts DEF Procs, ProcsOK
<1>1. UNCHANGED <<stdin, stream>>
  BY DEF ChildExits, LeftEnds, Kill, TimeoutPasses, Ensure, WaitReturns, WaitTimesOut
<1>2. PICK r \in Proc :
        /\ proc' = [proc EXCEPT ![p] = r]
        /\ r.child = "none" <=> proc[p].child = "none"
        /\ proc[p].child = "reaped" => r.child = "reaped"
        /\ r.child = "running" \/ r.left => proc[p].child = "running" \/ proc[p].left
  <2>a. use.leaves \in BOOLEAN
    BY <1>0, InvokedProcessAssumption DEF CallerOK, Use
  <2>b. IsAt("held") \/ IsAt("wait") => proc[p].child # "none"
    BY DEF Placed, Started, IsAt
  <2>1. CASE ChildExits(p) \/ (Kill(p) /\ ~Finished(p))
    <3>1. PICK l \in BOOLEAN : proc' = [proc EXCEPT ![p].child = "exited", ![p].left = l]
      BY <2>a, <2>1 DEF ChildExits, Kill, Ends
    <3> DEFINE r == [proc[p] EXCEPT !.child = "exited", !.left = l]
    <3>2. proc[p].child = "running"
      BY <1>0, <2>1, <2>b DEF ChildExits, Kill, Running, Finished, Proc, States
    <3>3. r \in Proc /\ r.child = "exited" /\ proc' = [proc EXCEPT ![p] = r]
      BY <1>0, <3>1 DEF Proc, States, ProcsOK
    <3> QED BY <3>2, <3>3
  <2>2. CASE LeftEnds(p)
    <3> DEFINE r == [proc[p] EXCEPT !.left = FALSE]
    <3>1. r \in Proc /\ r.child = proc[p].child /\ r.left = FALSE /\ proc' = [proc EXCEPT ![p] = r]
      BY <1>0, <2>2 DEF LeftEnds, Proc, ProcsOK
    <3> QED BY <3>1
  <2>3. CASE (Kill(p) /\ Finished(p)) \/ (WaitReturns /\ p = caller.p)
    <3> DEFINE r == [proc[p] EXCEPT !.child = "reaped"]
    <3>1. r \in Proc /\ r.child = "reaped" /\ r.left = proc[p].left /\ proc' = [proc EXCEPT ![p] = r]
      BY <1>0, <2>3 DEF Kill, WaitReturns, Becomes, Proc, ProcsOK, States
    <3>2. proc[p].child # "none"
      BY <2>3 DEF Kill, WaitReturns, Finished
    <3> QED BY <3>1, <3>2
  <2>4. CASE TimeoutPasses(p)
    <3> DEFINE r == [proc[p] EXCEPT !.overdue = TRUE]
    <3>1. r \in Proc /\ r.child = proc[p].child /\ r.left = proc[p].left /\ proc' = [proc EXCEPT ![p] = r]
      BY <1>0, <2>4 DEF TimeoutPasses, Proc, ProcsOK
    <3> QED BY <3>1
  <2>5. CASE Ensure(p)
    <3>0. PICK leave \in BOOLEAN : proc' = [proc EXCEPT ![p].timed_out = TRUE,
             ![p].child = IF proc[p].timed_out THEN @ ELSE IF Finished(p) THEN "reaped" ELSE "exited",
             ![p].left = IF proc[p].timed_out \/ Finished(p) THEN @ ELSE leave]
      BY <2>a, <2>5 DEF Ensure
    <3> DEFINE s == IF proc[p].timed_out THEN proc[p].child ELSE IF Finished(p) THEN "reaped" ELSE "exited"
               l == IF proc[p].timed_out \/ Finished(p) THEN proc[p].left ELSE leave
               r == [proc[p] EXCEPT !.timed_out = TRUE, !.child = s, !.left = l]
    <3>1. proc' = [proc EXCEPT ![p] = r]
      <4>1. CASE proc[p].timed_out
        BY <1>0, <3>0, <4>1 DEF Proc, ProcsOK
      <4>2. CASE ~proc[p].timed_out /\ Finished(p)
        BY <1>0, <3>0, <4>2 DEF Proc, ProcsOK
      <4>3. CASE ~proc[p].timed_out /\ ~Finished(p)
        BY <1>0, <3>0, <4>3 DEF Proc, ProcsOK
      <4> QED BY <4>1, <4>2, <4>3
    <3>2. /\ s \in States /\ s # "none" /\ proc[p].child # "none" /\ (proc[p].child = "reaped" => s = "reaped")
          /\ s = "running" => proc[p].child = "running"
          /\ l \in BOOLEAN /\ (l => proc[p].child = "running" \/ proc[p].left)
      BY <1>0, <2>5, <2>b DEF Ensure, Finished, Proc, States
    <3> HIDE DEF s, l
    <3>3. r \in Proc /\ r.child = s /\ r.left = l
      BY <1>0, <3>2 DEF Proc
    <3> QED BY <3>1, <3>2, <3>3
  <2>6. CASE WaitTimesOut /\ p = caller.p
    <3>1. PICK l \in BOOLEAN :
            proc' = [proc EXCEPT ![p].child = "reaped", ![p].left = l, ![p].timed_out = TRUE]
      BY <2>a, <2>6 DEF WaitTimesOut
    <3> DEFINE r == [proc[p] EXCEPT !.child = "reaped", !.left = l, !.timed_out = TRUE]
    <3>2. proc[p].child = "running"
      BY <2>6 DEF WaitTimesOut, Running
    <3>3. r \in Proc /\ r.child = "reaped" /\ proc' = [proc EXCEPT ![p] = r]
      BY <1>0, <3>1 DEF Proc, States, ProcsOK
    <3> QED BY <3>2, <3>3
  <2> QED BY <2>1, <2>2, <2>3, <2>4, <2>5, <2>6
<1>3. \A q \in Procs : proc'[q] = IF q = p THEN r ELSE proc[q]
  BY <1>0, <1>2 DEF ProcsOK
<1>4. ProcsOK'
  BY <1>0, <1>2 DEF ProcsOK
<1>5. Quiet
  BY <1>1, <1>2, <1>3 DEF Quiet, Open, Running
<1> QED BY <1>1, <1>4, <1>5

(* What the steps do to the streams.                                         *)
LEMMA StreamsMove ==
    ASSUME TypeOK, Drain, NEW p \in Procs, NEW k \in Kinds, UNCHANGED use,
           ChildWrites(p) \/ Read(p, k) \/ ReaderEnds(p, k)
    PROVE  InputOK' /\ ProcsOK' /\ StreamsOK' /\ UNCHANGED caller /\ Quiet
<1>0. ProcsOK /\ StreamsOK /\ CallerOK /\ InputOK /\ Procs' = Procs /\ Cap \in Nat
  BY TypeParts, InvokedProcessAssumption DEF Procs
<1>1. CASE ChildWrites(p)
  <2> DEFINE j == IF use.filter THEN "stdout" ELSE proc[p].due
  <2>1. PICK next \in Kinds : proc' = [proc EXCEPT ![p].due = next]
    BY <1>1 DEF ChildWrites
  <2>2. ProcsOK' /\ \A q \in Procs : proc'[q].child = proc[q].child /\ proc'[q].left = proc[q].left
    BY <1>0, <2>1 DEF ProcsOK, Proc
  <2>3. InputOK' /\ UNCHANGED caller
    BY <1>0, <1>1 DEF ChildWrites, InputOK
  <2>4. /\ j \in Kinds /\ stream' = [stream EXCEPT ![p][j].made = @ + 1]
        /\ stream[p][j].made - stream[p][j].got < Cap /\ Open(p)
    BY <1>0, <1>1 DEF ChildWrites, ProcsOK, Proc, Kinds
  <2> HIDE DEF j
  <2> PICK n, g : n = stream[p][j].made /\ g = stream[p][j].got
    OBVIOUS
  <2>5. n \in Nat /\ g \in Nat /\ n - g \in 0 .. Cap
    BY <1>0, <2>4 DEF StreamsOK, Line
  <2>6. n + 1 \in Nat /\ (n + 1) - g \in 0 .. Cap
    BY <1>0, <2>4, <2>5
  <2>7. /\ stream' \in [Procs -> [Kinds -> Line]]
        /\ \A q \in Procs, i \in Kinds : q # p \/ i # j => stream'[q][i] = stream[q][i]
        /\ stream'[p][j].made = n + 1 /\ stream'[p][j].got = g /\ stream'[p][j].reader = stream[p][j].reader
    BY <1>0, <2>4, <2>6 DEF StreamsOK, Line
  <2>8. StreamsOK'
    BY <1>0, <2>6, <2>7 DEF StreamsOK
  <2>9. Quiet
    BY <2>2, <2>4, <2>7 DEF Quiet, Drain, Open, Running
  <2> QED BY <2>2, <2>3, <2>8, <2>9
<1>2. CASE Read(p, k)
  <2>1. UNCHANGED <<caller, stdin, proc>>
    BY <1>2 DEF Read
  <2> PICK then \in {"reading", "dead"} : stream' = [stream EXCEPT ![p][k].got = @ + 1, ![p][k].reader = then]
    BY <1>2 DEF Read
  <2> PICK n, g : n = stream[p][k].made /\ g = stream[p][k].got
    OBVIOUS
  <2>2. n \in Nat /\ g \in Nat /\ n - g \in 0 .. Cap /\ g < n /\ stream[p][k].reader = "reading"
    BY <1>0, <1>2 DEF StreamsOK, Line, Read
  <2>3. g + 1 \in Nat /\ n - (g + 1) \in 0 .. Cap
    BY <1>0, <2>2
  <2>4. /\ stream' \in [Procs -> [Kinds -> Line]]
        /\ \A q \in Procs, i \in Kinds : q # p \/ i # k => stream'[q][i] = stream[q][i]
        /\ stream'[p][k].made = n /\ stream'[p][k].got = g + 1 /\ stream'[p][k].reader = then
    <3> DEFINE l == [stream[p][k] EXCEPT !.got = g + 1, !.reader = then]
    <3>1. /\ l \in Line /\ l.made = n /\ l.got = g + 1 /\ l.reader = then
          /\ stream \in [Procs -> [Kinds -> Line]]
      BY <1>0, <2>3 DEF StreamsOK, Line, Readers
    <3>2. stream' = [stream EXCEPT ![p] = [stream[p] EXCEPT ![k] = l]]
      BY <3>1
    <3> HIDE DEF l
    <3> QED BY <3>1, <3>2
  <2>5. StreamsOK'
    BY <1>0, <2>3, <2>4 DEF StreamsOK
  <2>6. Quiet
    <3>1. \A q \in Procs : (Open(q)' <=> Open(q)) /\ proc'[q] = proc[q]
      BY <2>1 DEF Open, Running
    <3>2. \A q \in Procs, i \in Kinds : stream'[q][i] = stream[q][i] \/ (q = p /\ i = k)
      BY <2>4
    <3> QED BY <2>2, <2>4, <3>1, <3>2 DEF Quiet
  <2> QED BY <1>0, <2>1, <2>5, <2>6 DEF InputOK, ProcsOK
<1>3. CASE ReaderEnds(p, k)
  <2>1. UNCHANGED <<caller, stdin, proc>> /\ ~Open(p) /\ stream[p][k].reader = "reading"
        /\ stream[p][k].got = stream[p][k].made /\ stream' = [stream EXCEPT ![p][k].reader = "ended"]
    BY <1>3 DEF ReaderEnds
  <2>2. /\ stream' \in [Procs -> [Kinds -> Line]]
        /\ \A q \in Procs, i \in Kinds : q # p \/ i # k => stream'[q][i] = stream[q][i]
        /\ stream'[p][k].made = stream[p][k].made /\ stream'[p][k].got = stream[p][k].got
        /\ stream'[p][k].reader = "ended"
    BY <1>0, <2>1 DEF StreamsOK, Line, Readers
  <2>3. StreamsOK'
    BY <1>0, <2>2 DEF StreamsOK
  <2>4. Quiet
    BY <2>1, <2>2 DEF Quiet, Open, Running
  <2> QED BY <1>0, <2>1, <2>3, <2>4 DEF InputOK, ProcsOK
<1> QED BY <1>1, <1>2, <1>3

(* A step after which nothing has begun again keeps what is known.           *)
LEMMA QuietKeeps ==
    ASSUME CallerOK, Placed, Drain, Quiet, UNCHANGED use
    PROVE  /\ Drain'
           /\ UNCHANGED caller => Placed'
           /\ \A q \in Procs : /\ Started(q) => Started(q)'
                               /\ Waited(q) => Waited(q)'
                               /\ Unread(q) => Unread(q)'
<1>0. Procs' = Procs /\ caller.p \in Procs /\ (use.size = 1 => 1 \in Procs)
  BY Sizes DEF Procs
<1>1. Drain'
  BY <1>0 DEF Drain, Quiet
<1>2. \A q \in Procs : (Started(q) => Started(q)') /\ (Waited(q) => Waited(q)') /\ (Unread(q) => Unread(q)')
  BY DEF Quiet, Started, Waited, Unread
<1>3. \A q \in Procs : /\ proc[q].child = "reaped" => proc'[q].child = "reaped"
                       /\ proc[q].child # "none" => proc'[q].child # "none"
  BY DEF Quiet
<1>4. UNCHANGED caller => Placed'
  BY <1>0, <1>2, <1>3 DEF Placed, IsAt
<1> QED BY <1>1, <1>2, <1>4

(* The process is started, and after the last of them the caller has it.     *)
LEMMA InvokedKeeps ==
    ASSUME TypeOK, Placed, Drain, UNCHANGED use, NEW r \in Proc, r.child = "running" \/ r = proc[caller.p],
           r.child # "none", proc' = [proc EXCEPT ![caller.p] = r], Unread(caller.p), Invoked(caller.p),
           \A q \in Procs : IF q < caller.p THEN Started(q) ELSE Unread(q)
    PROVE  CallerOK' /\ ProcsOK' /\ StreamsOK' /\ Placed' /\ Drain'
<1>0. ProcsOK /\ StreamsOK /\ CallerOK /\ Procs' = Procs /\ use.size \in Nat \ {0} /\ Procs = 1 .. use.size
      /\ caller.p \in Procs
  BY TypeParts, Sizes DEF Procs
<1> PICK p \in Procs : p = caller.p
  BY <1>0
<1>1. ProcsOK' /\ proc'[p] = r /\ \A q \in Procs : q # p => proc'[q] = proc[q]
  BY <1>0 DEF ProcsOK
<1>2. /\ stream' \in [Procs -> [Kinds -> Line]]
      /\ \A q \in Procs : q # p => stream'[q] = stream[q]
      /\ \A k \in Kinds : /\ stream'[p][k].made = stream[p][k].made /\ stream'[p][k].got = stream[p][k].got
                          /\ stream'[p][k].reader = "reading"
  <2> DEFINE row == [k \in Kinds |-> [stream[p][k] EXCEPT !.reader = "reading"]]
  <2>1. stream' = [stream EXCEPT ![p] = row] /\ stream \in [Procs -> [Kinds -> Line]]
    BY <1>0 DEF Invoked, StreamsOK
  <2>2. /\ row \in [Kinds -> Line]
        /\ \A k \in Kinds : /\ row[k].made = stream[p][k].made /\ row[k].got = stream[p][k].got
                            /\ row[k].reader = "reading"
    BY <2>1 DEF Line, Readers
  <2> HIDE DEF row
  <2>3. stream' \in [Procs -> [Kinds -> Line]] /\ stream'[p] = row /\ \A q \in Procs : q # p => stream'[q] = stream[q]
    BY <2>1, <2>2
  <2> QED BY <2>2, <2>3
<1>3. StreamsOK'
  <2>1. \A q \in Procs, k \in Kinds : stream'[q][k].made = stream[q][k].made /\ stream'[q][k].got = stream[q][k].got
    BY <1>2
  <2> QED BY <1>0, <1>2, <2>1 DEF StreamsOK
<1>4. Started(p)' /\ \A q \in Procs : q # p => (Started(q) => Started(q)') /\ (Unread(q) => Unread(q)')
  BY <1>1, <1>2 DEF Started, Unread
<1>5. Drain'
  BY <1>0, <1>1, <1>2 DEF Drain, Open, Running
<1>6. CASE p = use.size
  <2>1. caller' = [at |-> "held", p |-> 1] /\ 1 \in Procs
    BY <1>0, <1>6 DEF Invoked
  <2>2. \A q \in Procs : Started(q)'
    BY <1>0, <1>4, <1>6
  <2> QED BY <1>0, <1>1, <1>3, <1>5, <2>1, <2>2 DEF CallerOK, Placed, IsAt
<1>7. CASE p # use.size
  <2>1. caller' = [at |-> "start", p |-> p + 1] /\ p + 1 \in Procs
    BY <1>0, <1>7 DEF Invoked
  <2>2. \A q \in Procs : IF q < p + 1 THEN Started(q)' ELSE Unread(q)'
    <3>1. \A q \in Procs : q < p + 1 <=> q < p \/ q = p
      BY <1>0
    <3> QED BY <1>4, <3>1
  <2> QED BY <1>0, <1>1, <1>3, <1>5, <2>1, <2>2 DEF CallerOK, Placed, IsAt
<1> QED BY <1>6, <1>7

(* Every step keeps the invariant.                                           *)
LEMMA InvStep == ASSUME Inv, [Next]_vars PROVE Inv'
<1>0. TypeOK /\ CallerOK /\ InputOK /\ ProcsOK /\ StreamsOK /\ Placed /\ Drain
  BY TypeParts DEF Inv
<1>s. use.size \in Nat \ {0} /\ Procs = 1 .. use.size /\ Procs \subseteq Nat /\ 1 \in Procs /\ caller.p \in Procs
      /\ use.input \in Nat /\ Cap \in Nat
  BY <1>0, Sizes, InvokedProcessAssumption DEF Procs, CallerOK, Use
<1> SUFFICES ASSUME UNCHANGED use, Step \/ UNCHANGED vars
             PROVE  CallerOK' /\ InputOK' /\ ProcsOK' /\ StreamsOK' /\ Placed' /\ Drain'
  BY TypeParts DEF Inv, Next, vars
<1>p. Procs' = Procs
  BY DEF Procs
<1>q. UNCHANGED <<proc, stream>> => ProcsOK' /\ StreamsOK' /\ Quiet
  BY <1>0, <1>p DEF ProcsOK, StreamsOK, Quiet, Open, Running
<1>r. UNCHANGED caller => CallerOK'
  BY <1>0, <1>p DEF CallerOK
<1>t. UNCHANGED stdin => InputOK'
  BY <1>0 DEF InputOK
<1>1. CASE Start
  <2> PICK p \in Procs : p = caller.p
    BY <1>s
  <2> DEFINE r == [proc[p] EXCEPT !.child = "running"]
  <2>1. /\ r \in Proc /\ r.child = "running" /\ proc' = [proc EXCEPT ![p] = r]
        /\ \A q \in Procs : IF q < p THEN Started(q) ELSE Unread(q)
    BY <1>0, <1>1 DEF Start, Becomes, ProcsOK, Proc, States, Placed
  <2> HIDE DEF r
  <2>2. Unread(p)
    BY <1>s, <2>1
  <2>3. CASE use.input = 0
    <3>1. Invoked(p) /\ UNCHANGED stdin
      BY <1>1, <2>3 DEF Start
    <3> QED BY <1>0, <1>t, <2>1, <2>2, <3>1, InvokedKeeps
  <2>4. CASE use.input # 0
    <3>1. use.size = 1 /\ p = 1 /\ Goes("write") /\ UNCHANGED <<stdin, stream>>
      BY <1>0, <1>1, <1>s, <2>4, InvokedProcessAssumption DEF Start, CallerOK, Use
    <3>2. caller' = [caller EXCEPT !.at = "write"] /\ CallerOK'
      BY <1>0, <1>p, <3>1 DEF Goes, CallerOK
    <3>3. ProcsOK' /\ proc'[1].child = "running" /\ Procs = {1}
      BY <1>0, <1>p, <1>s, <2>1, <3>1 DEF ProcsOK
    <3>4. StreamsOK' /\ Unread(1)'
      BY <1>0, <1>p, <2>2, <3>1 DEF StreamsOK, Unread
    <3>5. Drain'
      BY <1>p, <3>3, <3>4 DEF Drain, Unread
    <3>6. Placed'
      BY <3>1, <3>2, <3>3, <3>4, <1>0 DEF Placed, IsAt, CallerOK
    <3> QED BY <1>t, <3>1, <3>2, <3>3, <3>4, <3>5, <3>6
  <2> QED BY <2>3, <2>4
<1>2. CASE WriteInput \/ ChildReads
  <2>1. InputOK' /\ UNCHANGED <<caller, proc, stream>>
    <3> PICK n, u : n = stdin.sent /\ u = stdin.unread
      OBVIOUS
    <3>0. n \in 0 .. use.input /\ u \in 0 .. Cap
      BY <1>0 DEF InputOK
    <3>1. CASE WriteInput
      <4>1. n < use.input /\ u < Cap /\ stdin' = [stdin EXCEPT !.sent = n + 1, !.unread = u + 1]
        BY <3>1 DEF WriteInput
      <4>2. n + 1 \in 0 .. use.input /\ u + 1 \in 0 .. Cap
        BY <1>s, <3>0, <4>1
      <4> QED BY <1>0, <3>1, <4>1, <4>2 DEF WriteInput, InputOK
    <3>2. CASE ChildReads
      <4>1. u > 0 /\ \E o \in {0, 1} : stdin' = [stdin EXCEPT !.unread = u - 1, !.owed = o]
        BY <3>2 DEF ChildReads
      <4>2. u - 1 \in 0 .. Cap
        BY <1>s, <3>0, <4>1
      <4> QED BY <1>0, <3>2, <4>1, <4>2 DEF ChildReads, InputOK
    <3> QED BY <1>2, <3>1, <3>2
  <2> QED BY <1>0, <1>q, <1>r, <2>1, QuietKeeps
<1>3. CASE BrokenPipe
  <2>1. caller' = [caller EXCEPT !.at = "failed"] /\ UNCHANGED <<stdin, proc, stream>> /\ caller.at = "write"
    BY <1>3 DEF BrokenPipe, Goes, IsAt
  <2>2. CallerOK' /\ Drain'
    BY <1>0, <1>p, <1>q, <2>1, QuietKeeps DEF CallerOK
  <2>3. Placed'
    BY <1>0, <2>1 DEF Placed, IsAt, CallerOK, Unread
  <2> QED BY <1>q, <1>t, <2>1, <2>2, <2>3
<1>4. CASE CloseInput
  <2>1. use.size = 1 /\ Unread(1) /\ proc[1].child # "none" /\ Invoked(1) /\ UNCHANGED <<stdin, proc>>
    BY <1>0, <1>4 DEF CloseInput, IsAt, Placed
  <2>2. caller.p = 1 /\ Procs = {1} /\ proc[1] \in Proc /\ proc' = [proc EXCEPT ![1] = proc[1]]
    BY <1>0, <1>s, <2>1 DEF ProcsOK
  <2>3. \A q \in Procs : IF q < caller.p THEN Started(q) ELSE Unread(q)
    BY <2>1, <2>2
  <2> PICK r \in Proc : r = proc[1]
    BY <2>2
  <2>4. /\ r.child # "none" /\ r = proc[caller.p] /\ proc' = [proc EXCEPT ![caller.p] = r]
        /\ Unread(caller.p) /\ Invoked(caller.p)
    BY <2>1, <2>2
  <2> QED BY <1>0, <1>t, <2>1, <2>3, <2>4, InvokedKeeps
<1>5. CASE Wait
  <2>1. caller' = [caller EXCEPT !.at = "wait"] /\ UNCHANGED <<stdin, proc, stream>> /\ caller.at = "held"
    BY <1>5 DEF Wait, Goes, IsAt
  <2>2. CallerOK' /\ Drain' /\ \A q \in Procs : Started(q)'
    BY <1>0, <1>p, <1>q, <2>1, QuietKeeps DEF CallerOK, Placed
  <2>3. caller'.at = "wait" /\ caller'.p = 1 /\ \A q \in Procs : ~(q < 1)
    BY <1>0, <1>s, <2>1 DEF Placed, IsAt, CallerOK
  <2>4. Placed'
    BY <1>p, <2>2, <2>3 DEF Placed, IsAt
  <2> QED BY <1>q, <1>t, <2>1, <2>2, <2>4
<1>6. CASE WaitReturns \/ WaitTimesOut
  <2> PICK p \in Procs, where \in {"join", "raised"} : p = caller.p /\ caller' = [caller EXCEPT !.at = where]
    BY <1>6, <1>s DEF WaitReturns, WaitTimesOut, Goes
  <2>1. ProcsOK' /\ UNCHANGED <<stdin, stream>> /\ Quiet
    BY <1>0, <1>6, ProcsMove
  <2>2. caller.at = "wait" /\ proc'[p].child = "reaped"
    BY <1>0, <1>6 DEF WaitReturns, WaitTimesOut, IsAt, Becomes, ProcsOK, Proc
  <2>3. CallerOK' /\ caller'.at = where /\ caller'.p = p
    BY <1>0, <1>p DEF CallerOK
  <2>4. Drain' /\ (\A q \in Procs : Started(q)') /\ \A q \in Procs : q < p => Waited(q)'
    BY <1>0, <2>1, <2>2, QuietKeeps DEF Placed
  <2>5. Placed'
    BY <1>p, <2>2, <2>3, <2>4 DEF Placed, IsAt
  <2>6. StreamsOK'
    BY <1>0, <1>p, <2>1 DEF StreamsOK
  <2> QED BY <1>t, <2>1, <2>3, <2>4, <2>5, <2>6
<1>7. CASE Join
  <2> PICK p \in Procs : p = caller.p
    BY <1>s
  <2>1. UNCHANGED <<stdin, proc, stream>> /\ caller.at = "join" /\ Returned
        /\ \A k \in Kinds : stream[p][k].reader # "reading"
    BY <1>7 DEF Join, IsAt
  <2>2. Drain' /\ (\A q \in Procs : Started(q)') /\ \A q \in Procs : q <= p => Waited(q)'
    <3>1. Waited(p) /\ \A q \in Procs : Started(q) /\ (q < p => Waited(q))
      BY <1>0, <2>1 DEF Placed, Waited
    <3>2. \A q \in Procs : q <= p => q < p \/ q = p
      BY <1>s
    <3> QED BY <1>0, <1>q, <2>1, <3>1, <3>2, QuietKeeps
  <2>3. CASE p = use.size
    <3>1. caller' = [caller EXCEPT !.at = "done"] /\ CallerOK' /\ caller'.at = "done"
      BY <1>0, <1>p, <2>1, <2>3 DEF Returned, CallerOK
    <3>2. \A q \in Procs : q <= p
      BY <1>s, <2>3
    <3> QED BY <1>p, <1>q, <1>t, <2>1, <2>2, <3>1, <3>2 DEF Placed, IsAt
  <2>4. CASE p # use.size
    <3>1. caller' = [at |-> "wait", p |-> p + 1] /\ p + 1 \in Procs
      BY <1>s, <2>1, <2>4 DEF Returned
    <3>2. CallerOK' /\ \A q \in Procs : q < p + 1 => q <= p
      BY <1>0, <1>p, <1>s, <3>1 DEF CallerOK
    <3>3. Placed'
      BY <1>p, <2>2, <3>1, <3>2 DEF Placed, IsAt
    <3> QED BY <1>q, <1>t, <2>1, <2>2, <3>2, <3>3
  <2> QED BY <2>3, <2>4
<1>8. CASE \E p \in Procs : ChildWrites(p) \/ \E k \in Kinds : Read(p, k) \/ ReaderEnds(p, k)
  <2> PICK p \in Procs, k \in Kinds : ChildWrites(p) \/ Read(p, k) \/ ReaderEnds(p, k)
    BY <1>8 DEF Kinds
  <2> QED BY <1>0, <1>r, StreamsMove, QuietKeeps
<1>9. CASE \E p \in Procs : ChildExits(p) \/ LeftEnds(p) \/ Kill(p) \/ TimeoutPasses(p) \/ Ensure(p)
  <2> PICK p \in Procs : ChildExits(p) \/ LeftEnds(p) \/ Kill(p) \/ TimeoutPasses(p) \/ Ensure(p)
    BY <1>9
  <2>1. UNCHANGED caller
    BY DEF ChildExits, LeftEnds, Kill, TimeoutPasses, Ensure
  <2>2. ProcsOK' /\ UNCHANGED <<stdin, stream>> /\ Quiet
    BY <1>0, ProcsMove
  <2>3. StreamsOK'
    BY <1>0, <1>p, <2>2 DEF StreamsOK
  <2> QED BY <1>0, <1>r, <1>t, <2>1, <2>2, <2>3, QuietKeeps
<1>10. CASE UNCHANGED vars
  BY <1>0, <1>10, <1>q, <1>r, <1>t, QuietKeeps DEF vars
<1> QED BY <1>1, <1>2, <1>3, <1>4, <1>5, <1>6, <1>7, <1>8, <1>9, <1>10 DEF Step, Calls

(* Nothing was started at first.                                             *)
LEMMA InitInv == Init => Inv
<1> SUFFICES ASSUME Init PROVE Inv
  OBVIOUS
<1>1. CallerOK
  <2>1. use \in Uses /\ use.size \in Nat \ {0} /\ 1 \in Procs
    BY InvokedProcessAssumption DEF Init, Use, Procs
  <2> QED BY <2>1 DEF Init, CallerOK
<1>2. use.input \in Nat /\ Cap \in Nat
  BY <1>1, InvokedProcessAssumption DEF CallerOK, Use
<1>3. InputOK
  BY <1>2 DEF Init, InputOK
<1>4. ProcsOK /\ StreamsOK
  <2>1. ProcsOK
    BY DEF Init, ProcsOK, Proc, States
  <2>2. /\ stream \in [Procs -> [Kinds -> Line]]
        /\ \A q \in Procs, k \in Kinds : stream[q][k].made = 0 /\ stream[q][k].got = 0
    BY DEF Init, Line, Readers
  <2>3. 0 - 0 \in 0 .. Cap
    BY <1>2
  <2> QED BY <2>1, <2>2, <2>3 DEF StreamsOK
<1>5. \A q \in Procs, k \in Kinds : stream[q][k].reader = "none"
  BY DEF Init
<1>6. \A q \in Procs : ~(q < 1)
  BY <1>1, Sizes DEF Procs
<1>7. Placed /\ Drain
  BY <1>5, <1>6 DEF Init, Placed, Drain, IsAt, Unread
<1> QED BY <1>1, <1>3, <1>4, <1>7, TypeParts DEF Inv

(* Every reachable state is type correct: in particular a pipe never holds   *)
(* more than its capacity, and no reader is ahead of its child.              *)
THEOREM TypeCorrect == Spec => []TypeOK
<1>1. Inv /\ [Next]_vars => Inv'
  BY InvStep
<1>2. Inv => TypeOK
  BY DEF Inv
<1> QED BY InitInv, <1>1, <1>2, PTL DEF Spec

(* For pools and pipes of any size, whatever the children write, leave       *)
(* behind or ignore, and whoever kills them: once wait() has ended, every    *)
(* process has been waited for and none of its output is missing.            *)
THEOREM NothingMissing == Spec => []WaitIsComplete
<1>1. Inv => WaitIsComplete
  <2> SUFFICES ASSUME Inv PROVE CompleteOutput /\ WaitsForAll
    BY DEF WaitIsComplete
  <2>0. CallerOK /\ StreamsOK /\ Placed /\ Drain
    BY TypeParts DEF Inv
  <2>1. CompleteOutput
    <3> SUFFICES ASSUME IsAt("done"), NEW p \in Procs, NEW k \in Kinds, stream[p][k].reader # "dead"
                 PROVE  stream[p][k].got = stream[p][k].made
      BY DEF CompleteOutput
    <3>1. stream[p][k].reader \notin {"none", "reading", "dead"} /\ stream[p][k].reader \in Readers
      BY <2>0 DEF Placed, Started, Waited, StreamsOK, Line, IsAt
    <3> QED BY <2>0, <3>1 DEF Readers, Drain
  <2>2. WaitsForAll
    <3>1. IsAt("done") => \A p \in Procs : proc[p].child = "reaped"
      BY <2>0 DEF Placed, Waited
    <3>2. use.size = 1 => Procs = {1} /\ caller.p = 1
      BY <2>0, Sizes DEF Procs
    <3>3. IsAt("raised") /\ use.size = 1 => \A p \in Procs : proc[p].child = "reaped"
      BY <2>0, <3>2 DEF Placed, IsAt
    <3> QED BY <3>1, <3>3 DEF WaitsForAll
  <2> QED BY <2>1, <2>2
<1>2. Inv /\ [Next]_vars => Inv'
  BY InvStep
<1> QED BY InitInv, <1>1, <1>2, PTL DEF Spec

-----------------------------------------------------------------------------
(* PendingProcess                                                            *)
Process == [fake : Nat, quiet : BOOLEAN, tty : BOOLEAN, timeout : BOOLEAN]
Child   == [at : {"running", "exited", "reaped"}, result : Results]
Hows    == {"faked", "unsupported", "ran", "expired", "timed_out", "cancelled"}
Answer  == [how : Hows, out : BOOLEAN, code : Int]
Over    == [pending : Process, command : Commands, child : Nat, result : Answer]
Record  == [command : Commands, result : Results]

PendingType ==
    /\ scripts \in Seq(Scripts) /\ fake \in 0 .. Len(scripts)
    /\ recorded \in Seq(Seq(Record)) /\ Len(recorded) = Len(scripts)
    /\ DOMAIN pending = Tasks
    /\ \A t \in Tasks : pending[t] # None => pending[t] \in Process /\ pending[t].fake \in 0 .. Len(scripts)
    /\ DOMAIN call = Tasks /\ children \in Seq(Child) /\ log \in Seq(Over)

(* A task that awaits a child has one of its own, of which nobody was told.    *)
Awaiting(t) == call[t].at = "awaiting"
Awaits ==
    /\ \A t \in Tasks : Awaiting(t) =>
         /\ pending[t] # None /\ pending[t].fake = 0 /\ call[t].command \in Commands
         /\ call[t].child \in 1 .. Len(children)
         /\ \A i \in 1 .. Len(log) : log[i].child # call[t].child
    /\ \A t, u \in Tasks : Awaiting(t) /\ Awaiting(u) /\ call[t].child = call[u].child => t = u

(* A call that is over was faked, or had a child that is gone.                 *)
Settled(i) ==
    /\ log[i].child \in 0 .. Len(children) /\ log[i].pending.fake \in 0 .. Len(scripts)
    /\ (log[i].child = 0) = (log[i].pending.fake # 0)
    /\ log[i].child # 0 /\ log[i].result.how # "cancelled" => children[log[i].child].at = "reaped"
    /\ \A j \in 1 .. i - 1 : log[i].child # 0 => log[j].child # log[i].child

(* What a fake has recorded are the calls it has answered, in their order.     *)
Recorded(f) ==
    /\ Len(recorded[f]) = Cardinality(FakedBy(f, Len(log)))
    /\ \A i \in FakedBy(f, Len(log)) :
         recorded[f][Cardinality(FakedBy(f, i))] =
             [command |-> log[i].command, result |-> [out |-> log[i].result.out, code |-> log[i].result.code]]

PendingInv ==
    /\ PendingType /\ Awaits
    /\ \A i \in 1 .. Len(log) : Settled(i)
    /\ \A f \in 1 .. Len(scripts) : Recorded(f)

LEMMA PendingInit == RunsInit => PendingInv
<1> SUFFICES ASSUME RunsInit PROVE PendingInv OBVIOUS
<1> USE DEF RunsInit
<1>1. PendingType BY DEF PendingType
<1>2. Awaits BY DEF Awaits, Awaiting
<1> QED BY <1>1, <1>2 DEF PendingInv

-----------------------------------------------------------------------------
(* What a step that leaves the log alone has to keep.                          *)
LEMMA Stays ==
    ASSUME PendingInv, PendingType', Awaits', UNCHANGED log,
           Len(scripts') \in Nat, Len(scripts) <= Len(scripts'),
           Len(children') \in Nat, Len(children) <= Len(children'),
           \A c \in 1 .. Len(children) : children[c].at = "reaped" => children'[c].at = "reaped",
           \A f \in 1 .. Len(scripts) : recorded'[f] = recorded[f],
           \A f \in 1 .. Len(scripts') : f > Len(scripts) => recorded'[f] = <<>>
    PROVE  PendingInv'
<1>0. Len(scripts) \in Nat /\ Len(children) \in Nat /\ Len(log) \in Nat
  BY LenProperties DEF PendingInv, PendingType
<1>1. ASSUME NEW i \in 1 .. Len(log) PROVE Settled(i)'
  <2>1. Settled(i) BY DEF PendingInv
  <2> QED BY <1>0, <2>1 DEF Settled
<1>2. ASSUME NEW f \in 1 .. Len(scripts') PROVE Recorded(f)'
  <2>1. CASE f <= Len(scripts)
    <3>1. Recorded(f) BY <1>0, <2>1 DEF PendingInv
    <3>2. recorded'[f] = recorded[f] BY <1>0, <2>1
    <3>3. \A i : FakedBy(f, i)' = FakedBy(f, i) BY DEF FakedBy
    <3> QED BY <3>1, <3>2, <3>3 DEF Recorded
  <2>2. CASE f > Len(scripts)
    <3>1. \A i \in 1 .. Len(log) : log[i].pending.fake \in 0 .. Len(scripts) BY DEF PendingInv, Settled
    <3>2. FakedBy(f, Len(log))' = {} BY <1>0, <2>2, <3>1 DEF FakedBy
    <3>3. recorded'[f] = <<>> BY <2>2
    <3>4. Cardinality({}) = 0 BY FS_EmptySet
    <3> QED BY <3>2, <3>3, <3>4 DEF Recorded
  <2> QED BY <1>0, <2>1, <2>2
<1> QED BY <1>1, <1>2 DEF PendingInv

LEMMA FakeStep == ASSUME PendingInv, NEW script \in Scripts, Fake(script) PROVE PendingInv'
<1>0. Len(scripts) \in Nat /\ Len(recorded) = Len(scripts)
  BY LenProperties DEF PendingInv, PendingType
<1>1. /\ scripts' = Append(scripts, script) /\ recorded' = Append(recorded, <<>>) /\ fake' = Len(scripts) + 1
      /\ UNCHANGED <<pending, call, children, log>>
  BY DEF Fake
<1>2. scripts' \in Seq(Scripts) /\ Len(scripts') = Len(scripts) + 1
  BY <1>1, AppendProperties DEF PendingInv, PendingType
<1>3. /\ recorded' \in Seq(Seq(Record)) /\ Len(recorded') = Len(recorded) + 1
      /\ recorded'[Len(recorded) + 1] = <<>> /\ \A f \in 1 .. Len(recorded) : recorded'[f] = recorded[f]
  <2>1. <<>> \in Seq(Record) BY EmptySeq
  <2> QED BY <1>1, <2>1, AppendProperties DEF PendingInv, PendingType
<1>4. PendingType' BY <1>0, <1>1, <1>2, <1>3 DEF PendingInv, PendingType
<1>5. Awaits' BY <1>1 DEF PendingInv, Awaits, Awaiting
<1>6. Len(children) \in Nat BY LenProperties DEF PendingInv, PendingType
<1> QED BY <1>0, <1>1, <1>2, <1>3, <1>4, <1>5, <1>6, Stays

LEMMA ResetStep == ASSUME PendingInv, ResetFake PROVE PendingInv'
<1>1. fake' = 0 /\ UNCHANGED <<scripts, recorded, pending, call, children, log>> BY DEF ResetFake
<1>2. Len(scripts) \in Nat /\ Len(children) \in Nat BY LenProperties DEF PendingInv, PendingType
<1>3. PendingType' BY <1>1, <1>2 DEF PendingInv, PendingType
<1>4. Awaits' BY <1>1 DEF PendingInv, Awaits, Awaiting
<1> QED BY <1>1, <1>2, <1>3, <1>4, Stays

LEMMA ConfigureStep ==
    ASSUME PendingProcessAssumption, PendingInv, NEW t \in Tasks, NEW setting \in Settings, Configure(t, setting)
    PROVE  PendingInv'
<1>1. /\ call[t].at = "idle" /\ pending' = [pending EXCEPT ![t] = Pending(setting)]
      /\ UNCHANGED <<fake, scripts, recorded, call, children, log>>
  BY DEF Configure, Idle
<1>2. Len(scripts) \in Nat /\ Len(children) \in Nat BY LenProperties DEF PendingInv, PendingType
<1>3. Pending(setting) \in Process /\ Pending(setting).fake = fake
  BY <1>2 DEF Pending, Process, PendingProcessAssumption, PendingInv, PendingType
<1>4. DOMAIN pending = Tasks /\ fake \in 0 .. Len(scripts) BY DEF PendingInv, PendingType
<1>5. DOMAIN pending' = Tasks /\ pending'[t] = Pending(setting) /\ \A u \in Tasks \ {t} : pending'[u] = pending[u]
  BY <1>1, <1>4
<1>6. PendingType' BY <1>1, <1>3, <1>4, <1>5 DEF PendingInv, PendingType
<1>7. Awaits' BY <1>1, <1>5 DEF PendingInv, Awaits, Awaiting
<1> QED BY <1>1, <1>2, <1>6, <1>7, Stays

(* A child more.                                                               *)
LEMMA ChildStarted ==
    ASSUME PendingInv, NEW child \in Child, children' = Append(children, child)
    PROVE  /\ children' \in Seq(Child) /\ Len(children') = Len(children) + 1 /\ Len(children) \in Nat
           /\ children'[Len(children) + 1] = child /\ \A c \in 1 .. Len(children) : children'[c] = children[c]
  BY AppendProperties, LenProperties DEF PendingInv, PendingType
\* A child becomes another.
LEMMA Changed ==
    ASSUME PendingInv, NEW n \in 1 .. Len(children), NEW at \in {"running", "exited", "reaped"},
           children' = [children EXCEPT ![n].at = at]
    PROVE  /\ children' \in Seq(Child) /\ Len(children') = Len(children) /\ Len(children) \in Nat
           /\ children'[n].at = at /\ \A c \in 1 .. Len(children) : c # n => children'[c] = children[c]
<1>1. children \in Seq(Child) BY DEF PendingInv, PendingType
<1>2. children[n] \in Child BY <1>1, ElementOfSeq
<1>3. [children[n] EXCEPT !.at = at] \in Child BY <1>2 DEF Child
<1>4. children' = [children EXCEPT ![n] = [children[n] EXCEPT !.at = at]] OBVIOUS
<1>5. children' \in Seq(Child) /\ Len(children') = Len(children) BY <1>1, <1>3, <1>4, ExceptSeq
<1>6. Len(children) \in Nat /\ DOMAIN children = 1 .. Len(children) BY <1>1, LenProperties
<1>7. children'[n] = [children[n] EXCEPT !.at = at] /\ \A c \in 1 .. Len(children) : c # n => children'[c] = children[c]
  BY <1>4, <1>6
<1>8. [children[n] EXCEPT !.at = at].at = at BY <1>2 DEF Child
<1> QED BY <1>5, <1>6, <1>7, <1>8

LEMMA RunStep ==
    ASSUME PendingProcessAssumption, PendingInv, NEW t \in Tasks, NEW command \in Commands, Run(t, command)
    PROVE  PendingInv'
<1>1. PICK result \in Outcomes : children' = Append(children, [at |-> "running", result |-> result]) BY DEF Run
<1>2. /\ call[t].at = "idle" /\ pending[t] # None /\ pending[t].fake = 0
      /\ call' = [call EXCEPT ![t] = [at |-> "awaiting", command |-> command, child |-> Len(children) + 1]]
      /\ UNCHANGED <<fake, scripts, recorded, pending, log>>
  BY DEF Run, MayRun, Idle, IsFaked
<1>3. [at |-> "running", result |-> result] \in Child BY DEF Child, PendingProcessAssumption
<1>4. /\ children' \in Seq(Child) /\ Len(children') = Len(children) + 1 /\ Len(children) \in Nat
      /\ \A c \in 1 .. Len(children) : children'[c] = children[c]
  BY <1>1, <1>3, ChildStarted
<1>5. /\ DOMAIN call' = Tasks /\ \A u \in Tasks \ {t} : call'[u] = call[u]
      /\ call'[t] = [at |-> "awaiting", command |-> command, child |-> Len(children) + 1]
  BY <1>2 DEF PendingInv, PendingType
<1>6. PendingType' BY <1>2, <1>4, <1>5 DEF PendingInv, PendingType
<1>7. \A i \in 1 .. Len(log) : log[i].child \in 0 .. Len(children) BY DEF PendingInv, Settled
<1>8. Awaits'
  <2>1. ASSUME NEW u \in Tasks, Awaiting(u)'
        PROVE  /\ pending'[u] # None /\ pending'[u].fake = 0 /\ call'[u].command \in Commands
               /\ call'[u].child \in 1 .. Len(children')
               /\ \A i \in 1 .. Len(log') : log'[i].child # call'[u].child
    <3>1. CASE u = t BY <1>2, <1>4, <1>5, <1>7, <3>1
    <3>2. CASE u # t BY <1>2, <1>4, <1>5, <2>1, <3>2 DEF PendingInv, Awaits, Awaiting
    <3> QED BY <3>1, <3>2
  <2>2. ASSUME NEW u \in Tasks, NEW v \in Tasks, Awaiting(u)', Awaiting(v)', call'[u].child = call'[v].child PROVE u = v
    BY <1>4, <1>5, <2>2 DEF PendingInv, Awaits, Awaiting
  <2> QED BY <2>1, <2>2 DEF Awaits
<1>9. Len(scripts) \in Nat BY LenProperties DEF PendingInv, PendingType
<1> QED BY <1>2, <1>4, <1>6, <1>8, <1>9, Stays

LEMMA ExitStep == ASSUME PendingInv, Exits PROVE PendingInv'
<1>1. PICK c \in 1 .. Len(children) : children[c].at = "running" /\ children' = [children EXCEPT ![c].at = "exited"]
  BY DEF Exits
<1>2. UNCHANGED <<fake, scripts, recorded, pending, call, log>> BY DEF Exits
<1>3. /\ children' \in Seq(Child) /\ Len(children') = Len(children) /\ Len(children) \in Nat
      /\ \A d \in 1 .. Len(children) : d # c => children'[d] = children[d]
  BY <1>1, Changed
<1>4. PendingType' BY <1>2, <1>3 DEF PendingInv, PendingType
<1>5. Awaits' BY <1>2, <1>3 DEF PendingInv, Awaits, Awaiting
<1>6. Len(scripts) \in Nat BY LenProperties DEF PendingInv, PendingType
<1> QED BY <1>1, <1>2, <1>3, <1>4, <1>5, <1>6, Stays

-----------------------------------------------------------------------------
(* A call that is over, and what has to be so of it.                           *)
LEMMA Logged ==
    ASSUME PendingInv, NEW e \in Over, log' = Append(log, e)
    PROVE  /\ log' \in Seq(Over) /\ Len(log') = Len(log) + 1 /\ Len(log) \in Nat
           /\ log'[Len(log) + 1] = e /\ \A i \in 1 .. Len(log) : log'[i] = log[i]
  BY AppendProperties, LenProperties DEF PendingInv, PendingType

LEMMA Finite ==
    ASSUME NEW f, NEW n \in Nat
    PROVE  IsFiniteSet(FakedBy(f, n)) /\ Cardinality(FakedBy(f, n)) \in Nat
<1>1. IsFiniteSet(1 .. n) BY FS_Interval
<1>2. FakedBy(f, n) \subseteq 1 .. n BY DEF FakedBy
<1> QED BY <1>1, <1>2, FS_Subset, FS_CardinalityType

LEMMA CallEnds ==
    ASSUME PendingInv, NEW e \in Over, log' = Append(log, e), PendingType', Awaits', scripts' = scripts,
           Len(children') \in Nat, Len(children) <= Len(children'),
           \A c \in 1 .. Len(children) : children[c].at = "reaped" => children'[c].at = "reaped",
           e.child \in 0 .. Len(children'), e.pending.fake \in 0 .. Len(scripts), (e.child = 0) = (e.pending.fake # 0),
           e.child # 0 /\ e.result.how # "cancelled" => children'[e.child].at = "reaped",
           e.child # 0 => \A j \in 1 .. Len(log) : log[j].child # e.child,
           \A f \in 1 .. Len(scripts) : recorded'[f] =
             IF e.result.how = "faked" /\ f = e.pending.fake
               THEN Append(recorded[f], [command |-> e.command, result |-> [out |-> e.result.out, code |-> e.result.code]])
               ELSE recorded[f]
    PROVE  PendingInv'
<1>0. Len(scripts) \in Nat /\ Len(children) \in Nat BY LenProperties DEF PendingInv, PendingType
<1>1. /\ Len(log') = Len(log) + 1 /\ Len(log) \in Nat
      /\ log'[Len(log) + 1] = e /\ \A i \in 1 .. Len(log) : log'[i] = log[i]
  BY Logged
<1>2. ASSUME NEW i \in 1 .. Len(log') PROVE Settled(i)'
  <2>1. CASE i \in 1 .. Len(log)
    <3>1. Settled(i) BY <2>1 DEF PendingInv
    <3>2. \A j \in 1 .. i - 1 : log'[j] = log[j] BY <1>1, <2>1
    <3> QED BY <1>0, <1>1, <2>1, <3>1, <3>2 DEF Settled
  <2>2. CASE i = Len(log) + 1 BY <1>1, <2>2 DEF Settled
  <2> QED BY <1>1, <2>1, <2>2
<1>3. ASSUME NEW f \in 1 .. Len(scripts) PROVE Recorded(f)'
  <2> DEFINE F == FakedBy(f, Len(log))
  <2>1. Recorded(f) BY DEF PendingInv
  <2>2. \A i \in 0 .. Len(log) : FakedBy(f, i)' = FakedBy(f, i) BY <1>1 DEF FakedBy
  <2>3. \A n : n = Len(log) + 1 =>
          FakedBy(f, n)' = IF e.result.how = "faked" /\ f = e.pending.fake THEN F \cup {Len(log) + 1} ELSE F
    BY <1>1 DEF FakedBy
  <2>4. Len(log) + 1 \notin F BY <1>1 DEF FakedBy
  <2>5. IsFiniteSet(F) /\ Cardinality(F) \in Nat BY <1>1, Finite
  <2>6. recorded[f] \in Seq(Record)
    <3>1. f \in 1 .. Len(recorded) /\ recorded \in Seq(Seq(Record)) BY DEF PendingInv, PendingType
    <3> QED BY <3>1, ElementOfSeq
  <2>7. \A i \in F : i \in 1 .. Len(log) /\ log'[i] = log[i] BY <1>1 DEF FakedBy
  <2>8. CASE e.result.how = "faked" /\ f = e.pending.fake
    <3> DEFINE r == [command |-> e.command, result |-> [out |-> e.result.out, code |-> e.result.code]]
    <3>1. FakedBy(f, Len(log))' = F \cup {Len(log) + 1} BY <1>1, <2>3, <2>8
    <3>2. Cardinality(F \cup {Len(log) + 1}) = Cardinality(F) + 1 BY <2>4, <2>5, FS_AddElement
    <3>3. recorded'[f] = Append(recorded[f], r) BY <2>8
    <3>4. r \in Record BY DEF Record, Over, Answer, Results
    <3> HIDE DEF r
    <3>5. /\ Len(recorded'[f]) = Len(recorded[f]) + 1 /\ recorded'[f][Len(recorded[f]) + 1] = r
          /\ \A k \in 1 .. Len(recorded[f]) : recorded'[f][k] = recorded[f][k]
      BY <2>6, <3>3, <3>4, AppendProperties
    <3>6. ASSUME NEW i \in F
          PROVE  recorded'[f][Cardinality(FakedBy(f, i))] =
                     [command |-> log'[i].command, result |-> [out |-> log'[i].result.out, code |-> log'[i].result.code]]
      <4>1. FakedBy(f, i) \subseteq F /\ i \in FakedBy(f, i) BY <1>1, <2>7 DEF FakedBy
      <4>2. Cardinality(FakedBy(f, i)) \in 1 .. Cardinality(F)
        <5>1. Cardinality(FakedBy(f, i)) <= Cardinality(F) BY <2>5, <4>1, FS_Subset
        <5>2. IsFiniteSet(FakedBy(f, i)) /\ Cardinality(FakedBy(f, i)) \in Nat BY <2>5, <4>1, FS_Subset, FS_CardinalityType
        <5>3. Cardinality(FakedBy(f, i)) # 0 BY <4>1, <5>2, FS_EmptySet
        <5> QED BY <2>5, <5>1, <5>2, <5>3
      <4>3. recorded'[f][Cardinality(FakedBy(f, i))] = recorded[f][Cardinality(FakedBy(f, i))]
        BY <2>1, <3>5, <4>2 DEF Recorded
      <4> QED BY <2>1, <2>7, <4>3 DEF Recorded
    <3>7. Len(recorded'[f]) = Cardinality(F \cup {Len(log) + 1}) BY <2>1, <3>2, <3>5 DEF Recorded
    <3>8. recorded'[f][Cardinality(F \cup {Len(log) + 1})] = r BY <2>1, <3>2, <3>5 DEF Recorded
    <3>9. ASSUME NEW i \in F \cup {Len(log) + 1}
          PROVE  recorded'[f][Cardinality(FakedBy(f, i)')] =
                     [command |-> log'[i].command, result |-> [out |-> log'[i].result.out, code |-> log'[i].result.code]]
      <4>1. CASE i \in F
        <5>1. FakedBy(f, i)' = FakedBy(f, i) BY <1>1, <2>2, <2>7, <4>1
        <5> QED BY <3>6, <4>1, <5>1
      <4>2. CASE i = Len(log) + 1
        <5>1. FakedBy(f, i)' = F \cup {Len(log) + 1} BY <2>3, <2>8, <4>2
        <5>2. log'[i] = e BY <1>1, <4>2
        <5> QED BY <3>8, <5>1, <5>2 DEF r
      <4> QED BY <4>1, <4>2
    <3> QED BY <3>1, <3>7, <3>9 DEF Recorded
  <2>9. CASE ~(e.result.how = "faked" /\ f = e.pending.fake)
    <3>1. FakedBy(f, Len(log))' = F BY <1>1, <2>3, <2>9
    <3>2. recorded'[f] = recorded[f] BY <2>9
    <3>3. \A i \in F : FakedBy(f, i)' = FakedBy(f, i) BY <1>1, <2>2, <2>7
    <3> QED BY <2>1, <2>7, <3>1, <3>2, <3>3 DEF Recorded
  <2> QED BY <2>8, <2>9
<1> QED BY <1>2, <1>3 DEF PendingInv

-----------------------------------------------------------------------------
(* The steps that end a call.                                                  *)
LEMMA Answers ==
    ASSUME NEW r \in Results, NEW how \in Hows
    PROVE  Result(how, r) \in Answer /\ Result(how, r).how = how
           /\ [out |-> Result(how, r).out, code |-> Result(how, r).code] = r
  BY DEF Result, Results, Answer
LEMMA Resolved ==
    ASSUME PendingProcessAssumption, NEW script \in Scripts, NEW command PROVE Resolve(script, command) \in Results
  BY DEF PendingProcessAssumption, Resolve, Results, Silent

LEMMA FakedStep ==
    ASSUME PendingProcessAssumption, PendingInv, NEW t \in Tasks, NEW command \in Commands, Faked(t, command)
    PROVE  PendingInv'
<1> DEFINE n == pending[t].fake
           r == Resolve(scripts[n], command)
           e == [pending |-> pending[t], command |-> command, child |-> 0, result |-> Result("faked", r)]
           w == [command |-> command, result |-> r]
<1>1. /\ pending[t] # None /\ n # 0 /\ log' = Append(log, e)
      /\ recorded' = [recorded EXCEPT ![n] = Append(@, w)]
      /\ UNCHANGED <<fake, scripts, pending, call, children>>
  BY DEF Faked, MayRun, IsFaked, Handle, Logs
<1>2. /\ pending[t] \in Process /\ n \in 1 .. Len(scripts) /\ Len(scripts) \in Nat
      /\ Len(recorded) = Len(scripts) /\ recorded \in Seq(Seq(Record))
  <2>1. Len(scripts) \in Nat BY LenProperties DEF PendingInv, PendingType
  <2> QED BY <1>1, <2>1 DEF PendingInv, PendingType
<1>3. r \in Results
  <2>1. scripts[n] \in Scripts BY <1>2, ElementOfSeq DEF PendingInv, PendingType
  <2> QED BY <2>1, Resolved
<1>4. Result("faked", r) \in Answer /\ e.result.how = "faked" /\ [out |-> e.result.out, code |-> e.result.code] = r
  BY <1>3, Answers DEF Hows
<1>5. e \in Over /\ e.command = command /\ e.child = 0 /\ e.pending = pending[t] BY <1>2, <1>4 DEF Over
<1> HIDE DEF r, e
<1>6. w \in Record BY <1>3 DEF Record
<1>7. recorded[n] \in Seq(Record) BY <1>2, ElementOfSeq
<1>8. Append(recorded[n], w) \in Seq(Record) BY <1>6, <1>7, AppendProperties
<1>9. recorded' \in Seq(Seq(Record)) /\ Len(recorded') = Len(recorded) BY <1>1, <1>2, <1>8, ExceptSeq
<1>10. \A f \in 1 .. Len(scripts) : recorded'[f] = IF f = n THEN Append(recorded[f], w) ELSE recorded[f]
  <2>1. DOMAIN recorded = 1 .. Len(scripts) BY <1>2, LenProperties
  <2> QED BY <1>1, <2>1
<1>11. log' \in Seq(Over) /\ Len(log') = Len(log) + 1 /\ Len(log) \in Nat
       /\ log'[Len(log) + 1] = e /\ \A i \in 1 .. Len(log) : log'[i] = log[i]
  BY <1>1, <1>5, Logged
<1>12. PendingType' BY <1>1, <1>9, <1>11 DEF PendingInv, PendingType
<1>13. Awaits' BY <1>1, <1>5, <1>11 DEF PendingInv, Awaits, Awaiting
<1>14. Len(children) \in Nat BY LenProperties DEF PendingInv, PendingType
<1>15. w = [command |-> e.command, result |-> [out |-> e.result.out, code |-> e.result.code]] BY <1>4, <1>5
<1> HIDE DEF w
<1> QED
  <2>1. /\ e.child \in 0 .. Len(children') /\ e.pending.fake \in 0 .. Len(scripts)
        /\ (e.child = 0) = (e.pending.fake # 0)
    BY <1>1, <1>2, <1>5, <1>14
  <2>2. e.child # 0 /\ e.result.how # "cancelled" => children'[e.child].at = "reaped" BY <1>5
  <2>3. e.child # 0 => \A j \in 1 .. Len(log) : log[j].child # e.child BY <1>5
  <2>4. \A f \in 1 .. Len(scripts) : recorded'[f] =
             IF e.result.how = "faked" /\ f = e.pending.fake
               THEN Append(recorded[f], [command |-> e.command, result |-> [out |-> e.result.out, code |-> e.result.code]])
               ELSE recorded[f]
    BY <1>4, <1>5, <1>10, <1>15
  <2>5. /\ Len(children') \in Nat /\ Len(children) <= Len(children')
        /\ \A c \in 1 .. Len(children) : children[c].at = "reaped" => children'[c].at = "reaped"
    BY <1>1, <1>14
  <2>6. scripts' = scripts /\ log' = Append(log, e) BY <1>1
  <2> QED BY <1>5, <1>12, <1>13, <2>1, <2>2, <2>3, <2>4, <2>5, <2>6, CallEnds

LEMMA UnsupportedStep ==
    ASSUME PendingProcessAssumption, PendingInv, NEW t \in Tasks, NEW command \in Commands, Unsupported(t, command)
    PROVE  PendingInv'
<1> DEFINE e == [pending |-> pending[t], command |-> command, child |-> 0, result |-> Result("unsupported", Silent)]
<1>1. /\ pending[t] # None /\ pending[t].fake # 0 /\ log' = Append(log, e)
      /\ UNCHANGED <<fake, scripts, recorded, pending, call, children>>
  BY DEF Unsupported, MayRun, IsFaked, Logs
<1>2. Len(scripts) \in Nat /\ Len(children) \in Nat BY LenProperties DEF PendingInv, PendingType
<1>3. pending[t] \in Process /\ pending[t].fake \in 0 .. Len(scripts) BY <1>1 DEF PendingInv, PendingType
<1>4. Silent \in Results BY DEF Silent, Results
<1>5. Result("unsupported", Silent) \in Answer /\ e.result.how = "unsupported" BY <1>4, Answers DEF Hows
<1>6. e \in Over /\ e.child = 0 /\ e.pending = pending[t] BY <1>3, <1>5 DEF Over
<1> HIDE DEF e
<1>7. log' \in Seq(Over) /\ Len(log') = Len(log) + 1 /\ Len(log) \in Nat
      /\ log'[Len(log) + 1] = e /\ \A i \in 1 .. Len(log) : log'[i] = log[i]
  BY <1>1, <1>6, Logged
<1>8. PendingType' BY <1>1, <1>7 DEF PendingInv, PendingType
<1>9. Awaits' BY <1>1, <1>6, <1>7 DEF PendingInv, Awaits, Awaiting
<1> QED
  <2>1. /\ e.child \in 0 .. Len(children') /\ e.pending.fake \in 0 .. Len(scripts)
        /\ (e.child = 0) = (e.pending.fake # 0)
    BY <1>1, <1>2, <1>3, <1>6
  <2>2. e.child # 0 /\ e.result.how # "cancelled" => children'[e.child].at = "reaped" BY <1>6
  <2>3. e.child # 0 => \A j \in 1 .. Len(log) : log[j].child # e.child BY <1>6
  <2>4. \A f \in 1 .. Len(scripts) : recorded'[f] =
             IF e.result.how = "faked" /\ f = e.pending.fake
               THEN Append(recorded[f], [command |-> e.command, result |-> [out |-> e.result.out, code |-> e.result.code]])
               ELSE recorded[f]
    BY <1>1, <1>5
  <2>5. /\ Len(children') \in Nat /\ Len(children) <= Len(children')
        /\ \A c \in 1 .. Len(children) : children[c].at = "reaped" => children'[c].at = "reaped"
    BY <1>1, <1>2
  <2>6. scripts' = scripts /\ log' = Append(log, e) BY <1>1
  <2> QED BY <1>6, <1>8, <1>9, <2>1, <2>2, <2>3, <2>4, <2>5, <2>6, CallEnds

(* run_sync(), and run() on the terminal.                                      *)
LEMMA BlocksStep ==
    ASSUME PendingProcessAssumption, PendingInv, NEW t \in Tasks, NEW command \in Commands, NEW expired \in {"expired", "timed_out"}, MayRun(t), ~IsFaked(t), Blocks(t, command, expired)
    PROVE  PendingInv'
<1>1. PICK result \in Outcomes, late \in {FALSE, pending[t].timeout} :
        /\ children' = Append(children, [at |-> "reaped", result |-> result])
        /\ Logs(t, command, Len(children) + 1, IF late THEN Result(expired, Silent) ELSE Result("ran", Output(t, result)))
  BY DEF Blocks
<1> DEFINE answer == IF late THEN Result(expired, Silent) ELSE Result("ran", Output(t, result))
           e == [pending |-> pending[t], command |-> command, child |-> Len(children) + 1, result |-> answer]
<1>2. /\ pending[t] # None /\ pending[t].fake = 0 /\ log' = Append(log, e)
      /\ UNCHANGED <<fake, scripts, recorded, pending, call>>
  BY <1>1 DEF MayRun, IsFaked, Blocks, Logs
<1>3. Len(scripts) \in Nat /\ Len(children) \in Nat BY LenProperties DEF PendingInv, PendingType
<1>4. pending[t] \in Process BY <1>2 DEF PendingInv, PendingType
<1>5. result \in Results /\ Silent \in Results BY DEF PendingProcessAssumption, Silent, Results
<1>6. Output(t, result) \in Results BY <1>4, <1>5 DEF Output, Results, Process
<1>7. answer \in Answer /\ answer.how # "faked" BY <1>5, <1>6, Answers DEF Hows
<1> HIDE DEF answer
<1>8. e \in Over /\ e.child = Len(children) + 1 /\ e.pending = pending[t] /\ e.result = answer
  BY <1>3, <1>4, <1>7 DEF Over
<1> HIDE DEF e
<1>9. [at |-> "reaped", result |-> result] \in Child BY <1>5 DEF Child
<1>10. /\ children' \in Seq(Child) /\ Len(children') = Len(children) + 1
       /\ children'[Len(children) + 1].at = "reaped" /\ \A c \in 1 .. Len(children) : children'[c] = children[c]
  BY <1>1, <1>9, ChildStarted
<1>11. log' \in Seq(Over) /\ Len(log') = Len(log) + 1 /\ Len(log) \in Nat
       /\ log'[Len(log) + 1] = e /\ \A i \in 1 .. Len(log) : log'[i] = log[i]
  BY <1>2, <1>8, Logged
<1>12. PendingType' BY <1>2, <1>10, <1>11 DEF PendingInv, PendingType
<1>13. Awaits' BY <1>2, <1>3, <1>8, <1>10, <1>11 DEF PendingInv, Awaits, Awaiting
<1>14. \A j \in 1 .. Len(log) : log[j].child # e.child BY <1>3, <1>8 DEF PendingInv, Settled
<1> QED
  <2>1. /\ e.child \in 0 .. Len(children') /\ e.pending.fake \in 0 .. Len(scripts)
        /\ (e.child = 0) = (e.pending.fake # 0)
    BY <1>2, <1>3, <1>8, <1>10
  <2>2. e.child # 0 /\ e.result.how # "cancelled" => children'[e.child].at = "reaped" BY <1>8, <1>10
  <2>3. e.child # 0 => \A j \in 1 .. Len(log) : log[j].child # e.child BY <1>14
  <2>4. \A f \in 1 .. Len(scripts) : recorded'[f] =
             IF e.result.how = "faked" /\ f = e.pending.fake
               THEN Append(recorded[f], [command |-> e.command, result |-> [out |-> e.result.out, code |-> e.result.code]])
               ELSE recorded[f]
    BY <1>2, <1>7, <1>8
  <2>5. /\ Len(children') \in Nat /\ Len(children) <= Len(children')
        /\ \A c \in 1 .. Len(children) : children[c].at = "reaped" => children'[c].at = "reaped"
    BY <1>3, <1>10
  <2>6. scripts' = scripts /\ log' = Append(log, e) BY <1>1, <1>2
  <2> QED BY <1>8, <1>12, <1>13, <2>1, <2>2, <2>3, <2>4, <2>5, <2>6, CallEnds

(* A run() that awaited its child is over.                                     *)
LEMMA ComesStep ==
    ASSUME PendingProcessAssumption, PendingInv, NEW t \in Tasks, Awaiting(t), NEW at \in {"running", "exited", "reaped"},
           NEW answer \in Answer, answer.how # "faked", Comes(t, at, answer),
           children[call[t].child].at = "reaped" \/ answer.how # "cancelled" => at = "reaped"
    PROVE  PendingInv'
<1> DEFINE n == call[t].child
           e == [pending |-> pending[t], command |-> call[t].command, child |-> n, result |-> answer]
<1>1. /\ children' = [children EXCEPT ![n].at = at] /\ log' = Append(log, e)
      /\ call' = [call EXCEPT ![t] = [at |-> "idle", command |-> None, child |-> 0]]
      /\ UNCHANGED <<fake, scripts, recorded, pending>>
  BY DEF Comes, Logs
<1>2. Len(scripts) \in Nat /\ Len(children) \in Nat BY LenProperties DEF PendingInv, PendingType
<1>3. /\ pending[t] # None /\ pending[t].fake = 0 /\ call[t].command \in Commands /\ n \in 1 .. Len(children)
      /\ \A i \in 1 .. Len(log) : log[i].child # n
  BY DEF PendingInv, Awaits
<1>4. pending[t] \in Process BY <1>3 DEF PendingInv, PendingType
<1>5. e \in Over /\ e.child = n /\ e.pending = pending[t] /\ e.result = answer BY <1>2, <1>3, <1>4 DEF Over
<1>6. /\ children' \in Seq(Child) /\ Len(children') = Len(children)
      /\ children'[n].at = at /\ \A c \in 1 .. Len(children) : c # n => children'[c] = children[c]
  BY <1>1, <1>3, Changed
<1>7. /\ DOMAIN call' = Tasks /\ \A u \in Tasks \ {t} : call'[u] = call[u] /\ call'[t].at = "idle"
  BY <1>1 DEF PendingInv, PendingType
<1>8. ~Awaiting(t)' /\ \A u \in Tasks \ {t} : call'[u] = call[u] /\ (Awaiting(u) => call[u].child # n)
  <2>1. call'[t].at = "idle" BY <1>1 DEF PendingInv, PendingType
  <2> QED BY <1>7, <2>1 DEF Awaiting, PendingInv, Awaits
<1> HIDE DEF e
<1>9. log' \in Seq(Over) /\ Len(log') = Len(log) + 1 /\ Len(log) \in Nat
      /\ log'[Len(log) + 1] = e /\ \A i \in 1 .. Len(log) : log'[i] = log[i]
  BY <1>1, <1>5, Logged
<1>10. PendingType' BY <1>1, <1>6, <1>7, <1>9 DEF PendingInv, PendingType
<1>11. Awaits'
  <2>1. ASSUME NEW u \in Tasks, Awaiting(u)'
        PROVE  /\ u # t /\ Awaiting(u) /\ call'[u] = call[u] /\ call[u].child # n
    BY <1>8, <2>1 DEF Awaiting
  <2>2. ASSUME NEW u \in Tasks, Awaiting(u)'
        PROVE  /\ pending'[u] # None /\ pending'[u].fake = 0 /\ call'[u].command \in Commands
               /\ call'[u].child \in 1 .. Len(children')
               /\ \A i \in 1 .. Len(log') : log'[i].child # call'[u].child
    BY <1>1, <1>5, <1>6, <1>9, <2>1, <2>2 DEF PendingInv, Awaits
  <2>3. \A u, v \in Tasks : Awaiting(u)' /\ Awaiting(v)' /\ call'[u].child = call'[v].child => u = v
    BY <2>1 DEF PendingInv, Awaits
  <2> QED BY <2>2, <2>3 DEF Awaits
<1>12. \A c \in 1 .. Len(children) : children[c].at = "reaped" => children'[c].at = "reaped" BY <1>6
<1>13. e.child # 0 /\ e.result.how # "cancelled" => children'[e.child].at = "reaped" BY <1>5, <1>6
<1> QED
  <2>1. /\ e.child \in 0 .. Len(children') /\ e.pending.fake \in 0 .. Len(scripts)
        /\ (e.child = 0) = (e.pending.fake # 0)
    BY <1>2, <1>3, <1>5, <1>6
  <2>2. e.child # 0 /\ e.result.how # "cancelled" => children'[e.child].at = "reaped" BY <1>13
  <2>3. e.child # 0 => \A j \in 1 .. Len(log) : log[j].child # e.child BY <1>3, <1>5
  <2>4. \A f \in 1 .. Len(scripts) : recorded'[f] =
             IF e.result.how = "faked" /\ f = e.pending.fake
               THEN Append(recorded[f], [command |-> e.command, result |-> [out |-> e.result.out, code |-> e.result.code]])
               ELSE recorded[f]
    BY <1>1, <1>5
  <2>5. /\ Len(children') \in Nat /\ Len(children) <= Len(children')
        /\ \A c \in 1 .. Len(children) : children[c].at = "reaped" => children'[c].at = "reaped"
    BY <1>2, <1>6, <1>12
  <2>6. scripts' = scripts /\ log' = Append(log, e) BY <1>1
  <2> QED BY <1>5, <1>10, <1>11, <2>1, <2>2, <2>3, <2>4, <2>5, <2>6, CallEnds

LEMMA EndsStep ==
    ASSUME PendingProcessAssumption, PendingInv, NEW t \in Tasks, Communicated(t) \/ TimesOut(t) \/ Cancelled(t)
    PROVE  PendingInv'
<1> DEFINE child == children[call[t].child]
<1>1. Awaiting(t) BY DEF Awaiting, Communicated, TimesOut, Cancelled
<1>2. child \in Child
  <2>1. call[t].child \in 1 .. Len(children) BY <1>1 DEF PendingInv, Awaits
  <2> QED BY <2>1, ElementOfSeq DEF PendingInv, PendingType
<1>3. pending[t] \in Process BY <1>1 DEF PendingInv, PendingType, Awaits
<1>0. child.result \in Results BY <1>2 DEF Child
<1>4. Output(t, child.result) \in Results /\ Silent \in Results
  <2>1. Silent \in Results BY DEF Silent, Results
  <2>2. ASSUME NEW r \in Results PROVE Output(t, r) \in Results BY <1>3 DEF Output, Results, Process
  <2> QED BY <1>0, <2>1, <2>2
<1>5. CASE Communicated(t)
  <2>1. Comes(t, "reaped", Result("ran", Output(t, child.result))) BY <1>5 DEF Communicated
  <2>2. Result("ran", Output(t, child.result)) \in Answer /\ Result("ran", Output(t, child.result)).how = "ran" BY <1>4, Answers DEF Hows
  <2> QED BY <1>1, <2>1, <2>2, ComesStep
<1>6. CASE TimesOut(t)
  <2>1. Comes(t, "reaped", Result("timed_out", Silent)) BY <1>6 DEF TimesOut
  <2>2. Result("timed_out", Silent) \in Answer /\ Result("timed_out", Silent).how = "timed_out" BY <1>4, Answers DEF Hows
  <2> QED BY <1>1, <2>1, <2>2, ComesStep
<1>7. CASE Cancelled(t)
  <2>1. Comes(t, child.at, Result("cancelled", Silent)) BY <1>7 DEF Cancelled
  <2>2. Result("cancelled", Silent) \in Answer /\ Result("cancelled", Silent).how = "cancelled" BY <1>4, Answers DEF Hows
  <2>3. child.at \in {"running", "exited", "reaped"} BY <1>2 DEF Child
  <2> QED BY <1>1, <2>1, <2>2, <2>3, ComesStep
<1> QED BY <1>5, <1>6, <1>7

LEMMA PendingStep == ASSUME PendingProcessAssumption PROVE PendingInv /\ [RunsNext]_runVars => PendingInv'
<1> SUFFICES ASSUME PendingInv, [RunsNext]_runVars PROVE PendingInv' OBVIOUS
<1>1. CASE UNCHANGED runVars
  <2>1. PendingType' /\ Awaits' BY <1>1 DEF runVars, PendingInv, PendingType, Awaits, Awaiting
  <2>2. Len(scripts) \in Nat /\ Len(children) \in Nat BY LenProperties DEF PendingInv, PendingType
  <2> QED BY <1>1, <2>1, <2>2, Stays DEF runVars
<1>2. CASE \E script \in Scripts : Fake(script) BY <1>2, FakeStep
<1>3. CASE ResetFake \/ Exits BY <1>3, ResetStep, ExitStep
<1>4. ASSUME NEW t \in Tasks, \E setting \in Settings : Configure(t, setting) PROVE PendingInv' BY <1>4, ConfigureStep
<1>5. ASSUME NEW t \in Tasks, NEW command \in Commands,
             \/ Faked(t, command) \/ Unsupported(t, command)
             \/ Run(t, command) \/ RunOnTerminal(t, command) \/ RunSync(t, command)
      PROVE  PendingInv'
  <2>1. CASE RunOnTerminal(t, command)
    <3>1. MayRun(t) /\ ~IsFaked(t) /\ Blocks(t, command, "expired") BY <2>1 DEF RunOnTerminal
    <3> QED BY <3>1, BlocksStep
  <2>2. CASE RunSync(t, command)
    <3> DEFINE expired == IF pending[t].tty \/ pending[t].quiet THEN "expired" ELSE "timed_out"
    <3>1. MayRun(t) /\ ~IsFaked(t) /\ Blocks(t, command, expired) BY <2>2 DEF RunSync
    <3>2. expired \in {"expired", "timed_out"} OBVIOUS
    <3> HIDE DEF expired
    <3> QED BY <3>1, <3>2, BlocksStep
  <2> QED BY <1>5, <2>1, <2>2, FakedStep, UnsupportedStep, RunStep
<1>6. ASSUME NEW t \in Tasks, Communicated(t) \/ TimesOut(t) \/ Cancelled(t) PROVE PendingInv' BY <1>6, EndsStep
<1> QED BY <1>1, <1>2, <1>3, <1>4, <1>5, <1>6 DEF RunsNext

(* Whatever is faked or reset while tasks run their commands, a process that   *)
(* was configured under a fake starts no child and is recorded by that fake,   *)
(* once, in order and with what its caller got; any other has a child of its   *)
(* own, which is gone when the call is over unless that was cancelled          *)
(* (process.py 254-271, 355-405).                                              *)
THEOREM RunsAsConfigured == ASSUME PendingProcessAssumption PROVE RunsSpec => []RunAsConfigured
<1>1. RunsInit => PendingInv BY PendingInit
<1>2. PendingInv /\ [RunsNext]_runVars => PendingInv' BY PendingStep
<1>3. PendingInv => RunAsConfigured BY DEF PendingInv, Settled, Recorded, RunAsConfigured
<1> QED BY <1>1, <1>2, <1>3, PTL DEF RunsSpec
=============================================================================
