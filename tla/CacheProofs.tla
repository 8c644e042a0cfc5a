----------------------------- MODULE CacheProofs -----------------------------
(* Proofs about CacheLock, for any tasks, any store and any seconds, and about *)
(* TaggedStore, for any tasks, any tags, with a memo or without.               *)
EXTENDS CacheLock, TaggedStore, TLAPS, WellFoundedInduction

(* Rounding up never shortens a lock.                                        *)
LEMMA Quotient ==
    ASSUME NEW x \in Nat PROVE (x \div Second) \in Nat /\ x < (x \div Second) * Second + Second
  BY CacheLockAssumption, Z3

LEMMA RoundingUp == ASSUME NEW t \in Nat PROVE RoundUp(t) \in Nat /\ RoundUp(t) >= t
<1> DEFINE x == t + Second - 1
<1>1. x \in Nat BY CacheLockAssumption
<1>2. (x \div Second) \in Nat /\ x < (x \div Second) * Second + Second BY <1>1, Quotient
<1>3. (x \div Second) * Second \in Nat BY <1>2, CacheLockAssumption
<1>4. t = x - Second + 1 BY CacheLockAssumption
<1>5. RoundUp(t) = (x \div Second) * Second BY DEF RoundUp
<1> HIDE DEF x
<1> QED BY <1>1, <1>2, <1>3, <1>4, <1>5, CacheLockAssumption

(* An expiration that lasts for the seconds of the lock from `since` on.     *)
Covers(until, since) == IF Ttl = 0 THEN until = Never ELSE until >= since + Ttl

LEMMA Expiration == ASSUME NEW t \in Nat PROVE ExpiresAt(t) \in Nat /\ Covers(ExpiresAt(t), t)
  BY RoundingUp, CacheLockAssumption DEF ExpiresAt, Covers, Never

-----------------------------------------------------------------------------
(* Type correctness, on its own inductive.                                   *)
Job == [runs : BOOLEAN, deadline : Nat, wake : Nat]
Op == [name : Store \cup {"nothing", "answered"}, owner : Tasks \cup {"nobody"},
       since : Nat, until : Nat, now : Nat, won : BOOLEAN]

LEMMA ProceedTypes ==
    ASSUME TypeOK, NEW p \in Tasks, NEW won \in BOOLEAN, NEW j \in Job, Proceed(p, won, j)
    PROVE  pc' \in [Tasks -> PC] /\ job' \in [Tasks -> Job]
<1>1. pc' \in [Tasks -> PC] BY DEF TypeOK, Proceed, Go, PC
<1>2. clock + Sleep \in Nat BY CacheLockAssumption DEF TypeOK
<1>3. [j EXCEPT !.wake = IF ~won /\ clock < j.deadline THEN clock + Sleep ELSE 0] \in Job BY <1>2 DEF Job
<1>4. job' \in [Tasks -> Job] BY <1>3 DEF TypeOK, Proceed, Job
<1> QED BY <1>1, <1>4

LEMMA AcquireTypes ==
    ASSUME TypeOK, NEW p \in Tasks, NEW j \in Job, Acquire(p, j) PROVE TypeOK'
<1> USE DEF Job, Op
<1>1. clock \in Nat /\ ExpiresAt(clock) \in Nat BY Expiration DEF TypeOK
<1>2. CASE Driver = "array"
  <2>1. pc' \in [Tasks -> PC] /\ job' \in [Tasks -> Job]
    <3>1. (~Live(entry)) \in BOOLEAN BY DEF Live
    <3> QED BY <1>2, <3>1, ProceedTypes DEF Acquire, AcquireAtOnce
  <2>2. clock' \in Nat /\ op' \in [Tasks -> Op] BY <1>2 DEF TypeOK, Acquire, AcquireAtOnce
  <2>3. entry' \in [owner : Tasks \cup {"nobody"}, until : Nat] /\ claim' \in [Tasks -> Nat \cup {NoClaim}]
    BY <1>1, <1>2 DEF TypeOK, Acquire, AcquireAtOnce
  <2> QED BY <2>1, <2>2, <2>3 DEF TypeOK
<1>3. CASE Driver # "array"
  <2>1. AcquireByStore(p, j) /\ UNCHANGED clock BY <1>3 DEF Acquire
  <2>2. [Nothing EXCEPT !.name = IF Driver = "database" THEN "insert" ELSE "take",
                        !.owner = p, !.since = clock, !.until = ExpiresAt(clock)] \in Op
    BY <1>1 DEF Nothing, Store
  <2> QED BY <2>1, <2>2 DEF TypeOK, AcquireByStore, Send, Go, PC
<1> QED BY <1>2, <1>3

LEMMA GrantedTypes ==
    ASSUME TypeOK, NEW p \in Tasks, NEW won \in BOOLEAN, NEW until \in Nat, Granted(p, won, until)
    PROVE TypeOK'
<1> USE DEF Job, Op
<1>1. op' \in [Tasks -> Op] BY DEF TypeOK, Granted, Answer, Nothing
<1>2. entry' \in [owner : Tasks \cup {"nobody"}, until : Nat] /\ claim' \in [Tasks -> Nat \cup {NoClaim}]
  BY DEF TypeOK, Granted, Claim
<1> QED BY <1>1, <1>2 DEF TypeOK, Granted

LEMMA AskTypes ==
    ASSUME TypeOK, NEW p \in Tasks, NEW name \in {"release", "force"}, NEW o \in Tasks \cup {"nobody"},
           AskRelease(p, name, o), claim' \in [Tasks -> Nat \cup {NoClaim}]
    PROVE TypeOK'
<1> USE DEF Job, Op
<1>1. op' \in [Tasks -> Op]
  <2>1. [Nothing EXCEPT !.name = name, !.owner = o, !.now = clock] \in Op BY DEF TypeOK, Nothing, Store
  <2>2. op \in [Tasks -> Op] BY DEF TypeOK
  <2> HIDE DEF Op
  <2>3. CASE Driver = "array" BY <2>2, <2>3 DEF AskRelease
  <2>4. CASE Driver # "array" BY <2>1, <2>2, <2>4 DEF AskRelease, Send
  <2> QED BY <2>3, <2>4
<1>2. entry' \in [owner : Tasks \cup {"nobody"}, until : Nat] BY DEF TypeOK, AskRelease, NoEntry, Never
<1>3. job' \in [Tasks -> Job] BY DEF TypeOK, AskRelease, NoJob
<1> QED BY <1>1, <1>2, <1>3 DEF TypeOK, AskRelease, Go, PC

LEMMA TypeStep == TypeOK /\ [Next]_vars => TypeOK'
<1> SUFFICES ASSUME TypeOK, [Next]_vars PROVE TypeOK' OBVIOUS
<1> USE DEF Job, Op
<1>1. CASE UNCHANGED vars BY <1>1 DEF vars, TypeOK
<1>2. CASE Tick BY <1>2 DEF Tick, TypeOK
<1>3. ASSUME NEW p \in Tasks, Ask(p) PROVE TypeOK'
  <2>1. CASE Get(p)
    <3>1. PICK runs \in BOOLEAN : Acquire(p, [NoJob EXCEPT !.runs = runs]) BY <2>1 DEF Get
    <3>2. [NoJob EXCEPT !.runs = runs] \in Job BY DEF NoJob
    <3> QED BY <3>1, <3>2, AcquireTypes
  <2>2. CASE Block(p)
    <3>1. PICK runs \in BOOLEAN : Acquire(p, [NoJob EXCEPT !.runs = runs, !.deadline = clock + Wait])
      BY <2>2 DEF Block
    <3>2. clock + Wait \in Nat BY CacheLockAssumption DEF TypeOK
    <3>3. [NoJob EXCEPT !.runs = runs, !.deadline = clock + Wait] \in Job BY <3>2 DEF NoJob
    <3> QED BY <3>1, <3>3, AcquireTypes
  <2>3. CASE ReleaseRestored(p)
    BY <2>3, AskTypes DEF ReleaseRestored, Disclaim, TypeOK
  <2>4. CASE ForceRelease(p)
    BY <2>4, AskTypes DEF ForceRelease, TypeOK
  <2> QED BY <1>3, <2>1, <2>2, <2>3, <2>4 DEF Ask
<1>4. ASSUME NEW p \in Tasks, Serve(p) PROVE TypeOK'
  <2>1. CASE Take(p)
    <3>1. ExpiresAt(clock) \in Nat /\ (~Live(entry)) \in BOOLEAN BY Expiration DEF TypeOK, Live
    <3> QED BY <2>1, <3>1, GrantedTypes DEF Take
  <2>2. CASE Insert(p)
    <3>1. CASE entry = NoEntry
      <4>1. op[p].until \in Nat BY DEF TypeOK
      <4> QED BY <2>2, <3>1, <4>1, GrantedTypes DEF Insert
    <3>2. CASE entry # NoEntry
      <4>1. [op[p] EXCEPT !.name = "conflict"] \in Op BY DEF TypeOK, Store
      <4>2. op' \in [Tasks -> Op] BY <2>2, <3>2, <4>1 DEF Insert, Send, TypeOK
      <4> QED BY <2>2, <3>2, <4>2 DEF Insert, TypeOK
    <3> QED BY <3>1, <3>2
  <2>3. CASE Update(p)
    <3>1. op[p].until \in Nat BY DEF TypeOK
    <3>2. (entry # NoEntry /\ Expired(entry.until, op[p].now)) \in BOOLEAN OBVIOUS
    <3> QED BY <2>3, <3>1, <3>2, GrantedTypes DEF Update
  <2>4. CASE Delete(p)
    BY <2>4 DEF Delete, TypeOK, NoEntry, Never, Answer, Nothing, Matches
  <2>5. CASE DeleteForced(p)
    BY <2>5 DEF DeleteForced, TypeOK, NoEntry, Never, Answer, Nothing, NoClaim
  <2> QED BY <1>4, <2>1, <2>2, <2>3, <2>4, <2>5 DEF Serve
<1>5. ASSUME NEW p \in Tasks, Keep(p) PROVE TypeOK'
  <2>1. CASE ReleaseHeld(p) BY <2>1, AskTypes DEF ReleaseHeld, Disclaim, TypeOK
  <2>2. CASE HandOver(p) BY <2>2 DEF HandOver, Go, TypeOK, PC
  <2> QED BY <1>5, <2>1, <2>2 DEF Keep
<1>6. ASSUME NEW p \in Tasks, Continue(p) PROVE TypeOK'
  <2>1. CASE Wake(p) BY <2>1, AcquireTypes DEF Wake, TypeOK
  <2>2. CASE Retry(p)
    <3>1. [op[p] EXCEPT !.name = "update", !.now = clock] \in Op BY DEF TypeOK, Store
    <3> QED BY <2>2, <3>1 DEF Retry, Send, TypeOK
  <2>3. CASE Resume(p)
    <3>1. pc' \in [Tasks -> PC] /\ job' \in [Tasks -> Job]
      <4>1. CASE pc[p] = "acquire"
        <5>1. op[p].won \in BOOLEAN /\ job[p] \in Job BY DEF TypeOK
        <5> QED BY <2>3, <4>1, <5>1, ProceedTypes DEF Resume
      <4>2. CASE pc[p] # "acquire"
        <5>1. NoJob \in Job BY DEF NoJob
        <5> QED BY <2>3, <4>2, <5>1 DEF Resume, Go, TypeOK, PC
      <4> QED BY <4>1, <4>2
    <3> QED BY <2>3, <3>1 DEF Resume, Send, Nothing, TypeOK
  <2>4. CASE EndRun(p) BY <2>4, AskTypes DEF EndRun, Disclaim, TypeOK
  <2> QED BY <1>6, <2>1, <2>2, <2>3, <2>4 DEF Continue
<1>7. ASSUME NEW p \in Tasks, Abort(p) PROVE TypeOK'
  BY <1>7 DEF Abort, Go, Disclaim, TypeOK, PC, NoClaim
<1> QED BY <1>1, <1>2, <1>3, <1>4, <1>5, <1>6, <1>7 DEF Next

(* Every reachable state is type correct.                                    *)
THEOREM TypeCorrect == Spec => []TypeOK
<1>1. Init => TypeOK
  BY DEF Init, TypeOK, PC, NoEntry, NoJob, Nothing, NoClaim, Never
<1> QED BY <1>1, TypeStep, PTL DEF Spec
-----------------------------------------------------------------------------
(* Mutual exclusion.  An owner that may still act on the lock is the one the *)
(* store names, for at least its seconds; what is under way was computed     *)
(* from a time that has passed, and nothing claimed is being released.       *)
Backed == \A o \in Tasks : Promise!Holds(o) => entry.owner = o /\ Covers(entry.until, claim[o])

Asked == \A p \in Tasks :
    /\ op[p].name \in {"take", "insert", "conflict", "update"} =>
          op[p].owner = p /\ op[p].since <= clock /\ Covers(op[p].until, op[p].since)
    /\ op[p].name = "update" => op[p].now <= clock
    /\ op[p].name = "release" =>
          /\ op[p].owner \in Tasks /\ claim[op[p].owner] = NoClaim
          /\ op[p].owner = p \/ pc[op[p].owner] = "gone"
    /\ Driver = "array" => op[p].name \notin Store

Inv == TypeOK /\ Backed /\ Asked

Granting == IF Live(entry) THEN entry ELSE NoEntry   \* the lease of the refinement
LeaseStep == [Promise!Next]_<<clock, Granting, claim>>

LEMMA Mapped ==
    /\ Promise!NoLease = NoEntry /\ Promise!Never = Never /\ Promise!NoClaim = NoClaim
    /\ \A o : Promise!Holds(o) <=> claim[o] # NoClaim /\ (Ttl = 0 \/ clock < claim[o] + Ttl)
    /\ \A l, now : Promise!Valid(l, now) <=> l # NoEntry /\ (l.until = Never \/ l.until > now)
  BY DEF Promise!NoLease, Promise!Never, Promise!NoClaim, Promise!Holds, Promise!Valid, NoEntry, Never, NoClaim

(* An owner that may act on the lock has a live entry in the store.          *)
LEMMA HeldIsLive == ASSUME Inv, NEW o \in Tasks, Promise!Holds(o) PROVE Live(entry) /\ entry.owner = o
<1>1. entry.owner = o /\ Covers(entry.until, claim[o]) BY DEF Inv, Backed
<1>2. claim[o] \in Nat /\ (Ttl = 0 \/ clock < claim[o] + Ttl) BY Mapped DEF Inv, TypeOK
<1>3. entry.until \in Nat /\ clock \in Nat BY DEF Inv, TypeOK
<1>4. entry # NoEntry BY <1>1, CacheLockAssumption DEF NoEntry
<1> QED BY <1>1, <1>2, <1>3, <1>4, CacheLockAssumption DEF Live, Expired, Covers, Never

(* A step that leaves the store, the clock and the claims alone.             *)
LEMMA QuietStep == ASSUME Inv, UNCHANGED <<clock, entry, claim>> PROVE Backed' /\ LeaseStep
<1>1. Backed' BY Mapped DEF Inv, Backed, Promise!Holds, Covers
<1>2. UNCHANGED <<clock, Granting, claim>> BY DEF Granting, Live
<1> QED BY <1>1, <1>2 DEF LeaseStep

(* A step in which o gives the lock up, and may delete what it had.          *)
LEMMA GiveUpStep ==
    ASSUME Inv, NEW o \in Tasks, UNCHANGED clock, claim' = [claim EXCEPT ![o] = NoClaim],
           entry' = entry \/ (entry' = NoEntry /\ (Live(entry) => entry.owner = o))
    PROVE  Backed' /\ LeaseStep
<1>1. Backed'
  <2> SUFFICES ASSUME NEW u \in Tasks, Promise!Holds(u)' PROVE (entry.owner = u /\ Covers(entry.until, claim[u]))'
    BY DEF Backed
  <2>1. u # o /\ claim'[u] = claim[u] /\ Promise!Holds(u)
    BY DEF Inv, TypeOK, Promise!Holds, Promise!NoClaim, NoClaim
  <2>2. entry' = entry BY <2>1, HeldIsLive
  <2> QED BY <2>1, <2>2 DEF Inv, Backed, Covers
<1>2. CASE entry' = entry
  <2>1. Granting' = Granting BY <1>2 DEF Granting, Live
  <2>2. Promise!GiveUp(o) BY <2>1, Mapped DEF Promise!GiveUp, Granting
  <2> QED BY <1>1, <2>2 DEF LeaseStep, Promise!Next
<1>3. CASE entry' = NoEntry /\ Live(entry) /\ entry.owner = o
  <2>1. Granting = entry /\ Granting' = NoEntry /\ Granting # NoEntry BY <1>3 DEF Granting, Live
  <2>2. Promise!Vacate BY <1>3, <2>1, Mapped DEF Promise!Vacate, Granting
  <2> QED BY <1>1, <2>2 DEF LeaseStep, Promise!Next
<1>4. CASE entry' = NoEntry /\ ~Live(entry)
  <2>1. Granting' = Granting BY <1>4 DEF Granting, Live
  <2>2. Promise!GiveUp(o) BY <2>1, Mapped DEF Promise!GiveUp, Granting
  <2> QED BY <1>1, <2>2 DEF LeaseStep, Promise!Next
<1> QED BY <1>2, <1>3, <1>4

(* A step of the store that deletes the entry of an owner without a claim.   *)
LEMMA DeleteStep ==
    ASSUME Inv, NEW o \in Tasks, claim[o] = NoClaim, UNCHANGED <<clock, claim>>,
           entry' = entry \/ (entry' = NoEntry /\ entry.owner = o)
    PROVE  Backed' /\ LeaseStep
<1>1. claim' = [claim EXCEPT ![o] = NoClaim] BY DEF Inv, TypeOK
<1> QED BY <1>1, GiveUpStep

(* A step that ends the lock by force.                                       *)
LEMMA RevokeStep ==
    ASSUME Inv, UNCHANGED clock, entry' = NoEntry, claim' = [o \in Tasks |-> NoClaim]
    PROVE  Backed' /\ LeaseStep
<1>1. Backed' BY DEF Backed, Promise!Holds, Promise!NoClaim, NoClaim
<1>2. Granting' = NoEntry BY DEF Granting
<1>3. Promise!Revoke BY <1>2, Mapped DEF Promise!Revoke, Granting
<1> QED BY <1>1, <1>3 DEF LeaseStep, Promise!Next

(* Time passes: the lease may run out, by then nobody holds it.              *)
LEMMA TickStep == ASSUME Inv, Tick PROVE Backed' /\ LeaseStep
<1>1. clock' = clock + 1 /\ UNCHANGED <<entry, claim>> /\ clock \in Nat /\ entry.until \in Nat
  BY DEF Tick, Inv, TypeOK
<1>2. Backed'
  <2> SUFFICES ASSUME NEW u \in Tasks, Promise!Holds(u)' PROVE (entry.owner = u /\ Covers(entry.until, claim[u]))'
    BY DEF Backed
  <2>1. Promise!Holds(u)
    BY <1>1, CacheLockAssumption DEF Inv, TypeOK, Promise!Holds, Promise!NoClaim, NoClaim
  <2> QED BY <1>1, <2>1 DEF Inv, Backed, Covers
<1>3. Granting' = IF Promise!Valid(Granting, clock') THEN Granting ELSE NoEntry
  BY <1>1, Mapped DEF Granting, Live, Expired, Never
<1>4. Promise!Pass BY <1>1, <1>3, Mapped DEF Promise!Pass, Granting
<1> QED BY <1>2, <1>4 DEF LeaseStep, Promise!Next

(* The store grants the lock to p, while nobody has it, from what p sent at  *)
(* `since`; if p is gone it is granted to nobody.                            *)
LEMMA GrantStep ==
    ASSUME Inv, NEW p \in Tasks, NEW since \in Nat, NEW until \in Nat,
           ~Live(entry), since <= clock, Covers(until, since), UNCHANGED clock,
           entry' = [owner |-> p, until |-> until],
           claim' = IF pc[p] = "gone" THEN claim ELSE [claim EXCEPT ![p] = since]
    PROVE  Backed' /\ LeaseStep
<1>1. \A u \in Tasks : ~Promise!Holds(u) BY HeldIsLive
<1>2. Backed'
  <2> SUFFICES ASSUME NEW u \in Tasks, Promise!Holds(u)' PROVE (entry.owner = u /\ Covers(entry.until, claim[u]))'
    BY DEF Backed
  <2>1. u = p /\ claim'[u] = since
    BY <1>1 DEF Inv, TypeOK, Promise!Holds, Promise!NoClaim, NoClaim
  <2> QED BY <2>1 DEF Covers
<1>3. Granting = NoEntry BY DEF Granting
<1>4. Granting' = IF until = Never \/ until > clock THEN [owner |-> p, until |-> until] ELSE NoEntry
  BY CacheLockAssumption DEF Granting, Live, Expired, NoEntry, Inv, TypeOK
<1>5. (until = Never) <=> (Ttl = 0) BY CacheLockAssumption DEF Covers, Never
<1>6. p # "nobody" BY CacheLockAssumption
<1>7. claim' = claim \/ (claim'[p] = since /\ claim' = [claim EXCEPT ![p] = since]) BY DEF Inv, TypeOK
<1>8. Granting' # NoEntry => /\ Granting'.owner = p /\ Promise!Valid(Granting', clock)
                             /\ Granting'.until = Never <=> Ttl = 0
  BY <1>4, <1>5, <1>6, Mapped DEF NoEntry
<1>9. IF Granting' = NoEntry THEN Ttl # 0 /\ clock >= since + Ttl ELSE Ttl # 0 => Granting'.until >= since + Ttl
  <2>1. clock \in Nat /\ Ttl \in Nat BY CacheLockAssumption DEF Inv, TypeOK
  <2>2. CASE until = Never \/ until > clock
    <3>1. Granting' = [owner |-> p, until |-> until] BY <1>4, <2>2
    <3>2. Granting' # NoEntry BY <1>6, <3>1 DEF NoEntry
    <3> QED BY <3>1, <3>2, <2>1 DEF Covers
  <2>3. CASE ~(until = Never \/ until > clock)
    <3>1. Granting' = NoEntry BY <1>4, <2>3
    <3> QED BY <3>1, <2>1, <2>3, <1>5 DEF Covers
  <2> QED BY <2>2, <2>3
<1>10. Promise!Grant(p)
  <2>1. \/ claim' = claim
        \/ /\ claim'[p] \in Nat /\ claim' = [claim EXCEPT ![p] = claim'[p]]
            /\ IF Granting' = NoEntry THEN Ttl # 0 /\ clock >= claim'[p] + Ttl
                                       ELSE Ttl # 0 => Granting'.until >= claim'[p] + Ttl
    BY <1>7, <1>9
  <2> QED BY <1>3, <1>8, <2>1, Mapped DEF Promise!Grant, Granting
<1> QED BY <1>2, <1>10 DEF LeaseStep, Promise!Next

(* The step of each operation.                                               *)
LEMMA AcquireStep ==
    ASSUME Inv, NEW p \in Tasks, pc[p] # "gone", NEW j, Acquire(p, j) PROVE Asked' /\ Backed' /\ LeaseStep
<1>1. clock \in Nat /\ ExpiresAt(clock) \in Nat /\ Covers(ExpiresAt(clock), clock) /\ clock' = clock
  BY Expiration DEF Inv, TypeOK, Acquire
<1>2. CASE Driver = "array"
  <2>1. op' = op /\ AcquireAtOnce(p, j) BY <1>2 DEF Acquire, AcquireAtOnce
  <2>2. Asked' BY <1>1, <1>2, <2>1 DEF Inv, Asked, Store
  <2>3. CASE Live(entry)
    <3>1. UNCHANGED <<entry, claim>> BY <2>1, <2>3 DEF AcquireAtOnce
    <3> QED BY <1>1, <2>2, <3>1, QuietStep
  <2>4. CASE ~Live(entry)
    <3>1. entry' = [owner |-> p, until |-> ExpiresAt(clock)] /\ claim' = [claim EXCEPT ![p] = clock]
      BY <2>1, <2>4 DEF AcquireAtOnce
    <3>2. claim' = IF pc[p] = "gone" THEN claim ELSE [claim EXCEPT ![p] = clock] BY <3>1
    <3>3. clock <= clock BY <1>1
    <3>4. Backed' /\ LeaseStep BY <1>1, <2>4, <3>1, <3>2, <3>3, GrantStep
    <3> QED BY <2>2, <3>4
  <2> QED BY <2>3, <2>4
<1>3. CASE Driver # "array"
  <2>1. AcquireByStore(p, j) BY <1>3 DEF Acquire
  <2>2. op'[p].name \in {"insert", "take"} /\ op'[p].owner = p /\ op'[p].since = clock
        /\ op'[p].until = ExpiresAt(clock) /\ \A q \in Tasks \ {p} : op'[q] = op[q]
    BY <2>1 DEF AcquireByStore, Send, Nothing, Inv, TypeOK
  <2>3. UNCHANGED <<entry, claim>> /\ pc' = [pc EXCEPT ![p] = "acquire"] BY <2>1 DEF AcquireByStore, Go
  <2>4. \A u \in Tasks : pc[u] = "gone" => pc'[u] = "gone" BY <2>3 DEF Inv, TypeOK
  <2>5. Asked' BY <1>1, <1>3, <2>2, <2>3, <2>4 DEF Inv, Asked
  <2> QED BY <1>1, <2>3, <2>5, QuietStep
<1> QED BY <1>2, <1>3

LEMMA AnswerAsked ==
    ASSUME Inv, NEW p \in Tasks, NEW won, Answer(p, won), UNCHANGED <<clock, pc>>,
           \A o \in Tasks : claim'[o] = claim[o] \/ claim'[o] = NoClaim \/ (op[p].name # "release" /\ o = p /\ pc[p] # "gone")
    PROVE  Asked'
<1>1. op'[p].name = "answered" /\ \A q \in Tasks \ {p} : op'[q] = op[q]
  BY DEF Answer, Nothing, Inv, TypeOK
<1>2. "answered" \notin Store BY DEF Store
<1> SUFFICES ASSUME NEW q \in Tasks, q # p
             PROVE  op[q].name = "release" => claim'[op[q].owner] = NoClaim
  BY <1>1, <1>2 DEF Inv, Asked
<1> QED BY DEF Inv, Asked

LEMMA GrantedStep ==
    ASSUME Inv, NEW p \in Tasks, NEW won \in BOOLEAN, NEW until \in Nat, Granted(p, won, until),
           op[p].name \in {"take", "insert", "conflict", "update"},
           won => ~Live(entry), Covers(until, op[p].since)
    PROVE  Asked' /\ Backed' /\ LeaseStep
<1>1. op[p].since \in Nat /\ op[p].since <= clock /\ UNCHANGED <<clock, pc>> /\ Answer(p, won)
  BY DEF Inv, TypeOK, Asked, Granted
<1>2. CASE won
  <2>1. entry' = [owner |-> p, until |-> until]
        /\ claim' = IF pc[p] = "gone" THEN claim ELSE [claim EXCEPT ![p] = op[p].since]
    BY <1>2 DEF Granted, Claim, Inv, TypeOK
  <2>2. Backed' /\ LeaseStep BY <1>1, <1>2, <2>1, GrantStep
  <2>3. \A o \in Tasks : claim'[o] = claim[o] \/ (op[p].name # "release" /\ o = p /\ pc[p] # "gone")
    BY <2>1 DEF Inv, TypeOK
  <2>4. Asked' BY <1>1, <2>3, AnswerAsked
  <2> QED BY <2>2, <2>4
<1>3. CASE ~won
  <2>1. UNCHANGED <<entry, claim>> BY <1>3 DEF Granted
  <2>2. Asked' BY <1>1, <2>1, AnswerAsked
  <2>3. Backed' /\ LeaseStep BY <1>1, <2>1, QuietStep
  <2> QED BY <2>2, <2>3
<1> QED BY <1>2, <1>3

(* p asks for the release of o's lock, its own or one it restored.           *)
LEMMA ReleaseStep ==
    ASSUME Inv, NEW p \in Tasks, NEW o \in Tasks, pc[p] # "gone", o = p \/ pc[o] = "gone",
           AskRelease(p, "release", o), Disclaim(o)
    PROVE  Asked' /\ Backed' /\ LeaseStep
<1>1. clock' = clock /\ claim' = [claim EXCEPT ![o] = NoClaim] BY DEF AskRelease, Disclaim
<1>2. \A u \in Tasks : (pc[u] = "gone" => pc'[u] = "gone") /\ (claim[u] = NoClaim => claim'[u] = NoClaim)
  BY <1>1 DEF AskRelease, Go, Inv, TypeOK
<1>3. claim'[o] = NoClaim BY <1>1 DEF Inv, TypeOK
<1>4. CASE Driver = "array"
  <2>1. op' = op /\ entry' = IF Matches(o, clock) THEN NoEntry ELSE entry BY <1>4 DEF AskRelease
  <2>2. Asked' BY <1>1, <1>4, <2>1 DEF Inv, Asked, Store
  <2>3. entry' = entry \/ (entry' = NoEntry /\ (Live(entry) => entry.owner = o)) BY <2>1 DEF Matches
  <2> QED BY <1>1, <2>2, <2>3, GiveUpStep
<1>5. CASE Driver # "array"
  <2>1. entry' = entry BY <1>5 DEF AskRelease
  <2>2. op'[p].name = "release" /\ op'[p].owner = o /\ \A q \in Tasks \ {p} : op'[q] = op[q]
    <3>1. op' = [op EXCEPT ![p] = [Nothing EXCEPT !.name = "release", !.owner = o, !.now = clock]]
      BY <1>5 DEF AskRelease, Send
    <3>2. DOMAIN op = Tasks BY DEF Inv, TypeOK
    <3> QED BY <3>1, <3>2 DEF Nothing
  <2>3. o = p \/ pc'[o] = "gone" BY <1>2
  <2>4. Asked' BY <1>1, <1>2, <1>3, <1>5, <2>2, <2>3 DEF Inv, Asked
  <2> QED BY <1>1, <2>1, <2>4, GiveUpStep
<1> QED BY <1>4, <1>5

LEMMA InvStep == Inv /\ [Next]_vars => Inv' /\ LeaseStep
<1> SUFFICES ASSUME Inv, [Next]_vars PROVE Asked' /\ Backed' /\ LeaseStep
  BY TypeStep DEF Inv
<1>1. CASE UNCHANGED vars BY <1>1, QuietStep DEF vars, Inv, Asked
<1>2. CASE Tick
  <2>1. Asked' BY <1>2, CacheLockAssumption DEF Tick, Inv, Asked, TypeOK
  <2> QED BY <1>2, <2>1, TickStep
<1>3. ASSUME NEW p \in Tasks, Ask(p) PROVE Asked' /\ Backed' /\ LeaseStep
  <2>1. CASE Get(p) BY <2>1, AcquireStep DEF Get
  <2>2. CASE Block(p) BY <2>2, AcquireStep DEF Block
  <2>3. CASE ReleaseRestored(p)
    <3>1. PICK o \in Tasks : pc[o] = "gone" /\ AskRelease(p, "release", o) /\ Disclaim(o) /\ pc[p] = "idle"
      BY <2>3 DEF ReleaseRestored
    <3> QED BY <3>1, ReleaseStep
  <2>4. CASE ForceRelease(p)
    <3>1. AskRelease(p, "force", "nobody") /\ clock' = clock BY <2>4 DEF ForceRelease, AskRelease
    <3>2. CASE Driver = "array"
      <4>1. op' = op /\ entry' = NoEntry /\ claim' = [o \in Tasks |-> NoClaim]
        BY <2>4, <3>1, <3>2 DEF ForceRelease, AskRelease
      <4>2. Asked' BY <3>1, <3>2, <4>1 DEF Inv, Asked, Store
      <4> QED BY <3>1, <4>1, <4>2, RevokeStep
    <3>3. CASE Driver # "array"
      <4>1. UNCHANGED <<clock, entry, claim>> BY <2>4, <3>1, <3>3 DEF ForceRelease, AskRelease
      <4>2. op' = [op EXCEPT ![p] = [Nothing EXCEPT !.name = "force", !.owner = "nobody", !.now = clock]]
        BY <3>1, <3>3 DEF AskRelease, Send
      <4>3. op'[p].name = "force" /\ \A q \in Tasks \ {p} : op'[q] = op[q]
        BY <4>2 DEF Nothing, Inv, TypeOK
      <4>4. \A u \in Tasks : pc[u] = "gone" => pc'[u] = "gone"
        BY <2>4, <3>1 DEF ForceRelease, AskRelease, Go, Inv, TypeOK
      <4>5. Asked' BY <3>3, <4>1, <4>3, <4>4 DEF Inv, Asked
      <4> QED BY <4>1, <4>5, QuietStep
    <3> QED BY <3>2, <3>3
  <2> QED BY <1>3, <2>1, <2>2, <2>3, <2>4 DEF Ask
<1>4. ASSUME NEW p \in Tasks, Serve(p) PROVE Asked' /\ Backed' /\ LeaseStep
  <2>1. CASE Take(p)
    <3>1. clock \in Nat /\ op[p].since \in Nat /\ op[p].since <= clock BY <2>1 DEF Inv, TypeOK, Asked, Take
    <3>2. ExpiresAt(clock) \in Nat /\ Covers(ExpiresAt(clock), op[p].since)
      BY <3>1, Expiration, CacheLockAssumption DEF Covers
    <3> QED BY <2>1, <3>2, GrantedStep DEF Take, Live
  <2>2. CASE Insert(p)
    <3>1. CASE entry = NoEntry
      <4>1. op[p].until \in Nat /\ Covers(op[p].until, op[p].since) /\ ~Live(entry)
        BY <2>2, <3>1 DEF Inv, TypeOK, Asked, Insert, Live
      <4> QED BY <2>2, <3>1, <4>1, GrantedStep DEF Insert
    <3>2. CASE entry # NoEntry
      <4>1. UNCHANGED <<clock, entry, pc, claim>> /\ op' = [op EXCEPT ![p] = [op[p] EXCEPT !.name = "conflict"]]
        BY <2>2, <3>2 DEF Insert, Send
      <4>2. op'[p] = [op[p] EXCEPT !.name = "conflict"] /\ \A q \in Tasks \ {p} : op'[q] = op[q]
        BY <4>1 DEF Inv, TypeOK
      <4>3. op'[p].name = "conflict" /\ op'[p].owner = op[p].owner /\ op'[p].since = op[p].since
            /\ op'[p].until = op[p].until
        BY <4>2 DEF Inv, TypeOK
      <4>4. Asked' BY <2>2, <4>1, <4>2, <4>3 DEF Insert, Inv, Asked, Store
      <4> QED BY <4>1, <4>4, QuietStep
    <3> QED BY <3>1, <3>2
  <2>3. CASE Update(p)
    <3>1. op[p].until \in Nat /\ Covers(op[p].until, op[p].since) /\ op[p].now <= clock
      BY <2>3 DEF Inv, TypeOK, Asked, Update
    <3>2. Expired(entry.until, op[p].now) => ~Live(entry) BY <3>1 DEF Live, Expired, Inv, TypeOK
    <3> QED BY <2>3, <3>1, <3>2, GrantedStep DEF Update
  <2>4. CASE Delete(p)
    <3>1. PICK o \in Tasks : o = op[p].owner /\ claim[o] = NoClaim BY <2>4 DEF Delete, Inv, Asked
    <3>2. UNCHANGED <<clock, claim, pc>> /\ \E won : Answer(p, won) BY <2>4 DEF Delete
    <3>3. entry' = entry \/ (entry' = NoEntry /\ entry.owner = o) BY <2>4, <3>1 DEF Delete, Matches
    <3>4. Asked' BY <3>2, AnswerAsked
    <3> QED BY <3>1, <3>2, <3>3, <3>4, DeleteStep
  <2>5. CASE DeleteForced(p)
    <3>1. UNCHANGED <<clock, pc>> /\ entry' = NoEntry /\ claim' = [o \in Tasks |-> NoClaim] /\ Answer(p, TRUE)
      BY <2>5 DEF DeleteForced
    <3>2. Asked' BY <3>1, AnswerAsked
    <3> QED BY <3>1, <3>2, RevokeStep
  <2> QED BY <1>4, <2>1, <2>2, <2>3, <2>4, <2>5 DEF Serve
<1>5. ASSUME NEW p \in Tasks, Keep(p) PROVE Asked' /\ Backed' /\ LeaseStep
  <2>1. CASE ReleaseHeld(p) BY <2>1, ReleaseStep DEF ReleaseHeld
  <2>2. CASE HandOver(p)
    <3>1. UNCHANGED <<clock, entry, claim, op>> /\ \A u \in Tasks : pc[u] = "gone" => pc'[u] = "gone"
      BY <2>2 DEF HandOver, Go, Inv, TypeOK
    <3>2. Asked' BY <3>1 DEF Inv, Asked
    <3> QED BY <3>1, <3>2, QuietStep
  <2> QED BY <1>5, <2>1, <2>2 DEF Keep
<1>6. ASSUME NEW p \in Tasks, Continue(p) PROVE Asked' /\ Backed' /\ LeaseStep
  <2>1. CASE Wake(p) BY <2>1, AcquireStep DEF Wake
  <2>2. CASE Retry(p)
    <3>1. UNCHANGED <<clock, entry, pc, claim>> /\ op[p].name = "conflict"
          /\ op' = [op EXCEPT ![p] = [op[p] EXCEPT !.name = "update", !.now = clock]]
      BY <2>2 DEF Retry, Send
    <3>2. op'[p] = [op[p] EXCEPT !.name = "update", !.now = clock] /\ \A q \in Tasks \ {p} : op'[q] = op[q]
      BY <3>1 DEF Inv, TypeOK
    <3>3. op'[p].name = "update" /\ op'[p].owner = op[p].owner /\ op'[p].since = op[p].since
          /\ op'[p].until = op[p].until /\ op'[p].now = clock
      BY <3>2 DEF Inv, TypeOK
    <3>4. clock \in Nat BY DEF Inv, TypeOK
    <3>5. Asked' BY <3>1, <3>2, <3>3, <3>4 DEF Inv, Asked, Store
    <3> QED BY <3>1, <3>5, QuietStep
  <2>3. CASE Resume(p)
    <3>1. UNCHANGED <<clock, entry, claim>> /\ op' = [op EXCEPT ![p] = Nothing] BY <2>3 DEF Resume, Send
    <3>2. op'[p].name = "nothing" /\ \A q \in Tasks \ {p} : op'[q] = op[q]
      BY <3>1 DEF Nothing, Inv, TypeOK
    <3>3. \A u \in Tasks : pc[u] = "gone" => pc'[u] = "gone"
      BY <2>3 DEF Resume, Proceed, Go, Inv, TypeOK
    <3>4. Asked' BY <3>1, <3>2, <3>3 DEF Inv, Asked, Store
    <3> QED BY <3>1, <3>4, QuietStep
  <2>4. CASE EndRun(p) BY <2>4, ReleaseStep DEF EndRun
  <2> QED BY <1>6, <2>1, <2>2, <2>3, <2>4 DEF Continue
<1>7. ASSUME NEW p \in Tasks, Abort(p) PROVE Asked' /\ Backed' /\ LeaseStep
  <2>1. UNCHANGED <<clock, entry, op>> /\ claim' = [claim EXCEPT ![p] = NoClaim]
        /\ \A u \in Tasks : pc[u] = "gone" => pc'[u] = "gone"
    BY <1>7 DEF Abort, Go, Disclaim, Inv, TypeOK
  <2>2. \A u \in Tasks : claim[u] = NoClaim => claim'[u] = NoClaim BY <2>1 DEF Inv, TypeOK
  <2>3. Asked' BY <2>1, <2>2 DEF Inv, Asked
  <2> QED BY <2>1, <2>3, GiveUpStep
<1> QED BY <1>1, <1>2, <1>3, <1>4, <1>5, <1>6, <1>7 DEF Next

LEMMA InitInv == Init => Inv /\ Promise!Init
<1> SUFFICES ASSUME Init PROVE Inv /\ Promise!Init OBVIOUS
<1>1. TypeOK BY DEF Init, TypeOK, PC, NoEntry, NoJob, Nothing, NoClaim, Never
<1>2. Backed BY DEF Init, Backed, Promise!Holds, Promise!NoClaim, NoClaim
<1>3. Asked BY DEF Init, Asked, Nothing, Store
<1>4. Granting = NoEntry BY DEF Init, Granting, Live
<1>5. Promise!Init BY <1>4, Mapped DEF Promise!Init, Init, Granting
<1> QED BY <1>1, <1>2, <1>3, <1>5 DEF Inv

(* On every store, for any tasks and seconds, at most one owner may act on   *)
(* the lock at any time, however operations are delayed, cancelled or late.  *)
THEOREM OneHolder == Spec => []Exclusive
<1>1. Inv => Exclusive BY HeldIsLive DEF Exclusive
<1>2. Inv /\ [Next]_vars => Inv' BY InvStep
<1> QED BY InitInv, <1>1, <1>2, PTL DEF Spec

(* Every lock implements the abstract lease: what the store does to its      *)
(* entry is a grant, a release, a revocation or an expiry, or nothing.       *)
THEOREM LockIsLease == Spec => ImplementsLease
<1>1. Inv /\ [Next]_vars => Inv' /\ LeaseStep BY InvStep
<1> QED BY InitInv, <1>1, PTL DEF Spec, ImplementsLease, Promise!Spec, LeaseStep, Granting
-----------------------------------------------------------------------------
(* No lock is left behind.  What the store still has to do for a task is     *)
(* what the task awaits, unless it is gone; and the task that a live entry   *)
(* names runs, holds, was granted it, has its release under way or is gone.  *)
Asking == {"take", "insert", "conflict", "update"}
Served == \A p \in Tasks :
    /\ op[p].name \in Asking => pc[p] \in {"acquire", "gone"}
    /\ op[p].name \in {"release", "force"} => pc[p] \in {"release", "gone"}
    /\ op[p].name = "release" => op[p].now <= clock

Keeps(p) ==
    \/ pc[p] \in {"run", "held", "gone"}
    \/ pc[p] = "acquire" /\ op[p].name = "answered" /\ op[p].won
    \/ pc[p] = "release" /\ op[p].name = "release" /\ op[p].owner = p

Kept == Live(entry) => entry.owner \in Tasks /\ Keeps(entry.owner)
KeptInv == Inv /\ Served /\ Kept

(* Only p moves: the others ask for, and keep, what they did.                *)
LEMMA OnlyServed ==
    ASSUME KeptInv, NEW p \in Tasks, clock' = clock, \A q \in Tasks \ {p} : pc'[q] = pc[q] /\ op'[q] = op[q],
           op'[p].name \in Asking => pc'[p] \in {"acquire", "gone"},
           op'[p].name \in {"release", "force"} => pc'[p] \in {"release", "gone"},
           op'[p].name = "release" => op'[p].now <= clock
    PROVE  Served'
  BY DEF KeptInv, Served, Asking

LEMMA OnlyKept ==
    ASSUME KeptInv, NEW p \in Tasks, clock' = clock, \A q \in Tasks \ {p} : pc'[q] = pc[q] /\ op'[q] = op[q],
           entry' = entry \/ ~Live(entry)', Live(entry) /\ Live(entry)' /\ entry.owner = p => Keeps(p)'
    PROVE  Kept'
<1> SUFFICES ASSUME Live(entry)' PROVE (entry.owner \in Tasks /\ Keeps(entry.owner))' BY DEF Kept
<1>1. entry' = entry /\ Live(entry) BY DEF Live
<1>2. entry.owner \in Tasks /\ Keeps(entry.owner) BY <1>1 DEF KeptInv, Kept
<1>3. CASE entry.owner = p BY <1>1, <1>3
<1>4. CASE entry.owner # p
  <2>1. Keeps(entry.owner)' BY <1>1, <1>2, <1>4 DEF Keeps
  <2> QED BY <1>1, <1>2, <2>1
<1> QED BY <1>3, <1>4

LEMMA Unowned ==
    ASSUME KeptInv, NEW p \in Tasks, pc[p] \in {"idle", "sleep"} \/ op[p].name \in Asking, pc[p] # "gone", Live(entry)
    PROVE  entry.owner # p
  BY DEF KeptInv, Kept, Keeps, Asking, Served

LEMMA AcquireKept ==
    ASSUME KeptInv, NEW p \in Tasks, pc[p] \in {"idle", "sleep"}, NEW j, Acquire(p, j) PROVE Served' /\ Kept'
<1>1. clock' = clock /\ \A q \in Tasks \ {p} : pc'[q] = pc[q] /\ op'[q] = op[q]
  BY DEF Acquire, AcquireAtOnce, AcquireByStore, Proceed, Send, Go, KeptInv, Inv, TypeOK
<1>2. CASE Driver = "array"
  <2>1. op' = op /\ AcquireAtOnce(p, j) BY <1>2 DEF Acquire, AcquireAtOnce
  <2>2. op'[p].name \notin Store BY <1>2, <2>1 DEF KeptInv, Inv, Asked
  <2>3. Served' BY <1>1, <2>2, OnlyServed DEF Store, Asking
  <2>4. CASE Live(entry)
    <3>1. entry' = entry BY <2>1, <2>4 DEF AcquireAtOnce
    <3> QED BY <1>1, <2>3, <2>4, <3>1, Unowned, OnlyKept
  <2>5. CASE ~Live(entry)
    <3>1. entry'.owner = p BY <2>1, <2>5 DEF AcquireAtOnce
    <3>2. pc'[p] \in {"run", "held"} BY <2>1, <2>5 DEF AcquireAtOnce, Proceed, Go, KeptInv, Inv, TypeOK
    <3> QED BY <2>3, <3>1, <3>2 DEF Kept, Keeps
  <2> QED BY <2>4, <2>5
<1>3. CASE Driver # "array"
  <2>1. AcquireByStore(p, j) BY <1>3 DEF Acquire
  <2>2. op'[p].name \in {"insert", "take"} /\ pc'[p] = "acquire" /\ entry' = entry
    BY <2>1 DEF AcquireByStore, Send, Go, Nothing, KeptInv, Inv, TypeOK
  <2>3. Served' BY <1>1, <2>2, OnlyServed DEF Asking
  <2> QED BY <1>1, <2>2, <2>3, Unowned, OnlyKept
<1> QED BY <1>2, <1>3

LEMMA GrantedKept ==
    ASSUME KeptInv, NEW p \in Tasks, NEW won \in BOOLEAN, NEW until, Granted(p, won, until), op[p].name \in Asking
    PROVE  Served' /\ Kept'
<1>1. /\ UNCHANGED <<clock, pc>> /\ op'[p].name = "answered" /\ op'[p].won = won
      /\ \A q \in Tasks \ {p} : pc'[q] = pc[q] /\ op'[q] = op[q]
  BY DEF Granted, Answer, Nothing, KeptInv, Inv, TypeOK
<1>2. pc[p] \in {"acquire", "gone"} BY DEF KeptInv, Served
<1>3. Served' BY <1>1, OnlyServed DEF Asking
<1>4. CASE won
  <2>1. entry'.owner = p BY <1>4 DEF Granted
  <2> QED BY <1>1, <1>2, <1>3, <1>4, <2>1 DEF Kept, Keeps
<1>5. CASE ~won
  <2>1. entry' = entry BY <1>5 DEF Granted
  <2>2. Live(entry) /\ entry.owner = p => Keeps(p)' BY <1>1, <1>2, Unowned DEF Keeps
  <2> QED BY <1>1, <1>3, <2>1, <2>2, OnlyKept
<1> QED BY <1>4, <1>5

LEMMA ReleaseKept ==
    ASSUME KeptInv, NEW p \in Tasks, NEW name \in {"release", "force"}, NEW o, AskRelease(p, name, o),
           (name = "release" /\ o = p) \/ pc[p] = "idle"
    PROVE  Served' /\ Kept'
<1>1. clock' = clock /\ clock \in Nat /\ \A q \in Tasks \ {p} : pc'[q] = pc[q] /\ op'[q] = op[q]
  BY DEF AskRelease, Send, Go, KeptInv, Inv, TypeOK
<1>2. CASE Driver = "array"
  <2>1. op' = op /\ entry' = IF name = "force" \/ Matches(o, clock) THEN NoEntry ELSE entry BY <1>2 DEF AskRelease
  <2>2. op'[p].name \notin Store BY <1>2, <2>1 DEF KeptInv, Inv, Asked
  <2>3. Served' BY <1>1, <2>2, OnlyServed DEF Store, Asking
  <2>4. entry' = entry \/ ~Live(entry)' BY <2>1 DEF Live
  <2>5. ~(Live(entry) /\ Live(entry)' /\ entry.owner = p)
    <3>1. CASE name = "release" /\ o = p BY <1>1, <2>1, <3>1 DEF Live, Matches
    <3>2. CASE pc[p] = "idle" BY <3>2, Unowned
    <3> QED BY <3>1, <3>2
  <2> QED BY <1>1, <2>3, <2>4, <2>5, OnlyKept
<1>3. CASE Driver # "array"
  <2>1. /\ op' = [op EXCEPT ![p] = [Nothing EXCEPT !.name = name, !.owner = o, !.now = clock]]
        /\ entry' = entry /\ pc'[p] = "release"
    BY <1>3 DEF AskRelease, Send, Go, KeptInv, Inv, TypeOK
  <2>2. op'[p].name = name /\ op'[p].owner = o /\ op'[p].now = clock BY <2>1 DEF Nothing, KeptInv, Inv, TypeOK
  <2>3. Served' BY <1>1, <2>1, <2>2, OnlyServed DEF Asking
  <2>4. Live(entry) /\ entry.owner = p => Keeps(p)' BY <2>1, <2>2, Unowned DEF Keeps
  <2> QED BY <1>1, <2>1, <2>3, <2>4, OnlyKept
<1> QED BY <1>2, <1>3

LEMMA DeleteKept == ASSUME KeptInv, NEW p \in Tasks, Delete(p) PROVE Served' /\ Kept'
<1> DEFINE now == IF Driver = "database" THEN op[p].now ELSE clock
<1>1. /\ UNCHANGED <<clock, pc>> /\ op'[p].name = "answered" /\ op[p].name = "release"
      /\ \A q \in Tasks \ {p} : pc'[q] = pc[q] /\ op'[q] = op[q]
  BY DEF Delete, Answer, Nothing, KeptInv, Inv, TypeOK
<1>2. entry' = IF Matches(op[p].owner, now) THEN NoEntry ELSE entry BY DEF Delete
<1>3. now <= clock /\ now \in Nat /\ clock \in Nat /\ entry.until \in Nat BY <1>1 DEF KeptInv, Served, Inv, TypeOK
<1> HIDE DEF now
<1>4. Served' BY <1>1, OnlyServed DEF Asking
<1>5. entry' = entry \/ ~Live(entry)' BY <1>2 DEF Live
<1>6. Live(entry) /\ Live(entry)' /\ entry.owner = p => Keeps(p)'
  <2> SUFFICES ASSUME Live(entry), Live(entry)', entry.owner = p PROVE pc[p] = "gone" BY <1>1 DEF Keeps
  <2>1. ~Expired(entry.until, now) BY <1>3 DEF Live, Expired
  <2>2. op[p].owner # p BY <1>2, <2>1 DEF Matches, Live
  <2> QED BY <1>1, <2>2 DEF KeptInv, Kept, Keeps, Served
<1> QED BY <1>1, <1>4, <1>5, <1>6, OnlyKept

LEMMA ResumeKept == ASSUME KeptInv, NEW p \in Tasks, Resume(p) PROVE Served' /\ Kept'
<1>1. /\ UNCHANGED <<clock, entry>> /\ op[p].name = "answered" /\ op'[p].name = "nothing"
      /\ \A q \in Tasks \ {p} : pc'[q] = pc[q] /\ op'[q] = op[q]
  BY DEF Resume, Send, Nothing, Proceed, Go, KeptInv, Inv, TypeOK
<1>2. Served' BY <1>1, OnlyServed DEF Asking
<1>3. Live(entry) /\ entry.owner = p => Keeps(p)'
  <2> SUFFICES ASSUME Live(entry), entry.owner = p PROVE pc'[p] \in {"run", "held"} BY DEF Keeps
  <2>1. pc[p] = "acquire" /\ op[p].won BY <1>1 DEF KeptInv, Kept, Keeps, Resume
  <2> QED BY <2>1 DEF Resume, Proceed, Go, KeptInv, Inv, TypeOK
<1> QED BY <1>1, <1>2, <1>3, OnlyKept

LEMMA KeptStep == KeptInv /\ [Next]_vars => KeptInv'
<1> SUFFICES ASSUME KeptInv, [Next]_vars PROVE Served' /\ Kept' BY InvStep DEF KeptInv
<1>1. CASE UNCHANGED vars BY <1>1 DEF vars, KeptInv, Served, Kept, Keeps, Live
<1>2. CASE Tick
  <2>1. clock' = clock + 1 /\ UNCHANGED <<entry, pc, op>> BY <1>2 DEF Tick
  <2>2. clock \in Nat /\ entry.until \in Nat /\ \A p \in Tasks : op[p].now \in Nat BY DEF KeptInv, Inv, TypeOK
  <2>3. Live(entry)' => Live(entry) BY <2>1, <2>2 DEF Live, Expired
  <2> QED BY <2>1, <2>2, <2>3 DEF KeptInv, Served, Kept, Keeps
<1>3. ASSUME NEW p \in Tasks, Ask(p) PROVE Served' /\ Kept'
  <2>1. CASE Get(p) BY <2>1, AcquireKept DEF Get
  <2>2. CASE Block(p) BY <2>2, AcquireKept DEF Block
  <2>3. CASE ReleaseRestored(p) BY <2>3, ReleaseKept DEF ReleaseRestored
  <2>4. CASE ForceRelease(p) BY <2>4, ReleaseKept DEF ForceRelease
  <2> QED BY <1>3, <2>1, <2>2, <2>3, <2>4 DEF Ask
<1>4. ASSUME NEW p \in Tasks, Serve(p) PROVE Served' /\ Kept'
  <2>1. CASE Take(p)
    <3>1. (~Live(entry)) \in BOOLEAN BY DEF Live
    <3> QED BY <2>1, <3>1, GrantedKept DEF Take, Asking
  <2>2. CASE Insert(p)
    <3>1. CASE entry = NoEntry BY <2>2, <3>1, GrantedKept DEF Insert, Asking
    <3>2. CASE entry # NoEntry
      <4>1. UNCHANGED <<clock, entry, pc>> /\ op' = [op EXCEPT ![p] = [op[p] EXCEPT !.name = "conflict"]]
        BY <2>2, <3>2 DEF Insert, Send
      <4>2. /\ op'[p].name = "conflict" /\ op[p].name \in Asking /\ pc[p] \in {"acquire", "gone"}
            /\ \A q \in Tasks \ {p} : pc'[q] = pc[q] /\ op'[q] = op[q]
        BY <2>2, <4>1 DEF Insert, Asking, KeptInv, Served, Inv, TypeOK
      <4>3. Served' BY <4>1, <4>2, OnlyServed DEF Asking
      <4>4. Live(entry) /\ entry.owner = p => Keeps(p)' BY <4>1, <4>2, Unowned DEF Keeps
      <4> QED BY <4>1, <4>2, <4>3, <4>4, OnlyKept
    <3> QED BY <3>1, <3>2
  <2>3. CASE Update(p) BY <2>3, GrantedKept DEF Update, Asking
  <2>4. CASE Delete(p) BY <2>4, DeleteKept
  <2>5. CASE DeleteForced(p)
    <3>1. /\ UNCHANGED <<clock, pc>> /\ entry' = NoEntry /\ op'[p].name = "answered"
          /\ \A q \in Tasks \ {p} : pc'[q] = pc[q] /\ op'[q] = op[q]
      BY <2>5 DEF DeleteForced, Answer, Nothing, KeptInv, Inv, TypeOK
    <3>2. ~Live(entry)' BY <3>1 DEF Live
    <3> QED BY <3>1, <3>2, OnlyServed, OnlyKept DEF Asking
  <2> QED BY <1>4, <2>1, <2>2, <2>3, <2>4, <2>5 DEF Serve
<1>5. ASSUME NEW p \in Tasks, UNCHANGED <<clock, entry, op>>, Go(p, "gone") PROVE Served' /\ Kept'
  <2>1. pc'[p] = "gone" /\ \A q \in Tasks \ {p} : pc'[q] = pc[q] /\ op'[q] = op[q]
    BY <1>5 DEF Go, KeptInv, Inv, TypeOK
  <2>2. op'[p].name = "release" => op'[p].now <= clock BY <1>5 DEF KeptInv, Served
  <2> QED BY <1>5, <2>1, <2>2, OnlyServed, OnlyKept DEF Keeps
<1>6. ASSUME NEW p \in Tasks, Keep(p) PROVE Served' /\ Kept'
  BY <1>5, <1>6, ReleaseKept DEF Keep, ReleaseHeld, HandOver
<1>7. ASSUME NEW p \in Tasks, Continue(p) PROVE Served' /\ Kept'
  <2>1. CASE Wake(p) BY <2>1, AcquireKept DEF Wake
  <2>2. CASE Retry(p)
    <3>1. UNCHANGED <<clock, entry, pc>> /\ op[p].name = "conflict" /\ pc[p] = "acquire"
          /\ op' = [op EXCEPT ![p] = [op[p] EXCEPT !.name = "update", !.now = clock]]
      BY <2>2 DEF Retry, Send
    <3>2. op'[p].name = "update" /\ \A q \in Tasks \ {p} : pc'[q] = pc[q] /\ op'[q] = op[q]
      BY <3>1 DEF KeptInv, Inv, TypeOK
    <3>3. Served' BY <3>1, <3>2, OnlyServed
    <3>4. ~(Live(entry) /\ entry.owner = p) BY <3>1, Unowned DEF Asking
    <3> QED BY <3>1, <3>2, <3>3, <3>4, OnlyKept
  <2>3. CASE Resume(p) BY <2>3, ResumeKept
  <2>4. CASE EndRun(p) BY <2>4, ReleaseKept DEF EndRun
  <2> QED BY <1>7, <2>1, <2>2, <2>3, <2>4 DEF Continue
<1>8. ASSUME NEW p \in Tasks, Abort(p) PROVE Served' /\ Kept' BY <1>5, <1>8 DEF Abort
<1> QED BY <1>1, <1>2, <1>3, <1>4, <1>6, <1>7, <1>8 DEF Next

(* A lock that is still valid is somebody's: on every store the task it      *)
(* names runs, holds it, is being told, gives it back, or was aborted.       *)
THEOREM NothingLeaks == Spec => []NoLeak
<1>1. Init => KeptInv
  <2> SUFFICES ASSUME Init PROVE Served /\ Kept BY InitInv DEF KeptInv
  <2> QED BY DEF Init, Served, Kept, Live, Nothing, Asking
<1>2. KeptInv => NoLeak BY DEF KeptInv, Kept, Keeps, NoLeak
<1> QED BY <1>1, <1>2, KeptStep, PTL DEF Spec
-----------------------------------------------------------------------------

(* What p can still be given as an entry: of the store, or of its memo.      *)
Known(p) == entries \cup (IF memoised THEN memo[p].entries ELSE {})

(* A get of p that reads the id of the tag of i from now on reads a newer one. *)
Newer(p, i) == i[2] < tagid[i[1]] /\ (memoised /\ memo[p].tag[i[1]] > Missing => i[2] < memo[p].tag[i[1]])

(* Where an operation of p is: its next tag is there when it asks for one.   *)
Placed(p) ==
    /\ tagop[p].at = "create" => Left(p) # {}
    /\ tagop[p].do = "flush" => tagop[p].at = "create"

(* Every id in use was created.                                              *)
Counted ==
    /\ \A n \in Tags : tagid[n] <= ids
    /\ \A p \in Callers :
          /\ \A n \in Tags : memo[p].tag[n] <= ids
          /\ \A i \in tagop[p].ids : i[2] <= ids
          /\ \A e \in Known(p) : \A i \in e.ns : i[2] <= ids

(* A value that a put has returned or a flush hides; one nobody can know yet. *)
Taken(v) == (\E p \in Callers : v \in flushed[p] \/ v \in tagop[p].flushed) \/ (\E r \in put : r.val = v)
Fresh(v) == v # Missing /\ ~Taken(v) /\ \A p \in Callers : \A e \in Known(p) : e.val # v

(* The value that p puts is its own.                                         *)
PutsFresh(p) == tagop[p].do = "put" =>
    Fresh(tagop[p].val) /\ \A q \in Callers \ {p} : tagop[q].do = "put" => tagop[q].val # tagop[p].val

(* What was put under tags lies in a namespace with an id for each of them.  *)
Written == \A r \in put, p \in Callers : \A e \in Known(p) :
    e.val = r.val => \A n \in r.tags : \E i \in e.ns : i[1] = n

(* What a flush has hidden from p carries an id that p will not read again.  *)
Hidden(p) == \A e \in Known(p) : e.val \in flushed[p] => \E i \in e.ns : Newer(p, i)

(* A get may not find it either: it has read, or it will read, a newer id.   *)
Avoids(p) == tagop[p].do \in {"get", "fetch"} =>
    \A e \in Known(p) : e.val \in tagop[p].flushed =>
        \E i \in e.ns : Newer(p, i) /\ \A j \in tagop[p].ids : j[1] = i[1] => i[2] < j[2]

(* A flush under way has a tag left that will hide it, or has hidden it.     *)
Hides(p) == tagop[p].do = "flush" =>
    \A e \in Known(p) : e.val \in tagop[p].flushed =>
        \E i \in e.ns : i[1] \in tagop[p].tags /\ (i[1] \in Left(p) \/ Newer(p, i))

Task(p) == Placed(p) /\ PutsFresh(p) /\ Hidden(p) /\ Avoids(p) /\ Hides(p)
TagsInv == TagsTypeOK /\ Counted /\ ~Taken(Missing) /\ Written /\ \A p \in Callers : Task(p)
-----------------------------------------------------------------------------
(* A nonempty set of numbers has its minimum in it.                          *)
LEMMA Smallest == ASSUME NEW S \in SUBSET Nat, S # {} PROVE Min(S) \in S
<1> DEFINE R == OpToRel(<, Nat)
<1>1. IsWellFoundedOn(R, Nat) BY NatLessThanWellFounded
<1>2. \A x, y \in S : y < x => <<y, x>> \in R BY DEF OpToRel
<1> HIDE DEF R
<1>3. \E x \in S : \A y \in S : ~ (<<y, x>> \in R) BY <1>1, WFMin
<1>4. PICK x \in S : \A y \in S : ~ (<<y, x>> \in R) BY <1>3
<1>5. \A y \in S : ~ (y < x) BY <1>2, <1>4, Zenon
<1>6. \A y \in S : x <= y BY <1>5
<1> QED BY <1>6 DEF Min

LEMMA NextIsLeft ==
    ASSUME TagsAreNumbers, TagsTypeOK, NEW p \in Callers, Left(p) # {}
    PROVE  NextTag(p) \in Left(p) /\ NextTag(p) \in Tags /\ NextTag(p) \in tagop[p].tags
<1>1. tagop[p].tags \subseteq Tags BY DEF TagsTypeOK
<1>2. Left(p) \subseteq Nat BY <1>1 DEF Left, TagsAreNumbers
<1>3. Min(Left(p)) \in Left(p) BY <1>2, Smallest
<1> QED BY <1>1, <1>3 DEF NextTag, Left

-----------------------------------------------------------------------------
(* Type correctness, for which an operation must know its next tag.          *)
Ops == [do : {"idle", "get", "fetch", "put", "forget", "flush"}, at : {"none", "tag", "create", "factory"},
        tags : SUBSET Tags, ids : Namespaces, val : Values, flushed : SUBSET Values]
Memory == [tag : [Tags -> Nat \cup {Unread}], entries : SUBSET Entries]
Typed == TagsTypeOK /\ \A p \in Callers : Placed(p)

LEMMA IdleOp == ASSUME TagsTypeOK PROVE Idle \in Ops
<1>1. Missing \in Values BY DEF TagsTypeOK, Values, Missing
<1> QED BY <1>1 DEF Idle, Ops, Namespaces

LEMMA Growing == ASSUME TagsTypeOK, values' = values + 1 PROVE Values \subseteq Values' /\ values' \in Values' \ Values
  BY DEF TagsTypeOK, Values

LEMMA FoundType ==
    ASSUME TagsTypeOK, NEW es \in SUBSET Entries, NEW ns
    PROVE  /\ Found(es, ns) \in Values
           /\ Found(es, ns) # Missing => [ns |-> ns, val |-> Found(es, ns)] \in es
<1>1. CASE \E e \in es : e.ns = ns
  <2>1. PICK e \in es : e = (CHOOSE f \in es : f.ns = ns) /\ e.ns = ns BY <1>1
  <2>2. Found(es, ns) = e.val BY <1>1, <2>1 DEF Found
  <2>3. e = [ns |-> ns, val |-> e.val] /\ e.val \in Values BY <2>1 DEF Entries
  <2> QED BY <2>1, <2>2, <2>3
<1>2. CASE ~\E e \in es : e.ns = ns
  <2>1. Found(es, ns) = Missing BY <1>2 DEF Found
  <2> QED BY <2>1 DEF TagsTypeOK, Values, Missing
<1> QED BY <1>1, <1>2

(* What a get is given is an entry it may be given, or a miss.               *)
LEMMA Seen ==
    ASSUME TagsTypeOK, NEW p \in Callers, NEW ns
    PROVE  /\ EntrySeen(p, ns) \in Values
           /\ EntrySeen(p, ns) # Missing => [ns |-> ns, val |-> EntrySeen(p, ns)] \in Known(p)
<1>1. entries \in SUBSET Entries /\ memo[p].entries \in SUBSET Entries BY DEF TagsTypeOK
<1> QED BY <1>1, FoundType DEF EntrySeen, Known

LEMMA IdSeen ==
    ASSUME TagsTypeOK, NEW p \in Callers, NEW n \in Tags
    PROVE  /\ TagSeen(p, n) \in Nat
           /\ TagSeen(p, n) = tagid[n] \/ (memoised /\ TagSeen(p, n) = memo[p].tag[n])
           /\ memoised /\ memo[p].tag[n] > Missing => TagSeen(p, n) = memo[p].tag[n]
  BY DEF TagsTypeOK, TagSeen, Unread, Missing

LEMMA Remembering ==
    ASSUME TagsTypeOK, NEW p \in Callers, NEW m, Remember(p, m), m \in Memory
    PROVE  /\ memo' \in [Callers -> Memory]
           /\ \A q \in Callers \ {p} : memo'[q] = memo[q]
           /\ memoised => memo'[p] = m
           /\ ~memoised => memo' = memo
  BY DEF TagsTypeOK, Memory, Remember

(* The memory of one tag, or of one namespace.                               *)
LEMMA TagMemory ==
    ASSUME TagsTypeOK, NEW p \in Callers, NEW n \in Tags, NEW id \in Nat \cup {Unread}, RememberTag(p, n, id)
    PROVE  /\ memo' \in [Callers -> Memory]
           /\ \A q \in Callers : memo'[q].entries = memo[q].entries
           /\ \A q \in Callers, m \in Tags : ~memoised \/ q # p \/ m # n => memo'[q].tag[m] = memo[q].tag[m]
           /\ memoised => memo'[p].tag[n] = id
<1> DEFINE M == [memo[p] EXCEPT !.tag[n] = id]
<1>1. /\ M \in Memory /\ M.entries = memo[p].entries
      /\ \A m \in Tags : M.tag[m] = IF m = n THEN id ELSE memo[p].tag[m]
  BY DEF TagsTypeOK, Memory
<1>2. Remember(p, M) BY DEF RememberTag
<1> HIDE DEF M
<1> QED BY <1>1, <1>2, Remembering

LEMMA EntryMemory ==
    ASSUME TagsTypeOK, NEW p \in Callers, NEW es \in SUBSET Entries, Remember(p, [memo[p] EXCEPT !.entries = es])
    PROVE  /\ memo' \in [Callers -> Memory]
           /\ \A q \in Callers : memo'[q].tag = memo[q].tag
           /\ \A q \in Callers : memo'[q].entries = IF memoised /\ q = p THEN es ELSE memo[q].entries
<1> DEFINE M == [memo[p] EXCEPT !.entries = es]
<1>1. M \in Memory /\ M.tag = memo[p].tag /\ M.entries = es BY DEF TagsTypeOK, Memory
<1>2. Remember(p, M) OBVIOUS
<1> HIDE DEF M
<1> QED BY <1>1, <1>2, Remembering

(* The operation of p becomes o; those of the others stay what they are.     *)
SameTasks(p) == \A q \in Callers \ {p} : tagop'[q] = tagop[q]

LEMMA Sent ==
    ASSUME Typed, NEW p \in Callers, NEW o \in Ops', tagop' = [tagop EXCEPT ![p] = o], values' >= values, values' \in Nat,
           o.at = "create" => o.tags \ {i[1] : i \in o.ids} # {}, o.do = "flush" => o.at = "create"
    PROVE  tagop' \in [Callers -> Ops'] /\ tagop'[p] = o /\ SameTasks(p) /\ \A q \in Callers : Placed(q)'
<1>1. Values \subseteq Values' BY DEF Values, Typed, TagsTypeOK
<1>2. tagop \in [Callers -> Ops] BY DEF Typed, TagsTypeOK, Ops
<1>3. tagop \in [Callers -> Ops'] BY <1>1, <1>2 DEF Ops, Namespaces
<1>4. tagop' \in [Callers -> Ops'] /\ tagop'[p] = o /\ SameTasks(p) BY <1>3 DEF SameTasks
<1>5. \A q \in Callers : Placed(q)' BY <1>4 DEF Typed, Placed, Left, SameTasks
<1> QED BY <1>4, <1>5

(* How the operations begin.                                                 *)
LEMMA BeginOp ==
    ASSUME Typed, NEW p \in Callers, Begin(p)
    PROVE  /\ tagop' \in [Callers -> Ops'] /\ SameTasks(p) /\ \A q \in Callers : Placed(q)'
           /\ tagop'[p].do \in {"get", "fetch", "forget"} /\ tagop'[p].ids = {} /\ tagop'[p].flushed = flushed[p]
<1>1. PICK do \in {"get", "fetch", "forget"}, S \in (SUBSET Tags) \ {{}} :
         tagop' = [tagop EXCEPT ![p] = [Idle EXCEPT !.do = do, !.at = "tag", !.tags = S, !.flushed = flushed[p]]]
  BY DEF Begin
<1> DEFINE o == [Idle EXCEPT !.do = do, !.at = "tag", !.tags = S, !.flushed = flushed[p]]
<1>2. o.do = do /\ o.at = "tag" /\ o.ids = {} /\ o.flushed = flushed[p] BY DEF Idle
<1>3. values' = values /\ values' \in Nat /\ Missing \in Values' /\ flushed[p] \in SUBSET Values'
  BY DEF Begin, Typed, TagsTypeOK, Values, Missing
<1>4. o \in Ops' BY <1>3 DEF Idle, Ops, Namespaces
<1>5. tagop' = [tagop EXCEPT ![p] = o] BY <1>1
<1> HIDE DEF o
<1>6. values' >= values /\ o.at # "create" /\ o.do # "flush" BY <1>2, <1>3
<1>7. tagop' \in [Callers -> Ops'] /\ tagop'[p] = o /\ SameTasks(p) /\ \A q \in Callers : Placed(q)'
  BY <1>3, <1>4, <1>5, <1>6, Sent
<1> QED BY <1>2, <1>7

LEMMA PutOp ==
    ASSUME Typed, NEW p \in Callers, NEW S \in SUBSET Tags, values' = values + 1,
           tagop' = [tagop EXCEPT ![p] = [Idle EXCEPT !.do = "put", !.at = "tag", !.tags = S, !.val = values']]
    PROVE  /\ tagop' \in [Callers -> Ops'] /\ SameTasks(p) /\ \A q \in Callers : Placed(q)'
           /\ tagop'[p].do = "put" /\ tagop'[p].ids = {} /\ tagop'[p].flushed = {} /\ tagop'[p].val = values'
<1> DEFINE o == [Idle EXCEPT !.do = "put", !.at = "tag", !.tags = S, !.val = values']
<1>1. o.do = "put" /\ o.at = "tag" /\ o.ids = {} /\ o.flushed = {} /\ o.val = values' BY DEF Idle
<1>2. values' \in Nat /\ values' >= values /\ values' \in Values' BY DEF Typed, TagsTypeOK, Values
<1>3. o \in Ops' BY <1>2 DEF Idle, Ops, Namespaces
<1>4. tagop' = [tagop EXCEPT ![p] = o] OBVIOUS
<1> HIDE DEF o
<1>5. o.at # "create" /\ o.do # "flush" BY <1>1
<1>6. tagop' \in [Callers -> Ops'] /\ tagop'[p] = o /\ SameTasks(p) /\ \A q \in Callers : Placed(q)'
  BY <1>2, <1>3, <1>4, <1>5, Sent
<1> QED BY <1>1, <1>6

LEMMA FlushOp ==
    ASSUME Typed, NEW p \in Callers, Flush(p)
    PROVE  /\ tagop' \in [Callers -> Ops'] /\ SameTasks(p) /\ \A q \in Callers : Placed(q)'
           /\ tagop'[p].do = "flush" /\ tagop'[p].ids = {}
           /\ \A v \in tagop'[p].flushed : \E r \in put : r.val = v /\ \E n \in r.tags : n \in tagop'[p].tags
<1>1. PICK S \in (SUBSET Tags) \ {{}} :
         tagop' = [tagop EXCEPT ![p] = [Idle EXCEPT !.do = "flush", !.at = "create", !.tags = S,
                                              !.flushed = {v.val : v \in {v \in put : v.tags \cap S # {}}}]]
  BY DEF Flush
<1> DEFINE h == {v.val : v \in {v \in put : v.tags \cap S # {}}}
           o == [Idle EXCEPT !.do = "flush", !.at = "create", !.tags = S, !.flushed = h]
<1>2. o.do = "flush" /\ o.at = "create" /\ o.ids = {} /\ o.tags = S /\ o.flushed = h BY DEF Idle
<1>3. values' = values /\ values' \in Nat /\ Missing \in Values' /\ Values' = Values
  BY DEF Flush, Typed, TagsTypeOK, Values, Missing
<1>4. h \in SUBSET Values' BY <1>3 DEF Typed, TagsTypeOK
<1>5. \A v \in h : \E r \in put : r.val = v /\ \E n \in r.tags : n \in S OBVIOUS
<1>6. tagop' = [tagop EXCEPT ![p] = o] BY <1>1
<1> HIDE DEF h
<1>7. o \in Ops' BY <1>3, <1>4 DEF Idle, Ops, Namespaces
<1> HIDE DEF o
<1>a. PICK n \in S : n \in o.tags \ {i[1] : i \in o.ids} BY <1>2
<1>8. values' >= values /\ o.tags \ {i[1] : i \in o.ids} # {} BY <1>3, <1>a
<1>9. tagop' \in [Callers -> Ops'] /\ tagop'[p] = o /\ SameTasks(p) /\ \A q \in Callers : Placed(q)'
  BY <1>2, <1>3, <1>6, <1>7, <1>8, Sent
<1> QED BY <1>2, <1>5, <1>9

LEMMA Finished ==
    ASSUME Typed, NEW p \in Callers, Done(p), UNCHANGED values
    PROVE  tagop' \in [Callers -> Ops'] /\ tagop'[p] = Idle /\ SameTasks(p) /\ \A q \in Callers : Placed(q)'
<1>1. Idle \in Ops' BY IdleOp DEF Typed, Ops, Values
<1>2. Idle.at # "create" /\ Idle.do # "flush" BY DEF Idle
<1>3. values' >= values /\ values' \in Nat BY DEF Typed, TagsTypeOK
<1> QED BY <1>1, <1>2, <1>3, Sent DEF Done

(* A step in which p learns at most one id: tagop is otherwise what it was.     *)
Learns(p, n, id) ==
    /\ tagop' \in [Callers -> Ops'] /\ SameTasks(p) /\ \A q \in Callers : Placed(q)'
    /\ tagop'[p].do = tagop[p].do /\ tagop'[p].tags = tagop[p].tags /\ tagop'[p].val = tagop[p].val /\ tagop'[p].flushed = tagop[p].flushed
    /\ tagop'[p].ids = tagop[p].ids \/ (id # Missing /\ tagop'[p].ids = tagop[p].ids \cup {<<n, id>>})

LEMMA GivenId ==
    ASSUME Typed, NEW p \in Callers, NEW n \in Tags, NEW id \in Nat, HasId(p, n, id), values' = values,
           tagop[p].do # "flush", id # Missing
    PROVE  Learns(p, n, id)
<1> DEFINE o == [tagop[p] EXCEPT !.ids = @ \cup {<<n, id>>}, !.at = "tag"]
<1>1. tagop[p] \in Ops BY DEF Typed, TagsTypeOK, Ops
<1>2. tagop[p].ids \cup {<<n, id>>} \in Namespaces BY <1>1 DEF Ops, Namespaces
<1>3. /\ o \in Ops /\ o.at = "tag" /\ o.do = tagop[p].do /\ o.tags = tagop[p].tags /\ o.val = tagop[p].val
      /\ o.flushed = tagop[p].flushed /\ o.ids = tagop[p].ids \cup {<<n, id>>}
  BY <1>1, <1>2 DEF Ops
<1>4. o \in Ops' BY <1>3 DEF Ops, Values
<1>5. tagop' = [tagop EXCEPT ![p] = o] BY DEF HasId
<1>6. values' >= values /\ values' \in Nat BY DEF Typed, TagsTypeOK
<1> HIDE DEF o
<1>7. tagop' \in [Callers -> Ops'] /\ tagop'[p] = o /\ SameTasks(p) /\ \A q \in Callers : Placed(q)'
  BY <1>3, <1>4, <1>5, <1>6, Sent
<1> QED BY <1>3, <1>7 DEF Learns

LEMMA Creating ==
    ASSUME TagsTypeOK, NEW p \in Callers, NEW n \in Tags, Created(p, n)
    PROVE  /\ ids' = ids + 1 /\ ids' \in Nat /\ tagid' \in [Tags -> Nat] /\ memo' \in [Callers -> Memory]
           /\ \A m \in Tags : tagid'[m] = IF m = n THEN ids' ELSE tagid[m]
           /\ \A q \in Callers : memo'[q].entries = memo[q].entries
           /\ \A q \in Callers, m \in Tags : ~memoised \/ q # p \/ m # n => memo'[q].tag[m] = memo[q].tag[m]
           /\ memoised => memo'[p].tag[n] = Unread
<1>1. RememberTag(p, n, Unread) BY DEF Created, ForgetTag, RememberTag
<1>2. ids' = ids + 1 /\ ids' \in Nat /\ tagid' = [tagid EXCEPT ![n] = ids'] BY DEF Created, TagsTypeOK
<1>3. Unread \in Nat \cup {Unread} OBVIOUS
<1>4. tagid' \in [Tags -> Nat] /\ \A m \in Tags : tagid'[m] = IF m = n THEN ids' ELSE tagid[m]
  BY <1>2 DEF TagsTypeOK
<1>5. /\ memo' \in [Callers -> Memory]
      /\ \A q \in Callers : memo'[q].entries = memo[q].entries
      /\ \A q \in Callers, m \in Tags : ~memoised \/ q # p \/ m # n => memo'[q].tag[m] = memo[q].tag[m]
      /\ memoised => memo'[p].tag[n] = Unread
  BY <1>1, <1>3, TagMemory
<1> QED BY <1>2, <1>4, <1>5

LEMMA Grown ==
    ASSUME TagsTypeOK, values' \in Nat, values' >= values
    PROVE  /\ Values \subseteq Values' /\ Entries \subseteq Entries'
           /\ memo \in [Callers -> Memory'] /\ put \subseteq [val : Values', tags : SUBSET Tags]
           /\ flushed \in [Callers -> SUBSET Values']
<1>1. Values \subseteq Values' BY DEF Values, TagsTypeOK
<1>2. Entries \subseteq Entries' BY <1>1 DEF Entries, Namespaces
<1>3. memo \in [Callers -> Memory'] BY <1>2 DEF TagsTypeOK, Memory
<1> QED BY <1>1, <1>2, <1>3 DEF TagsTypeOK

(* The id of the next tag, where it is created: no operation of another task *)
(* is touched, and a flush goes on while it has a tag left.                  *)
LEMMA ResetOp ==
    ASSUME TagsAreNumbers, Typed, NEW p \in Callers, Reset(p)
    PROVE  /\ tagop' \in [Callers -> Ops'] /\ SameTasks(p) /\ \A q \in Callers : Placed(q)'
           /\ Created(p, NextTag(p)) /\ Left(p) # {} /\ tagop[p].do = "flush"
           /\ \/ tagop'[p] = Idle /\ Left(p) = {NextTag(p)} /\ Hide(p, tagop[p].flushed)
              \/ /\ tagop'[p].do = "flush" /\ tagop'[p].tags = tagop[p].tags /\ tagop'[p].flushed = tagop[p].flushed
                 /\ tagop'[p].ids = tagop[p].ids \cup {<<NextTag(p), ids'>>} /\ UNCHANGED flushed
<1> DEFINE n == NextTag(p)
<1>1. tagop[p].do = "flush" /\ Left(p) # {} /\ Created(p, n) BY DEF Typed, Placed, Reset
<1>2. n \in Left(p) /\ n \in Tags BY <1>1, NextIsLeft DEF Typed
<1>3. ids' \in Nat BY <1>1, <1>2, Creating DEF Typed
<1>4. values' = values /\ values \in Nat BY DEF Reset, Typed, TagsTypeOK
<1> HIDE DEF n
<1>5. CASE Left(p) = {n}
  <2>1. Done(p) /\ Hide(p, tagop[p].flushed) BY <1>5 DEF Reset, n
  <2> QED BY <1>1, <1>4, <1>5, <2>1, Finished DEF n
<1>6. CASE Left(p) # {n}
  <2> DEFINE o == [tagop[p] EXCEPT !.ids = @ \cup {<<n, ids'>>}]
  <2>1. tagop' = [tagop EXCEPT ![p] = o] /\ UNCHANGED flushed BY <1>6 DEF Reset, n
  <2>2. tagop[p] \in Ops BY DEF Typed, TagsTypeOK, Ops
  <2>3. tagop[p].ids \cup {<<n, ids'>>} \in Namespaces BY <1>2, <1>3, <2>2 DEF Ops, Namespaces
  <2>4. o \in Ops BY <2>2, <2>3 DEF Ops
  <2>5. o.do = "flush" /\ o.tags = tagop[p].tags /\ o.flushed = tagop[p].flushed /\ o.at = "create"
        /\ o.ids = tagop[p].ids \cup {<<n, ids'>>}
    BY <1>1, <2>2 DEF Typed, Placed, Ops
  <2>6. o \in Ops' BY <1>4, <2>4 DEF Ops, Values
  <2> HIDE DEF o
  <2>7. PICK m \in Left(p) : m # n BY <1>2, <1>6
  <2>8. m \in o.tags \ {i[1] : i \in o.ids} BY <2>5, <2>7 DEF Left
  <2>a. o.tags \ {i[1] : i \in o.ids} # {} /\ values' >= values /\ values' \in Nat BY <1>4, <2>8
  <2>9. tagop' \in [Callers -> Ops'] /\ tagop'[p] = o /\ SameTasks(p) /\ \A q \in Callers : Placed(q)'
    BY <2>1, <2>5, <2>6, <2>a, Sent
  <2> QED BY <1>1, <2>1, <2>5, <2>9 DEF n
<1> QED BY <1>5, <1>6

LEMMA TagIdOp ==
    ASSUME TagsAreNumbers, Typed, NEW p \in Callers, TagId(p)
    PROVE  /\ NextTag(p) \in Tags /\ tagop[p].do # "flush"
           /\ RememberTag(p, NextTag(p), TagSeen(p, NextTag(p)))
           /\ Learns(p, NextTag(p), TagSeen(p, NextTag(p)))
<1> DEFINE n == NextTag(p)
           id == TagSeen(p, n)
<1>1. n \in Tags /\ Left(p) # {} BY NextIsLeft DEF Typed, TagId
<1>2. tagop[p].do # "flush" BY DEF Typed, Placed, TagId
<1>3. id \in Nat BY <1>1, IdSeen DEF Typed
<1>4. RememberTag(p, n, id) /\ values' = values BY DEF TagId
<1>5. tagop[p] \in Ops BY DEF Typed, TagsTypeOK, Ops
<1> HIDE DEF n, id
<1>6. CASE id = Missing
  <2> DEFINE o == [tagop[p] EXCEPT !.at = "create"]
  <2>1. tagop' = [tagop EXCEPT ![p] = o] BY <1>6 DEF TagId, n, id
  <2>2. o \in Ops /\ o.do = tagop[p].do /\ o.tags = tagop[p].tags /\ o.val = tagop[p].val /\ o.flushed = tagop[p].flushed
        /\ o.ids = tagop[p].ids
    BY <1>5 DEF Ops
  <2>a. Ops' = Ops BY <1>4 DEF Ops, Values
  <2>3. o \in Ops' /\ values' >= values /\ values' \in Nat BY <1>4, <2>2, <2>a DEF Typed, TagsTypeOK
  <2> HIDE DEF o
  <2>4. o.tags \ {i[1] : i \in o.ids} # {} BY <1>1, <2>2 DEF Left
  <2>5. tagop' \in [Callers -> Ops'] /\ tagop'[p] = o /\ SameTasks(p) /\ \A q \in Callers : Placed(q)'
    BY <1>2, <2>1, <2>2, <2>3, <2>4, Sent
  <2>6. Learns(p, n, id) BY <2>2, <2>5 DEF Learns
  <2> QED BY <1>1, <1>2, <1>4, <2>6 DEF n, id
<1>7. CASE id # Missing
  <2>1. HasId(p, n, id) BY <1>7 DEF TagId, n, id
  <2>3. Learns(p, n, id) BY <1>1, <1>2, <1>3, <1>4, <1>7, <2>1, GivenId
  <2> QED BY <1>1, <1>2, <1>4, <2>3 DEF n, id
<1> QED BY <1>6, <1>7

LEMMA CreateIdOp ==
    ASSUME TagsAreNumbers, Typed, NEW p \in Callers, CreateId(p)
    PROVE  /\ NextTag(p) \in Tags /\ tagop[p].do # "flush" /\ Created(p, NextTag(p)) /\ Learns(p, NextTag(p), ids')
<1> DEFINE n == NextTag(p)
<1>1. n \in Tags BY NextIsLeft DEF Typed, Placed, CreateId
<1>2. tagop[p].do # "flush" /\ Created(p, n) /\ HasId(p, n, ids') /\ values' = values BY DEF CreateId
<1> HIDE DEF n
<1>3. ids' = ids + 1 /\ ids' \in Nat /\ ids \in Nat BY <1>1, <1>2, Creating DEF Typed, TagsTypeOK
<1>4. ids' # Missing BY <1>3 DEF Missing
<1>5. Learns(p, n, ids') BY <1>1, <1>2, <1>3, <1>4, GivenId
<1> QED BY <1>1, <1>2, <1>5 DEF n

(* A read leaves the entry or the miss it saw in the memo.                   *)
LEMMA LookupOp ==
    ASSUME Typed, NEW p \in Callers, Lookup(p)
    PROVE  /\ tagop' \in [Callers -> Ops'] /\ SameTasks(p) /\ \A q \in Callers : Placed(q)'
           /\ tagop'[p] = Idle \/ (tagop'[p].do = tagop[p].do /\ tagop'[p].ids = tagop[p].ids /\ tagop'[p].flushed = tagop[p].flushed)
           /\ tagop[p].do \in {"get", "fetch"}
           /\ memo' \in [Callers -> Memory] /\ \A q \in Callers : memo'[q].tag = memo[q].tag
           /\ \A q \in Callers : \A e \in memo'[q].entries :
                 e \in memo[q].entries \/ (memoised /\ q = p /\ ((e.val = Missing /\ e.ns = tagop[p].ids) \/ e \in Known(p)))
<1> DEFINE ns == tagop[p].ids
           v == EntrySeen(p, ns)
           es == With(memo[p].entries, ns, v)
<1>1. tagop[p] \in Ops /\ ns \in Namespaces /\ memo[p] \in Memory BY DEF Typed, TagsTypeOK, Ops, Memory
<1>2. v \in Values /\ (v # Missing => [ns |-> ns, val |-> v] \in Known(p)) BY Seen DEF Typed
<1>3. Remember(p, [memo[p] EXCEPT !.entries = es]) BY DEF Lookup, RememberEntry
<1>a. TagsTypeOK BY DEF Typed
<1>4. (tagop[p].do = "fetch" /\ tagop' = [tagop EXCEPT ![p].at = "factory"]) \/ Done(p) BY DEF Lookup
<1>5. tagop[p].do \in {"get", "fetch"} /\ values' = values /\ values \in Nat BY DEF Lookup, At, Typed, TagsTypeOK
<1> HIDE DEF v
<1>6. es \in SUBSET Entries BY <1>1, <1>2 DEF With, Without, Entries, Memory
<1>7. \A e \in es : e \in memo[p].entries \/ (e.val = Missing /\ e.ns = ns) \/ e \in Known(p)
  BY <1>2 DEF With, Without
<1> HIDE DEF es
<1>8. /\ memo' \in [Callers -> Memory] /\ \A q \in Callers : memo'[q].tag = memo[q].tag
      /\ \A q \in Callers : memo'[q].entries = IF memoised /\ q = p THEN es ELSE memo[q].entries
  BY <1>3, <1>6, <1>a, EntryMemory
<1>9. CASE Done(p)
  <2>1. tagop' \in [Callers -> Ops'] /\ tagop'[p] = Idle /\ SameTasks(p) /\ \A q \in Callers : Placed(q)'
    BY <1>5, <1>9, Finished
  <2> QED BY <1>5, <1>7, <1>8, <2>1
<1>10. CASE tagop[p].do = "fetch" /\ tagop' = [tagop EXCEPT ![p].at = "factory"]
  <2> DEFINE o == [tagop[p] EXCEPT !.at = "factory"]
  <2>1. tagop' = [tagop EXCEPT ![p] = o] BY <1>10
  <2>2. o \in Ops /\ o.do = tagop[p].do /\ o.ids = tagop[p].ids /\ o.flushed = tagop[p].flushed /\ o.at = "factory"
    BY <1>1 DEF Ops
  <2>3. o \in Ops' /\ values' >= values /\ values' \in Nat BY <1>5, <2>2 DEF Ops, Values
  <2> HIDE DEF o
  <2>4. tagop' \in [Callers -> Ops'] /\ tagop'[p] = o /\ SameTasks(p) /\ \A q \in Callers : Placed(q)'
    BY <1>10, <2>1, <2>2, <2>3, Sent
  <2> QED BY <1>5, <1>7, <1>8, <2>2, <2>4
<1> QED BY <1>4, <1>9, <1>10

LEMMA TagsTypeStep == TagsAreNumbers /\ Typed /\ [TagsNext]_tagVars => Typed'
<1> SUFFICES ASSUME TagsAreNumbers, Typed, [TagsNext]_tagVars PROVE Typed' OBVIOUS
<1>1. CASE UNCHANGED tagVars BY <1>1 DEF tagVars, Typed, TagsTypeOK, Placed, Left, Values, Entries
<1>2. CASE TagsNext
  <2>1. PICK p \in Callers : TagStep(p) BY <1>2 DEF TagsNext
  <2>2. memoised' = memoised /\ TagsTypeOK BY <1>2 DEF TagsNext, Typed
  <2>3. ASSUME tagop' \in [Callers -> Ops'], \A q \in Callers : Placed(q)', memo' \in [Callers -> Memory], UNCHANGED values,
               tagid' \in [Tags -> Nat], ids' \in Nat, entries' \subseteq Entries,
               put' \subseteq [val : Values, tags : SUBSET Tags], flushed' \in [Callers -> SUBSET Values]
        PROVE  Typed'
    <3>1. Entries' = Entries /\ Values' = Values BY <2>3 DEF Entries, Values
    <3> QED BY <2>2, <2>3, <3>1 DEF Typed, TagsTypeOK, Ops, Memory
  <2>4. ASSUME tagop' \in [Callers -> Ops'], \A q \in Callers : Placed(q)', values' = values + 1,
               UNCHANGED <<tagid, entries, memo, ids, put, flushed>>
        PROVE  Typed'
    BY <2>2, <2>4, Grown DEF Typed, TagsTypeOK, Ops, Memory
  <2>5. ASSUME UNCHANGED <<tagid, entries, memo, ids, put, flushed, values>>
        PROVE  /\ memo' \in [Callers -> Memory] /\ tagid' \in [Tags -> Nat] /\ ids' \in Nat /\ entries' \subseteq Entries
               /\ put' \subseteq [val : Values, tags : SUBSET Tags] /\ flushed' \in [Callers -> SUBSET Values]
    BY <2>2, <2>5 DEF TagsTypeOK, Memory
  <2>6. tagop[p] \in Ops /\ memo[p] \in Memory /\ tagop[p].ids \in Namespaces BY <2>2 DEF TagsTypeOK, Ops, Memory
  <2>7. ASSUME NEW es \in SUBSET Entries, Remember(p, [memo[p] EXCEPT !.entries = es])
        PROVE  memo' \in [Callers -> Memory]
    BY <2>2, <2>7, EntryMemory
  <2>8. CASE Begin(p) BY <2>3, <2>5, <2>8, BeginOp DEF Begin
  <2>9. CASE Put(p) BY <2>4, <2>9, PutOp DEF Put
  <2>10. CASE Flush(p) BY <2>3, <2>5, <2>10, FlushOp DEF Flush
  <2>11. CASE TagId(p)
    <3>1. TagSeen(p, NextTag(p)) \in Nat BY <2>2, <2>11, TagIdOp, IdSeen
    <3>2. memo' \in [Callers -> Memory] BY <2>2, <2>11, <3>1, TagIdOp, TagMemory
    <3> QED BY <2>2, <2>3, <2>11, <3>2, TagIdOp DEF TagId, Learns, TagsTypeOK
  <2>12. CASE CreateId(p)
    <3>1. ids' \in Nat /\ tagid' \in [Tags -> Nat] /\ memo' \in [Callers -> Memory]
      BY <2>2, <2>12, CreateIdOp, Creating
    <3> QED BY <2>2, <2>3, <2>12, <3>1, CreateIdOp DEF CreateId, Learns, TagsTypeOK
  <2>13. CASE Reset(p)
    <3>1. NextTag(p) \in Tags BY <2>2, <2>13, ResetOp, NextIsLeft
    <3>2. ids' \in Nat /\ tagid' \in [Tags -> Nat] /\ memo' \in [Callers -> Memory]
      BY <2>2, <2>13, <3>1, ResetOp, Creating
    <3>3. flushed' \in [Callers -> SUBSET Values]
      <4>1. tagop[p].flushed \subseteq Values /\ flushed \in [Callers -> SUBSET Values] BY <2>2, <2>6 DEF Ops, TagsTypeOK
      <4>2. Hide(p, tagop[p].flushed) \/ UNCHANGED flushed BY <2>13, ResetOp
      <4> QED BY <4>1, <4>2 DEF Hide
    <3> QED BY <2>2, <2>3, <2>13, <3>2, <3>3, ResetOp DEF Reset, TagsTypeOK
  <2>14. CASE Lookup(p) BY <2>2, <2>3, <2>14, LookupOp DEF Lookup, TagsTypeOK
  <2>15. CASE Factory(p)
    <3>1. CASE Done(p) /\ UNCHANGED values BY <2>3, <2>5, <2>15, <3>1, Finished DEF Factory
    <3>2. CASE ~(Done(p) /\ UNCHANGED values)
      BY <2>4, <2>6, <2>15, <3>2, PutOp DEF Factory, Ops
    <3> QED BY <3>1, <3>2
  <2>16. CASE PutEntry(p)
    <3>1. With(entries, tagop[p].ids, tagop[p].val) \in SUBSET Entries
      BY <2>2, <2>6 DEF With, Without, Entries, Ops, TagsTypeOK
    <3>2. Without(memo[p].entries, tagop[p].ids) \in SUBSET Entries BY <2>6 DEF Without, Memory
    <3>3. memo' \in [Callers -> Memory] BY <2>7, <2>16, <3>2 DEF PutEntry, ForgetEntry
    <3>4. put' \subseteq [val : Values, tags : SUBSET Tags] BY <2>2, <2>6, <2>16 DEF PutEntry, Ops, TagsTypeOK
    <3> QED BY <2>2, <2>3, <2>16, <3>1, <3>3, <3>4, Finished DEF PutEntry, TagsTypeOK
  <2>17. CASE ForgetIt(p)
    <3>1. Without(entries, tagop[p].ids) \in SUBSET Entries BY <2>2 DEF Without, TagsTypeOK
    <3>2. Without(memo[p].entries, tagop[p].ids) \in SUBSET Entries BY <2>6 DEF Without, Memory
    <3>3. memo' \in [Callers -> Memory] BY <2>7, <2>17, <3>2 DEF ForgetIt, ForgetEntry
    <3> QED BY <2>2, <2>3, <2>17, <3>1, <3>3, Finished DEF ForgetIt, TagsTypeOK
  <2> QED BY <2>1, <2>8, <2>9, <2>10, <2>11, <2>12, <2>13, <2>14, <2>15, <2>16, <2>17 DEF TagStep
<1> QED BY <1>1, <1>2
-----------------------------------------------------------------------------
(* What a step keeps: no task is offered an entry it could not have had, no  *)
(* id becomes older, and nothing is hidden that was not put.                 *)
KeepKnown == \A q \in Callers : \A e \in Known(q)' :
    e \in Known(q) \/ (e.val = Missing /\ \A i \in e.ns : i \in Tags \X Nat /\ i[2] <= ids)
KeepNewer == \A q \in Callers : \A i \in Tags \X Nat : Newer(q, i) => Newer(q, i)'
KeepTaken == put' = put /\ \A q \in Callers : \A v : v \in flushed'[q] \/ v \in tagop'[q].flushed => Taken(v)
EntriesKeep == KeepKnown /\ KeepNewer /\ KeepTaken

LEMMA Ids ==
    ASSUME TagsTypeOK, NEW q \in Callers
    PROVE  /\ tagop[q].ids \subseteq Tags \X Nat
           /\ \A e \in Known(q) : e \in Entries /\ e.ns \subseteq Tags \X Nat /\ e.val \in Values
<1>1. tagop[q].ids \in Namespaces /\ memo[q].entries \subseteq Entries /\ entries \subseteq Entries BY DEF TagsTypeOK
<1> QED BY <1>1 DEF Known, Entries, Namespaces

LEMMA KeepFresh ==
    ASSUME TagsInv, EntriesKeep
    PROVE  ~Taken(Missing)' /\ Written' /\ \A v : Fresh(v) => Fresh(v)'
<1>1. \A v : Taken(v)' => Taken(v) BY DEF EntriesKeep, KeepTaken, Taken
<1>2. ~Taken(Missing)' BY <1>1 DEF TagsInv
<1>3. \A r \in put : r.val # Missing BY DEF TagsInv, Taken
<1>4. Written' BY <1>3 DEF TagsInv, Written, EntriesKeep, KeepKnown, KeepTaken
<1>5. ASSUME NEW v, Fresh(v) PROVE Fresh(v)' BY <1>1, <1>5 DEF Fresh, EntriesKeep, KeepKnown
<1> QED BY <1>2, <1>4, <1>5

LEMMA KeepHidden ==
    ASSUME TagsInv, EntriesKeep, NEW q \in Callers, flushed'[q] = flushed[q] PROVE Hidden(q)'
<1> SUFFICES ASSUME NEW e \in Known(q)', e.val \in flushed[q] PROVE \E i \in e.ns : Newer(q, i)' BY DEF Hidden
<1>1. e.val # Missing BY DEF TagsInv, Taken
<1>2. e \in Known(q) BY <1>1 DEF EntriesKeep, KeepKnown
<1>3. PICK i \in e.ns : Newer(q, i) BY <1>2 DEF TagsInv, Task, Hidden
<1>4. i \in Tags \X Nat BY <1>2, Ids DEF TagsInv
<1> QED BY <1>3, <1>4 DEF EntriesKeep, KeepNewer

(* A task that goes on as it was, or a get that learnt an id that is newer   *)
(* than any the entries to be hidden from it carry.                          *)
LEMMA KeepAvoids ==
    ASSUME TagsInv, EntriesKeep, NEW q \in Callers, tagop'[q].do = tagop[q].do, tagop'[q].flushed = tagop[q].flushed,
           \A e \in Known(q) : \A i \in e.ns : Newer(q, i) =>
              \A j \in tagop'[q].ids : j \in tagop[q].ids \/ (j[1] = i[1] => i[2] < j[2])
    PROVE  Avoids(q)'
<1> SUFFICES ASSUME tagop[q].do \in {"get", "fetch"}, NEW e \in Known(q)', e.val \in tagop[q].flushed
             PROVE  \E i \in e.ns : Newer(q, i)' /\ \A j \in tagop'[q].ids : j[1] = i[1] => i[2] < j[2]
  BY DEF Avoids
<1>1. e.val # Missing BY DEF TagsInv, Taken
<1>2. e \in Known(q) BY <1>1 DEF EntriesKeep, KeepKnown
<1>3. PICK i \in e.ns : Newer(q, i) /\ \A j \in tagop[q].ids : j[1] = i[1] => i[2] < j[2]
  BY <1>2 DEF TagsInv, Task, Avoids
<1>4. i \in Tags \X Nat BY <1>2, Ids DEF TagsInv
<1> QED BY <1>2, <1>3, <1>4 DEF EntriesKeep, KeepNewer

LEMMA KeepHides ==
    ASSUME TagsInv, EntriesKeep, NEW q \in Callers, tagop'[q].do = tagop[q].do, tagop'[q].tags = tagop[q].tags, tagop'[q].flushed = tagop[q].flushed,
           \A e \in Known(q) : \A i \in e.ns : i[1] \in Left(q) => i[1] \in Left(q)' \/ Newer(q, i)'
    PROVE  Hides(q)'
<1> SUFFICES ASSUME tagop[q].do = "flush", NEW e \in Known(q)', e.val \in tagop[q].flushed
             PROVE  \E i \in e.ns : i[1] \in tagop[q].tags /\ (i[1] \in Left(q)' \/ Newer(q, i)')
  BY DEF Hides
<1>1. e.val # Missing BY DEF TagsInv, Taken
<1>2. e \in Known(q) BY <1>1 DEF EntriesKeep, KeepKnown
<1>3. PICK i \in e.ns : i[1] \in tagop[q].tags /\ (i[1] \in Left(q) \/ Newer(q, i)) BY <1>2 DEF TagsInv, Task, Hides
<1>4. i \in Tags \X Nat BY <1>2, Ids DEF TagsInv
<1> QED BY <1>2, <1>3, <1>4 DEF EntriesKeep, KeepNewer

(* Everything but p's own operation and the numbers.                         *)
LEMMA KeepTasks ==
    ASSUME TagsInv, EntriesKeep, NEW p \in Callers, SameTasks(p), \A q \in Callers : Placed(q)',
           \A q \in Callers : flushed'[q] = flushed[q] \/ Hidden(q)',
           tagop'[p].do = "put" => /\ Fresh(tagop'[p].val)
                                /\ \A q \in Callers \ {p} : tagop[q].do = "put" => tagop[q].val # tagop'[p].val,
           Avoids(p)', Hides(p)'
    PROVE  ~Taken(Missing)' /\ Written' /\ \A q \in Callers : Task(q)'
<1>1. ~Taken(Missing)' /\ Written' /\ \A v : Fresh(v) => Fresh(v)' BY KeepFresh
<1>2. \A q \in Callers : Hidden(q)' BY KeepHidden
<1>3. ASSUME NEW q \in Callers PROVE PutsFresh(q)'
  BY <1>1 DEF PutsFresh, SameTasks, TagsInv, Task
<1>4. ASSUME NEW q \in Callers PROVE Avoids(q)' /\ Hides(q)'
  <2>1. CASE q = p BY <2>1
  <2>2. CASE q # p
    <3>1. tagop'[q] = tagop[q] BY <2>2 DEF SameTasks
    <3>2. Left(q)' = Left(q) BY <3>1 DEF Left
    <3> QED BY <3>1, <3>2, KeepAvoids, KeepHides
  <2> QED BY <2>1, <2>2
<1> QED BY <1>1, <1>2, <1>3, <1>4 DEF Task

LEMMA KeepCounted ==
    ASSUME TagsInv, EntriesKeep, ids' \in Nat, ids' >= ids, \A n \in Tags : tagid'[n] <= ids',
           \A q \in Callers : \A n \in Tags : memo'[q].tag[n] <= ids',
           \A q \in Callers : \A i \in tagop'[q].ids : i \in tagop[q].ids \/ i[2] <= ids'
    PROVE  Counted'
<1>1. ids \in Nat BY DEF TagsInv, TagsTypeOK
<1>2. ASSUME NEW q \in Callers, NEW i \in tagop'[q].ids PROVE i[2] <= ids'
  <2>1. i \in tagop[q].ids => i[2] \in Nat /\ i[2] <= ids BY Ids DEF TagsInv, Counted
  <2> QED BY <1>1, <2>1
<1>3. ASSUME NEW q \in Callers, NEW e \in Known(q)', NEW i \in e.ns PROVE i[2] <= ids'
  <2>1. i \in Tags \X Nat /\ i[2] <= ids BY Ids DEF TagsInv, Counted, EntriesKeep, KeepKnown
  <2> QED BY <1>1, <2>1
<1> QED BY <1>2, <1>3 DEF Counted

(* A step that leaves the store, the memos and the ids alone.                *)
LEMMA Quiet ==
    ASSUME TagsInv, UNCHANGED <<memoised, tagid, entries, memo, ids, put, flushed>>, NEW p \in Callers, SameTasks(p),
           \A v : v \in tagop'[p].flushed => Taken(v), tagop'[p].ids \subseteq tagop[p].ids
    PROVE  EntriesKeep /\ Counted'
<1>1. KeepKnown BY DEF KeepKnown, Known
<1>2. KeepNewer BY DEF KeepNewer, Newer
<1>3. KeepTaken BY DEF KeepTaken, Taken, SameTasks
<1>4. \A q \in Callers : tagop'[q].ids \subseteq tagop[q].ids BY DEF SameTasks
<1>5. ids \in Nat /\ \A n \in Tags : tagid[n] <= ids /\ \A q \in Callers : memo[q].tag[n] <= ids
  BY DEF TagsInv, TagsTypeOK, Counted
<1> QED BY <1>1, <1>2, <1>3, <1>4, <1>5, KeepCounted DEF EntriesKeep

(* The conclusion of a step, where the operation of p is over.               *)
EntriesKept == Counted' /\ ~Taken(Missing)' /\ Written' /\ \A q \in Callers : Task(q)'

LEMMA InvTyped == TagsInv => Typed BY DEF TagsInv, Typed, Task

LEMMA BeginStep == ASSUME TagsInv, NEW p \in Callers, Begin(p), memoised' = memoised PROVE EntriesKept
<1>1. /\ SameTasks(p) /\ \A q \in Callers : Placed(q)'
      /\ tagop'[p].do \in {"get", "fetch", "forget"} /\ tagop'[p].ids = {} /\ tagop'[p].flushed = flushed[p]
  BY InvTyped, BeginOp
<1>2. UNCHANGED <<memoised, tagid, entries, memo, ids, put, flushed>> BY DEF Begin
<1>3. EntriesKeep /\ Counted' BY <1>1, <1>2, Quiet DEF Taken
<1>4. Avoids(p)'
  <2> SUFFICES ASSUME NEW e \in Known(p)', e.val \in flushed[p] PROVE \E i \in e.ns : Newer(p, i)'
    BY <1>1 DEF Avoids
  <2>1. Hidden(p)' BY <1>2, <1>3, KeepHidden
  <2> QED BY <1>2, <2>1 DEF Hidden
<1>5. Hides(p)' BY <1>1 DEF Hides
<1> QED BY <1>1, <1>2, <1>3, <1>4, <1>5, KeepTasks DEF EntriesKept

LEMMA PutStep ==
    ASSUME TagsInv, NEW p \in Callers, NEW S \in SUBSET Tags, values' = values + 1,
           tagop' = [tagop EXCEPT ![p] = [Idle EXCEPT !.do = "put", !.at = "tag", !.tags = S, !.val = values']],
           UNCHANGED <<memoised, tagid, entries, memo, ids, put, flushed>>
    PROVE  EntriesKept
<1>1. /\ SameTasks(p) /\ \A q \in Callers : Placed(q)'
      /\ tagop'[p].do = "put" /\ tagop'[p].ids = {} /\ tagop'[p].flushed = {} /\ tagop'[p].val = values'
  BY InvTyped, PutOp
<1>2. EntriesKeep /\ Counted' BY <1>1, Quiet
<1>3. values' # Missing /\ values' \notin Values BY DEF TagsInv, TagsTypeOK, Values, Missing
<1>4. \A r \in put : r.val \in Values BY DEF TagsInv, TagsTypeOK
<1>5. \A q \in Callers : flushed[q] \subseteq Values /\ tagop[q].flushed \subseteq Values /\ tagop[q].val \in Values
  BY DEF TagsInv, TagsTypeOK
<1>6. \A q \in Callers : \A e \in Known(q) : e.val \in Values BY Ids DEF TagsInv
<1>7. Fresh(values') BY <1>3, <1>4, <1>5, <1>6 DEF Fresh, Taken
<1>8. Avoids(p)' /\ Hides(p)' BY <1>1 DEF Avoids, Hides
<1> QED BY <1>1, <1>2, <1>3, <1>5, <1>7, <1>8, KeepTasks DEF EntriesKept

LEMMA FlushStep == ASSUME TagsInv, NEW p \in Callers, Flush(p), memoised' = memoised PROVE EntriesKept
<1>1. /\ SameTasks(p) /\ \A q \in Callers : Placed(q)' /\ tagop'[p].do = "flush" /\ tagop'[p].ids = {}
      /\ \A v \in tagop'[p].flushed : \E r \in put : r.val = v /\ \E n \in r.tags : n \in tagop'[p].tags
  BY InvTyped, FlushOp
<1>2. UNCHANGED <<memoised, tagid, entries, memo, ids, put, flushed>> BY DEF Flush
<1>3. EntriesKeep /\ Counted' BY <1>1, <1>2, Quiet DEF Taken
<1>4. Avoids(p)' BY <1>1 DEF Avoids
<1>5. Hides(p)'
  <2> SUFFICES ASSUME NEW e \in Known(p)', e.val \in tagop'[p].flushed
               PROVE  \E i \in e.ns : i[1] \in tagop'[p].tags /\ i[1] \in Left(p)'
    BY DEF Hides
  <2>1. PICK r \in put : r.val = e.val /\ \E n \in r.tags : n \in tagop'[p].tags BY <1>1
  <2>2. e \in Known(p) BY <1>2 DEF Known
  <2>3. PICK i \in e.ns : i[1] \in tagop'[p].tags BY <2>1, <2>2 DEF TagsInv, Written
  <2>4. Left(p)' = tagop'[p].tags BY <1>1 DEF Left
  <2> QED BY <2>3, <2>4
<1> QED BY <1>1, <1>2, <1>3, <1>4, <1>5, KeepTasks DEF EntriesKept

LEMMA TagIdStep ==
    ASSUME TagsAreNumbers, TagsInv, NEW p \in Callers, TagId(p), memoised' = memoised PROVE EntriesKept
<1> DEFINE n == NextTag(p)
           id == TagSeen(p, n)
<1>1. n \in Tags /\ tagop[p].do # "flush" /\ RememberTag(p, n, id) /\ Learns(p, n, id) BY InvTyped, TagIdOp
<1>2. UNCHANGED <<memoised, tagid, entries, ids, values, put, flushed>> BY DEF TagId
<1> HIDE DEF n
<1>3. /\ id \in Nat
      /\ id = tagid[n] \/ (memoised /\ id = memo[p].tag[n])
      /\ memoised /\ memo[p].tag[n] > Missing => id = memo[p].tag[n]
  BY <1>1, IdSeen DEF TagsInv
<1> HIDE DEF id
<1>a. TagsTypeOK BY DEF TagsInv
<1>4. /\ \A q \in Callers : memo'[q].entries = memo[q].entries
      /\ \A q \in Callers, m \in Tags : ~memoised \/ q # p \/ m # n => memo'[q].tag[m] = memo[q].tag[m]
      /\ memoised => memo'[p].tag[n] = id
  BY <1>1, <1>3, <1>a, TagMemory
<1>5. /\ ids \in Nat /\ id <= ids
      /\ \A m \in Tags : tagid[m] \in Nat /\ tagid[m] <= ids /\ \A q \in Callers : memo[q].tag[m] <= ids
  BY <1>1, <1>3 DEF TagsInv, TagsTypeOK, Counted
<1>6. ASSUME NEW i \in Tags \X Nat, Newer(p, i), i[1] = n, id # Missing PROVE i[2] < id
  BY <1>1, <1>3, <1>5, <1>6 DEF Newer, Missing
<1>7. KeepKnown BY <1>2, <1>4 DEF KeepKnown, Known
<1>8. KeepNewer
  <2> SUFFICES ASSUME NEW q \in Callers, NEW i \in Tags \X Nat, Newer(q, i) PROVE Newer(q, i)' BY DEF KeepNewer
  <2>1. CASE memoised /\ q = p /\ i[1] = n
    <3>1. memo'[q].tag[i[1]] = id BY <1>4, <2>1
    <3>2. id > Missing => i[2] < id BY <1>3, <1>6, <2>1 DEF Missing
    <3>3. i[2] < tagid'[i[1]] BY <1>2 DEF Newer
    <3> QED BY <3>1, <3>2, <3>3 DEF Newer
  <2>2. CASE ~memoised \/ q # p \/ i[1] # n BY <1>2, <1>4, <2>2 DEF Newer
  <2> QED BY <2>1, <2>2
<1>9. KeepTaken BY <1>1, <1>2 DEF KeepTaken, Taken, Learns, SameTasks
<1>10. EntriesKeep BY <1>7, <1>8, <1>9 DEF EntriesKeep
<1>11. Counted'
  <2>1. \A q \in Callers : \A m \in Tags : memo'[q].tag[m] <= ids' BY <1>2, <1>4, <1>5
  <2>2. \A q \in Callers : \A i \in tagop'[q].ids : i \in tagop[q].ids \/ i[2] <= ids'
    BY <1>1, <1>2, <1>5 DEF Learns, SameTasks
  <2> QED BY <1>2, <1>5, <1>10, <2>1, <2>2, KeepCounted
<1>12. Avoids(p)'
  <2>1. ASSUME NEW e \in Known(p), NEW i \in e.ns, Newer(p, i), NEW j \in tagop'[p].ids, j \notin tagop[p].ids, j[1] = i[1]
        PROVE  i[2] < j[2]
    <3>1. j = <<n, id>> /\ id # Missing BY <1>1, <2>1 DEF Learns
    <3>2. i \in Tags \X Nat BY <2>1, Ids DEF TagsInv
    <3> QED BY <1>6, <2>1, <3>1, <3>2
  <2> QED BY <1>1, <1>10, <2>1, KeepAvoids DEF Learns
<1>13. Hides(p)' BY <1>1 DEF Hides, Learns
<1>14. tagop'[p].do = "put" => /\ Fresh(tagop'[p].val)
                            /\ \A q \in Callers \ {p} : tagop[q].do = "put" => tagop[q].val # tagop'[p].val
  BY <1>1 DEF Learns, TagsInv, Task, PutsFresh
<1> QED BY <1>1, <1>2, <1>10, <1>11, <1>12, <1>13, <1>14, KeepTasks DEF EntriesKept, Learns

(* The id of a tag is created: it is newer than all that are in use.         *)
LEMMA CreatedStep ==
    ASSUME TagsInv, NEW p \in Callers, NEW n \in Tags, Created(p, n), memoised' = memoised,
           entries' = entries, put' = put, SameTasks(p),
           \A q \in Callers : \A v \in flushed'[q] \cup tagop'[q].flushed : Taken(v),
           tagop'[p].ids \subseteq tagop[p].ids \cup {<<n, ids'>>}
    PROVE  /\ EntriesKeep /\ Counted'
           /\ \A i \in Tags \X Nat : i[2] <= ids /\ i[1] = n => i[2] < ids' /\ Newer(p, i)'
           /\ ~memoised => \A q \in Callers : \A i \in Tags \X Nat : Newer(p, i)' => Newer(q, i)'
<1>1. TagsTypeOK BY DEF TagsInv
<1>2. /\ ids' = ids + 1 /\ ids' \in Nat
      /\ \A m \in Tags : tagid'[m] = IF m = n THEN ids' ELSE tagid[m]
      /\ \A q \in Callers : memo'[q].entries = memo[q].entries
      /\ \A q \in Callers, m \in Tags : ~memoised \/ q # p \/ m # n => memo'[q].tag[m] = memo[q].tag[m]
      /\ memoised => memo'[p].tag[n] = Unread
  BY <1>1, Creating
<1>3. /\ ids \in Nat
      /\ \A m \in Tags : tagid[m] \in Nat /\ tagid[m] <= ids
                         /\ \A q \in Callers : memo[q].tag[m] <= ids /\ memo[q].tag[m] \in Nat \cup {Unread}
  BY DEF TagsInv, TagsTypeOK, Counted
<1>4. KeepKnown BY <1>2 DEF KeepKnown, Known
<1>5. ASSUME NEW i \in Tags \X Nat, i[2] <= ids, i[1] = n PROVE i[2] < ids' /\ Newer(p, i)'
  BY <1>2, <1>3, <1>5 DEF Newer, Unread, Missing
<1>6. KeepNewer
  <2> SUFFICES ASSUME NEW q \in Callers, NEW i \in Tags \X Nat, Newer(q, i) PROVE Newer(q, i)' BY DEF KeepNewer
  <2>1. i[2] \in Nat /\ i[2] < tagid[i[1]] /\ i[1] \in Tags BY DEF Newer
  <2>2. i[2] < tagid'[i[1]] /\ i[2] <= ids BY <1>2, <1>3, <2>1
  <2>3. CASE memoised /\ q = p /\ i[1] = n BY <1>5, <2>2, <2>3
  <2>4. CASE ~memoised \/ q # p \/ i[1] # n
    <3>1. memo'[q].tag[i[1]] = memo[q].tag[i[1]] BY <1>2, <2>1, <2>4
    <3> QED BY <2>2, <3>1 DEF Newer
  <2> QED BY <2>3, <2>4
<1>7. EntriesKeep BY <1>4, <1>6 DEF EntriesKeep, KeepTaken
<1>8. Counted'
  <2>1. \A q \in Callers : \A m \in Tags : memo'[q].tag[m] <= ids'
    <3> SUFFICES ASSUME NEW q \in Callers, NEW m \in Tags PROVE memo'[q].tag[m] <= ids' OBVIOUS
    <3>1. CASE memoised /\ q = p /\ m = n BY <1>2, <3>1 DEF Unread
    <3>2. CASE ~memoised \/ q # p \/ m # n BY <1>2, <1>3, <3>2 DEF Unread
    <3> QED BY <3>1, <3>2
  <2>2. \A q \in Callers : \A i \in tagop'[q].ids : i \in tagop[q].ids \/ i[2] <= ids' BY <1>2 DEF SameTasks
  <2>3. \A m \in Tags : tagid'[m] <= ids' BY <1>2, <1>3
  <2> QED BY <1>2, <1>3, <1>7, <2>1, <2>2, <2>3, KeepCounted
<1>9. ~memoised => \A q \in Callers : \A i \in Tags \X Nat : Newer(p, i)' => Newer(q, i)' BY DEF Newer
<1> QED BY <1>5, <1>7, <1>8, <1>9

LEMMA CreateIdStep ==
    ASSUME TagsAreNumbers, TagsInv, NEW p \in Callers, CreateId(p), memoised' = memoised PROVE EntriesKept
<1> DEFINE n == NextTag(p)
<1>1. n \in Tags /\ tagop[p].do # "flush" /\ Created(p, n) /\ Learns(p, n, ids') BY InvTyped, CreateIdOp
<1>2. UNCHANGED <<memoised, entries, values, put, flushed>> BY DEF CreateId
<1> HIDE DEF n
<1>3. /\ EntriesKeep /\ Counted'
      /\ \A i \in Tags \X Nat : i[2] <= ids /\ i[1] = n => i[2] < ids'
  <2>1. \A q \in Callers : \A v \in flushed'[q] \cup tagop'[q].flushed : Taken(v)
    BY <1>1, <1>2 DEF Learns, SameTasks, Taken
  <2>2. tagop'[p].ids \subseteq tagop[p].ids \cup {<<n, ids'>>} /\ SameTasks(p) BY <1>1 DEF Learns
  <2> QED BY <1>1, <1>2, <2>1, <2>2, CreatedStep
<1>4. Avoids(p)'
  <2>1. ASSUME NEW e \in Known(p), NEW i \in e.ns, NEW j \in tagop'[p].ids, j \notin tagop[p].ids, j[1] = i[1]
        PROVE  i[2] < j[2]
    <3>1. j = <<n, ids'>> BY <1>1, <2>1 DEF Learns
    <3>2. i \in Tags \X Nat /\ i[2] <= ids BY <2>1, Ids DEF TagsInv, Counted
    <3> QED BY <1>3, <2>1, <3>1, <3>2
  <2> QED BY <1>1, <1>3, <2>1, KeepAvoids DEF Learns
<1>5. Hides(p)' BY <1>1 DEF Hides, Learns
<1>6. tagop'[p].do = "put" => /\ Fresh(tagop'[p].val)
                           /\ \A q \in Callers \ {p} : tagop[q].do = "put" => tagop[q].val # tagop'[p].val
  BY <1>1 DEF Learns, TagsInv, Task, PutsFresh
<1> QED BY <1>1, <1>2, <1>3, <1>4, <1>5, <1>6, KeepTasks DEF EntriesKept, Learns

(* A tag of a flush gets its new id: with the last one, what was put under   *)
(* any of them is hidden, from the others too if the store is shared.        *)
LEMMA ResetStep ==
    ASSUME TagsAreNumbers, TagsInv, NEW p \in Callers, Reset(p), memoised' = memoised PROVE EntriesKept
<1> DEFINE n == NextTag(p)
<1>1. /\ SameTasks(p) /\ \A q \in Callers : Placed(q)'
      /\ Created(p, n) /\ Left(p) # {} /\ tagop[p].do = "flush"
      /\ \/ tagop'[p] = Idle /\ Left(p) = {n} /\ Hide(p, tagop[p].flushed)
         \/ /\ tagop'[p].do = "flush" /\ tagop'[p].tags = tagop[p].tags /\ tagop'[p].flushed = tagop[p].flushed
            /\ tagop'[p].ids = tagop[p].ids \cup {<<n, ids'>>} /\ UNCHANGED flushed
  BY InvTyped, ResetOp
<1>2. n \in Tags /\ entries' = entries /\ put' = put /\ values' = values
  BY <1>1, NextIsLeft DEF Reset, TagsInv
<1> HIDE DEF n
<1>3. \A q \in Callers : \A v \in flushed'[q] \cup tagop'[q].flushed : Taken(v)
  <2>1. \A q \in Callers : flushed'[q] \subseteq flushed[q] \cup tagop[p].flushed BY <1>1 DEF Hide
  <2>2. \A q \in Callers : tagop'[q].flushed \subseteq tagop[q].flushed BY <1>1 DEF SameTasks, Idle
  <2> QED BY <2>1, <2>2 DEF Taken
<1>4. tagop'[p].ids \subseteq tagop[p].ids \cup {<<n, ids'>>} BY <1>1 DEF Idle
<1>5. /\ EntriesKeep /\ Counted'
      /\ \A i \in Tags \X Nat : i[2] <= ids /\ i[1] = n => Newer(p, i)'
      /\ ~memoised => \A q \in Callers : \A i \in Tags \X Nat : Newer(p, i)' => Newer(q, i)'
  BY <1>1, <1>2, <1>3, <1>4, CreatedStep
<1>6. \A e \in Known(p) : \A i \in e.ns : i \in Tags \X Nat /\ i[2] <= ids BY Ids DEF TagsInv, Counted
<1>7. Avoids(p)' BY <1>1 DEF Avoids, Idle
<1>8. tagop'[p].do # "put" BY <1>1 DEF Idle
<1>9. CASE tagop'[p].do = "flush"
  <2>1. Hides(p)'
    <3>1. ASSUME NEW e \in Known(p), NEW i \in e.ns, i[1] \in Left(p)
          PROVE  i[1] \in Left(p)' \/ Newer(p, i)'
      <4>1. CASE i[1] = n BY <1>5, <1>6, <3>1, <4>1
      <4>2. CASE i[1] # n BY <1>1, <1>9, <3>1, <4>2 DEF Left, Idle
      <4> QED BY <4>1, <4>2
    <3> QED BY <1>1, <1>5, <1>9, <3>1, KeepHides DEF Idle
  <2>2. flushed' = flushed BY <1>1, <1>9 DEF Idle
  <2> QED BY <1>1, <1>5, <1>7, <1>8, <2>1, <2>2, KeepTasks DEF EntriesKept
<1>10. CASE tagop'[p].do # "flush"
  <2>1. tagop'[p] = Idle /\ Left(p) = {n} /\ Hide(p, tagop[p].flushed) BY <1>1, <1>10
  <2>2. Hides(p)' BY <2>1 DEF Hides, Idle
  <2>3. ASSUME NEW e \in Known(p), e.val \in tagop[p].flushed PROVE \E i \in e.ns : Newer(p, i)'
    <3>1. PICK i \in e.ns : i[1] \in Left(p) \/ Newer(p, i) BY <1>1, <2>3 DEF TagsInv, Task, Hides
    <3>2. i \in Tags \X Nat /\ i[2] <= ids BY <1>6
    <3> QED BY <1>5, <2>1, <3>1, <3>2 DEF EntriesKeep, KeepNewer
  <2>4. ASSUME NEW q \in Callers PROVE flushed'[q] = flushed[q] \/ Hidden(q)'
    <3>1. CASE memoised /\ q # p BY <2>1, <3>1 DEF Hide
    <3>2. CASE ~memoised \/ q = p
      <4> SUFFICES ASSUME NEW e \in Known(q)', e.val \in flushed'[q] PROVE \E i \in e.ns : Newer(q, i)'
        BY DEF Hidden
      <4>1. e.val \in flushed[q] \cup tagop[p].flushed BY <2>1 DEF Hide
      <4>2. e.val # Missing BY <4>1 DEF TagsInv, Taken
      <4>3. e \in Known(q) BY <1>5, <4>2 DEF EntriesKeep, KeepKnown
      <4>4. CASE e.val \in flushed[q]
        <5>1. PICK i \in e.ns : Newer(q, i) BY <4>3, <4>4 DEF TagsInv, Task, Hidden
        <5>2. i \in Tags \X Nat BY <4>3, Ids DEF TagsInv
        <5> QED BY <1>5, <5>1, <5>2 DEF EntriesKeep, KeepNewer
      <4>5. CASE e.val \in tagop[p].flushed
        <5>1. e \in Known(p) BY <3>2, <4>3 DEF Known
        <5>2. PICK i \in e.ns : Newer(p, i)' BY <2>3, <4>5, <5>1
        <5>3. i \in Tags \X Nat BY <1>6, <5>1
        <5> QED BY <1>5, <3>2, <5>2, <5>3
      <4> QED BY <4>1, <4>4, <4>5
    <3> QED BY <3>1, <3>2
  <2> QED BY <1>1, <1>5, <1>7, <1>8, <2>2, <2>4, KeepTasks DEF EntriesKept
<1> QED BY <1>9, <1>10

LEMMA LookupStep == ASSUME TagsInv, NEW p \in Callers, Lookup(p), memoised' = memoised PROVE EntriesKept
<1>1. /\ SameTasks(p) /\ \A q \in Callers : Placed(q)'
      /\ tagop'[p] = Idle \/ (tagop'[p].do = tagop[p].do /\ tagop'[p].ids = tagop[p].ids /\ tagop'[p].flushed = tagop[p].flushed)
      /\ tagop[p].do \in {"get", "fetch"}
      /\ \A q \in Callers : memo'[q].tag = memo[q].tag
      /\ \A q \in Callers : \A e \in memo'[q].entries :
            e \in memo[q].entries \/ (memoised /\ q = p /\ ((e.val = Missing /\ e.ns = tagop[p].ids) \/ e \in Known(p)))
  BY InvTyped, LookupOp
<1>2. UNCHANGED <<memoised, tagid, entries, ids, values, put, flushed>> BY DEF Lookup
<1>3. \A i \in tagop[p].ids : i \in Tags \X Nat /\ i[2] <= ids BY Ids DEF TagsInv, Counted
<1>4. KeepKnown BY <1>1, <1>2, <1>3 DEF KeepKnown, Known
<1>5. KeepNewer BY <1>1, <1>2 DEF KeepNewer, Newer
<1>6. \A q \in Callers : tagop'[q].ids \subseteq tagop[q].ids /\ tagop'[q].flushed \subseteq tagop[q].flushed
  BY <1>1 DEF SameTasks, Idle
<1>7. KeepTaken BY <1>2, <1>6 DEF KeepTaken, Taken
<1>8. EntriesKeep BY <1>4, <1>5, <1>7 DEF EntriesKeep
<1>9. ids \in Nat /\ \A n \in Tags : tagid[n] <= ids /\ \A q \in Callers : memo[q].tag[n] <= ids
  BY DEF TagsInv, TagsTypeOK, Counted
<1>10. Counted' BY <1>1, <1>2, <1>6, <1>8, <1>9, KeepCounted
<1>11. tagop'[p].do # "put" /\ Hides(p)' BY <1>1 DEF Hides, Idle
<1>12. Avoids(p)'
  <2>1. CASE tagop'[p] = Idle BY <2>1 DEF Avoids, Idle
  <2>2. CASE tagop'[p] # Idle BY <1>1, <1>6, <1>8, <2>2, KeepAvoids
  <2> QED BY <2>1, <2>2
<1> QED BY <1>1, <1>2, <1>8, <1>10, <1>11, <1>12, KeepTasks DEF EntriesKept

(* A step that ends the operation of p, and leaves fewer entries at most.    *)
LEMMA EndStep ==
    ASSUME TagsInv, NEW p \in Callers, Done(p), UNCHANGED <<memoised, tagid, ids, values, put, flushed>>,
           entries' \subseteq entries, \A q \in Callers : memo'[q].tag = memo[q].tag,
           \A q \in Callers : memo'[q].entries \subseteq memo[q].entries
    PROVE  EntriesKept
<1>1. tagop'[p] = Idle /\ SameTasks(p) /\ \A q \in Callers : Placed(q)' BY InvTyped, Finished
<1>2. KeepKnown BY DEF KeepKnown, Known
<1>3. KeepNewer BY DEF KeepNewer, Newer
<1>4. \A q \in Callers : tagop'[q].ids \subseteq tagop[q].ids /\ tagop'[q].flushed \subseteq tagop[q].flushed
  BY <1>1 DEF SameTasks, Idle
<1>5. EntriesKeep BY <1>2, <1>3, <1>4 DEF EntriesKeep, KeepTaken, Taken
<1>6. ids \in Nat /\ \A n \in Tags : tagid[n] <= ids /\ \A q \in Callers : memo[q].tag[n] <= ids
  BY DEF TagsInv, TagsTypeOK, Counted
<1>7. Counted' BY <1>4, <1>5, <1>6, KeepCounted
<1>8. tagop'[p].do # "put" /\ Avoids(p)' /\ Hides(p)' BY <1>1 DEF Avoids, Hides, Idle
<1> QED BY <1>1, <1>5, <1>7, <1>8, KeepTasks DEF EntriesKept

LEMMA ForgetStep == ASSUME TagsInv, NEW p \in Callers, ForgetIt(p), memoised' = memoised PROVE EntriesKept
<1> DEFINE es == Without(memo[p].entries, tagop[p].ids)
<1>1. TagsTypeOK /\ es \in SUBSET Entries /\ es \subseteq memo[p].entries BY DEF TagsInv, TagsTypeOK, Without
<1>2. Remember(p, [memo[p] EXCEPT !.entries = es]) BY DEF ForgetIt, ForgetEntry
<1> HIDE DEF es
<1>3. /\ \A q \in Callers : memo'[q].tag = memo[q].tag
      /\ \A q \in Callers : memo'[q].entries = IF memoised /\ q = p THEN es ELSE memo[q].entries
  BY <1>1, <1>2, EntryMemory
<1>4. Done(p) /\ entries' \subseteq entries /\ UNCHANGED <<memoised, tagid, ids, values, put, flushed>>
  BY DEF ForgetIt, Without
<1> QED BY <1>1, <1>3, <1>4, EndStep

LEMMA FactoryStep == ASSUME TagsInv, NEW p \in Callers, Factory(p), memoised' = memoised PROVE EntriesKept
<1>1. UNCHANGED <<memoised, tagid, entries, memo, ids, put, flushed>> BY DEF Factory
<1>2. CASE Done(p) /\ UNCHANGED values BY <1>1, <1>2, EndStep
<1>3. CASE ~(Done(p) /\ UNCHANGED values)
  <2>1. tagop[p].tags \in SUBSET Tags BY DEF TagsInv, TagsTypeOK
  <2> QED BY <1>1, <1>3, <2>1, PutStep DEF Factory
<1> QED BY <1>2, <1>3

(* A put returns: its value is new, and under an id for each of its tags.    *)
LEMMA PutEntryStep == ASSUME TagsInv, NEW p \in Callers, PutEntry(p), memoised' = memoised PROVE EntriesKept
<1> DEFINE es == Without(memo[p].entries, tagop[p].ids)
           new == [ns |-> tagop[p].ids, val |-> tagop[p].val]
           record == [val |-> tagop[p].val, tags |-> tagop[p].tags]
<1>1. TagsTypeOK /\ es \in SUBSET Entries /\ es \subseteq memo[p].entries BY DEF TagsInv, TagsTypeOK, Without
<1>2. Remember(p, [memo[p] EXCEPT !.entries = es]) BY DEF PutEntry, ForgetEntry
<1> HIDE DEF es
<1>3. /\ \A q \in Callers : memo'[q].tag = memo[q].tag
      /\ \A q \in Callers : memo'[q].entries = IF memoised /\ q = p THEN es ELSE memo[q].entries
  BY <1>1, <1>2, EntryMemory
<1>4. UNCHANGED <<memoised, tagid, ids, values, flushed>> /\ put' = put \cup {record}
      /\ entries' \subseteq entries \cup {new}
  BY DEF PutEntry, With, Without
<1>5. tagop'[p] = Idle /\ SameTasks(p) /\ \A q \in Callers : Placed(q)'
  BY <1>4, InvTyped, Finished DEF PutEntry
<1>6. Fresh(tagop[p].val) /\ \A q \in Callers \ {p} : tagop[q].do = "put" => tagop[q].val # tagop[p].val
  BY DEF PutEntry, At, TagsInv, Task, PutsFresh
<1>7. \A q \in Callers : Known(q)' \subseteq Known(q) \cup {new} BY <1>1, <1>3, <1>4 DEF Known
<1>8. \A q \in Callers : tagop'[q].ids \subseteq tagop[q].ids /\ tagop'[q].flushed \subseteq tagop[q].flushed
  BY <1>5 DEF SameTasks, Idle
<1>9. \A q \in Callers : tagop[p].val \notin flushed[q] /\ tagop[p].val \notin tagop[q].flushed BY <1>6 DEF Fresh, Taken
<1>10. Counted'
  <2>1. \A n \in Tags : tagid'[n] <= ids' /\ \A q \in Callers : memo'[q].tag[n] <= ids'
    BY <1>3, <1>4 DEF TagsInv, Counted
  <2>2. \A q \in Callers : \A i \in tagop'[q].ids : i[2] <= ids' BY <1>4, <1>8 DEF TagsInv, Counted
  <2>3. \A q \in Callers : \A e \in Known(q)' : \A i \in e.ns : i[2] <= ids' BY <1>4, <1>7 DEF TagsInv, Counted
  <2> QED BY <2>1, <2>2, <2>3 DEF Counted
<1>11. \A v : Taken(v)' => Taken(v) \/ v = tagop[p].val BY <1>4, <1>8 DEF Taken
<1>12. ~Taken(Missing)' BY <1>6, <1>11 DEF TagsInv, Fresh
<1>13. Written'
  <2> SUFFICES ASSUME NEW r \in put', NEW q \in Callers, NEW e \in Known(q)', e.val = r.val, NEW n \in r.tags
               PROVE  \E i \in e.ns : i[1] = n
    BY DEF Written
  <2>1. CASE r \in put /\ e \in Known(q) BY <2>1 DEF TagsInv, Written
  <2>2. CASE r \in put /\ e = new BY <1>6, <2>2 DEF Fresh, Taken
  <2>3. CASE r = record /\ e \in Known(q) BY <1>6, <2>3 DEF Fresh
  <2>4. CASE r = record /\ e = new BY <2>4 DEF PutEntry, At, Left
  <2> QED BY <1>4, <1>7, <2>1, <2>2, <2>3, <2>4
<1>14. ASSUME NEW q \in Callers PROVE Task(q)'
  <2>1. \A i : Newer(q, i)' <=> Newer(q, i) BY <1>3, <1>4 DEF Newer
  <2>2. \A e \in Known(q)' : e.val \in flushed[q] \cup tagop[q].flushed => e \in Known(q) BY <1>7, <1>9
  <2>3. Hidden(q)' BY <1>4, <2>1, <2>2 DEF Hidden, TagsInv, Task
  <2>4. CASE q = p BY <1>5, <2>3, <2>4 DEF Task, PutsFresh, Avoids, Hides, Idle
  <2>5. CASE q # p
    <3>1. tagop'[q] = tagop[q] /\ Left(q)' = Left(q) BY <1>5, <2>5 DEF SameTasks, Left
    <3>2. Avoids(q)' BY <2>1, <2>2, <3>1 DEF Avoids, TagsInv, Task
    <3>3. Hides(q)' BY <2>1, <2>2, <3>1 DEF Hides, TagsInv, Task
    <3>4. PutsFresh(q)'
      <4> SUFFICES ASSUME tagop[q].do = "put"
                   PROVE  Fresh(tagop[q].val)' /\ \A r \in Callers \ {q} : tagop'[r].do = "put" => tagop'[r].val # tagop[q].val
        BY <3>1 DEF PutsFresh
      <4>1. Fresh(tagop[q].val) /\ tagop[q].val # tagop[p].val BY <1>6, <2>5 DEF TagsInv, Task, PutsFresh
      <4>2. Fresh(tagop[q].val)' BY <1>7, <1>11, <3>1, <4>1 DEF Fresh
      <4>3. \A r \in Callers \ {q} : tagop'[r].do = "put" => tagop'[r].val # tagop[q].val
        BY <1>5 DEF SameTasks, Idle, TagsInv, Task, PutsFresh
      <4> QED BY <3>1, <4>2, <4>3
    <3> QED BY <1>5, <2>3, <3>2, <3>3, <3>4 DEF Task
  <2> QED BY <2>4, <2>5
<1> QED BY <1>10, <1>12, <1>13, <1>14 DEF EntriesKept

LEMMA TagsInvStep == TagsAreNumbers /\ TagsInv /\ [TagsNext]_tagVars => TagsInv'
<1> SUFFICES ASSUME TagsAreNumbers, TagsInv, [TagsNext]_tagVars PROVE TagsInv' OBVIOUS
<1>1. TagsTypeOK' BY InvTyped, TagsTypeStep DEF Typed
<1>2. CASE UNCHANGED tagVars
  <2>1. \A p \in Callers : Known(p)' = Known(p) /\ Left(p)' = Left(p) /\ \A i : Newer(p, i)' <=> Newer(p, i)
    BY <1>2 DEF tagVars, Known, Left, Newer
  <2>2. \A v : (Taken(v)' <=> Taken(v)) /\ (Fresh(v)' <=> Fresh(v)) BY <1>2, <2>1 DEF tagVars, Taken, Fresh
  <2>3. Counted' /\ Written' BY <1>2, <2>1 DEF tagVars, TagsInv, Counted, Written
  <2>4. ASSUME NEW p \in Callers PROVE Task(p)'
    <3>1. Placed(p)' /\ PutsFresh(p)' BY <1>2, <2>1, <2>2 DEF tagVars, TagsInv, Task, Placed, PutsFresh
    <3>2. Hidden(p)' /\ Avoids(p)' /\ Hides(p)' BY <1>2, <2>1 DEF tagVars, TagsInv, Task, Hidden, Avoids, Hides
    <3> QED BY <3>1, <3>2 DEF Task
  <2> QED BY <1>1, <2>2, <2>3, <2>4 DEF TagsInv
<1>3. CASE TagsNext
  <2>1. PICK p \in Callers : TagStep(p) /\ memoised' = memoised BY <1>3 DEF TagsNext
  <2>2. ASSUME Put(p) PROVE EntriesKept
    <3>1. UNCHANGED <<memoised, tagid, entries, memo, ids, put, flushed>> /\ values' = values + 1
      BY <2>1, <2>2 DEF Put
    <3>2. PICK S \in SUBSET Tags :
             tagop' = [tagop EXCEPT ![p] = [Idle EXCEPT !.do = "put", !.at = "tag", !.tags = S, !.val = values']]
      BY <2>2 DEF Put
    <3> QED BY <3>1, <3>2, PutStep
  <2>3. EntriesKept
    BY <2>1, <2>2, BeginStep, FlushStep, TagIdStep, CreateIdStep, ResetStep, LookupStep, FactoryStep,
       PutEntryStep, ForgetStep
    DEF TagStep
  <2> QED BY <1>1, <2>3 DEF EntriesKept, TagsInv
<1> QED BY <1>2, <1>3

LEMMA TagsInitInv == TagsInit => TagsInv
<1> SUFFICES ASSUME TagsInit PROVE TagsInv OBVIOUS
<1>1. \A p \in Callers : tagop[p] = Idle /\ Known(p) = {} /\ flushed[p] = {} /\ memo[p] = Forgetful
  BY DEF TagsInit, Known, Forgetful
<1>2. 0 \in Values /\ Forgetful \in Memory BY DEF TagsInit, Values, Forgetful, Memory
<1>3. TagsTypeOK BY <1>2, IdleOp DEF TagsInit, TagsTypeOK, Idle, Missing, Memory, Namespaces
<1>4. ~Taken(Missing) /\ Written BY <1>1 DEF TagsInit, Taken, Written, Idle
<1>5. Counted BY <1>1 DEF TagsInit, Counted, Idle, Forgetful, Missing, Unread
<1>6. \A p \in Callers : Task(p) BY <1>1 DEF Task, Placed, PutsFresh, Hidden, Avoids, Hides, Idle
<1> QED BY <1>3, <1>4, <1>5, <1>6 DEF TagsInv

(* Every reachable state is type correct.                                    *)
THEOREM TagsTypeCorrect == ASSUME TagsAreNumbers PROVE TagsSpec => []TagsTypeOK
<1>1. TagsInit => TagsInv BY TagsInitInv
<1>2. TagsInv /\ [TagsNext]_tagVars => TagsInv' BY TagsInvStep
<1>3. TagsInv => TagsTypeOK BY DEF TagsInv
<1> QED BY <1>1, <1>2, <1>3, PTL DEF TagsSpec

(* With any tasks and any tags, and over a memo or not, no get that begins   *)
(* after a flush of a tag has returned finds what was put under it before.   *)
THEOREM FlushHides == ASSUME TagsAreNumbers PROVE TagsSpec => []FlushInvalidates
<1>1. TagsInv => FlushInvalidates
  <2> SUFFICES ASSUME TagsInv, NEW p \in Callers, At(p, {"get", "fetch"}), EntrySeen(p, tagop[p].ids) \in tagop[p].flushed
               PROVE  FALSE
    BY DEF FlushInvalidates
  <2> DEFINE e == [ns |-> tagop[p].ids, val |-> EntrySeen(p, tagop[p].ids)]
  <2>1. e.val # Missing BY DEF TagsInv, Taken
  <2>2. e \in Known(p) BY <2>1, Seen DEF TagsInv
  <2>3. PICK i \in e.ns : \A j \in tagop[p].ids : j[1] = i[1] => i[2] < j[2] BY <2>2 DEF TagsInv, Task, Avoids, At
  <2>4. i \in Tags \X Nat BY Ids DEF TagsInv
  <2> QED BY <2>3, <2>4
<1>2. TagsInv /\ [TagsNext]_tagVars => TagsInv' BY TagsInvStep
<1> QED BY TagsInitInv, <1>1, <1>2, PTL DEF TagsSpec
=============================================================================
