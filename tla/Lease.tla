-------------------------------- MODULE Lease --------------------------------
(***************************************************************************)
(* What Cache.lock() promises, whatever the store: a lease on one name,    *)
(* granted to one owner at a time until it is given back or runs out.      *)
(***************************************************************************)
EXTENDS Integers

CONSTANTS Owners, Ttl

NoLease == [owner |-> "nobody", until |-> 0]
Never == 0      \* the expiration of a lock without seconds
NoClaim == -1

VARIABLES clock, lease, claim   \* claim[o]: when the attempt o won began

Valid(l, now) == l # NoLease /\ (l.until = Never \/ l.until > now)

\* The owner may still act on the lock: it has not begun to release it, and
\* less than its seconds have passed since it asked for it.
Holds(o) == claim[o] # NoClaim /\ (Ttl = 0 \/ clock < claim[o] + Ttl)

Init == clock = 1 /\ lease = NoLease /\ claim = [o \in Owners |-> NoClaim]

\* Only a free lock is granted, for at least its seconds from the moment it was
\* asked for; what is granted too late to be of use is no lease.  A dead owner
\* may still be granted what it asked for: it never claims it.
Grant(o) ==
    /\ lease = NoLease
    /\ lease' # NoLease => /\ lease'.owner = o /\ Valid(lease', clock)
                           /\ lease'.until = Never <=> Ttl = 0
    /\ \/ claim' = claim
       \/ /\ claim'[o] \in Nat
          /\ claim' = [claim EXCEPT ![o] = claim'[o]]
          /\ IF lease' = NoLease THEN Ttl # 0 /\ clock >= claim'[o] + Ttl
                                 ELSE Ttl # 0 => lease'.until >= claim'[o] + Ttl
    /\ UNCHANGED clock

\* The owner stops acting on the lock, before anything is sent to the store.
GiveUp(o) ==
    claim' = [claim EXCEPT ![o] = NoClaim] /\ UNCHANGED <<clock, lease>>

\* A lease ends early only when its owner does not claim it any more.
Vacate ==
    /\ lease # NoLease /\ lease' = NoLease
    /\ claim' = [claim EXCEPT ![lease.owner] = NoClaim]
    /\ UNCHANGED clock

\* Somebody ends it by force, and every claim with it.
Revoke ==
    /\ lease' = NoLease
    /\ claim' = [o \in Owners |-> NoClaim]
    /\ UNCHANGED clock

Pass ==
    /\ clock' = clock + 1
    /\ lease' = IF Valid(lease, clock') THEN lease ELSE NoLease
    /\ UNCHANGED claim

Next == (\E o \in Owners : Grant(o) \/ GiveUp(o)) \/ Vacate \/ Revoke \/ Pass

Spec == Init /\ [][Next]_<<clock, lease, claim>>
=============================================================================
