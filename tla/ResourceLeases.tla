---------------------------- MODULE ResourceLeases ----------------------------
(***************************************************************************)
(* The leases of one shared resource (services/coordination-mcp/src/       *)
(* resource-lease-manager.ts, the branches with a database).               *)
(*                                                                         *)
(* The gateway and standalone coordination servers share the table, so a   *)
(* request of one process is interleaved with those of the others between  *)
(* its statements; the partial unique index on the active rows of a        *)
(* resource (packages/database/src/schema.ts) is what they meet at.  A     *)
(* request takes the time at its start and compares with that.             *)
(*                                                                         *)
(* Time is relative: leases and beliefs are counted from now.              *)
(***************************************************************************)
EXTENDS Integers

CONSTANTS
  Holders,  \* agents, each served by a process of its own
  Ttl,      \* the time a lease is granted for
  MaxAge,   \* bound: how long a request takes at most
  NoHolder

ASSUME LeaseAssumption ==
  /\ {Ttl, MaxAge} \subseteq Nat /\ MaxAge < Ttl /\ NoHolder \notin Holders

VARIABLES
  lease,   \* the active row of the resource: its holder and expires_at
  asks,    \* the request each agent has in flight, and its age
  belief,  \* until when each agent has been told that the resource is its own
  silent   \* the agents that ask no more

leaseVars == <<lease, asks, belief, silent>>

NoLease == [holder |-> NoHolder, left |-> 0]
NoAsk   == [kind |-> "none", at |-> "none", age |-> 0]

LeaseTypeOK ==
  /\ lease \in [holder : Holders \cup {NoHolder}, left : -1 .. Ttl]
  /\ asks \in [Holders -> [kind : {"none", "reserve", "heartbeat"},
                           at : {"none", "cleanup", "select", "insert", "update"}, age : 0 .. MaxAge]]
  /\ belief \in [Holders -> 0 .. Ttl] /\ silent \subseteq Holders

LeaseInit ==
  /\ lease = NoLease /\ asks = [a \in Holders |-> NoAsk]
  /\ belief = [a \in Holders |-> 0] /\ silent = {}

-----------------------------------------------------------------------------
Held == lease.holder # NoHolder

(* expires_at > now, for the now of the request of a.                      *)
Unexpired(a) == Held /\ lease.left + asks[a].age > 0

Answer(a) == asks' = [asks EXCEPT ![a] = NoAsk]
Proceed(a, at) == asks' = [asks EXCEPT ![a].at = at]
Tell(a, left) == belief' = [belief EXCEPT ![a] = IF left > 0 THEN left ELSE 0]

Ask(a, kind) ==
  /\ a \notin silent /\ asks[a] = NoAsk
  /\ kind = "heartbeat" => belief[a] > 0
  /\ asks' = [asks EXCEPT ![a] = [kind |-> kind, at |-> "cleanup", age |-> 0]]
  /\ UNCHANGED <<lease, belief, silent>>

(* Mutated form: nobody looks for expired rows.                            *)
CleanUpNothing(a) ==
  /\ asks[a].at = "cleanup"
  /\ Proceed(a, IF asks[a].kind = "reserve" THEN "select" ELSE "update")
  /\ UNCHANGED <<lease, belief, silent>>

(* cleanupExpiredLeases takes the time anew, and expires the rows whose    *)
(* expires_at lies before it.                                              *)
CleanUp(a) ==
  /\ asks[a].at = "cleanup"
  /\ lease' = IF Held /\ lease.left < 0 THEN NoLease ELSE lease
  /\ Proceed(a, IF asks[a].kind = "reserve" THEN "select" ELSE "update")
  /\ UNCHANGED <<belief, silent>>

(* The lease in force is returned to its holder and refused to others.     *)
Select(a) ==
  /\ asks[a].at = "select"
  /\ IF Unexpired(a)
     THEN /\ Answer(a)
          /\ IF lease.holder = a THEN Tell(a, lease.left) ELSE UNCHANGED belief
     ELSE Proceed(a, "insert") /\ UNCHANGED belief
  /\ UNCHANGED <<lease, silent>>

(* onConflictDoNothing: the row is there afterwards, or the request is     *)
(* refused, be the row that is in its way expired or not.                  *)
Insert(a) ==
  /\ asks[a].at = "insert" /\ Answer(a)
  /\ IF Held THEN UNCHANGED <<lease, belief>>
     ELSE /\ lease' = [holder |-> a, left |-> Ttl - asks[a].age]
          /\ Tell(a, Ttl - asks[a].age)
  /\ UNCHANGED silent

(* Mutated form: a heartbeat does not ask whether the row is still active. *)
UpdateAlways(a) ==
  /\ asks[a].at = "update" /\ Answer(a)
  /\ lease' = IF lease.holder = a THEN [lease EXCEPT !.left = Ttl - asks[a].age] ELSE lease
  /\ Tell(a, Ttl - asks[a].age)
  /\ UNCHANGED silent

(* The update of a heartbeat; one that changes no row says the lease is    *)
(* lost.                                                                   *)
Update(a) ==
  /\ asks[a].at = "update" /\ Answer(a)
  /\ IF lease.holder = a /\ Unexpired(a)
     THEN /\ lease' = [lease EXCEPT !.left = Ttl - asks[a].age]
          /\ Tell(a, Ttl - asks[a].age)
     ELSE Tell(a, 0) /\ UNCHANGED lease
  /\ UNCHANGED silent

Release(a) ==
  /\ a \notin silent /\ asks[a] = NoAsk /\ belief[a] > 0
  /\ lease' = IF lease.holder = a THEN NoLease ELSE lease
  /\ Tell(a, 0)
  /\ UNCHANGED <<asks, silent>>

(* An agent dies with its lease; one goes on.                              *)
FallSilent(a) ==
  /\ silent = {} /\ silent' = {a} /\ asks[a] = NoAsk
  /\ UNCHANGED <<lease, asks, belief>>

LeaseTick ==
  /\ \A a \in Holders : asks[a] # NoAsk => asks[a].age < MaxAge
  /\ lease' = IF Held /\ lease.left >= 0 THEN [lease EXCEPT !.left = @ - 1] ELSE lease
  /\ asks' = [a \in Holders |-> IF asks[a] = NoAsk THEN NoAsk ELSE [asks[a] EXCEPT !.age = @ + 1]]
  /\ belief' = [a \in Holders |-> IF belief[a] > 0 THEN belief[a] - 1 ELSE 0]
  /\ UNCHANGED silent

Statement(a) == CleanUp(a) \/ Select(a) \/ Insert(a) \/ Update(a)

LeaseNext ==
  \/ \E a \in Holders : Ask(a, "reserve") \/ Ask(a, "heartbeat") \/ Statement(a) \/ Release(a) \/ FallSilent(a)
  \/ LeaseTick

LeaseSpec == LeaseInit /\ [][LeaseNext]_leaseVars

(* Time passes, statements return, and an agent that waits for the         *)
(* resource asks for it again and again.                                   *)
LeaseFairSpec ==
  /\ LeaseSpec /\ WF_leaseVars(LeaseTick)
  /\ \A a \in Holders : WF_leaseVars(Statement(a)) /\ WF_leaseVars(Ask(a, "reserve"))

-----------------------------------------------------------------------------
(* No two agents hold the resource at once, as far as each has been told:  *)
(* not when requests of two processes cross, not when one arrives in the   *)
(* instant of the expiry, not when a heartbeat is late.                    *)
OneBeliever == \A a, b \in Holders : belief[a] > 0 /\ belief[b] > 0 => a = b

(* What an agent has been told is backed by the row: it never outlives it. *)
BeliefIsBacked ==
  \A a \in Holders : belief[a] > 0 => lease.holder = a /\ lease.left >= belief[a]

(* The inductive invariant. *)
LeaseInv == LeaseTypeOK /\ BeliefIsBacked

(* The lease of an agent that has died does not keep the resource.         *)
AbandonedIsFreed == \A a \in Holders : []<>(a \in silent => lease.holder # a)

(* A resource has one holder that believes in its lease, and the row       *)
(* agrees.                                                                 *)
LeaseSafety == OneBeliever /\ BeliefIsBacked
=============================================================================
