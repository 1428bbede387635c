------------------------------ MODULE LoginAttempts ------------------------------
(***************************************************************************)
(* The counters of failed logins, kept in Redis or, while Redis does not   *)
(* answer, in the memory of the process.  A counter belongs to an          *)
(* identity: an (address, client) pair or an address as a whole.           *)
(***************************************************************************)
EXTENDS Naturals

CONSTANTS
  Store,       \* where the counters are: "redis" or "memory"
  LockTtl,     \* BLOCK_DURATION_SECONDS, in ticks
  WindowTtl    \* ATTEMPT_WINDOW_SECONDS, in ticks

ASSUME StoreAssumption ==
  /\ Store \in {"redis", "memory"}
  /\ {LockTtl, WindowTtl} \subseteq Nat
  /\ 0 < LockTtl /\ LockTtl <= WindowTtl

\* The failures counted until "ends", and the time a lock lasts until (0: none).
Attempts   == [count : Nat, ends : Nat, lock : Nat]
NoAttempts == [count |-> 0, ends |-> 0, lock |-> 0]

Failures(a, t) == IF a.ends > t THEN a.count ELSE 0

\* In memory a lock is forgotten together with the entry that holds it.
LockedOut(a, t) == a.lock > t /\ (Store = "memory" => a.ends > t)

\* Mutant: the counter in Redis written over as the one in memory is.
StruckOver(a, t, max) ==
  LET n == Failures(a, t) + 1
  IN  IF n >= max THEN [count |-> 0, ends |-> 0, lock |-> t + LockTtl]
                  ELSE [count |-> n, ends |-> t + WindowTtl, lock |-> 0]

\* One more failure.  The window in Redis is fixed when its counter is created
\* and the lock is a key of its own; the entry in memory is written as a whole,
\* without the lock it may hold.
Struck(a, t, max) ==
  LET n      == Failures(a, t) + 1
      window == IF Store = "redis" /\ n > 1 THEN a.ends ELSE t + WindowTtl
  IN  IF n >= max
      THEN [count |-> 0, ends |-> IF Store = "redis" THEN 0 ELSE window, lock |-> t + LockTtl]
      ELSE [count |-> n, ends |-> window, lock |-> IF Store = "redis" THEN a.lock ELSE 0]
=============================================================================
