------------------------------- MODULE PlansProofs -------------------------------
(***************************************************************************)
(* An organization and the limits of its plan, for every grid of plans and *)
(* every set of requests.  What a request decides by is what it read; the  *)
(* properties speak of the saves before which nothing of it had changed,   *)
(* so the invariant says what each request has read and made of it, and    *)
(* how far a cancellation has brought the queues back to the basic plan.   *)
(***************************************************************************)
EXTENDS PlansProperties, FiniteSetTheorems, SequenceTheorems, WellFoundedInduction, TLAPS

OrganizationOps == {"approveOrganization", "rejectOrganization", "updateOrganization"}
Planned         == {"register", "approve"} \cup QueueOps \cup WindowOps
EnforcePcs      == {"list", "drop", "windows", "trim"}

\* A request that adds to what counts against the plan.
Grows(q) == q.op \in {"register", "approve", "createQueue", "createWindow"}
            \/ (q.op \in {"toggleQueue", "toggleWindow"} /\ q.active)

\* What the usage may look like: all of it, or the tables a request read.
WindowSights == UNION {[1..n -> SUBSET Nat] : n \in Nat}
Sights == [businesses |-> SUBSET Ids, queues |-> SUBSET Nat, windows |-> WindowSights]
Sight  == (SUBSET Ids) \cup (SUBSET Nat) \cup WindowSights
Seens  == {<<>>} \cup {s \in UNION {[tables -> Sight] : tables \in SUBSET Limited} :
                         \A t \in DOMAIN s : s[t] \in Sights[t]}

Request == [op : Ops \cup {None}, pc : Pcs, on : Ids \cup {None}, queue : Nat, window : Nat,
            active : BOOLEAN, row : SubscriptionRow \cup {None},
            write : OrganizationRow \cup SubscriptionRow \cup {None},
            seen : Seens, keep : SUBSET Nat, drop : SUBSET Nat]

-----------------------------------------------------------------------------
(* What a request holds, whatever happens to the tables.                   *)

\* The usage it has read fits the plan it will write.
SeenFits(seen, limit) ==
  /\ Cardinality(seen.businesses) <= limit.businesses
  /\ Cardinality(seen.queues) <= limit.queues
  /\ \A k \in DOMAIN seen.windows : Cardinality(seen.windows[k]) <= limit.windows

Edits(q, status) ==
  /\ q.row \in SubscriptionRow /\ q.write \in SubscriptionRow
  /\ q.write.plan = q.row.plan /\ q.write.status = status

\* What it has read before it asks for the plan.
Saw(q) ==
  /\ q.op = "register" => "businesses" \in DOMAIN q.seen
  /\ q.op \in QueueOps => "queues" \in DOMAIN q.seen
  /\ q.op = "approve" /\ q.pc = "save" => "queues" \in DOMAIN q.seen
  /\ q.op \in WindowOps /\ Grows(q) => "windows" \in DOMAIN q.seen
  /\ q.op = "createQueue" => q.queue = 0
  /\ q.op = "createWindow" => q.window = 0

\* What it has decided.
Decided(q) ==
  /\ q.op \in Planned \cup OrganizationOps \cup {"activate", "cancel", "changePlan", "reject"}
  /\ q.op \in OrganizationOps => q.write \in OrganizationRow
  /\ q.op = "activate" => Edits(q, "active")
  /\ q.op = "cancel" => Edits(q, "cancelled")
  /\ q.op = "changePlan" =>
       /\ q.row \in SubscriptionRow /\ q.write \in SubscriptionRow
       /\ q.write.status = q.row.status /\ DOMAIN q.seen = Limited
       /\ SeenFits(q.seen, PlanLimits[q.write.plan])
  /\ Grows(q) => /\ q.row \in SubscriptionRow /\ q.row.status \notin Ended
                 /\ HasRoom(q, PlanLimits[q.row.plan])
  /\ q.op = "toggleQueue" /\ ~q.active => q.seen.queues \ {q.queue} # {}

Holds(q) ==
  /\ q.pc = "found" => q.op = "register"
  /\ q.pc = "count" => /\ q.op \in {"register", "toggleQueue", "toggleWindow"}
                       /\ q.op = "toggleWindow" => q.active
  /\ q.pc = "plan" => q.op \in Planned /\ Grows(q)
  /\ q.pc = "lapse" => /\ q.op = "readPlan" \/ (q.op \in Planned /\ Grows(q))
                       /\ q.row \in SubscriptionRow /\ q.row.status = "trial"
  /\ q.pc \in {"plan", "lapse", "save"} => Saw(q)
  /\ q.pc = "look" => q.op = "approve" /\ q.row \in SubscriptionRow /\ q.row.status \notin Ended
  /\ q.pc = "queues" => q.op = "changePlan" /\ q.write \in SubscriptionRow /\ "businesses" \in DOMAIN q.seen
  /\ q.pc \in {"sizes", "change"} => q.op = "changePlan" /\ q.write \in SubscriptionRow /\ DOMAIN q.seen = Limited
  /\ q.pc = "save" => Decided(q)
  /\ q.pc = "first" => /\ q.op = "createQueue" /\ "windows" \in DOMAIN q.seen
                       /\ q.seen.windows[q.queue] = {}
  /\ q.pc \in EnforcePcs => q.op \in {"cancel"} \cup QueueOps \cup WindowOps
  /\ q.pc = "drop" => /\ "queues" \in DOMAIN q.seen /\ q.keep \cap q.drop = {}
                      /\ q.keep # {} /\ q.drop # {}
  /\ q.pc = "trim" => "windows" \in DOMAIN q.seen /\ q.drop # {}

\* What of the tables it is about: organizations, businesses, queues and
\* windows are never deleted.
Stands(q, org, shops, qs) ==
  /\ q.queue \in 0..Len(qs) /\ q.keep \subseteq DOMAIN qs
  /\ q.pc \in {"count", "plan", "lapse", "save"} /\ q.op \in {"toggleQueue"} \cup WindowOps =>
       q.queue \in DOMAIN qs
  /\ q.pc \in {"count", "plan", "lapse", "save"} /\ q.op = "toggleWindow" =>
       q.window \in DOMAIN qs[q.queue].windows
  /\ q.pc \in {"trim", "first"} => q.queue \in DOMAIN qs
  /\ q.pc = "drop" => q.drop \subseteq DOMAIN qs
  /\ q.pc = "trim" => q.drop \subseteq DOMAIN qs[q.queue].windows
  /\ q.pc = "sizes" => DOMAIN q.seen.windows \subseteq DOMAIN qs
  /\ q.pc \notin {"unused", "found", "done", "failed"} => org # None
  /\ q.pc \in {"count", "plan", "lapse", "save"} /\ q.op = "register" => q.on = org.id
  /\ q.pc \in {"plan", "lapse", "look", "save"} /\ q.op \in {"approve", "reject"} =>
       q.on \in Ids /\ shops[q.on] # None
  /\ q.pc = "save" /\ q.op \in OrganizationOps => q.write.id = org.id

QueueRow == [active : BOOLEAN, windows : Seq(BOOLEAN)]

Typed ==
  /\ organization \in OrganizationRow \cup {None}
  /\ subscription \in SubscriptionRow \cup {None}
  /\ trialOver \in BOOLEAN /\ readmitted \in BOOLEAN
  /\ businesses \in [Ids -> BusinessRow \cup {None}]
  /\ queues \in Seq(QueueRow)
  /\ overlapped \subseteq Limited \cup {"subscription"}
  /\ req \in [Requests -> Request]

\* The one organization comes first, with its subscription.
World ==
  /\ organization = None <=> subscription = None
  /\ \A b \in Ids : businesses[b] # None =>
       organization # None /\ businesses[b].organization = organization.id
  /\ DOMAIN queues # {} => organization # None
  /\ IsFiniteSet(Usage.businesses)

PInv1 ==
  /\ Typed /\ World
  /\ \A r \in Requests : Holds(req[r]) /\ Stands(req[r], organization, businesses, queues)

-----------------------------------------------------------------------------
(* How far a cancellation has come.                                        *)

BasicQueues  == PlanLimits["basic"].queues
BasicWindows == PlanLimits["basic"].windows

Cleared(left) ==
  /\ Cardinality(ActiveQueues) <= BasicQueues
  /\ \A k \in ActiveQueues \ left : Cardinality(ActiveWindows(k)) <= BasicWindows

Progress(q) ==
  /\ q.pc = "drop" => ActiveQueues \subseteq q.keep \cup q.drop /\ Cardinality(q.keep) <= BasicQueues
                      /\ IsFiniteSet(q.keep)
  /\ q.pc = "windows" => Cleared(q.keep)
  /\ q.pc = "trim" => /\ Cleared(q.keep \cup {q.queue})
                      /\ Cardinality(ActiveWindows(q.queue) \ q.drop) <= BasicWindows
  /\ q.pc = "done" => Cleared({})

Cancelling(r) == req[r].op = "cancel" /\ req[r].pc \in EnforcePcs \cup {"done"}
IsCancelled   == subscription # None /\ subscription.status = "cancelled"
NotActivated  == \A r \in Requests : ~At(r, "activate", "done")

\* Without an activation what was cancelled stays so, and every cancellation
\* has come as far as it says.
OnceCancelled ==
  overlapped = {} /\ NotActivated =>
    \A r \in Requests : Cancelling(r) => IsCancelled /\ Progress(req[r])

\* With one, at least the last cancellation has, unless it failed.
LastCancelled ==
  overlapped = {} /\ IsCancelled =>
    \E r \in Requests : /\ req[r].op = "cancel" /\ req[r].pc \in EnforcePcs \cup {"done", "failed"}
                        /\ Progress(req[r])

\* Who drops queues keeps one that was active, and still is unless somebody
\* changed the queues meanwhile.
KeepsSeen ==
  "queues" \notin overlapped =>
    \A r \in Requests : req[r].pc = "drop" => req[r].keep \cup req[r].drop \subseteq req[r].seen.queues

PInv == PInv1 /\ KeepsSeen /\ KeepsActiveQueue /\ OnceCancelled /\ LastCancelled

-----------------------------------------------------------------------------
(* The operators: the least of a set, and all but the n oldest.            *)

LEMMA LeastIsLeast ==
  ASSUME NEW S \in SUBSET Nat, S # {}
  PROVE  Least(S) \in S /\ \A y \in S : Least(S) <= y
<1>. DEFINE R == OpToRel(<, Nat)
<1>1. IsWellFoundedOn(R, Nat)
  BY NatLessThanWellFounded
<1>2. \A x, y \in Nat : <<x, y>> \in R <=> x < y
  BY DEF OpToRel
<1>. HIDE DEF R
<1>3. PICK x \in S : \A y \in S : ~(<<y, x>> \in R)
  BY <1>1, WFMin
<1>4. ASSUME NEW y \in S
      PROVE  x <= y
  <2>1. x \in Nat /\ y \in Nat
    OBVIOUS
  <2>2. ~(y < x)
    BY <1>2, <1>3, <2>1
  <2>. QED
    BY <2>1, <2>2
<1>. QED
  BY <1>4 DEF Least

\* Of a finite set of numbers at most n stay, and one at least when n is not 0.
LEMMA BeyondKeeps ==
  ASSUME NEW S \in SUBSET Nat, IsFiniteSet(S), NEW n \in Nat
  PROVE  /\ Beyond(S, n) \subseteq S
         /\ Cardinality(S \ Beyond(S, n)) <= n
         /\ S # {} /\ n > 0 => S \ Beyond(S, n) # {}
<1>. DEFINE Older(x) == {y \in S : y < x}
            K == S \ Beyond(S, n)
            f == [x \in K |-> Cardinality(Older(x))]
<1>1. \A x \in S : IsFiniteSet(Older(x)) /\ Cardinality(Older(x)) \in Nat
  <2>1. \A x \in S : Older(x) \in SUBSET S
    OBVIOUS
  <2>. QED
    BY <2>1, FS_Subset, FS_CardinalityType
<1>2. \A x \in K : x \in S /\ Cardinality(Older(x)) < n
  BY <1>1 DEF Beyond
<1>3. f \in [K -> 0 .. n-1]
  <2>1. ASSUME NEW x \in K
        PROVE  Cardinality(Older(x)) \in 0 .. n-1
    <3>1. Cardinality(Older(x)) \in Nat /\ Cardinality(Older(x)) < n
      BY <1>1, <1>2
    <3>. HIDE DEF Older
    <3>. QED
      BY <3>1
  <2>. HIDE DEF K, Older
  <2>. QED
    BY <2>1
<1>4. ASSUME NEW x \in K, NEW z \in K, x < z
      PROVE  f[x] # f[z]
  <2>1. x \in S /\ z \in S /\ x \in Nat /\ z \in Nat
    OBVIOUS
  <2>2. Older(x) \subseteq Older(z) /\ x \in Older(z) /\ x \notin Older(x)
    <3>1. \A y \in Nat : y < x => y < z
      BY <1>4, <2>1
    <3>2. S \subseteq Nat /\ ~(x < x)
      BY <2>1
    <3>. HIDE DEF K
    <3>. QED
      BY <1>4, <2>1, <3>1, <3>2
  <2>3. Cardinality(Older(x)) # Cardinality(Older(z))
    BY <1>1, <2>1, <2>2, FS_Subset
  <2>. QED
    BY <2>3
<1>5. f \in Injection(K, 0 .. n-1)
  <2>1. \A x, z \in K : f[x] = f[z] => x = z
    <3>. SUFFICES ASSUME NEW x \in K, NEW z \in K, x # z
                  PROVE  f[x] # f[z]
      OBVIOUS
    <3>1. x < z \/ z < x
      OBVIOUS
    <3>. HIDE DEF f, K
    <3>. QED
      BY <1>4, <3>1
  <2>. HIDE DEF f, K
  <2>. QED
    BY <1>3, <2>1 DEF Injection, IsInjective
<1>6. IsFiniteSet(0 .. n-1) /\ Cardinality(0 .. n-1) = n
  BY FS_Interval
<1>7. Cardinality(K) <= n
  <2>. HIDE DEF f, K
  <2>. QED
    BY <1>5, <1>6, FS_Injection
<1>8. ASSUME S # {}, n > 0
      PROVE  K # {}
  <2>1. Least(S) \in S /\ \A y \in S : Least(S) <= y
    BY <1>8, LeastIsLeast
  <2>2. Older(Least(S)) = {}
    <3>1. Least(S) \in Nat /\ \A y \in S : y \in Nat /\ Least(S) <= y
      BY <2>1
    <3>2. \A y \in S : ~(y < Least(S))
      BY <3>1
    <3>. QED
      BY <3>2
  <2>3. Cardinality(Older(Least(S))) = 0
    BY <2>2, FS_EmptySet
  <2>4. Least(S) \notin Beyond(S, n)
    BY <1>8, <2>3 DEF Beyond
  <2>. QED
    BY <2>1, <2>4
<1>. QED
  BY <1>7, <1>8 DEF Beyond

-----------------------------------------------------------------------------
(* What the usage looks like.                                              *)

LEMMA NoneSeen == <<>> \in Seens /\ DOMAIN <<>> = {}
BY EmptySeq, LenProperties DEF Seens

LEMMA SightsOf ==
  /\ Sights["businesses"] = SUBSET Ids /\ Sights["queues"] = SUBSET Nat
  /\ Sights["windows"] = WindowSights
BY DEF Sights

\* A function on some of the tables that gives each what it can hold.
LEMMA SeensFrom ==
  ASSUME NEW tables \in SUBSET Limited, NEW s, s = [t \in tables |-> s[t]],
         \A t \in tables : s[t] \in Sights[t]
  PROVE  s \in Seens /\ DOMAIN s = tables
<1>1. \A t \in Limited : Sights[t] \subseteq Sight
  BY SightsOf DEF Limited, Sight
<1>2. s \in [tables -> Sight]
  BY <1>1
<1>. QED
  BY <1>2 DEF Seens

LEMMA SeensHold ==
  ASSUME NEW s \in Seens
  PROVE  /\ DOMAIN s \subseteq Limited
         /\ s = [t \in DOMAIN s |-> s[t]]
         /\ \A t \in DOMAIN s : s[t] \in Sights[t]
<1>1. CASE s = <<>>
  BY <1>1, NoneSeen
<1>2. CASE s # <<>>
  BY <1>2 DEF Seens
<1>. QED
  BY <1>1, <1>2

LEMMA QueuesAreRows ==
  ASSUME queues \in Seq(QueueRow)
  PROVE  /\ DOMAIN queues = 1..Len(queues) /\ Len(queues) \in Nat
         /\ \A k \in DOMAIN queues : /\ queues[k] \in QueueRow
                                     /\ queues[k].windows \in Seq(BOOLEAN)
                                     /\ DOMAIN queues[k].windows \subseteq Nat \ {0}
         /\ ActiveQueues \subseteq DOMAIN queues
         /\ \A k \in DOMAIN queues : ActiveWindows(k) \subseteq DOMAIN queues[k].windows
<1>1. DOMAIN queues = 1..Len(queues) /\ Len(queues) \in Nat
  BY LenProperties
<1>2. ASSUME NEW k \in DOMAIN queues
      PROVE  queues[k] \in QueueRow /\ queues[k].windows \in Seq(BOOLEAN)
  <2>1. queues[k] \in QueueRow
    BY <1>1, ElementOfSeq
  <2>. QED
    BY <2>1 DEF QueueRow
<1>3. \A ws \in Seq(BOOLEAN) : DOMAIN ws \subseteq Nat \ {0}
  BY LenProperties
<1>. QED
  BY <1>1, <1>2, <1>3 DEF ActiveQueues, ActiveWindows

LEMMA ActiveAreFinite ==
  ASSUME queues \in Seq(QueueRow)
  PROVE  /\ IsFiniteSet(ActiveQueues) /\ ActiveQueues \in SUBSET Nat
         /\ \A k \in DOMAIN queues : IsFiniteSet(ActiveWindows(k)) /\ ActiveWindows(k) \in SUBSET Nat
<1>1. \A n \in Nat : IsFiniteSet(1..n) /\ 1..n \subseteq Nat
  BY FS_Interval
<1>2. \A ws \in Seq(BOOLEAN) : IsFiniteSet(DOMAIN ws) /\ DOMAIN ws \subseteq Nat
  BY <1>1, LenProperties
<1>3. IsFiniteSet(DOMAIN queues) /\ DOMAIN queues \subseteq Nat
  BY <1>1, QueuesAreRows
<1>. QED
  BY <1>2, <1>3, QueuesAreRows, FS_Subset

\* Whatever a request reads of the usage can be held.
LEMMA SeesSeens ==
  ASSUME queues \in Seq(QueueRow), NEW tables \in SUBSET Limited
  PROVE  See(tables) \in Seens /\ DOMAIN See(tables) = tables
         /\ \A t \in tables : See(tables)[t] = Usage[t]
<1>1. Usage["businesses"] \in SUBSET Ids
  BY DEF Usage
<1>2. Usage["queues"] \in SUBSET Nat
  BY ActiveAreFinite DEF Usage
<1>3. Usage["windows"] \in WindowSights
  <2>1. [k \in DOMAIN queues |-> ActiveWindows(k)] \in [1..Len(queues) -> SUBSET Nat]
    BY QueuesAreRows, ActiveAreFinite
  <2>. QED
    BY <2>1, QueuesAreRows DEF Usage, WindowSights
<1>4. \A t \in tables : Usage[t] \in Sights[t]
  BY <1>1, <1>2, <1>3, SightsOf DEF Limited
<1>. DEFINE s == See(tables)
<1>5. s = [t \in tables |-> s[t]] /\ \A t \in tables : s[t] = Usage[t]
  BY DEF See
<1>. HIDE DEF s
<1>6. s \in Seens /\ DOMAIN s = tables
  BY <1>4, <1>5, SeensFrom
<1>. QED
  BY <1>5, <1>6 DEF s

\* Nor what a save of its own makes of it.
LEMMA SeensKept ==
  ASSUME NEW s \in Seens, NEW t \in DOMAIN s, NEW v \in Sights[t]
  PROVE  LET n == [s EXCEPT ![t] = v] IN
         /\ n \in Seens /\ DOMAIN n = DOMAIN s /\ n[t] = v
         /\ \A u \in DOMAIN s \ {t} : n[u] = s[u]
<1>. DEFINE n == [s EXCEPT ![t] = v]
<1>1. n = [u \in DOMAIN s |-> IF u = t THEN v ELSE s[u]]
  OBVIOUS
<1>. HIDE DEF n
<1>2. DOMAIN n = DOMAIN s /\ n[t] = v /\ \A u \in DOMAIN s \ {t} : n[u] = s[u]
  BY <1>1
<1>3. n = [u \in DOMAIN s |-> n[u]] /\ \A u \in DOMAIN s : n[u] \in Sights[u]
  BY <1>1, <1>2, SeensHold
<1>4. n \in Seens
  BY <1>3, SeensFrom, SeensHold
<1>. QED
  BY <1>2, <1>4 DEF n

-----------------------------------------------------------------------------
(* What the saves make of the queues.                                      *)

\* No queue and no window is lost.
Grown == /\ queues' \in Seq(QueueRow)
         /\ DOMAIN queues \subseteq DOMAIN queues' /\ Len(queues) <= Len(queues')
         /\ \A k \in DOMAIN queues : DOMAIN queues[k].windows \subseteq DOMAIN queues'[k].windows

\* The windows of the other queues, and what they are.
Beside(k) == \A j \in DOMAIN queues \ {k} : ActiveWindows(j)' = ActiveWindows(j)

LEMMA QueueReplaced ==
  ASSUME queues \in Seq(QueueRow), NEW k \in DOMAIN queues, NEW row \in QueueRow,
         DOMAIN queues[k].windows \subseteq DOMAIN row.windows,
         queues' = [queues EXCEPT ![k] = row]
  PROVE  /\ Grown /\ DOMAIN queues' = DOMAIN queues /\ queues'[k] = row
         /\ \A j \in DOMAIN queues \ {k} : queues'[j] = queues[j]
         /\ Beside(k)
<1>1. k \in 1..Len(queues) /\ DOMAIN queues = 1..Len(queues) /\ Len(queues) \in Nat
  BY QueuesAreRows
<1>2. queues' \in Seq(QueueRow) /\ Len(queues') = Len(queues) /\ DOMAIN queues' = DOMAIN queues
  BY <1>1, ExceptSeq, LenProperties
<1>3. queues'[k] = row /\ \A j \in DOMAIN queues \ {k} : queues'[j] = queues[j]
  OBVIOUS
<1>. QED
  BY <1>1, <1>2, <1>3 DEF Grown, Beside, ActiveWindows

LEMMA SwitchQueue ==
  ASSUME queues \in Seq(QueueRow), NEW k \in DOMAIN queues, NEW b \in BOOLEAN,
         queues' = [queues EXCEPT ![k].active = b]
  PROVE  /\ Grown /\ DOMAIN queues' = DOMAIN queues
         /\ ActiveQueues' = IF b THEN ActiveQueues \cup {k} ELSE ActiveQueues \ {k}
         /\ \A j \in DOMAIN queues : ActiveWindows(j)' = ActiveWindows(j)
<1>. DEFINE row == [queues[k] EXCEPT !.active = b]
<1>1. queues[k] \in QueueRow
  BY QueuesAreRows
<1>2. row \in QueueRow /\ row.active = b /\ row.windows = queues[k].windows
  BY <1>1 DEF QueueRow
<1>3. queues' = [queues EXCEPT ![k] = row]
  OBVIOUS
<1>. HIDE DEF row
<1>4. /\ Grown /\ DOMAIN queues' = DOMAIN queues /\ queues'[k] = row
      /\ \A j \in DOMAIN queues \ {k} : queues'[j] = queues[j]
      /\ Beside(k)
  BY <1>2, <1>3, QueueReplaced
<1>5. ActiveQueues' = IF b THEN ActiveQueues \cup {k} ELSE ActiveQueues \ {k}
  BY <1>2, <1>4 DEF ActiveQueues
<1>6. ActiveWindows(k)' = ActiveWindows(k)
  BY <1>2, <1>4 DEF ActiveWindows
<1>. QED
  BY <1>4, <1>5, <1>6 DEF Beside

LEMMA SwitchWindow ==
  ASSUME queues \in Seq(QueueRow), NEW k \in DOMAIN queues, NEW w \in DOMAIN queues[k].windows,
         NEW b \in BOOLEAN, queues' = [queues EXCEPT ![k].windows[w] = b]
  PROVE  /\ Grown /\ DOMAIN queues' = DOMAIN queues /\ ActiveQueues' = ActiveQueues
         /\ ActiveWindows(k)' = IF b THEN ActiveWindows(k) \cup {w} ELSE ActiveWindows(k) \ {w}
         /\ Beside(k)
<1>. DEFINE ws  == [queues[k].windows EXCEPT ![w] = b]
            row == [queues[k] EXCEPT !.windows = ws]
<1>1. queues[k] \in QueueRow /\ queues[k].windows \in Seq(BOOLEAN)
  BY QueuesAreRows
<1>2. ws \in Seq(BOOLEAN) /\ DOMAIN ws = DOMAIN queues[k].windows /\ ws[w] = b
      /\ \A v \in DOMAIN ws \ {w} : ws[v] = queues[k].windows[v]
  <2>1. w \in 1..Len(queues[k].windows)
    BY <1>1, LenProperties
  <2>. QED
    BY <1>1, <2>1, ExceptSeq
<1>3. queues' = [queues EXCEPT ![k] = row]
  OBVIOUS
<1>. HIDE DEF ws
<1>4. row \in QueueRow /\ row.active = queues[k].active /\ row.windows = ws
  BY <1>1, <1>2 DEF QueueRow
<1>. HIDE DEF row
<1>5. /\ Grown /\ DOMAIN queues' = DOMAIN queues /\ queues'[k] = row
      /\ \A j \in DOMAIN queues \ {k} : queues'[j] = queues[j]
      /\ Beside(k)
  BY <1>2, <1>3, <1>4, QueueReplaced
<1>6. ActiveQueues' = ActiveQueues
  BY <1>4, <1>5 DEF ActiveQueues
<1>7. ActiveWindows(k)' = IF b THEN ActiveWindows(k) \cup {w} ELSE ActiveWindows(k) \ {w}
  BY <1>2, <1>4, <1>5 DEF ActiveWindows
<1>. QED
  BY <1>5, <1>6, <1>7

LEMMA AddWindow ==
  ASSUME queues \in Seq(QueueRow), NEW k \in DOMAIN queues,
         queues' = [queues EXCEPT ![k].windows = Append(@, TRUE)]
  PROVE  /\ Grown /\ DOMAIN queues' = DOMAIN queues /\ ActiveQueues' = ActiveQueues
         /\ Beside(k)
         /\ \E w \in Nat \ {0} : w \notin ActiveWindows(k) /\ ActiveWindows(k)' = ActiveWindows(k) \cup {w}
<1>. DEFINE old == queues[k].windows
            ws  == Append(old, TRUE)
            row == [queues[k] EXCEPT !.windows = ws]
            w   == Len(old) + 1
<1>1. queues[k] \in QueueRow /\ old \in Seq(BOOLEAN)
  BY QueuesAreRows
<1>2. /\ ws \in Seq(BOOLEAN) /\ DOMAIN ws = DOMAIN old \cup {w} /\ w \in Nat \ {0}
      /\ w \notin DOMAIN old /\ ws[w] = TRUE /\ \A v \in DOMAIN old : ws[v] = old[v]
  <2>1. DOMAIN old = 1..Len(old) /\ Len(old) \in Nat
    BY <1>1, LenProperties
  <2>2. /\ ws \in Seq(BOOLEAN) /\ Len(ws) = Len(old) + 1
        /\ \A v \in 1..Len(old) : ws[v] = old[v]
        /\ ws[Len(old) + 1] = TRUE
    <3>1. TRUE \in BOOLEAN
      OBVIOUS
    <3>. HIDE DEF old
    <3>. QED
      BY <1>1, <3>1, AppendProperties
  <2>3. DOMAIN ws = 1..(Len(old) + 1)
    BY <2>2, LenProperties
  <2>. HIDE DEF ws, old
  <2>. QED
    BY <2>1, <2>2, <2>3
<1>3. queues' = [queues EXCEPT ![k] = row]
  OBVIOUS
<1>. HIDE DEF ws, w
<1>4. row \in QueueRow /\ row.active = queues[k].active /\ row.windows = ws
  BY <1>1, <1>2 DEF QueueRow
<1>. HIDE DEF row
<1>5. /\ Grown /\ DOMAIN queues' = DOMAIN queues /\ queues'[k] = row
      /\ \A j \in DOMAIN queues \ {k} : queues'[j] = queues[j]
      /\ Beside(k)
  BY <1>2, <1>3, <1>4, QueueReplaced
<1>6. ActiveQueues' = ActiveQueues
  BY <1>4, <1>5 DEF ActiveQueues
<1>7. w \notin ActiveWindows(k) /\ ActiveWindows(k)' = ActiveWindows(k) \cup {w}
  BY <1>2, <1>4, <1>5 DEF ActiveWindows
<1>. QED
  BY <1>2, <1>5, <1>6, <1>7

LEMMA AddQueue ==
  ASSUME queues \in Seq(QueueRow), NEW n \in Nat, queues' = Append(queues, Queue(TRUE, n)),
         NEW CONSTANT new, new = Len(queues) + 1
  PROVE  /\ Grown /\ DOMAIN queues' = DOMAIN queues \cup {new} /\ new \in Nat \ DOMAIN queues
         /\ ActiveQueues' = ActiveQueues \cup {new}
         /\ \A k \in DOMAIN queues : ActiveWindows(k)' = ActiveWindows(k)
         /\ ActiveWindows(new)' = 1..n
<1>. DEFINE row == Queue(TRUE, n)
<1>1. DOMAIN queues = 1..Len(queues) /\ Len(queues) \in Nat
  BY QueuesAreRows
<1>2. row \in QueueRow /\ row.active = TRUE /\ DOMAIN row.windows = 1..n
      /\ \A w \in 1..n : row.windows[w] = TRUE
  <2>1. [w \in 1..n |-> TRUE] \in [1..n -> BOOLEAN]
    OBVIOUS
  <2>2. [w \in 1..n |-> TRUE] \in Seq(BOOLEAN)
    BY <2>1, SeqDef
  <2>. QED
    BY <2>2 DEF QueueRow, Queue
<1>3. queues' = Append(queues, row) /\ row \in QueueRow
  BY <1>2
<1>. HIDE DEF row
<1>4. /\ queues' \in Seq(QueueRow) /\ Len(queues') = new
      /\ \A k \in 1..Len(queues) : queues'[k] = queues[k]
      /\ queues'[new] = row
  <2>1. /\ Append(queues, row) \in Seq(QueueRow)
        /\ Len(Append(queues, row)) = Len(queues) + 1
        /\ \A k \in 1..Len(queues) : Append(queues, row)[k] = queues[k]
        /\ Append(queues, row)[Len(queues) + 1] = row
    BY <1>3, AppendProperties
  <2>. QED
    BY <1>3, <2>1
<1>5. DOMAIN queues' = 1..new
  BY <1>4, LenProperties
<1>6. DOMAIN queues' = DOMAIN queues \cup {new} /\ new \in Nat \ DOMAIN queues
      /\ Len(queues) <= Len(queues')
  BY <1>1, <1>4, <1>5
<1>7. \A k \in DOMAIN queues : queues'[k] = queues[k]
  BY <1>1, <1>4
<1>8. Grown
  BY <1>4, <1>6, <1>7 DEF Grown
<1>9. ActiveQueues' = ActiveQueues \cup {new}
  BY <1>2, <1>4, <1>6, <1>7 DEF ActiveQueues
<1>10. \A k \in DOMAIN queues : ActiveWindows(k)' = ActiveWindows(k)
  BY <1>7 DEF ActiveWindows
<1>11. ActiveWindows(new)' = 1..n
  BY <1>2, <1>4 DEF ActiveWindows
<1>. QED
  BY <1>6, <1>8, <1>9, <1>10, <1>11

-----------------------------------------------------------------------------
(* What a request becomes: whatever it decides by holds of it.             *)

Fine(q, org, shops, qs) == q \in Request /\ Holds(q) /\ Stands(q, org, shops, qs)

Moves(r) == \E q : /\ Become(r, q)
                   /\ \/ Fine(q, organization, businesses, queues)
                      \/ Fine(q, organization', businesses', queues')

LEMMA HeldFields ==
  ASSUME PInv1, NEW r \in Requests
  PROVE  /\ req[r] \in Request /\ Holds(req[r]) /\ Stands(req[r], organization, businesses, queues)
         /\ organization \in OrganizationRow \cup {None}
         /\ subscription \in SubscriptionRow \cup {None}
         /\ organization = None <=> subscription = None
         /\ None \notin OrganizationRow /\ None \notin SubscriptionRow /\ None \notin BusinessRow
         /\ businesses \in [Ids -> BusinessRow \cup {None}]
         /\ queues \in Seq(QueueRow)
         /\ r \in Ids
BY NoneIsNoRow DEF PInv1, Typed, World, Ids

\* Nothing is asked of who has not begun, or is through.
LEMMA UnusedFields ==
  /\ Unused \in Request
  /\ Unused.op = None /\ Unused.pc = "unused" /\ Unused.on = None /\ Unused.queue = 0
  /\ Unused.window = 0 /\ Unused.active = TRUE /\ Unused.row = None /\ Unused.write = None
  /\ Unused.seen = <<>> /\ Unused.keep = {} /\ Unused.drop = {}
BY NoneSeen DEF Unused, Request, Pcs

LEMMA RestFine ==
  ASSUME NEW q \in Request, q.pc \in {"unused", "done", "failed"}, q.queue = 0, q.keep = {},
         NEW org, NEW shops, NEW qs, Len(qs) \in Nat
  PROVE  Fine(q, org, shops, qs)
BY DEF Fine, Holds, Stands, EnforcePcs

LEMMA EndFine ==
  ASSUME PInv1, NEW r \in Requests, NEW pc \in {"done", "failed"}, End(r, pc)
  PROVE  Moves(r)
<1>. DEFINE q == [Unused EXCEPT !.op = req[r].op, !.pc = pc]
<1>0. req[r].op \in Ops \cup {None} /\ Len(queues) \in Nat
  BY HeldFields, QueuesAreRows DEF Request
<1>1. q \in Request /\ q.pc = pc /\ q.queue = 0 /\ q.keep = {}
  BY <1>0, UnusedFields DEF Request, Pcs
<1>2. Become(r, q)
  BY DEF End
<1>. HIDE DEF q
<1>3. Fine(q, organization, businesses, queues)
  BY <1>0, <1>1, RestFine
<1>. QED
  BY <1>2, <1>3 DEF Moves

LEMMA FinishFine ==
  ASSUME PInv1, NEW r \in Requests, Finish(r)
  PROVE  Moves(r)
BY EndFine DEF Finish

\* A request that begins is what its use case makes of the blank one.
Begins(q, op, pc, p) ==
  /\ q \in Request
  /\ q.op = op /\ q.pc = pc /\ q.on = p.on /\ q.queue = p.queue /\ q.window = p.window
  /\ q.active = p.active /\ q.row = p.row /\ q.write = p.write /\ q.seen = p.seen
  /\ q.keep = p.keep /\ q.drop = p.drop

LEMMA StartFine ==
  ASSUME NEW r \in Requests, NEW op, NEW pc, pc \in Pcs, NEW p, p \in Request, Start(r, op, pc, p)
  PROVE  \E q : Become(r, q) /\ op \in Ops /\ Begins(q, op, pc, p)
<1>. DEFINE q == [p EXCEPT !.op = op, !.pc = pc]
<1>1. op \in Ops /\ Become(r, q)
  BY DEF Start
<1>2. Begins(q, op, pc, p)
  BY <1>1 DEF Request, Begins
<1>. QED
  BY <1>1, <1>2

LEMMA DecideFine ==
  ASSUME PInv1, NEW r \in Requests, NEW row \in SubscriptionRow, req[r].pc \in {"plan", "lapse"},
         Decide(r, row)
  PROVE  Moves(r)
<1>0. req[r] \in Request /\ Holds(req[r]) /\ Stands(req[r], organization, businesses, queues)
  BY HeldFields
<1>. DEFINE pc == IF req[r].op = "approve" THEN "look" ELSE "save"
            q1 == [req[r] EXCEPT !.pc = pc, !.row = row]
            q2 == [req[r] EXCEPT !.pc = "list"]
<1>1. \/ End(r, "done") \/ End(r, "failed")
      \/ /\ req[r].op # "readPlan" /\ row.status \notin Ended /\ HasRoom(req[r], PlanLimits[row.plan])
         /\ Become(r, q1)
      \/ req[r].op \in QueueOps \cup WindowOps /\ Become(r, q2)
  BY DEF Decide
<1>2. /\ q1 \in Request /\ q1.op = req[r].op /\ q1.pc = pc /\ q1.on = req[r].on
      /\ q1.queue = req[r].queue /\ q1.window = req[r].window /\ q1.active = req[r].active
      /\ q1.row = row /\ q1.seen = req[r].seen /\ q1.keep = req[r].keep
  BY <1>0 DEF Request, Pcs
<1>3. /\ q2 \in Request /\ q2.op = req[r].op /\ q2.pc = "list" /\ q2.queue = req[r].queue
      /\ q2.keep = req[r].keep
  BY <1>0 DEF Request, Pcs
<1>. HIDE DEF q1, q2
<1>4. req[r].op \in QueueOps \cup WindowOps => Fine(q2, organization, businesses, queues)
  BY <1>0, <1>3 DEF Fine, Holds, Stands, EnforcePcs
<1>5. ASSUME req[r].op # "readPlan", row.status \notin Ended, HasRoom(req[r], PlanLimits[row.plan])
      PROVE  Fine(q1, organization, businesses, queues)
  <2>1. req[r].op \in Planned /\ Grows(req[r]) /\ Saw(req[r])
    BY <1>0, <1>5 DEF Holds
  <2>2. Grows(q1) /\ Saw(q1) /\ HasRoom(q1, PlanLimits[row.plan])
    BY <1>2, <1>5, <2>1 DEF Grows, Saw, HasRoom
  <2>3. Decided(q1)
    BY <1>2, <1>5, <2>1, <2>2 DEF Decided, Planned, OrganizationOps, QueueOps, WindowOps, Grows
  <2>4. Holds(q1)
    BY <1>2, <1>5, <2>2, <2>3 DEF Holds, EnforcePcs
  <2>5. Stands(q1, organization, businesses, queues)
    BY <1>0, <1>2, <2>1 DEF Stands, Planned, OrganizationOps, QueueOps, WindowOps
  <2>. QED
    BY <1>2, <2>4, <2>5 DEF Fine
<1>. QED
  BY <1>1, <1>4, <1>5, EndFine DEF Moves

\* The tables a change of plan counts one after the other.
LEMMA CountFine ==
  ASSUME PInv1, NEW r \in Requests, CountQueues(r) \/ CountWindows(r)
  PROVE  Moves(r)
<1>0. /\ req[r] \in Request /\ Holds(req[r]) /\ Stands(req[r], organization, businesses, queues)
      /\ req[r].seen \in Seens /\ queues \in Seq(QueueRow)
      /\ DOMAIN queues = 1..Len(queues) /\ Len(queues) \in Nat
  BY HeldFields, QueuesAreRows DEF Request
<1>1. {"sizes", "change"} \subseteq Pcs /\ Limited = {"businesses", "queues", "windows"}
  BY DEF Pcs, Limited
<1>2. ASSUME NEW n \in Nat, NEW f \in [1..n -> SUBSET Nat]
      PROVE  f \in Sights["windows"]
  BY SightsOf DEF WindowSights
<1>3. ASSUME NEW pc \in {"sizes", "change"}, NEW seen \in Seens, DOMAIN seen = Limited,
             pc = "sizes" => DOMAIN seen.windows \subseteq DOMAIN queues,
             At(r, "changePlan", "queues") \/ At(r, "changePlan", "sizes"),
             Become(r, [req[r] EXCEPT !.pc = pc, !.seen = seen])
      PROVE  Moves(r)
  <2>. DEFINE q == [req[r] EXCEPT !.pc = pc, !.seen = seen]
  <2>1. /\ q \in Request /\ q.op = "changePlan" /\ q.pc = pc /\ q.queue = req[r].queue
        /\ q.keep = req[r].keep /\ q.seen = seen /\ q.write = req[r].write
    BY <1>0, <1>1, <1>3 DEF Request, At
  <2>2. Become(r, q) /\ req[r].write \in SubscriptionRow /\ organization # None
    BY <1>0, <1>3 DEF Holds, Stands, At
  <2>. HIDE DEF q
  <2>3. Holds(q)
    BY <1>3, <2>1, <2>2 DEF Holds, EnforcePcs
  <2>4. Stands(q, organization, businesses, queues)
    BY <1>0, <1>3, <2>1, <2>2 DEF Stands
  <2>. QED
    BY <2>1, <2>2, <2>3, <2>4 DEF Moves, Fine
<1>4. ASSUME CountQueues(r)
      PROVE  Moves(r)
  <2>. DEFINE none == [k \in DOMAIN queues |-> {}]
              seen == [businesses |-> req[r].seen.businesses, queues |-> ActiveQueues, windows |-> none]
  <2>1. At(r, "changePlan", "queues") /\ Become(r, [req[r] EXCEPT !.pc = "sizes", !.seen = seen])
    BY <1>4 DEF CountQueues
  <2>2. req[r].seen.businesses \in Sights["businesses"]
    BY <1>0, <2>1, SeensHold DEF At, Holds
  <2>3. ActiveQueues \in Sights["queues"]
    BY <1>0, ActiveAreFinite, SightsOf
  <2>4. none \in Sights["windows"] /\ DOMAIN none = DOMAIN queues
    BY <1>0, <1>2
  <2>. HIDE DEF none
  <2>5. /\ seen = [t \in Limited |-> seen[t]] /\ seen.windows = none
        /\ \A t \in Limited : seen[t] \in Sights[t]
    BY <1>1, <2>2, <2>3, <2>4
  <2>. HIDE DEF seen
  <2>6. seen \in Seens /\ DOMAIN seen = Limited
    BY <2>5, SeensFrom
  <2>. QED
    BY <1>3, <2>1, <2>4, <2>5, <2>6
<1>5. ASSUME CountWindows(r)
      PROVE  Moves(r)
  <2>. DEFINE old   == req[r].seen.windows
              sizes == [k \in DOMAIN old |-> ActiveWindows(k)]
              seen  == [req[r].seen EXCEPT !["windows"] = sizes]
  <2>1. /\ At(r, "changePlan", "sizes") /\ DOMAIN req[r].seen = Limited
        /\ Become(r, [req[r] EXCEPT !.pc = "change", !.seen = seen])
    BY <1>0, <1>5 DEF CountWindows, At, Holds, Request
  <2>2. old \in WindowSights /\ DOMAIN old \subseteq DOMAIN queues
    BY <1>0, <1>1, <2>1, SeensHold, SightsOf DEF At, Stands
  <2>3. sizes \in Sights["windows"]
    <3>1. PICK n \in Nat : DOMAIN old = 1..n
      BY <2>2 DEF WindowSights
    <3>2. sizes \in [1..n -> SUBSET Nat]
      BY <1>0, <2>2, <3>1, ActiveAreFinite
    <3>. HIDE DEF sizes
    <3>. QED
      BY <1>2, <3>1, <3>2
  <2>. HIDE DEF sizes, old
  <2>4. seen \in Seens /\ DOMAIN seen = Limited
    BY <1>0, <1>1, <2>1, <2>3, SeensKept
  <2>. HIDE DEF seen
  <2>. QED
    BY <1>3, <2>1, <2>4
<1>. QED
  BY <1>4, <1>5

\* The subscription.
LEMMA BillFine ==
  ASSUME PInv1, NEW r \in Requests, Bill(r)
  PROVE  Moves(r)
<1>0. /\ req[r] \in Request /\ Holds(req[r]) /\ Stands(req[r], organization, businesses, queues)
      /\ subscription \in SubscriptionRow \cup {None}
      /\ (organization = None <=> subscription = None)
      /\ Len(queues) \in Nat
  BY HeldFields, QueuesAreRows
<1>1. \A st \in {"active", "cancelled", "expired"}, row \in SubscriptionRow :
        /\ [row EXCEPT !.status = st] \in SubscriptionRow
        /\ [row EXCEPT !.status = st].status = st
        /\ [row EXCEPT !.status = st].plan = row.plan
  BY DEF SubscriptionRow, Ended
<1>2. \A plan \in PlanNames, row \in SubscriptionRow :
        /\ [row EXCEPT !.plan = plan] \in SubscriptionRow
        /\ [row EXCEPT !.plan = plan].status = row.status
        /\ [row EXCEPT !.plan = plan].plan = plan
  BY DEF SubscriptionRow
<1>3. ASSUME BeginReadPlan(r)
      PROVE  Moves(r)
  <2>. DEFINE p == [Unused EXCEPT !.row = subscription]
  <2>1. subscription \in SubscriptionRow /\ subscription.status = "trial" /\ Start(r, "readPlan", "lapse", p)
    BY <1>0, <1>3 DEF BeginReadPlan, Lapsed
  <2>2. /\ p \in Request /\ p.row = subscription /\ p.queue = 0 /\ p.keep = {}
    BY <2>1, UnusedFields DEF Request
  <2>. HIDE DEF p
  <2>. PICK q : Become(r, q) /\ Begins(q, "readPlan", "lapse", p)
    BY <2>1, <2>2, StartFine DEF Pcs
  <2>3. q \in Request /\ Become(r, q) /\ q.op = "readPlan" /\ q.pc = "lapse" /\ q.row = subscription
        /\ q.queue = 0 /\ q.keep = {}
    BY <2>2 DEF Begins
  <2>4. Holds(q)
    BY <2>1, <2>3 DEF Holds, Saw, QueueOps, WindowOps, EnforcePcs
  <2>5. Stands(q, organization, businesses, queues)
    BY <1>0, <1>3, <2>3 DEF Stands, WindowOps, BeginReadPlan
  <2>. QED
    BY <2>3, <2>4, <2>5 DEF Moves, Fine
<1>4. ASSUME ReadPlan(r)
      PROVE  Moves(r)
  <2>1. req[r].pc = "plan" /\ subscription \in SubscriptionRow
    BY <1>0, <1>4 DEF ReadPlan, Stands
  <2>2. CASE Lapsed(subscription)
    <3>. DEFINE q == [req[r] EXCEPT !.pc = "lapse", !.row = subscription]
    <3>1. Become(r, q)
      BY <1>4, <2>2 DEF ReadPlan
    <3>2. /\ q \in Request /\ q.op = req[r].op /\ q.pc = "lapse" /\ q.on = req[r].on
          /\ q.queue = req[r].queue /\ q.window = req[r].window /\ q.active = req[r].active
          /\ q.row = subscription /\ q.seen = req[r].seen /\ q.keep = req[r].keep
      BY <1>0, <2>1 DEF Request, Pcs
    <3>. HIDE DEF q
    <3>3. req[r].op \in Planned /\ Grows(req[r]) /\ Saw(req[r])
      BY <1>0, <2>1 DEF Holds
    <3>4. Grows(q) /\ Saw(q)
      BY <3>2, <3>3 DEF Grows, Saw
    <3>5. Holds(q)
      BY <2>1, <2>2, <3>2, <3>3, <3>4 DEF Holds, EnforcePcs, Lapsed
    <3>6. Stands(q, organization, businesses, queues)
      BY <1>0, <2>1, <3>2, <3>3 DEF Stands, Planned, OrganizationOps, QueueOps, WindowOps
    <3>. QED
      BY <3>1, <3>2, <3>5, <3>6 DEF Moves, Fine
  <2>3. CASE ~Lapsed(subscription)
    BY <1>4, <2>1, <2>3, DecideFine DEF ReadPlan
  <2>. QED
    BY <2>2, <2>3
<1>5. ASSUME SaveLapse(r)
      PROVE  Moves(r)
  <2>. DEFINE row == [req[r].row EXCEPT !.status = "expired"]
  <2>1. req[r].pc = "lapse" /\ req[r].row \in SubscriptionRow /\ Decide(r, row)
    BY <1>0, <1>5 DEF SaveLapse, Holds
  <2>2. row \in SubscriptionRow
    BY <1>1, <2>1
  <2>. HIDE DEF row
  <2>. QED
    BY <2>1, <2>2, DecideFine
<1>6. ASSUME BeginActivate(r) \/ BeginCancel(r)
      PROVE  Moves(r)
  <2>1. PICK op \in {"activate", "cancel"}, new \in SubscriptionRow :
          /\ subscription \in SubscriptionRow /\ subscription # None
          /\ new.plan = subscription.plan
          /\ new.status = IF op = "activate" THEN "active" ELSE "cancelled"
          /\ Start(r, op, "save", [Unused EXCEPT !.row = subscription, !.write = new])
    <3>1. ASSUME BeginActivate(r)
          PROVE  /\ subscription \in SubscriptionRow /\ subscription # None
                 /\ Start(r, "activate", "save", [Unused EXCEPT !.row = subscription,
                                                    !.write = [subscription EXCEPT !.status = "active"]])
      BY <1>0, <3>1 DEF BeginActivate, Edit
    <3>2. ASSUME BeginCancel(r)
          PROVE  /\ subscription \in SubscriptionRow /\ subscription # None
                 /\ Start(r, "cancel", "save", [Unused EXCEPT !.row = subscription,
                                                    !.write = [subscription EXCEPT !.status = "cancelled"]])
      BY <1>0, <3>2 DEF BeginCancel, Edit
    <3>. QED
      BY <1>1, <1>6, <3>1, <3>2
  <2>. DEFINE p == [Unused EXCEPT !.row = subscription, !.write = new]
  <2>2. /\ p \in Request /\ p.row = subscription /\ p.write = new /\ p.queue = 0 /\ p.keep = {}
    BY <2>1, UnusedFields DEF Request
  <2>3. Start(r, op, "save", p)
    BY <2>1
  <2>. HIDE DEF p
  <2>. PICK q : Become(r, q) /\ Begins(q, op, "save", p)
    BY <2>2, <2>3, StartFine DEF Pcs
  <2>4. q \in Request /\ Become(r, q) /\ q.op = op /\ q.pc = "save" /\ q.row = subscription
        /\ q.write = new /\ q.queue = 0 /\ q.keep = {}
    BY <2>2 DEF Begins
  <2>5. Decided(q)
    BY <2>1, <2>4 DEF Decided, Edits, Grows, OrganizationOps
  <2>6. Holds(q)
    BY <2>4, <2>5 DEF Holds, Saw, QueueOps, WindowOps, EnforcePcs
  <2>7. Stands(q, organization, businesses, queues)
    BY <1>0, <2>1, <2>4 DEF Stands, WindowOps, OrganizationOps
  <2>. QED
    BY <2>4, <2>6, <2>7 DEF Moves, Fine
<1>7. ASSUME BeginCancelAgain(r)
      PROVE  Moves(r)
  <2>. PICK q : Become(r, q) /\ Begins(q, "cancel", "list", Unused)
    BY <1>7, UnusedFields, StartFine DEF Pcs, BeginCancelAgain
  <2>1. q \in Request /\ Become(r, q) /\ q.op = "cancel" /\ q.pc = "list" /\ q.queue = 0 /\ q.keep = {}
    BY UnusedFields DEF Begins
  <2>2. Holds(q)
    BY <2>1 DEF Holds, EnforcePcs
  <2>3. Stands(q, organization, businesses, queues)
    BY <1>0, <1>7, <2>1 DEF Stands, BeginCancelAgain
  <2>. QED
    BY <2>1, <2>2, <2>3 DEF Moves, Fine
<1>8. ASSUME NEW plan \in PlanNames, BeginChangePlan(r, plan)
      PROVE  Moves(r)
  <2>. DEFINE new == [subscription EXCEPT !.plan = plan]
              p   == [Unused EXCEPT !.seen = See({"businesses"}), !.write = new]
  <2>1. subscription \in SubscriptionRow /\ Start(r, "changePlan", "queues", p)
    BY <1>0, <1>8 DEF BeginChangePlan
  <2>2. new \in SubscriptionRow
    BY <1>2, <2>1
  <2>3. See({"businesses"}) \in Seens /\ DOMAIN See({"businesses"}) = {"businesses"}
    BY HeldFields, SeesSeens DEF Limited
  <2>. HIDE DEF new
  <2>4. p \in Request /\ p.queue = 0 /\ p.keep = {} /\ p.seen = See({"businesses"}) /\ p.write = new
    BY <2>2, <2>3, UnusedFields DEF Request
  <2>. HIDE DEF p
  <2>. PICK q : Become(r, q) /\ Begins(q, "changePlan", "queues", p)
    BY <2>1, <2>4, StartFine DEF Pcs
  <2>5. q \in Request /\ Become(r, q) /\ q.op = "changePlan" /\ q.pc = "queues" /\ q.seen = See({"businesses"})
        /\ q.write = new /\ q.queue = 0 /\ q.keep = {}
    BY <2>4 DEF Begins
  <2>6. Holds(q)
    BY <2>2, <2>3, <2>5 DEF Holds, EnforcePcs
  <2>7. Stands(q, organization, businesses, queues)
    BY <1>0, <1>8, <2>5 DEF Stands, BeginChangePlan
  <2>. QED
    BY <2>5, <2>6, <2>7 DEF Moves, Fine
<1>9. ASSUME CheckUsage(r)
      PROVE  Moves(r)
  <2>. DEFINE new == [subscription EXCEPT !.plan = req[r].write.plan]
              q   == [req[r] EXCEPT !.pc = "save", !.row = subscription, !.write = new]
  <2>1. /\ req[r].op = "changePlan" /\ req[r].pc = "change" /\ subscription \in SubscriptionRow
        /\ req[r].write \in SubscriptionRow /\ DOMAIN req[r].seen = Limited
    BY <1>0, <1>9 DEF CheckUsage, At, Holds, Stands
  <2>2. req[r].write.plan \in PlanNames
    BY <2>1 DEF SubscriptionRow
  <2>3. new \in SubscriptionRow /\ new.status = subscription.status /\ new.plan = req[r].write.plan
    BY <1>2, <2>1, <2>2
  <2>4. \/ End(r, "failed")
        \/ Become(r, q) /\ SeenFits(req[r].seen, PlanLimits[req[r].write.plan])
    BY <1>9 DEF CheckUsage, SeenFits
  <2>. HIDE DEF new
  <2>5. /\ q \in Request /\ q.op = "changePlan" /\ q.pc = "save" /\ q.row = subscription /\ q.write = new
        /\ q.queue = req[r].queue /\ q.keep = req[r].keep /\ q.seen = req[r].seen
    BY <1>0, <2>1, <2>3 DEF Request, Pcs
  <2>. HIDE DEF q
  <2>6. ASSUME SeenFits(req[r].seen, PlanLimits[req[r].write.plan])
        PROVE  Decided(q)
    BY <2>1, <2>3, <2>5, <2>6 DEF Decided, Grows, OrganizationOps
  <2>7. Decided(q) => Holds(q)
    BY <2>5 DEF Holds, Saw, QueueOps, WindowOps, EnforcePcs
  <2>8. Stands(q, organization, businesses, queues)
    BY <1>0, <2>1, <2>5 DEF Stands, WindowOps, OrganizationOps
  <2>. QED
    BY <2>4, <2>5, <2>6, <2>7, <2>8, EndFine DEF Moves, Fine
<1>10. ASSUME SaveSubscription(r)
       PROVE  Moves(r)
  <2>. DEFINE q == [Unused EXCEPT !.op = "cancel", !.pc = "list"]
  <2>1. End(r, "done") \/ (req[r].op = "cancel" /\ req[r].pc = "save" /\ Become(r, q))
    BY <1>10 DEF SaveSubscription
  <2>2. req[r].op = "cancel" => q \in Request /\ q.op = "cancel" /\ q.pc = "list" /\ q.queue = 0 /\ q.keep = {}
    BY <1>0, UnusedFields DEF Request, Pcs
  <2>. HIDE DEF q
  <2>3. req[r].op = "cancel" => Holds(q)
    BY <2>2 DEF Holds, EnforcePcs
  <2>4. req[r].op = "cancel" /\ req[r].pc = "save" => Stands(q, organization, businesses, queues)
    BY <1>0, <2>2 DEF Stands
  <2>. QED
    BY <2>1, <2>2, <2>3, <2>4, EndFine DEF Moves, Fine
<1>. QED
  BY <1>3, <1>4, <1>5, <1>6, <1>7, <1>8, <1>9, <1>10, CountFine DEF Bill

LEMMA Limits ==
  /\ \A p \in PlanNames : /\ PlanLimits[p].businesses \in Nat \ {0}
                          /\ PlanLimits[p].queues \in Nat \ {0}
                          /\ PlanLimits[p].windows \in Nat \ {0}
                          /\ BasicQueues <= PlanLimits[p].queues
                          /\ BasicWindows <= PlanLimits[p].windows
  /\ BasicQueues \in Nat \ {0} /\ BasicWindows \in Nat \ {0} /\ "basic" \in PlanNames
<1>1. \A p \in PlanNames, t \in Limited : /\ PlanLimits[p][t] \in Nat \ {0}
                                          /\ PlanLimits["basic"][t] <= PlanLimits[p][t]
  BY PlansAssumption
<1>2. {"businesses", "queues", "windows"} \subseteq Limited /\ "basic" \in PlanNames
  BY DEF Limited, PlanNames
<1>. QED
  BY <1>1, <1>2 DEF BasicQueues, BasicWindows

\* Those that stay, and those that go.
LEMMA KeptQueues ==
  ASSUME PInv1
  PROVE  LET drop == Beyond(ActiveQueues, BasicQueues)
             keep == ActiveQueues \ drop
         IN  /\ drop \subseteq ActiveQueues /\ keep \cup drop = ActiveQueues
             /\ drop \subseteq Nat /\ keep \subseteq Nat
             /\ drop \subseteq DOMAIN queues /\ keep \subseteq DOMAIN queues
             /\ Cardinality(keep) <= BasicQueues /\ IsFiniteSet(keep)
             /\ (ActiveQueues # {} => keep # {})
<1>. DEFINE drop == Beyond(ActiveQueues, BasicQueues)
            keep == ActiveQueues \ drop
<1>1. /\ IsFiniteSet(ActiveQueues) /\ ActiveQueues \in SUBSET Nat
      /\ ActiveQueues \subseteq DOMAIN queues /\ BasicQueues \in Nat /\ BasicQueues > 0
  BY ActiveAreFinite, QueuesAreRows, Limits DEF PInv1, Typed
<1>2. /\ drop \subseteq ActiveQueues /\ Cardinality(keep) <= BasicQueues
      /\ (ActiveQueues # {} => keep # {})
  BY <1>1, BeyondKeeps
<1>. HIDE DEF drop
<1>3. IsFiniteSet(keep)
  BY <1>1, FS_Subset
<1>. QED
  BY <1>1, <1>2, <1>3 DEF drop

LEMMA KeptWindows ==
  ASSUME PInv1, NEW k \in DOMAIN queues
  PROVE  LET drop == Beyond(ActiveWindows(k), BasicWindows)
         IN  /\ drop \subseteq ActiveWindows(k) /\ drop \subseteq Nat
             /\ drop \subseteq DOMAIN queues[k].windows
             /\ Cardinality(ActiveWindows(k) \ drop) <= BasicWindows
BY HeldFields, ActiveAreFinite, QueuesAreRows, Limits, BeyondKeeps DEF PInv1, Typed

\* The limits of the basic plan.
LEMMA EnforceFine ==
  ASSUME PInv1, NEW r \in Requests, Enforce(r)
  PROVE  Moves(r)
<1>0. /\ req[r] \in Request /\ Holds(req[r]) /\ Stands(req[r], organization, businesses, queues)
      /\ queues \in Seq(QueueRow) /\ Len(queues) \in Nat /\ DOMAIN queues = 1..Len(queues)
  BY HeldFields, QueuesAreRows
<1>1. ASSUME ListQueues(r)
      PROVE  Moves(r)
  <2>. DEFINE drop == Beyond(ActiveQueues, BasicQueues)
              keep == ActiveQueues \ drop
              pc   == IF drop = {} THEN "windows" ELSE "drop"
              q == [Unused EXCEPT !.op = req[r].op, !.pc = pc, !.keep = keep, !.drop = drop,
                                  !.seen = See({"queues"})]
  <2>1. req[r].pc = "list" /\ Become(r, q)
    BY <1>1 DEF ListQueues, BasicQueues
  <2>2. /\ drop \in SUBSET Nat /\ keep \in SUBSET Nat
        /\ drop \subseteq DOMAIN queues /\ keep \subseteq DOMAIN queues
        /\ (drop # {} => keep # {}) /\ keep \cap drop = {}
    BY KeptQueues
  <2>3. See({"queues"}) \in Seens /\ DOMAIN See({"queues"}) = {"queues"}
    BY <1>0, SeesSeens DEF Limited
  <2>. HIDE DEF drop, keep
  <2>4. pc \in Pcs
    BY DEF Pcs
  <2>5. pc \in {"windows", "drop"} /\ (pc = "drop" => drop # {})
    OBVIOUS
  <2>. HIDE DEF pc
  <2>6. /\ q \in Request /\ q.op = req[r].op /\ q.pc = pc /\ q.queue = 0 /\ q.keep = keep /\ q.drop = drop
        /\ q.seen = See({"queues"})
    BY <1>0, <2>2, <2>3, <2>4, UnusedFields DEF Request
  <2>. HIDE DEF q
  <2>7. Holds(q)
    BY <1>0, <2>1, <2>2, <2>3, <2>5, <2>6 DEF Holds, EnforcePcs
  <2>8. Stands(q, organization, businesses, queues)
    BY <1>0, <2>1, <2>2, <2>5, <2>6 DEF Stands
  <2>. QED
    BY <2>1, <2>6, <2>7, <2>8 DEF Moves, Fine
<1>2. ASSUME DropQueue(r)
      PROVE  Moves(r)
  <2>. DEFINE k    == Least(req[r].drop)
              seen == [req[r].seen EXCEPT !["queues"] = ActiveQueues \ {k}]
              pc   == IF req[r].drop = {k} THEN "windows" ELSE "drop"
              q    == [req[r] EXCEPT !.drop = @ \ {k}, !.pc = pc, !.seen.queues = ActiveQueues \ {k}]
  <2>1. /\ req[r].pc = "drop" /\ Become(r, q) /\ "queues" \in DOMAIN req[r].seen
        /\ req[r].keep \cap req[r].drop = {} /\ req[r].keep # {} /\ req[r].drop # {}
        /\ req[r].drop \in SUBSET Nat /\ req[r].drop \subseteq DOMAIN queues
        /\ req[r].op \in {"cancel"} \cup QueueOps \cup WindowOps
    BY <1>0, <1>2 DEF DropQueue, Holds, EnforcePcs, Request, Stands
  <2>2. ActiveQueues \ {k} \in Sights["queues"]
    BY <1>0, ActiveAreFinite, SightsOf
  <2>3. seen \in Seens /\ DOMAIN seen = DOMAIN req[r].seen
    BY <1>0, <2>1, <2>2, SeensKept DEF Request
  <2>4. pc \in Pcs
    BY DEF Pcs
  <2>5. pc \in {"windows", "drop"} /\ (pc = "drop" => req[r].drop \ {k} # {})
    BY <2>1
  <2>. HIDE DEF k, pc
  <2>6. /\ q \in Request /\ q.op = req[r].op /\ q.pc = pc /\ q.queue = req[r].queue /\ q.keep = req[r].keep
        /\ q.drop = req[r].drop \ {k} /\ q.seen = seen
    BY <1>0, <2>1, <2>3, <2>4 DEF Request
  <2>. HIDE DEF q, seen
  <2>7. Holds(q)
    BY <1>0, <2>1, <2>3, <2>5, <2>6 DEF Holds, EnforcePcs
  <2>8. Stands(q, organization, businesses, queues)
    BY <1>0, <2>1, <2>5, <2>6 DEF Stands
  <2>. QED
    BY <2>1, <2>6, <2>7, <2>8 DEF Moves, Fine
<1>3. ASSUME ListWindows(r)
      PROVE  Moves(r)
  <2>. DEFINE k    == Least(req[r].keep)
              drop == Beyond(ActiveWindows(k), BasicWindows)
              pc   == IF drop = {} THEN "windows" ELSE "trim"
              q    == [req[r] EXCEPT !.pc = pc, !.queue = k, !.keep = @ \ {k}, !.drop = drop,
                                     !.seen = See({"windows"})]
  <2>1. /\ req[r].pc = "windows" /\ req[r].keep \in SUBSET Nat /\ req[r].keep \subseteq DOMAIN queues
        /\ req[r].op \in {"cancel"} \cup QueueOps \cup WindowOps
    BY <1>0, <1>3 DEF ListWindows, Holds, EnforcePcs, Request, Stands
  <2>2. Finish(r) \/ (req[r].keep # {} /\ Become(r, q))
    BY <1>3 DEF ListWindows, BasicWindows
  <2>3. ASSUME req[r].keep # {}, Become(r, q)
        PROVE  Moves(r)
    <3>1. k \in req[r].keep
      BY <2>1, <2>3, LeastIsLeast
    <3>2. k \in DOMAIN queues /\ k \in Nat
      BY <2>1, <3>1
    <3>3. drop \in SUBSET Nat /\ drop \subseteq DOMAIN queues[k].windows
      BY <3>2, KeptWindows
    <3>4. See({"windows"}) \in Seens /\ DOMAIN See({"windows"}) = {"windows"}
      BY <1>0, SeesSeens DEF Limited
    <3>. HIDE DEF drop, k
    <3>5. pc \in Pcs
      BY DEF Pcs
    <3>6. pc \in {"windows", "trim"} /\ (pc = "trim" => drop # {})
      OBVIOUS
    <3>. HIDE DEF pc
    <3>7. /\ q \in Request /\ q.op = req[r].op /\ q.pc = pc /\ q.queue = k /\ q.keep = req[r].keep \ {k}
          /\ q.drop = drop /\ q.seen = See({"windows"})
      BY <1>0, <3>2, <3>3, <3>4, <3>5 DEF Request
    <3>8. Become(r, q)
      BY <2>3
    <3>. HIDE DEF q
    <3>9. Holds(q)
      BY <1>0, <2>1, <3>4, <3>6, <3>7 DEF Holds, EnforcePcs
    <3>10. Stands(q, organization, businesses, queues)
      BY <1>0, <2>1, <3>2, <3>3, <3>6, <3>7 DEF Stands
    <3>. QED
      BY <3>7, <3>8, <3>9, <3>10 DEF Moves, Fine
  <2>. QED
    BY <2>2, <2>3, FinishFine
<1>4. ASSUME TrimWindow(r)
      PROVE  Moves(r)
  <2>. DEFINE w    == Least(req[r].drop)
              left == ActiveWindows(req[r].queue) \ {w}
              ws   == [req[r].seen["windows"] EXCEPT ![req[r].queue] = left]
              seen == [req[r].seen EXCEPT !["windows"] = ws]
              pc   == IF req[r].drop = {w} THEN "windows" ELSE "trim"
              q    == [req[r] EXCEPT !.drop = @ \ {w}, !.pc = pc,
                                     !.seen.windows[req[r].queue] = left]
  <2>1. /\ req[r].pc = "trim" /\ Become(r, q) /\ "windows" \in DOMAIN req[r].seen
        /\ req[r].drop # {} /\ req[r].drop \in SUBSET Nat /\ req[r].queue \in DOMAIN queues
        /\ req[r].drop \subseteq DOMAIN queues[req[r].queue].windows
        /\ req[r].op \in {"cancel"} \cup QueueOps \cup WindowOps
    BY <1>0, <1>4 DEF TrimWindow, Holds, EnforcePcs, Request, Stands
  <2>2. ws \in Sights["windows"]
    <3>1. left \in SUBSET Nat
      BY <1>0, <2>1, ActiveAreFinite
    <3>2. req[r].seen["windows"] \in WindowSights
      BY <1>0, <2>1, SeensHold, SightsOf DEF Request
    <3>3. PICK n \in Nat : req[r].seen["windows"] \in [1..n -> SUBSET Nat]
      BY <3>2 DEF WindowSights
    <3>. HIDE DEF left
    <3>4. ws \in [1..n -> SUBSET Nat]
      BY <3>1, <3>3
    <3>. QED
      BY <3>4, SightsOf DEF WindowSights
  <2>. HIDE DEF ws
  <2>3. seen \in Seens /\ DOMAIN seen = DOMAIN req[r].seen
    BY <1>0, <2>1, <2>2, SeensKept DEF Request
  <2>4. pc \in Pcs
    BY DEF Pcs
  <2>5. pc \in {"windows", "trim"} /\ (pc = "trim" => req[r].drop \ {w} # {})
    BY <2>1
  <2>. HIDE DEF w, pc, left
  <2>6. /\ q \in Request /\ q.op = req[r].op /\ q.pc = pc /\ q.queue = req[r].queue /\ q.keep = req[r].keep
        /\ q.drop = req[r].drop \ {w} /\ q.seen = seen
    BY <1>0, <2>1, <2>3, <2>4 DEF Request, ws
  <2>. HIDE DEF q, seen
  <2>7. Holds(q)
    BY <1>0, <2>1, <2>3, <2>5, <2>6 DEF Holds, EnforcePcs
  <2>8. Stands(q, organization, businesses, queues)
    BY <1>0, <2>1, <2>5, <2>6 DEF Stands
  <2>. QED
    BY <2>1, <2>6, <2>7, <2>8 DEF Moves, Fine
<1>. QED
  BY <1>1, <1>2, <1>3, <1>4 DEF Enforce

\* A queue that has just been saved has no window yet.
LEMMA SeenNew ==
  ASSUME queues \in Seq(QueueRow)
  PROVE  LET seen == [windows |-> Append(Usage.windows, {})]
         IN  /\ seen \in Seens /\ DOMAIN seen = {"windows"}
             /\ seen.windows[Len(queues) + 1] = {}
<1>. DEFINE old  == Usage.windows
            ws   == Append(old, {})
            seen == [windows |-> ws]
<1>0. DOMAIN queues = 1..Len(queues) /\ Len(queues) \in Nat
  BY QueuesAreRows
<1>1. old \in [1..Len(queues) -> SUBSET Nat]
  BY <1>0, ActiveAreFinite DEF Usage
<1>2. old \in Seq(SUBSET Nat)
  BY <1>0, <1>1, SeqDef
<1>3. DOMAIN old = 1..Len(queues) /\ DOMAIN old = 1..Len(old) /\ Len(old) \in Nat
  BY <1>1, <1>2, LenProperties
<1>4. Len(old) = Len(queues)
  BY <1>0, <1>3
<1>5. {} \in SUBSET Nat
  OBVIOUS
<1>. HIDE DEF old
<1>6. ws \in Seq(SUBSET Nat) /\ Len(ws) = Len(queues) + 1 /\ ws[Len(queues) + 1] = {}
  BY <1>2, <1>4, <1>5, AppendProperties
<1>. HIDE DEF ws
<1>7. ws \in WindowSights
  BY <1>6, SeqDef DEF WindowSights
<1>8. seen = [t \in {"windows"} |-> seen[t]] /\ \A t \in {"windows"} : seen[t] \in Sights[t]
  BY <1>7, SightsOf
<1>. HIDE DEF seen
<1>9. seen \in Seens /\ DOMAIN seen = {"windows"}
  BY <1>8, SeensFrom DEF Limited
<1>. QED
  BY <1>6, <1>9 DEF seen, ws, old

\* The owner's queues and windows.
LEMMA ArrangeFine ==
  ASSUME PInv1, NEW r \in Requests, Arrange(r)
  PROVE  Moves(r)
<1>0. /\ req[r] \in Request /\ Holds(req[r]) /\ Stands(req[r], organization, businesses, queues)
      /\ queues \in Seq(QueueRow) /\ Len(queues) \in Nat /\ DOMAIN queues = 1..Len(queues)
      /\ \A k \in DOMAIN queues : /\ queues[k] \in QueueRow /\ queues[k].windows \in Seq(BOOLEAN)
                                  /\ DOMAIN queues[k].windows \subseteq Nat \ {0}
      /\ (DOMAIN queues # {} => organization # None)
  BY HeldFields, QueuesAreRows DEF PInv1, World
<1>1. \A t \in Limited : /\ See({t}) \in Seens /\ DOMAIN See({t}) = {t}
  BY <1>0, SeesSeens
<1>2. {"plan", "count", "save", "first"} \subseteq Pcs /\ Limited = {"businesses", "queues", "windows"}
  BY DEF Pcs, Limited
<1>3. ASSUME BeginCreateQueue(r)
      PROVE  Moves(r)
  <2>. DEFINE p == [Unused EXCEPT !.seen = See({"queues"})]
  <2>1. Start(r, "createQueue", "plan", p) /\ organization # None
    BY <1>3 DEF BeginCreateQueue, PInv1, World, Ids
  <2>2. p \in Request /\ p.seen = See({"queues"}) /\ p.queue = 0 /\ p.keep = {}
    BY <1>1, <1>2, UnusedFields DEF Request
  <2>. HIDE DEF p
  <2>. PICK q : Become(r, q) /\ Begins(q, "createQueue", "plan", p)
    BY <1>2, <2>1, <2>2, StartFine
  <2>3. q \in Request /\ Become(r, q) /\ q.op = "createQueue" /\ q.pc = "plan" /\ q.seen = See({"queues"})
        /\ q.queue = 0 /\ q.keep = {}
    BY <2>2 DEF Begins
  <2>4. Holds(q)
    BY <1>1, <1>2, <2>3 DEF Holds, Saw, QueueOps, WindowOps, Planned, Grows, EnforcePcs
  <2>5. Stands(q, organization, businesses, queues)
    BY <1>0, <2>1, <2>3 DEF Stands, WindowOps
  <2>. QED
    BY <2>3, <2>4, <2>5 DEF Moves, Fine
<1>4. ASSUME NEW k \in DOMAIN queues, BeginToggleQueue(r, k)
      PROVE  Moves(r)
  <2>. DEFINE a == ~queues[k].active
              p == [Unused EXCEPT !.queue = k, !.active = a]
  <2>1. Start(r, "toggleQueue", "count", p) /\ k \in Nat /\ k \in 0..Len(queues) /\ a \in BOOLEAN
    BY <1>0, <1>4 DEF BeginToggleQueue
  <2>. HIDE DEF a
  <2>2. p \in Request /\ p.queue = k /\ p.keep = {}
    BY <1>0, <2>1, UnusedFields DEF Request, QueueRow
  <2>. HIDE DEF p
  <2>. PICK q : Become(r, q) /\ Begins(q, "toggleQueue", "count", p)
    BY <1>2, <2>1, <2>2, StartFine
  <2>3. q \in Request /\ Become(r, q) /\ q.op = "toggleQueue" /\ q.pc = "count" /\ q.queue = k /\ q.keep = {}
    BY <2>2 DEF Begins
  <2>4. Holds(q)
    BY <2>3 DEF Holds, EnforcePcs
  <2>5. Stands(q, organization, businesses, queues)
    BY <1>0, <2>1, <2>3 DEF Stands, WindowOps
  <2>. QED
    BY <2>3, <2>4, <2>5 DEF Moves, Fine
<1>5. ASSUME NEW k \in DOMAIN queues, BeginCreateWindow(r, k)
      PROVE  Moves(r)
  <2>. DEFINE p == [Unused EXCEPT !.queue = k, !.seen = See({"windows"})]
  <2>1. Start(r, "createWindow", "plan", p) /\ k \in Nat /\ k \in 0..Len(queues)
    BY <1>0, <1>5 DEF BeginCreateWindow
  <2>2. p \in Request /\ p.queue = k /\ p.window = 0 /\ p.keep = {} /\ p.seen = See({"windows"})
    BY <1>1, <1>2, <2>1, UnusedFields DEF Request
  <2>. HIDE DEF p
  <2>. PICK q : Become(r, q) /\ Begins(q, "createWindow", "plan", p)
    BY <1>2, <2>1, <2>2, StartFine
  <2>3. q \in Request /\ Become(r, q) /\ q.op = "createWindow" /\ q.pc = "plan" /\ q.seen = See({"windows"})
        /\ q.queue = k /\ q.window = 0 /\ q.keep = {}
    BY <2>2 DEF Begins
  <2>4. Holds(q)
    BY <1>1, <1>2, <2>3 DEF Holds, Saw, QueueOps, WindowOps, Planned, Grows, EnforcePcs
  <2>5. Stands(q, organization, businesses, queues)
    BY <1>0, <2>1, <2>3 DEF Stands, WindowOps
  <2>. QED
    BY <2>3, <2>4, <2>5 DEF Moves, Fine
<1>6. ASSUME NEW k \in DOMAIN queues, NEW w \in DOMAIN queues[k].windows, BeginToggleWindow(r, k, w)
      PROVE  Moves(r)
  <2>. DEFINE a == ~queues[k].windows[w]
              pc == IF a THEN "count" ELSE "save"
              p == [Unused EXCEPT !.queue = k, !.window = w, !.active = a]
  <2>1. Start(r, "toggleWindow", pc, p) /\ k \in Nat /\ k \in 0..Len(queues) /\ w \in Nat
    BY <1>0, <1>6 DEF BeginToggleWindow
  <2>2. a \in BOOLEAN
    OBVIOUS
  <2>3. pc \in Pcs /\ pc \in {"count", "save"} /\ (pc = "save" <=> ~a)
    BY <1>2
  <2>. HIDE DEF a, pc
  <2>4. p \in Request /\ p.queue = k /\ p.window = w /\ p.keep = {} /\ p.active = a
    BY <2>1, <2>2, UnusedFields DEF Request
  <2>. HIDE DEF p
  <2>. PICK q : Become(r, q) /\ Begins(q, "toggleWindow", pc, p)
    BY <2>1, <2>3, <2>4, StartFine
  <2>5. q \in Request /\ Become(r, q) /\ q.op = "toggleWindow" /\ q.pc = pc /\ q.queue = k /\ q.window = w
        /\ q.keep = {} /\ q.active = a
    BY <2>4 DEF Begins
  <2>6. pc = "save" => Decided(q) /\ Saw(q)
    BY <2>3, <2>5 DEF Decided, Saw, QueueOps, WindowOps, Planned, Grows, OrganizationOps
  <2>7. Holds(q)
    BY <2>3, <2>5, <2>6 DEF Holds, EnforcePcs
  <2>8. Stands(q, organization, businesses, queues)
    BY <1>0, <2>1, <2>3, <2>5 DEF Stands, WindowOps, OrganizationOps
  <2>. QED
    BY <2>5, <2>7, <2>8 DEF Moves, Fine
<1>7. ASSUME CountUsage(r)
      PROVE  Moves(r)
  <2>. DEFINE q(pc, t) == [req[r] EXCEPT !.pc = pc, !.seen = See({t})]
  <2>1. req[r].pc = "count"
    BY <1>7 DEF CountUsage
  <2>2. \/ End(r, "failed")
        \/ \E pc \in {"plan", "save"}, t \in Limited :
             /\ Become(r, q(pc, t))
             /\ \/ req[r].op = "register" /\ pc = "plan" /\ t = "businesses"
                \/ req[r].op = "toggleWindow" /\ pc = "plan" /\ t = "windows"
                \/ req[r].op = "toggleQueue" /\ req[r].active /\ pc = "plan" /\ t = "queues"
                \/ /\ req[r].op = "toggleQueue" /\ ~req[r].active /\ pc = "save" /\ t = "queues"
                   /\ AnotherIsActive(req[r])
    BY <1>2, <1>7 DEF CountUsage
  <2>3. ASSUME NEW pc \in {"plan", "save"}, NEW t \in Limited, Become(r, q(pc, t)),
               \/ req[r].op = "register" /\ pc = "plan" /\ t = "businesses"
               \/ req[r].op = "toggleWindow" /\ pc = "plan" /\ t = "windows"
               \/ req[r].op = "toggleQueue" /\ req[r].active /\ pc = "plan" /\ t = "queues"
               \/ /\ req[r].op = "toggleQueue" /\ ~req[r].active /\ pc = "save" /\ t = "queues"
                  /\ AnotherIsActive(req[r])
        PROVE  Moves(r)
    <3>. DEFINE n == q(pc, t)
    <3>1. /\ n \in Request /\ n.op = req[r].op /\ n.pc = pc /\ n.on = req[r].on /\ n.queue = req[r].queue
          /\ n.window = req[r].window /\ n.active = req[r].active /\ n.seen = See({t})
          /\ n.keep = req[r].keep
      BY <1>0, <1>1, <1>2 DEF Request
    <3>2. Become(r, n)
      BY <2>3
    <3>3. DOMAIN See({t}) = {t}
      BY <1>1
    <3>. HIDE DEF n
    <3>4. Saw(n)
      BY <2>3, <3>1, <3>3 DEF Saw, QueueOps, WindowOps
    <3>5. pc = "plan" => n.op \in Planned /\ Grows(n)
      BY <1>0, <2>1, <2>3, <3>1 DEF Planned, QueueOps, WindowOps, Grows, Holds
    <3>6. pc = "save" => See({t})["queues"] = ActiveQueues
      BY <1>0, <1>2, <2>3, SeesSeens DEF Usage
    <3>7. pc = "save" => Decided(n)
      BY <2>3, <3>1, <3>6 DEF Decided, Planned, QueueOps, OrganizationOps, Grows, AnotherIsActive
    <3>8. Holds(n)
      BY <3>1, <3>4, <3>5, <3>7 DEF Holds, EnforcePcs
    <3>9. Stands(n, organization, businesses, queues)
      BY <1>0, <2>1, <2>3, <3>1 DEF Stands, OrganizationOps, WindowOps
    <3>. QED
      BY <3>1, <3>2, <3>8, <3>9 DEF Moves, Fine
  <2>. QED
    BY <2>2, <2>3, EndFine
<1>8. ASSUME SaveNew(r)
      PROVE  Moves(r)
  <2>. DEFINE new  == Len(queues) + 1
              seen == [windows |-> Append(Usage.windows, {})]
              q    == [req[r] EXCEPT !.pc = "first", !.queue = new, !.row = None, !.seen = seen]
  <2>1. End(r, "done") \/ (At(r, "createQueue", "save") /\ Become(r, q) /\ queues' = Append(queues, Queue(TRUE, 0)))
    BY <1>8 DEF SaveNew
  <2>2. ASSUME At(r, "createQueue", "save"), Become(r, q), queues' = Append(queues, Queue(TRUE, 0))
        PROVE  Moves(r)
    <3>1. Grown /\ new \in DOMAIN queues' /\ new \in Nat
      BY <1>0, <2>2, AddQueue
    <3>2. seen \in Seens /\ "windows" \in DOMAIN seen /\ seen.windows[new] = {}
      BY <1>0, SeenNew
    <3>3. organization' = organization /\ businesses' = businesses /\ organization # None
      BY <1>0, <1>8, <2>2 DEF SaveNew, account, At, Stands
    <3>4. Len(queues') \in Nat /\ new \in 0..Len(queues') /\ DOMAIN queues \subseteq DOMAIN queues'
      BY <3>1, LenProperties DEF Grown
    <3>. HIDE DEF seen, new
    <3>5. /\ q \in Request /\ q.op = req[r].op /\ q.pc = "first" /\ q.queue = new
          /\ q.keep = req[r].keep /\ q.seen = seen
      BY <1>0, <1>2, <3>1, <3>2 DEF Request
    <3>6. Become(r, q)
      BY <2>2
    <3>. HIDE DEF q
    <3>7. Holds(q)
      BY <2>2, <3>2, <3>5 DEF Holds, EnforcePcs, At
    <3>8. Stands(q, organization', businesses', queues')
      BY <1>0, <3>1, <3>3, <3>4, <3>5 DEF Stands
    <3>. QED
      BY <3>5, <3>6, <3>7, <3>8 DEF Moves, Fine
  <2>. QED
    BY <2>1, <2>2, EndFine
<1>9. SaveToggle(r) => Moves(r)
  BY EndFine DEF SaveToggle
<1>. QED
  BY <1>3, <1>4, <1>5, <1>6, <1>7, <1>8, <1>9 DEF Arrange

\* Organizations and businesses, and a request that dies.
LEMMA EnrolFine ==
  ASSUME PInv1, NEW r \in Requests, Enrol(r) \/ Abort(r)
  PROVE  Moves(r)
<1>0. /\ req[r] \in Request /\ Holds(req[r]) /\ Stands(req[r], organization, businesses, queues)
      /\ organization \in OrganizationRow \cup {None} /\ r \in Ids
      /\ queues \in Seq(QueueRow) /\ Len(queues) \in Nat
      /\ \A b \in Ids : businesses[b] # None => organization # None
  BY HeldFields, QueuesAreRows DEF PInv1, World
<1>1. {"found", "count", "plan", "save", "done"} \subseteq Pcs
  BY DEF Pcs
<1>2. \A row \in OrganizationRow : row.id \in Ids
  BY DEF OrganizationRow
<1>3. ASSUME BeginRegister(r)
      PROVE  Moves(r)
  <2>1. CASE organization = None
    <3>. PICK q : Become(r, q) /\ Begins(q, "register", "found", Unused)
      BY <1>1, <1>3, <2>1, UnusedFields, StartFine DEF BeginRegister
    <3>1. q \in Request /\ Become(r, q) /\ q.op = "register" /\ q.pc = "found" /\ q.queue = 0 /\ q.keep = {}
      BY UnusedFields DEF Begins
    <3>2. Holds(q)
      BY <3>1 DEF Holds, EnforcePcs
    <3>3. Stands(q, organization, businesses, queues)
      BY <1>0, <3>1 DEF Stands
    <3>. QED
      BY <3>1, <3>2, <3>3 DEF Moves, Fine
  <2>2. CASE organization # None
    <3>. DEFINE p == [Unused EXCEPT !.on = organization.id]
    <3>1. Start(r, "register", "count", p)
      BY <1>3, <2>2 DEF BeginRegister
    <3>2. p \in Request /\ p.on = organization.id /\ p.queue = 0 /\ p.keep = {}
      BY <1>0, <1>2, <2>2, UnusedFields DEF Request
    <3>. HIDE DEF p
    <3>. PICK q : Become(r, q) /\ Begins(q, "register", "count", p)
      BY <1>1, <3>1, <3>2, StartFine
    <3>3. q \in Request /\ Become(r, q) /\ q.op = "register" /\ q.pc = "count" /\ q.on = organization.id
          /\ q.queue = 0 /\ q.keep = {}
      BY <3>2 DEF Begins
    <3>4. Holds(q)
      BY <3>3 DEF Holds, EnforcePcs
    <3>5. Stands(q, organization, businesses, queues)
      BY <1>0, <2>2, <3>3 DEF Stands, WindowOps
    <3>. QED
      BY <3>3, <3>4, <3>5 DEF Moves, Fine
  <2>. QED
    BY <2>1, <2>2
<1>4. ASSUME CreateOrganization(r)
      PROVE  Moves(r)
  <2>. DEFINE q == [req[r] EXCEPT !.pc = "count", !.on = organization'.id]
  <2>1. Become(r, q) /\ req[r].op = "register" /\ businesses' = businesses /\ queues' = queues
    BY <1>4 DEF CreateOrganization, At
  <2>2. organization' \in OrganizationRow /\ organization' # None
    <3>1. CASE AdminFits
      BY <1>0, <1>4, <3>1, NoneIsNoRow DEF CreateOrganization, OrganizationRow
    <3>2. CASE ~AdminFits
      BY <1>0, <1>4, <3>2 DEF CreateOrganization, AdminFits
    <3>. QED
      BY <3>1, <3>2
  <2>3. /\ q \in Request /\ q.op = "register" /\ q.pc = "count" /\ q.on = organization'.id
        /\ q.queue = req[r].queue /\ q.keep = req[r].keep
    BY <1>0, <1>1, <1>2, <2>1, <2>2 DEF Request
  <2>. HIDE DEF q
  <2>4. Holds(q)
    BY <2>3 DEF Holds, EnforcePcs
  <2>5. Stands(q, organization', businesses', queues')
    BY <1>0, <2>1, <2>2, <2>3 DEF Stands, WindowOps
  <2>. QED
    BY <2>1, <2>3, <2>4, <2>5 DEF Moves, Fine
<1>5. ASSUME NEW b \in Ids, NEW op, NEW pc,
             \/ op = "approve" /\ pc = "plan" /\ BeginApprove(r, b)
             \/ op = "reject" /\ pc = "save" /\ BeginReject(r, b)
      PROVE  Moves(r)
  <2>. DEFINE p == [Unused EXCEPT !.on = b]
  <2>1. Start(r, op, pc, p) /\ organization # None /\ businesses[b] # None
    BY <1>0, <1>5 DEF BeginApprove, BeginReject
  <2>2. p \in Request /\ p.on = b /\ p.queue = 0 /\ p.keep = {}
    BY UnusedFields DEF Request
  <2>. HIDE DEF p
  <2>. PICK q : Become(r, q) /\ Begins(q, op, pc, p)
    BY <1>1, <1>5, <2>1, <2>2, StartFine
  <2>3. q \in Request /\ Become(r, q) /\ q.op = op /\ q.pc = pc /\ q.on = b /\ q.queue = 0 /\ q.keep = {}
    BY <2>2 DEF Begins
  <2>4. Saw(q)
    BY <1>5, <2>3 DEF Saw, QueueOps, WindowOps
  <2>5. op = "reject" => Decided(q)
    BY <2>3 DEF Decided, Grows, OrganizationOps
  <2>6. Holds(q)
    BY <1>5, <2>3, <2>4, <2>5 DEF Holds, Planned, Grows, EnforcePcs
  <2>7. Stands(q, organization, businesses, queues)
    BY <1>0, <1>5, <2>1, <2>3 DEF Stands, WindowOps, OrganizationOps
  <2>. QED
    BY <2>3, <2>6, <2>7 DEF Moves, Fine
<1>6. ASSUME FindQueue(r)
      PROVE  Moves(r)
  <2>. DEFINE q == [req[r] EXCEPT !.pc = "save", !.seen = See({"queues"})]
  <2>1. Become(r, q) /\ req[r].op = "approve" /\ req[r].pc = "look"
    BY <1>6 DEF FindQueue, At
  <2>2. See({"queues"}) \in Seens /\ DOMAIN See({"queues"}) = {"queues"}
    BY <1>0, SeesSeens DEF Limited
  <2>3. /\ q \in Request /\ q.op = "approve" /\ q.pc = "save" /\ q.on = req[r].on /\ q.row = req[r].row
        /\ q.queue = req[r].queue /\ q.keep = req[r].keep /\ q.seen = See({"queues"})
    BY <1>0, <1>1, <2>1, <2>2 DEF Request
  <2>. HIDE DEF q
  <2>4. Decided(q) /\ Saw(q)
    BY <1>0, <2>1, <2>2, <2>3
       DEF Decided, Saw, Holds, HasRoom, Planned, QueueOps, WindowOps, Grows, OrganizationOps
  <2>5. Holds(q)
    BY <2>3, <2>4 DEF Holds, EnforcePcs
  <2>6. Stands(q, organization, businesses, queues)
    BY <1>0, <2>1, <2>3 DEF Stands, WindowOps, OrganizationOps
  <2>. QED
    BY <2>1, <2>3, <2>5, <2>6 DEF Moves, Fine
<1>7. ASSUME NEW op \in OrganizationOps, BeginOrganization(r, op)
      PROVE  Moves(r)
  <2>. DEFINE status == CASE op = "approveOrganization" -> "approved"
                          [] op = "rejectOrganization" -> "rejected"
                          [] OTHER -> organization.status
              name == IF op = "updateOrganization" THEN r ELSE organization.name
              new == [organization EXCEPT !.status = status, !.name = name]
              p   == [Unused EXCEPT !.write = new]
  <2>1. Start(r, op, "save", p) /\ organization # None
    BY <1>7 DEF BeginOrganization
  <2>2. status \in {"pending", "approved", "rejected"} /\ name \in Ids
    BY <1>0, <2>1 DEF OrganizationRow, OrganizationOps
  <2>. HIDE DEF status, name
  <2>3. new \in OrganizationRow /\ new.id = organization.id
    BY <1>0, <2>1, <2>2 DEF OrganizationRow
  <2>. HIDE DEF new
  <2>4. p \in Request /\ p.write = new /\ p.queue = 0 /\ p.keep = {}
    BY <2>3, UnusedFields DEF Request
  <2>. HIDE DEF p
  <2>. PICK q : Become(r, q) /\ Begins(q, op, "save", p)
    BY <1>1, <2>1, <2>4, StartFine
  <2>5. q \in Request /\ Become(r, q) /\ q.op = op /\ q.pc = "save" /\ q.write = new
        /\ q.queue = 0 /\ q.keep = {}
    BY <2>4 DEF Begins
  <2>6. Decided(q) /\ Saw(q)
    BY <2>3, <2>5 DEF Decided, Saw, QueueOps, WindowOps, Grows, OrganizationOps
  <2>7. Holds(q)
    BY <2>5, <2>6 DEF Holds, EnforcePcs
  <2>8. Stands(q, organization, businesses, queues)
    BY <1>0, <2>1, <2>3, <2>5 DEF Stands, WindowOps, OrganizationOps
  <2>. QED
    BY <2>5, <2>7, <2>8 DEF Moves, Fine
<1>8. SaveBusiness(r) \/ SaveRejection(r) \/ CommitApproval(r) \/ SaveOrganization(r) \/ Abort(r) => Moves(r)
  BY EndFine DEF SaveBusiness, SaveRejection, CommitApproval, SaveOrganization, Abort
<1>. QED
  BY <1>3, <1>4, <1>5, <1>6, <1>7, <1>8 DEF Enrol, OrganizationOps

-----------------------------------------------------------------------------
(* What the steps do to the tables.                                        *)

Step(r) == Bill(r) \/ Enforce(r) \/ Arrange(r) \/ Enrol(r) \/ Abort(r)

LEMMA StepMoves ==
  ASSUME PInv1, NEW r \in Requests, Step(r)
  PROVE  Moves(r)
BY BillFine, EnforceFine, ArrangeFine, EnrolFine DEF Step

Quiet == UNCHANGED <<organization, subscription, trialOver, businesses, queues, overlapped, readmitted>>

SavesQueues(r) == DropQueue(r) \/ TrimWindow(r) \/ SaveNew(r) \/ SaveToggle(r)

Writes(r) == \/ SaveLapse(r) \/ SaveSubscription(r) \/ SavesQueues(r)
             \/ CreateOrganization(r) \/ SaveOrganization(r)
             \/ SaveBusiness(r) \/ CommitApproval(r) \/ SaveRejection(r)

\* Eleven of the steps write; the others read, decide or give up.
LEMMA QuietOrWrites ==
  ASSUME NEW r \in Requests, Step(r)
  PROVE  Quiet \/ Writes(r)
<1>1. Bill(r) => Quiet \/ Writes(r)
  BY DEF Bill, BeginReadPlan, ReadPlan, BeginActivate, BeginCancel, Edit, BeginCancelAgain,
         BeginChangePlan, CountQueues, CountWindows, CheckUsage, Quiet, Writes, account, history
<1>2. Enforce(r) => Quiet \/ Writes(r)
  BY DEF Enforce, ListQueues, ListWindows, Quiet, Writes, SavesQueues, account, history
<1>3. Arrange(r) => Quiet \/ Writes(r)
  BY DEF Arrange, BeginCreateQueue, BeginToggleQueue, BeginCreateWindow, BeginToggleWindow, CountUsage,
         Quiet, Writes, SavesQueues, account, history
<1>4. Enrol(r) \/ Abort(r) => Quiet \/ Writes(r)
  BY DEF Enrol, BeginRegister, BeginReject, BeginApprove, FindQueue, BeginOrganization, Abort, Quiet, Writes, account, history
<1>. QED
  BY <1>1, <1>2, <1>3, <1>4 DEF Step

\* The ways queues and windows change.
QueueOff(k) ==
  /\ k \in DOMAIN queues /\ Grown /\ DOMAIN queues' = DOMAIN queues
  /\ ActiveQueues' = ActiveQueues \ {k}
  /\ \A j \in DOMAIN queues : ActiveWindows(j)' = ActiveWindows(j)

QueueOn(k) ==
  /\ k \in DOMAIN queues /\ Grown /\ DOMAIN queues' = DOMAIN queues
  /\ ActiveQueues' = ActiveQueues \cup {k}
  /\ \A j \in DOMAIN queues : ActiveWindows(j)' = ActiveWindows(j)

QueueNew(k, n) ==
  /\ k \in Nat \ DOMAIN queues /\ Grown /\ DOMAIN queues' = DOMAIN queues \cup {k}
  /\ ActiveQueues' = ActiveQueues \cup {k}
  /\ \A j \in DOMAIN queues : ActiveWindows(j)' = ActiveWindows(j)
  /\ ActiveWindows(k)' = 1..n

WindowOff(k, w) ==
  /\ k \in DOMAIN queues /\ Grown /\ DOMAIN queues' = DOMAIN queues
  /\ ActiveQueues' = ActiveQueues
  /\ ActiveWindows(k)' = ActiveWindows(k) \ {w}
  /\ Beside(k)

WindowOn(k, w) ==
  /\ k \in DOMAIN queues /\ w \in Nat \ {0} /\ Grown /\ DOMAIN queues' = DOMAIN queues
  /\ ActiveQueues' = ActiveQueues
  /\ ActiveWindows(k)' = ActiveWindows(k) \cup {w}
  /\ Beside(k)

LEMMA DropDoes ==
  ASSUME PInv1, NEW r \in Requests, DropQueue(r)
  PROVE  \E k \in req[r].drop : k = Least(req[r].drop) /\ QueueOff(k)
<1>0. req[r] \in Request /\ Holds(req[r]) /\ Stands(req[r], organization, businesses, queues)
      /\ queues \in Seq(QueueRow)
  BY HeldFields
<1>1. /\ req[r].drop \in SUBSET Nat /\ req[r].drop # {} /\ req[r].drop \subseteq DOMAIN queues
      /\ queues' = [queues EXCEPT ![Least(req[r].drop)].active = FALSE]
  BY <1>0 DEF DropQueue, Holds, Request, Stands
<1>2. PICK k \in req[r].drop : k = Least(req[r].drop)
  BY <1>1, LeastIsLeast
<1>3. k \in DOMAIN queues /\ queues' = [queues EXCEPT ![k].active = FALSE]
  BY <1>1, <1>2
<1>4. QueueOff(k)
  BY <1>0, <1>3, SwitchQueue DEF QueueOff
<1>. QED
  BY <1>2, <1>4

LEMMA TrimDoes ==
  ASSUME PInv1, NEW r \in Requests, TrimWindow(r)
  PROVE  \E k \in DOMAIN queues, w \in req[r].drop :
           k = req[r].queue /\ w = Least(req[r].drop) /\ WindowOff(k, w)
<1>0. req[r] \in Request /\ Holds(req[r]) /\ Stands(req[r], organization, businesses, queues)
      /\ queues \in Seq(QueueRow)
  BY HeldFields
<1>1. /\ req[r].drop \in SUBSET Nat /\ req[r].drop # {} /\ req[r].queue \in DOMAIN queues
      /\ req[r].drop \subseteq DOMAIN queues[req[r].queue].windows
      /\ queues' = [queues EXCEPT ![req[r].queue].windows[Least(req[r].drop)] = FALSE]
  BY <1>0 DEF TrimWindow, Holds, Request, Stands
<1>2. PICK k \in DOMAIN queues : k = req[r].queue
  BY <1>1
<1>3. PICK w \in req[r].drop : w = Least(req[r].drop)
  BY <1>1, LeastIsLeast
<1>4. w \in DOMAIN queues[k].windows /\ queues' = [queues EXCEPT ![k].windows[w] = FALSE]
  BY <1>1, <1>2, <1>3
<1>5. WindowOff(k, w)
  BY <1>0, <1>4, SwitchWindow DEF WindowOff
<1>. QED
  BY <1>2, <1>3, <1>5

LEMMA NewDoes ==
  ASSUME PInv1, NEW r \in Requests, SaveNew(r)
  PROVE  \/ At(r, "createQueue", "save") /\ \E k \in Nat : k = Len(queues) + 1 /\ QueueNew(k, 0)
         \/ /\ At(r, "createQueue", "first") \/ At(r, "createWindow", "save")
            /\ \E k \in DOMAIN queues, w \in Nat :
                 k = req[r].queue /\ w \notin ActiveWindows(k) /\ WindowOn(k, w)
<1>0. Stands(req[r], organization, businesses, queues) /\ queues \in Seq(QueueRow) /\ Len(queues) \in Nat
  BY HeldFields, QueuesAreRows
<1>1. ASSUME At(r, "createQueue", "save"), queues' = Append(queues, Queue(TRUE, 0))
      PROVE  \E k \in Nat : k = Len(queues) + 1 /\ QueueNew(k, 0)
  <2>1. PICK k \in Nat : k = Len(queues) + 1
    BY <1>0
  <2>2. QueueNew(k, 0)
    BY <1>0, <1>1, <2>1, AddQueue DEF QueueNew
  <2>. QED
    BY <2>1, <2>2
<1>2. ASSUME At(r, "createQueue", "first") \/ At(r, "createWindow", "save"),
             queues' = [queues EXCEPT ![req[r].queue].windows = Append(@, TRUE)]
      PROVE  \E k \in DOMAIN queues, w \in Nat :
               k = req[r].queue /\ w \notin ActiveWindows(k) /\ WindowOn(k, w)
  <2>1. PICK k \in DOMAIN queues : k = req[r].queue
    BY <1>0, <1>2 DEF Stands, At, WindowOps
  <2>2. queues' = [queues EXCEPT ![k].windows = Append(@, TRUE)]
    BY <1>2, <2>1
  <2>3. PICK w \in Nat \ {0} : w \notin ActiveWindows(k) /\ ActiveWindows(k)' = ActiveWindows(k) \cup {w}
    BY <1>0, <2>2, AddWindow
  <2>4. WindowOn(k, w)
    BY <1>0, <2>2, <2>3, AddWindow DEF WindowOn
  <2>. QED
    BY <2>1, <2>3, <2>4
<1>. QED
  BY <1>1, <1>2 DEF SaveNew

LEMMA ToggleDoes ==
  ASSUME PInv1, NEW r \in Requests, SaveToggle(r)
  PROVE  \/ /\ At(r, "toggleQueue", "save")
            /\ \E k \in DOMAIN queues : k = req[r].queue /\ IF req[r].active THEN QueueOn(k) ELSE QueueOff(k)
         \/ /\ At(r, "toggleWindow", "save")
            /\ \E k \in DOMAIN queues, w \in Nat :
                 /\ k = req[r].queue /\ w = req[r].window
                 /\ IF req[r].active THEN WindowOn(k, w) ELSE WindowOff(k, w)
<1>0. /\ Stands(req[r], organization, businesses, queues) /\ queues \in Seq(QueueRow)
      /\ req[r].active \in BOOLEAN
      /\ \A k \in DOMAIN queues : DOMAIN queues[k].windows \subseteq Nat \ {0}
  BY HeldFields, QueuesAreRows DEF Request
<1>1. ASSUME At(r, "toggleQueue", "save"), queues' = [queues EXCEPT ![req[r].queue].active = req[r].active]
      PROVE  \E k \in DOMAIN queues : k = req[r].queue /\ IF req[r].active THEN QueueOn(k) ELSE QueueOff(k)
  <2>1. PICK k \in DOMAIN queues : k = req[r].queue
    BY <1>0, <1>1 DEF Stands, At
  <2>2. PICK b \in BOOLEAN : b = req[r].active
    BY <1>0
  <2>3. queues' = [queues EXCEPT ![k].active = b]
    BY <1>1, <2>1, <2>2
  <2>4. IF b THEN QueueOn(k) ELSE QueueOff(k)
    BY <1>0, <2>3, SwitchQueue DEF QueueOn, QueueOff
  <2>. QED
    BY <2>1, <2>2, <2>4
<1>2. ASSUME At(r, "toggleWindow", "save"),
             queues' = [queues EXCEPT ![req[r].queue].windows[req[r].window] = req[r].active]
      PROVE  \E k \in DOMAIN queues, w \in Nat :
               /\ k = req[r].queue /\ w = req[r].window
               /\ IF req[r].active THEN WindowOn(k, w) ELSE WindowOff(k, w)
  <2>1. PICK k \in DOMAIN queues : k = req[r].queue
    BY <1>0, <1>2 DEF Stands, At, WindowOps
  <2>2. PICK w \in DOMAIN queues[k].windows : w = req[r].window
    BY <1>0, <1>2, <2>1 DEF Stands, At, WindowOps
  <2>3. PICK b \in BOOLEAN : b = req[r].active
    BY <1>0
  <2>4. queues' = [queues EXCEPT ![k].windows[w] = b]
    BY <1>2, <2>1, <2>2, <2>3
  <2>5. w \in Nat \ {0}
    BY <1>0
  <2>6. IF b THEN WindowOn(k, w) ELSE WindowOff(k, w)
    BY <1>0, <2>4, <2>5, SwitchWindow DEF WindowOn, WindowOff
  <2>. QED
    BY <2>1, <2>2, <2>3, <2>5, <2>6
<1>. QED
  BY <1>1, <1>2 DEF SaveToggle

LEMMA ApprovalDoes ==
  ASSUME PInv1, NEW r \in Requests, CommitApproval(r)
  PROVE  \/ queues' = queues
         \/ /\ req[r].on = Seed /\ req[r].seen.queues = {}
            /\ \E k \in Nat : k = Len(queues) + 1 /\ QueueNew(k, 1)
<1>0. queues \in Seq(QueueRow) /\ Len(queues) \in Nat
  BY HeldFields, QueuesAreRows
<1>1. PICK k \in Nat : k = Len(queues) + 1
  BY <1>0
<1>2. queues' = Append(queues, Queue(TRUE, 1)) => QueueNew(k, 1)
  BY <1>0, <1>1, AddQueue DEF QueueNew
<1>. QED
  BY <1>1, <1>2 DEF CommitApproval

\* Nothing that was is gone, and the organization stays the same.
Later ==
  /\ organization # None => organization' # None /\ organization'.id = organization.id
  /\ \A b \in Ids : businesses[b] # None => businesses'[b] # None
  /\ Grown

\* A business is written, for the organization there is.
OneBusiness ==
  /\ organization' = organization /\ organization # None
  /\ \E b \in Ids, row \in BusinessRow :
       /\ businesses' = [businesses EXCEPT ![b] = row] /\ row.organization = organization.id

LEMMA BusinessWritten ==
  ASSUME PInv1, NEW r \in Requests,
         SaveBusiness(r) \/ CommitApproval(r) \/ SaveRejection(r)
  PROVE  OneBusiness
<1>0. /\ Stands(req[r], organization, businesses, queues) /\ Holds(req[r]) /\ r \in Ids
      /\ organization \in OrganizationRow \cup {None}
      /\ businesses \in [Ids -> BusinessRow \cup {None}]
      /\ \A b \in Ids : businesses[b] # None =>
           organization # None /\ businesses[b].organization = organization.id
  BY HeldFields DEF PInv1, World
<1>1. \A row \in BusinessRow, st \in {"pending", "approved", "rejected"} :
        /\ [row EXCEPT !.status = st] \in BusinessRow
        /\ [row EXCEPT !.status = st].organization = row.organization
  BY DEF BusinessRow
<1>2. ASSUME SaveBusiness(r)
      PROVE  OneBusiness
  <2>. DEFINE row == [status |-> "pending", organization |-> req[r].on]
  <2>1. organization # None /\ req[r].on = organization.id
    BY <1>0, <1>2 DEF SaveBusiness, At, Stands
  <2>2. row \in BusinessRow /\ row.organization = organization.id
    BY <1>0, <2>1 DEF BusinessRow, OrganizationRow
  <2>3. businesses' = [businesses EXCEPT ![r] = row] /\ organization' = organization
    BY <1>2 DEF SaveBusiness, account
  <2>. HIDE DEF row
  <2>. QED
    BY <1>0, <2>1, <2>2, <2>3 DEF OneBusiness
<1>3. ASSUME NEW b \in Ids, NEW st \in {"pending", "approved", "rejected"},
             businesses[b] # None, organization' = organization,
             businesses' = [businesses EXCEPT ![b].status = st]
      PROVE  OneBusiness
  <2>. DEFINE row == [businesses[b] EXCEPT !.status = st]
  <2>1. businesses[b] \in BusinessRow
    BY <1>0, <1>3
  <2>2. row \in BusinessRow /\ row.organization = organization.id /\ organization # None
    BY <1>0, <1>1, <1>3, <2>1
  <2>3. businesses' = [businesses EXCEPT ![b] = row]
    BY <1>3
  <2>. HIDE DEF row
  <2>. QED
    BY <1>3, <2>2, <2>3 DEF OneBusiness
<1>4. ASSUME CommitApproval(r)
      PROVE  OneBusiness
  <2>1. req[r].on \in Ids /\ businesses[req[r].on] # None
    BY <1>0, <1>4 DEF CommitApproval, At, Stands
  <2>2. organization' = organization /\ businesses' = [businesses EXCEPT ![req[r].on].status = "approved"]
    BY <1>4 DEF CommitApproval
  <2>. QED
    BY <1>3, <2>1, <2>2
<1>5. ASSUME SaveRejection(r)
      PROVE  OneBusiness
  <2>1. req[r].on \in Ids /\ businesses[req[r].on] # None
    BY <1>0, <1>5 DEF SaveRejection, At, Stands
  <2>2. organization' = organization /\ businesses' = [businesses EXCEPT ![req[r].on].status = "rejected"]
    BY <1>5 DEF SaveRejection, account
  <2>. QED
    BY <1>3, <2>1, <2>2
<1>. QED
  BY <1>2, <1>4, <1>5

LEMMA NotesTyped ==
  ASSUME PInv1, NEW r \in Requests, Notes(req[r])
  PROVE  overlapped \subseteq overlapped' /\ overlapped' \subseteq Limited \cup {"subscription"}
BY HeldFields, SeensHold DEF Notes, PInv1, Typed, Request

\* The rows a step writes have the shape of their table.
LEMMA RowsTyped ==
  ASSUME PInv1, NEW r \in Requests, Step(r)
  PROVE  /\ organization' \in OrganizationRow \cup {None} /\ subscription' \in SubscriptionRow \cup {None}
         /\ trialOver' \in BOOLEAN /\ readmitted' \in BOOLEAN
         /\ overlapped \subseteq overlapped' /\ overlapped' \subseteq Limited \cup {"subscription"}
         /\ (organization # None => organization' # None /\ organization'.id = organization.id)
         /\ (organization' = None <=> subscription' = None)
<1>. DEFINE G == /\ organization' \in OrganizationRow \cup {None} /\ subscription' \in SubscriptionRow \cup {None}
                 /\ trialOver' \in BOOLEAN /\ readmitted' \in BOOLEAN
                 /\ overlapped \subseteq overlapped' /\ overlapped' \subseteq Limited \cup {"subscription"}
                 /\ (organization # None => organization' # None /\ organization'.id = organization.id)
                 /\ (organization' = None <=> subscription' = None)
<1>0. /\ req[r] \in Request /\ Holds(req[r]) /\ Stands(req[r], organization, businesses, queues)
      /\ organization \in OrganizationRow \cup {None} /\ subscription \in SubscriptionRow \cup {None}
      /\ trialOver \in BOOLEAN /\ readmitted \in BOOLEAN
      /\ overlapped \subseteq Limited \cup {"subscription"} /\ r \in Ids
      /\ (organization = None <=> subscription = None)
      /\ None \notin OrganizationRow /\ None \notin SubscriptionRow
  BY HeldFields DEF PInv1, Typed
<1>1. Notes(req[r]) => overlapped \subseteq overlapped' /\ overlapped' \subseteq Limited \cup {"subscription"}
  BY NotesTyped
<1>2. \A st \in {"trial", "expired"}, row \in SubscriptionRow : [row EXCEPT !.status = st] \in SubscriptionRow
  BY DEF SubscriptionRow, Ended
<1>3. Quiet => G
  BY <1>0 DEF Quiet
<1>4. ASSUME SaveLapse(r)
      PROVE  G
  <2>1. req[r].row \in SubscriptionRow /\ organization # None
    BY <1>0, <1>4 DEF SaveLapse, Holds, Stands
  <2>2. /\ subscription' = [req[r].row EXCEPT !.status = "expired"] /\ Notes(req[r])
        /\ organization' = organization /\ trialOver' = trialOver /\ readmitted' = readmitted
    BY <1>4 DEF SaveLapse
  <2>. QED
    BY <1>0, <1>1, <1>2, <2>1, <2>2
<1>5. ASSUME SaveSubscription(r)
      PROVE  G
  <2>1. req[r].write \in SubscriptionRow /\ organization # None
    BY <1>0, <1>5 DEF SaveSubscription, Holds, Stands, Decided, Edits
  <2>2. /\ subscription' = req[r].write /\ Notes(req[r])
        /\ organization' = organization /\ trialOver' = trialOver /\ readmitted' = readmitted
    BY <1>5 DEF SaveSubscription
  <2>. QED
    BY <1>0, <1>1, <2>1, <2>2
<1>6. ASSUME SavesQueues(r) \/ SaveBusiness(r)
      PROVE  G
  <2>1. /\ organization' = organization /\ subscription' = subscription /\ trialOver' = trialOver
        /\ readmitted' = readmitted /\ Notes(req[r])
    BY <1>6 DEF SavesQueues, DropQueue, TrimWindow, SaveNew, SaveToggle, SaveBusiness, account
  <2>. QED
    BY <1>0, <1>1, <2>1
<1>7. ASSUME CommitApproval(r)
      PROVE  G
  <2>1. req[r].row \in SubscriptionRow /\ organization # None
    BY <1>0, <1>7 DEF CommitApproval, At, Holds, Stands, Decided, Grows
  <2>2. /\ subscription' \in {subscription, [req[r].row EXCEPT !.status = "trial"]} /\ Notes(req[r])
        /\ organization' = organization
    BY <1>7 DEF CommitApproval
  <2>3. trialOver' \in BOOLEAN /\ readmitted' \in BOOLEAN
    BY <1>0, <1>7 DEF CommitApproval
  <2>. QED
    BY <1>0, <1>1, <1>2, <2>1, <2>2, <2>3
<1>8. ASSUME CreateOrganization(r)
      PROVE  G
  <2>1. trialOver' = trialOver /\ readmitted' = readmitted /\ overlapped' = overlapped
    BY <1>8 DEF CreateOrganization, history
  <2>2. CASE AdminFits
    <3>1. organization = None /\ organization' = [id |-> r, status |-> "pending", name |-> r]
          /\ subscription' = [status |-> "pending", plan |-> "basic"]
      BY <1>8, <2>2 DEF CreateOrganization, AdminFits, NewSubscription
    <3>2. organization' \in OrganizationRow /\ subscription' \in SubscriptionRow
      BY <1>0, <3>1 DEF OrganizationRow, SubscriptionRow, PlanNames
    <3>. QED
      BY <1>0, <2>1, <3>1, <3>2
  <2>3. CASE ~AdminFits
    BY <1>0, <1>8, <2>1, <2>3 DEF CreateOrganization
  <2>. QED
    BY <2>2, <2>3
<1>9. ASSUME SaveOrganization(r)
      PROVE  G
  <2>1. /\ req[r].write \in OrganizationRow /\ organization # None /\ req[r].write.id = organization.id
    BY <1>0, <1>9 DEF SaveOrganization, Holds, Stands, Decided, OrganizationOps
  <2>2. /\ organization' = req[r].write /\ subscription' = subscription /\ trialOver' = trialOver
        /\ readmitted' = readmitted /\ overlapped' = overlapped
    BY <1>9 DEF SaveOrganization, history
  <2>. QED
    BY <1>0, <2>1, <2>2
<1>10. ASSUME SaveRejection(r)
       PROVE  G
  BY <1>0, <1>10 DEF SaveRejection, account, history
<1>. QED
  BY <1>3, <1>4, <1>5, <1>6, <1>7, <1>8, <1>9, <1>10, QuietOrWrites DEF Writes

LEMMA StaysGrown ==
  ASSUME PInv1, queues' = queues
  PROVE  Grown
BY QueuesAreRows DEF Grown, PInv1, Typed

LEMMA StepGrown ==
  ASSUME PInv1, NEW r \in Requests, Step(r)
  PROVE  /\ Grown
         /\ queues' = queues \/ SavesQueues(r) \/ CommitApproval(r)
<1>1. Quiet \/ SaveLapse(r) \/ SaveSubscription(r) \/ CreateOrganization(r) \/ SaveOrganization(r)
      \/ SaveBusiness(r) \/ SaveRejection(r) => queues' = queues
  BY DEF Quiet, SaveLapse, SaveSubscription, CreateOrganization, SaveOrganization, SaveBusiness,
         SaveRejection
<1>2. queues' = queues \/ SavesQueues(r) \/ CommitApproval(r)
  BY <1>1, QuietOrWrites DEF Writes
<1>3. DropQueue(r) => Grown
  BY DropDoes DEF QueueOff
<1>4. TrimWindow(r) => Grown
  BY TrimDoes DEF WindowOff
<1>5. SaveNew(r) => Grown
  BY NewDoes DEF QueueNew, WindowOn
<1>6. SaveToggle(r) => Grown
  BY ToggleDoes DEF QueueOn, QueueOff, WindowOn, WindowOff
<1>7. CommitApproval(r) => Grown
  BY ApprovalDoes, StaysGrown DEF QueueNew
<1>. QED
  BY <1>2, <1>3, <1>4, <1>5, <1>6, <1>7, StaysGrown DEF SavesQueues

LEMMA StepBusinesses ==
  ASSUME PInv1, NEW r \in Requests, Step(r)
  PROVE  businesses' = businesses \/ OneBusiness
<1>1. Quiet \/ SaveLapse(r) \/ SaveSubscription(r) \/ SavesQueues(r) \/ CreateOrganization(r)
      \/ SaveOrganization(r) => businesses' = businesses
  BY DEF Quiet, SaveLapse, SaveSubscription, SavesQueues, DropQueue, TrimWindow, SaveNew, SaveToggle,
         CreateOrganization, SaveOrganization
<1>. QED
  BY <1>1, QuietOrWrites, BusinessWritten DEF Writes

LEMMA StepTables ==
  ASSUME PInv1, NEW r \in Requests, Step(r)
  PROVE  World' /\ Later /\ businesses' \in [Ids -> BusinessRow \cup {None}]
<1>0. /\ businesses \in [Ids -> BusinessRow \cup {None}] /\ None \notin BusinessRow
      /\ \A b \in Ids : businesses[b] # None =>
           organization # None /\ businesses[b].organization = organization.id
      /\ IsFiniteSet(Usage.businesses)
      /\ (DOMAIN queues # {} => organization # None)
  BY HeldFields DEF PInv1, World
<1>1. /\ (organization # None => organization' # None /\ organization'.id = organization.id)
      /\ (organization' = None <=> subscription' = None)
  BY RowsTyped
<1>2. Grown
  BY StepGrown
<1>3. DOMAIN queues' # {} => organization' # None
  <2>1. SavesQueues(r) \/ CommitApproval(r) => organization # None
    BY HeldFields DEF SavesQueues, DropQueue, TrimWindow, SaveNew, SaveToggle, CommitApproval, At, Stands
  <2>. QED
    BY <1>0, <1>1, <2>1, StepGrown
<1>4. CASE businesses' = businesses
  <2>1. Usage'.businesses = Usage.businesses
    BY <1>4 DEF Usage
  <2>. QED
    BY <1>0, <1>1, <1>2, <1>3, <1>4, <2>1 DEF World, Later
<1>5. CASE OneBusiness
  <2>1. PICK b \in Ids, row \in BusinessRow :
          businesses' = [businesses EXCEPT ![b] = row] /\ row.organization = organization.id
    BY <1>5 DEF OneBusiness
  <2>2. organization' = organization /\ organization # None
    BY <1>5 DEF OneBusiness
  <2>3. businesses' \in [Ids -> BusinessRow \cup {None}] /\ businesses'[b] = row
        /\ \A c \in Ids \ {b} : businesses'[c] = businesses[c]
    BY <1>0, <2>1
  <2>4. Usage'.businesses \in SUBSET (Usage.businesses \cup {b})
    BY <2>3 DEF Usage
  <2>5. IsFiniteSet(Usage'.businesses)
    BY <1>0, <2>4, FS_AddElement, FS_Subset
  <2>6. row # None
    BY <1>0
  <2>. QED
    BY <1>0, <1>1, <1>2, <1>3, <2>1, <2>2, <2>3, <2>5, <2>6 DEF World, Later
<1>. QED
  BY <1>4, <1>5, StepBusinesses

LEMMA OthersStand ==
  ASSUME Grown, Later, queues \in Seq(QueueRow), NEW q, Stands(q, organization, businesses, queues)
  PROVE  Stands(q, organization', businesses', queues')
<1>1. /\ Len(queues) \in Nat /\ Len(queues') \in Nat /\ Len(queues) <= Len(queues')
      /\ DOMAIN queues \subseteq DOMAIN queues'
      /\ \A k \in DOMAIN queues : DOMAIN queues[k].windows \subseteq DOMAIN queues'[k].windows
  BY LenProperties DEF Grown
<1>2. q.queue \in 0..Len(queues') /\ q.keep \subseteq DOMAIN queues'
  <2>1. q.queue \in 0..Len(queues) /\ q.keep \subseteq DOMAIN queues
    BY DEF Stands
  <2>. QED
    BY <1>1, <2>1
<1>3. /\ (q.pc \in {"count", "plan", "lapse", "save"} /\ q.op \in {"toggleQueue"} \cup WindowOps =>
           q.queue \in DOMAIN queues')
      /\ (q.pc \in {"count", "plan", "lapse", "save"} /\ q.op = "toggleWindow" =>
           q.window \in DOMAIN queues'[q.queue].windows)
      /\ (q.pc \in {"trim", "first"} => q.queue \in DOMAIN queues')
      /\ (q.pc = "drop" => q.drop \subseteq DOMAIN queues')
      /\ (q.pc = "trim" => q.drop \subseteq DOMAIN queues'[q.queue].windows)
      /\ (q.pc = "sizes" => DOMAIN q.seen.windows \subseteq DOMAIN queues')
  BY <1>1 DEF Stands, WindowOps
<1>4. /\ (q.pc \notin {"unused", "found", "done", "failed"} =>
           organization # None /\ organization' # None /\ organization'.id = organization.id)
      /\ (q.pc \in {"plan", "lapse", "look", "save"} /\ q.op \in {"approve", "reject"} =>
           q.on \in Ids /\ businesses'[q.on] # None)
  BY DEF Stands, Later
<1>5. /\ (q.pc \in {"count", "plan", "lapse", "save"} /\ q.op = "register" => q.on = organization'.id)
      /\ (q.pc = "save" /\ q.op \in OrganizationOps => q.write.id = organization'.id)
  BY <1>4 DEF Stands
<1>. QED
  BY <1>2, <1>3, <1>4, <1>5 DEF Stands

LEMMA NextPInv1 ==
  ASSUME PInv1, [Next]_vars
  PROVE  PInv1'
<1>0. /\ req \in [Requests -> Request] /\ queues \in Seq(QueueRow)
      /\ \A r \in Requests : Holds(req[r]) /\ Stands(req[r], organization, businesses, queues)
  BY DEF PInv1, Typed
<1>1. ASSUME NEW r \in Requests, Step(r)
      PROVE  PInv1'
  <2>1. Typed' \/ req' \notin [Requests -> Request]
    BY <1>1, RowsTyped, StepTables DEF Typed, Later, Grown
  <2>2. PICK q : /\ Become(r, q)
                 /\ Fine(q, organization, businesses, queues) \/ Fine(q, organization', businesses', queues')
    BY <1>1, StepMoves DEF Moves
  <2>3. Grown /\ Later /\ World'
    BY <1>1, StepTables DEF Later
  <2>4. Fine(q, organization', businesses', queues')
    BY <1>0, <2>2, <2>3, OthersStand DEF Fine
  <2>5. /\ req' \in [Requests -> Request] /\ req'[r] = q
        /\ \A s \in Requests \ {r} : req'[s] = req[s]
    BY <1>0, <2>2, <2>4 DEF Become, Fine
  <2>6. \A s \in Requests : Holds(req'[s]) /\ Stands(req'[s], organization', businesses', queues')
    BY <1>0, <2>3, <2>4, <2>5, OthersStand DEF Fine
  <2>. QED
    BY <2>1, <2>3, <2>5, <2>6 DEF PInv1
<1>2. ASSUME TrialEnds
      PROVE  PInv1'
  <2>1. /\ trialOver' = TRUE
        /\ UNCHANGED <<organization, subscription, businesses, queues, req, overlapped, readmitted>>
    BY <1>2 DEF TrialEnds, history
  <2>2. Typed' /\ World'
    BY <2>1 DEF PInv1, Typed, World, Usage
  <2>. QED
    BY <1>0, <2>1, <2>2 DEF PInv1
<1>3. ASSUME UNCHANGED vars
      PROVE  PInv1'
  <2>1. UNCHANGED <<organization, subscription, trialOver, businesses, queues, req, overlapped, readmitted>>
    BY <1>3 DEF vars
  <2>2. Typed' /\ World'
    BY <2>1 DEF PInv1, Typed, World, Usage
  <2>. QED
    BY <1>0, <2>1, <2>2 DEF PInv1
<1>. QED
  BY <1>1, <1>2, <1>3 DEF Next, Step

LEMMA FirstQueues ==
  ASSUME Init
  PROVE  /\ queues \in Seq(QueueRow)
         /\ businesses[Seed] # None /\ businesses[Seed].status = "approved" => ActiveQueues # {}
<1>1. \A a \in BOOLEAN, n \in Nat : Queue(a, n) \in QueueRow /\ Queue(a, n).active = a
  <2>. SUFFICES ASSUME NEW a \in BOOLEAN, NEW n \in Nat
                PROVE  Queue(a, n) \in QueueRow /\ Queue(a, n).active = a
    OBVIOUS
  <2>1. [w \in 1..n |-> TRUE] \in [1..n -> BOOLEAN]
    OBVIOUS
  <2>2. [w \in 1..n |-> TRUE] \in Seq(BOOLEAN)
    BY <2>1, SeqDef
  <2>. QED
    BY <2>2 DEF QueueRow, Queue
<1>2. /\ \A x \in QueueRow : <<x>> \in Seq(QueueRow) /\ DOMAIN <<x>> = {1}
      /\ \A x, y \in QueueRow : <<x, y>> \in Seq(QueueRow) /\ DOMAIN <<x, y>> = {1, 2}
      /\ <<>> \in Seq(QueueRow)
  OBVIOUS
<1>3. \A st \in {"pending", "rejected"} : SeedBusiness(st)[Seed].status # "approved"
  BY DEF SeedBusiness, Ids
<1>4. \/ queues = <<>> /\ (businesses[Seed] = None \/ businesses[Seed].status # "approved")
      \/ \E n \in Nat : queues = <<Queue(TRUE, n)>>
      \/ \E b \in BOOLEAN, n, m \in Nat : queues = <<Queue(TRUE, n), Queue(b, m)>>
  BY <1>3 DEF Init, Ids
<1>5. ASSUME NEW n \in Nat, queues = <<Queue(TRUE, n)>>
      PROVE  queues \in Seq(QueueRow) /\ 1 \in ActiveQueues
  BY <1>1, <1>2, <1>5 DEF ActiveQueues
<1>6. ASSUME NEW b \in BOOLEAN, NEW n \in Nat, NEW m \in Nat, queues = <<Queue(TRUE, n), Queue(b, m)>>
      PROVE  queues \in Seq(QueueRow) /\ 1 \in ActiveQueues
  BY <1>1, <1>2, <1>6 DEF ActiveQueues
<1>. QED
  BY <1>2, <1>4, <1>5, <1>6

LEMMA InitPInv1 ==
  ASSUME Init
  PROVE  PInv1
<1>1. Seed \in Ids /\ Unused \in Request /\ req = [r \in Requests |-> Unused]
  BY UnusedFields DEF Init, Ids
<1>2. /\ \/ organization = None /\ subscription = None /\ businesses = [b \in Ids |-> None] /\ queues = <<>>
         \/ /\ organization \in OrganizationRow /\ organization.id = Seed
            /\ subscription \in SubscriptionRow
            /\ \E st \in {"pending", "rejected", "approved"} : businesses = SeedBusiness(st)
      /\ trialOver = FALSE /\ overlapped = {} /\ readmitted = FALSE
  <2>1. [id : {Seed}, status : {"pending", "approved"}, name : {Seed}] \subseteq OrganizationRow
        /\ [id |-> Seed, status |-> "approved", name |-> Seed] \in OrganizationRow
    BY <1>1 DEF OrganizationRow
  <2>2. /\ [status : {"trial", "active"}, plan : {"pro"}] \subseteq SubscriptionRow
        /\ [status |-> "pending", plan |-> "basic"] \in SubscriptionRow
        /\ [status |-> "trial", plan |-> "basic"] \in SubscriptionRow
        /\ [status |-> "active", plan |-> "premium"] \in SubscriptionRow
    BY DEF SubscriptionRow, PlanNames
  <2>3. \A o \in [id : {Seed}, status : {"pending", "approved"}, name : {Seed}] : o.id = Seed
    OBVIOUS
  <2>. DEFINE Approved == /\ organization = [id |-> Seed, status |-> "approved", name |-> Seed]
                          /\ businesses = SeedBusiness("approved")
                          /\ subscription \in SubscriptionRow
  <2>4. \/ organization = None /\ subscription = None /\ businesses = [b \in Ids |-> None] /\ queues = <<>>
        \/ /\ organization \in [id : {Seed}, status : {"pending", "approved"}, name : {Seed}]
           /\ subscription = [status |-> "pending", plan |-> "basic"]
           /\ \E st \in {"pending", "rejected"} : businesses = SeedBusiness(st)
        \/ Approved
    BY <2>2 DEF Init
  <2>5. trialOver = FALSE /\ overlapped = {} /\ readmitted = FALSE
    BY DEF Init
  <2>6. Approved => /\ organization \in OrganizationRow /\ organization.id = Seed
                    /\ subscription \in SubscriptionRow
                    /\ \E st \in {"pending", "rejected", "approved"} : businesses = SeedBusiness(st)
    BY <2>1
  <2>. HIDE DEF Approved
  <2>. QED
    BY <2>1, <2>2, <2>3, <2>4, <2>5, <2>6
<1>3. \A st \in {"pending", "rejected", "approved"} :
        /\ SeedBusiness(st) \in [Ids -> BusinessRow \cup {None}]
        /\ \A b \in Ids : SeedBusiness(st)[b] # None => b = Seed /\ SeedBusiness(st)[b].organization = Seed
  BY <1>1 DEF SeedBusiness, BusinessRow
<1>4. /\ businesses \in [Ids -> BusinessRow \cup {None}]
      /\ \A b \in Ids : businesses[b] # None =>
           organization # None /\ b = Seed /\ businesses[b].organization = organization.id
  BY <1>2, <1>3, NoneIsNoRow
<1>5. queues \in Seq(QueueRow)
  BY FirstQueues
<1>6. DOMAIN queues # {} => organization # None
  BY <1>2, NoneIsNoRow, NoneSeen
<1>7. IsFiniteSet(Usage.businesses)
  <2>1. Usage.businesses \in SUBSET {Seed}
    BY <1>4 DEF Usage
  <2>. QED
    BY <2>1, FS_Singleton, FS_Subset
<1>8. Typed /\ World
  BY <1>1, <1>2, <1>4, <1>5, <1>6, <1>7, NoneIsNoRow DEF Typed, World
<1>9. \A r \in Requests : Fine(req[r], organization, businesses, queues)
  BY <1>1, <1>5, UnusedFields, RestFine, LenProperties
<1>. QED
  BY <1>8, <1>9 DEF PInv1, Fine

LEMMA PInv1Tells ==
  ASSUME PInv1
  PROVE  TypeOK /\ OneOrganization
<1>1. \A r \in Requests : /\ req[r] \in Request /\ DOMAIN req[r].seen \subseteq Limited
                          /\ Stands(req[r], organization, businesses, queues)
  BY HeldFields, SeensHold DEF Request
<1>2. \A q \in Request : DOMAIN q = DOMAIN Unused
  BY DEF Request, Unused
<1>3. ASSUME NEW r \in Requests
      PROVE  LET q == req[r] IN
             /\ DOMAIN q = DOMAIN Unused
             /\ q.op \in Ops \cup {None} /\ q.pc \in Pcs /\ q.on \in Ids \cup {None}
             /\ q.row \in OrganizationRow \cup SubscriptionRow \cup {None}
             /\ q.write \in OrganizationRow \cup SubscriptionRow \cup {None}
             /\ q.queue \in 0..Len(queues) /\ q.active \in BOOLEAN
             /\ DOMAIN q.seen \subseteq Limited
             /\ q.keep \subseteq DOMAIN queues /\ q.drop \subseteq Nat
  BY <1>1, <1>2 DEF Request, Stands
<1>4. TypeOK
  BY <1>3 DEF TypeOK, PInv1, Typed, QueueRow
<1>5. OneOrganization
  BY DEF OneOrganization, PInv1, World
<1>. QED
  BY <1>4, <1>5

-----------------------------------------------------------------------------
(* One queue stays active.                                                 *)

\* What a save notes: unless the tables it read were written meanwhile, what
\* the request decided by still stands.
LEMMA NotesTell ==
  ASSUME NEW q, Notes(q)
  PROVE  /\ overlapped \subseteq overlapped'
         /\ \A t \in DOMAIN q.seen : t \notin overlapped' => q.seen[t] = Usage[t]
         /\ "subscription" \notin overlapped' => q.row \in {None, subscription}
BY DEF Notes

LEMMA UsageIs ==
  /\ Usage["queues"] = ActiveQueues /\ Usage["windows"] = Usage.windows
  /\ Usage["businesses"] = Usage.businesses
  /\ DOMAIN Usage.windows = DOMAIN queues
  /\ \A k \in DOMAIN queues : Usage.windows[k] = ActiveWindows(k)
BY DEF Usage

\* What the steps outside of an enforcement leave a request at.
Elsewhere(r) ==
  /\ req'[r].pc \notin {"drop", "windows", "trim"}
  /\ req'[r].op = "cancel" => \/ req'[r].pc \in {"save", "failed"}
                              \/ req'[r].pc = "list" /\ BeginCancelAgain(r)
                              \/ req'[r].pc = "list" /\ At(r, "cancel", "save") /\ SaveSubscription(r)
  /\ req'[r].op = "activate" /\ req'[r].pc = "done" => At(r, "activate", "save") /\ SaveSubscription(r)

LEMMA ElsewhereGoes ==
  ASSUME PInv1, NEW r \in Requests, Step(r)
  PROVE  Enforce(r) \/ Elsewhere(r)
<1>0. req \in [Requests -> Request] /\ req[r] \in Request /\ Holds(req[r])
  BY HeldFields DEF PInv1, Typed
<1>1. \A q : Become(r, q) => req'[r] = q
  BY <1>0 DEF Become
<1>2. \A op, pc, p : Start(r, op, pc, p) /\ DOMAIN p = DOMAIN Unused =>
        req'[r].op = op /\ req'[r].pc = pc
  <2>. SUFFICES ASSUME NEW op, NEW pc, NEW p, Start(r, op, pc, p), DOMAIN p = DOMAIN Unused
                PROVE  req'[r].op = op /\ req'[r].pc = pc
    OBVIOUS
  <2>1. req'[r] = [p EXCEPT !.op = op, !.pc = pc]
    BY <1>1 DEF Start
  <2>2. {"op", "pc"} \subseteq DOMAIN p
    BY DEF Unused
  <2>. QED
    BY <2>1, <2>2
<1>3. \A pc : End(r, pc) => req'[r].op = req[r].op /\ req'[r].pc = pc
  <2>. SUFFICES ASSUME NEW pc, End(r, pc)
                PROVE  req'[r].op = req[r].op /\ req'[r].pc = pc
    OBVIOUS
  <2>1. req'[r] = [Unused EXCEPT !.op = req[r].op, !.pc = pc]
    BY <1>1 DEF End
  <2>. QED
    BY <2>1 DEF Unused
<1>. DEFINE Goes(op, pc) == req'[r].op = op /\ req'[r].pc = pc
<1>4. ASSUME BeginReadPlan(r)
      PROVE  Goes("readPlan", "lapse")
  <2>. DEFINE p == [Unused EXCEPT !.row = subscription]
  <2>1. DOMAIN p = DOMAIN Unused /\ Start(r, "readPlan", "lapse", p)
    BY <1>4 DEF BeginReadPlan
  <2>. HIDE DEF p
  <2>. QED
    BY <1>2, <2>1
<1>5. ASSUME BeginActivate(r)
      PROVE  Goes("activate", "save")
  <2>. DEFINE p == [Unused EXCEPT !.row = subscription,
                                     !.write = [subscription EXCEPT !.status = "active"]]
  <2>1. DOMAIN p = DOMAIN Unused /\ Start(r, "activate", "save", p)
    BY <1>5 DEF BeginActivate, Edit
  <2>. HIDE DEF p
  <2>. QED
    BY <1>2, <2>1
<1>6. ASSUME BeginCancel(r)
      PROVE  Goes("cancel", "save")
  <2>. DEFINE p == [Unused EXCEPT !.row = subscription,
                                     !.write = [subscription EXCEPT !.status = "cancelled"]]
  <2>1. DOMAIN p = DOMAIN Unused /\ Start(r, "cancel", "save", p)
    BY <1>6 DEF BeginCancel, Edit
  <2>. HIDE DEF p
  <2>. QED
    BY <1>2, <2>1
<1>7. ASSUME BeginCancelAgain(r)
      PROVE  Goes("cancel", "list")
  BY <1>2, <1>7 DEF BeginCancelAgain
<1>8. ASSUME NEW plan, BeginChangePlan(r, plan)
      PROVE  Goes("changePlan", "queues")
  <2>. DEFINE p == [Unused EXCEPT !.seen = See({"businesses"}),
                                     !.write = [subscription EXCEPT !.plan = plan]]
  <2>1. DOMAIN p = DOMAIN Unused /\ Start(r, "changePlan", "queues", p)
    BY <1>8 DEF BeginChangePlan
  <2>. HIDE DEF p
  <2>. QED
    BY <1>2, <2>1
<1>9. ASSUME BeginCreateQueue(r)
      PROVE  Goes("createQueue", "plan")
  <2>. DEFINE p == [Unused EXCEPT !.seen = See({"queues"})]
  <2>1. DOMAIN p = DOMAIN Unused /\ Start(r, "createQueue", "plan", p)
    BY <1>9 DEF BeginCreateQueue
  <2>. HIDE DEF p
  <2>. QED
    BY <1>2, <2>1
<1>10. ASSUME NEW k, BeginToggleQueue(r, k)
      PROVE  Goes("toggleQueue", "count")
  <2>. DEFINE p == [Unused EXCEPT !.queue = k, !.active = ~queues[k].active]
  <2>1. DOMAIN p = DOMAIN Unused /\ Start(r, "toggleQueue", "count", p)
    BY <1>10 DEF BeginToggleQueue
  <2>. HIDE DEF p
  <2>. QED
    BY <1>2, <2>1
<1>11. ASSUME NEW k, BeginCreateWindow(r, k)
      PROVE  Goes("createWindow", "plan")
  <2>. DEFINE p == [Unused EXCEPT !.queue = k, !.seen = See({"windows"})]
  <2>1. DOMAIN p = DOMAIN Unused /\ Start(r, "createWindow", "plan", p)
    BY <1>11 DEF BeginCreateWindow
  <2>. HIDE DEF p
  <2>. QED
    BY <1>2, <2>1
<1>12. ASSUME NEW k, NEW w, BeginToggleWindow(r, k, w)
      PROVE  Goes("toggleWindow", "count") \/ Goes("toggleWindow", "save")
  <2>. DEFINE p == [Unused EXCEPT !.queue = k, !.window = w,
                                     !.active = ~queues[k].windows[w]]
  <2>1. DOMAIN p = DOMAIN Unused /\ (Start(r, "toggleWindow", "count", p) \/ Start(r, "toggleWindow", "save", p))
    BY <1>12 DEF BeginToggleWindow
  <2>. HIDE DEF p
  <2>. QED
    BY <1>2, <2>1
<1>13. ASSUME BeginRegister(r)
      PROVE  Goes("register", "found") \/ Goes("register", "count")
  <2>. DEFINE p == [Unused EXCEPT !.on = organization.id]
  <2>1. DOMAIN p = DOMAIN Unused /\ (Start(r, "register", "found", Unused) \/ Start(r, "register", "count", p))
    BY <1>13 DEF BeginRegister
  <2>. HIDE DEF p
  <2>. QED
    BY <1>2, <2>1
<1>14. ASSUME NEW b, BeginReject(r, b) \/ BeginApprove(r, b)
      PROVE  Goes("reject", "save") \/ Goes("approve", "plan")
  <2>. DEFINE p == [Unused EXCEPT !.on = b]
  <2>1. DOMAIN p = DOMAIN Unused /\ (Start(r, "reject", "save", p) \/ Start(r, "approve", "plan", p))
    BY <1>14 DEF BeginReject, BeginApprove
  <2>. HIDE DEF p
  <2>. QED
    BY <1>2, <2>1
<1>15. ASSUME CountQueues(r) \/ CountWindows(r) \/ FindQueue(r)
       PROVE  Elsewhere(r)
  <2>1. PICK pc \in {"sizes", "change", "save"} :
          /\ \E seen : Become(r, [req[r] EXCEPT !.pc = pc, !.seen = seen])
          /\ req[r].op \in {"changePlan", "approve"}
    <3>1. CountQueues(r) =>
            /\ req[r].op = "changePlan"
            /\ \E seen : Become(r, [req[r] EXCEPT !.pc = "sizes", !.seen = seen])
      BY DEF CountQueues, At
    <3>2. CountWindows(r) =>
            /\ req[r].op = "changePlan"
            /\ Become(r, [req[r] EXCEPT !.pc = "change",
                 !.seen = [req[r].seen EXCEPT !.windows = [k \in DOMAIN @ |-> ActiveWindows(k)]]])
      BY <1>0 DEF CountWindows, At, Request
    <3>3. FindQueue(r) =>
            /\ req[r].op = "approve"
            /\ \E seen : Become(r, [req[r] EXCEPT !.pc = "save", !.seen = seen])
      BY DEF FindQueue, At
    <3>. QED
      BY <1>15, <3>1, <3>2, <3>3
  <2>2. PICK seen : Become(r, [req[r] EXCEPT !.pc = pc, !.seen = seen])
    BY <2>1
  <2>. DEFINE q == [req[r] EXCEPT !.pc = pc, !.seen = seen]
  <2>3. q.op = req[r].op /\ q.pc = pc /\ Become(r, q)
    BY <1>0, <2>2 DEF Request
  <2>. HIDE DEF q
  <2>. QED
    BY <1>1, <2>1, <2>3 DEF Elsewhere
<1>16. ASSUME NEW op, BeginOrganization(r, op)
       PROVE  Goes(op, "save")
  <2>1. PICK p : Start(r, op, "save", p) /\ DOMAIN p = DOMAIN Unused
    <3>. DEFINE p == [Unused EXCEPT !.write = [organization EXCEPT
                        !.status = CASE op = "approveOrganization" -> "approved"
                                     [] op = "rejectOrganization" -> "rejected"
                                     [] OTHER -> @,
                        !.name = IF op = "updateOrganization" THEN r ELSE @]]
    <3>1. Start(r, op, "save", p) /\ DOMAIN p = DOMAIN Unused
      BY <1>16 DEF BeginOrganization
    <3>. HIDE DEF p
    <3>. QED
      BY <3>1
  <2>. QED
    BY <1>2, <2>1
<1>17. ASSUME BeginReadPlan(r) \/ BeginActivate(r) \/ BeginCancel(r) \/ BeginCancelAgain(r)
              \/ \E plan \in PlanNames : BeginChangePlan(r, plan)
       PROVE  Elsewhere(r)
  BY <1>17, <1>4, <1>5, <1>6, <1>7, <1>8 DEF Elsewhere
<1>18. ASSUME \/ BeginCreateQueue(r) \/ BeginRegister(r)
              \/ \E k \in DOMAIN queues :
                   \/ BeginToggleQueue(r, k) \/ BeginCreateWindow(r, k)
                   \/ \E w \in DOMAIN queues[k].windows : BeginToggleWindow(r, k, w)
              \/ \E b \in Ids : BeginReject(r, b) \/ BeginApprove(r, b)
       PROVE  Elsewhere(r)
  BY <1>18, <1>9, <1>10, <1>11, <1>12, <1>13, <1>14 DEF Elsewhere
<1>19. ASSUME NEW op \in OrganizationOps, BeginOrganization(r, op)
       PROVE  Elsewhere(r)
  BY <1>19, <1>16 DEF Elsewhere, OrganizationOps
<1>20. ASSUME NEW row, Decide(r, row), req[r].pc \in {"plan", "lapse"}
       PROVE  Elsewhere(r)
  <2>. DEFINE pc == IF req[r].op = "approve" THEN "look" ELSE "save"
              q1 == [req[r] EXCEPT !.pc = pc, !.row = row]
              q2 == [req[r] EXCEPT !.pc = "list"]
  <2>1. End(r, "done") \/ End(r, "failed") \/ Become(r, q1) \/ Become(r, q2)
    BY <1>20 DEF Decide
  <2>2. q1.op = req[r].op /\ q1.pc \in {"look", "save"} /\ q2.op = req[r].op /\ q2.pc = "list"
    BY <1>0 DEF Request
  <2>3. req[r].op \notin {"cancel", "activate"}
    BY <1>0, <1>20 DEF Holds, Planned, QueueOps, WindowOps
  <2>. HIDE DEF q1, q2
  <2>. QED
    BY <1>1, <1>3, <2>1, <2>2, <2>3 DEF Elsewhere
<1>21. ASSUME ReadPlan(r) \/ SaveLapse(r)
       PROVE  Elsewhere(r)
  <2>. DEFINE q == [req[r] EXCEPT !.pc = "lapse", !.row = subscription]
  <2>1. req[r].pc \in {"plan", "lapse"}
        /\ (Become(r, q) \/ Decide(r, subscription) \/ Decide(r, [req[r].row EXCEPT !.status = "expired"]))
    BY <1>21 DEF ReadPlan, SaveLapse
  <2>2. q.op = req[r].op /\ q.pc = "lapse"
    BY <1>0 DEF Request
  <2>3. req[r].op \notin {"cancel", "activate"}
    BY <1>0, <2>1 DEF Holds, Planned, QueueOps, WindowOps
  <2>. HIDE DEF q
  <2>4. Become(r, q) => Elsewhere(r)
    BY <1>1, <2>2, <2>3 DEF Elsewhere
  <2>. QED
    BY <1>20, <2>1, <2>4
<1>22. ASSUME CheckUsage(r)
       PROVE  Elsewhere(r)
  <2>. DEFINE q == [req[r] EXCEPT !.pc = "save", !.row = subscription,
                                  !.write = [subscription EXCEPT !.plan = req[r].write.plan]]
  <2>1. req[r].op = "changePlan" /\ (End(r, "failed") \/ Become(r, q))
    BY <1>22 DEF CheckUsage, At
  <2>2. q.op = req[r].op /\ q.pc = "save"
    BY <1>0 DEF Request
  <2>. HIDE DEF q
  <2>. QED
    BY <1>1, <1>3, <2>1, <2>2 DEF Elsewhere
<1>23. ASSUME SaveSubscription(r)
       PROVE  Elsewhere(r)
  <2>. DEFINE q == [Unused EXCEPT !.op = "cancel", !.pc = "list"]
  <2>1. req[r].pc = "save" /\ \/ req[r].op = "cancel" /\ Become(r, q)
                              \/ req[r].op # "cancel" /\ End(r, "done")
    BY <1>23 DEF SaveSubscription
  <2>2. q.op = "cancel" /\ q.pc = "list"
    BY DEF Unused
  <2>. HIDE DEF q
  <2>. QED
    BY <1>1, <1>3, <1>23, <2>1, <2>2 DEF Elsewhere, At
<1>24. ASSUME CountUsage(r) \/ CreateOrganization(r)
       PROVE  Elsewhere(r)
  <2>. DEFINE q(pc, t) == [req[r] EXCEPT !.pc = pc, !.seen = See(t)]
              p == [req[r] EXCEPT !.pc = "count", !.on = organization'.id]
  <2>1. \/ End(r, "failed") \/ Become(r, p)
        \/ \E pc \in {"plan", "save"} : \E t : Become(r, q(pc, t))
    BY <1>24 DEF CountUsage, CreateOrganization
  <2>2. req[r].op \notin {"cancel", "activate"}
    BY <1>0, <1>24 DEF CountUsage, CreateOrganization, Holds, At
  <2>3. p.op = req[r].op /\ p.pc = "count" /\ \A pc, t : q(pc, t).op = req[r].op /\ q(pc, t).pc = pc
    BY <1>0 DEF Request
  <2>. HIDE DEF p, q
  <2>. QED
    BY <1>1, <1>3, <2>1, <2>2, <2>3 DEF Elsewhere
<1>25. ASSUME SaveNew(r)
       PROVE  Elsewhere(r)
  <2>. DEFINE q == [req[r] EXCEPT !.pc = "first", !.queue = Len(queues) + 1, !.row = None,
                                  !.seen = [windows |-> Append(Usage.windows, {})]]
  <2>1. End(r, "done") \/ Become(r, q)
    BY <1>25 DEF SaveNew
  <2>2. req[r].op \notin {"cancel", "activate"}
    BY <1>25 DEF SaveNew, At
  <2>3. q.op = req[r].op /\ q.pc = "first"
    BY <1>0 DEF Request
  <2>. HIDE DEF q
  <2>. QED
    BY <1>1, <1>3, <2>1, <2>2, <2>3 DEF Elsewhere
<1>26. ASSUME \/ SaveToggle(r) \/ SaveBusiness(r) \/ SaveRejection(r) \/ CommitApproval(r)
              \/ SaveOrganization(r) \/ Abort(r)
       PROVE  Elsewhere(r)
  <2>1. \/ End(r, "done") /\ req[r].op \notin {"cancel", "activate"}
        \/ End(r, "failed")
    BY <1>26 DEF SaveToggle, SaveBusiness, SaveRejection, CommitApproval, SaveOrganization, Abort, At
  <2>. QED
    BY <1>3, <2>1 DEF Elsewhere
<1>. QED
  BY <1>15, <1>17, <1>18, <1>19, <1>21, <1>22, <1>23, <1>24, <1>25, <1>26
     DEF Step, Bill, Arrange, Enrol, OrganizationOps

\* And what an enforcement makes of the request.
LEMMA ListGoes ==
  ASSUME PInv1, NEW r \in Requests, ListQueues(r)
  PROVE  LET q == req'[r] IN
         /\ req[r].pc = "list" /\ Quiet /\ q.op = req[r].op
         /\ q.pc = IF q.drop = {} THEN "windows" ELSE "drop"
         /\ q.keep \cup q.drop = ActiveQueues /\ q.seen["queues"] = ActiveQueues
         /\ Cardinality(q.keep) <= BasicQueues /\ IsFiniteSet(q.keep)
<1>. DEFINE drop == Beyond(ActiveQueues, BasicQueues)
            keep == ActiveQueues \ drop
            pc   == IF drop = {} THEN "windows" ELSE "drop"
            q    == [Unused EXCEPT !.op = req[r].op, !.pc = pc, !.keep = keep, !.drop = drop,
                                   !.seen = See({"queues"})]
<1>0. req \in [Requests -> Request]
  BY DEF PInv1, Typed
<1>1. req[r].pc = "list" /\ Become(r, q) /\ Quiet
  BY DEF ListQueues, BasicQueues, Quiet, account, history
<1>2. See({"queues"})["queues"] = ActiveQueues
  BY UsageIs DEF See
<1>3. keep \cup drop = ActiveQueues /\ Cardinality(keep) <= BasicQueues /\ IsFiniteSet(keep)
  BY KeptQueues
<1>. HIDE DEF drop, keep, pc
<1>4. q.op = req[r].op /\ q.pc = pc /\ q.keep = keep /\ q.drop = drop /\ q.seen = See({"queues"})
  BY DEF Unused
<1>. HIDE DEF q
<1>5. req'[r] = q
  BY <1>0, <1>1 DEF Become
<1>. QED
  BY <1>1, <1>2, <1>3, <1>4, <1>5 DEF pc

LEMMA DropGoes ==
  ASSUME PInv1, NEW r \in Requests, DropQueue(r)
  PROVE  \E k \in req[r].drop :
           LET q == req'[r] IN
           /\ QueueOff(k) /\ req[r].pc = "drop" /\ q.op = req[r].op
           /\ q.pc = IF req[r].drop = {k} THEN "windows" ELSE "drop"
           /\ q.keep = req[r].keep /\ q.drop = req[r].drop \ {k}
           /\ q.seen["queues"] = ActiveQueues \ {k}
<1>0. req \in [Requests -> Request] /\ req[r] \in Request /\ Holds(req[r])
  BY HeldFields DEF PInv1, Typed
<1>1. PICK k \in req[r].drop : k = Least(req[r].drop) /\ QueueOff(k)
  BY DropDoes
<1>. DEFINE pc   == IF req[r].drop = {k} THEN "windows" ELSE "drop"
            seen == [req[r].seen EXCEPT !["queues"] = ActiveQueues \ {k}]
            q    == [req[r] EXCEPT !.drop = @ \ {k}, !.pc = pc, !.seen.queues = ActiveQueues \ {k}]
<1>2. req[r].pc = "drop" /\ Become(r, q)
  BY <1>1 DEF DropQueue
<1>3. "queues" \in DOMAIN req[r].seen
  BY <1>0, <1>2 DEF Holds
<1>4. seen["queues"] = ActiveQueues \ {k}
  BY <1>3
<1>. HIDE DEF pc
<1>5. q.op = req[r].op /\ q.pc = pc /\ q.keep = req[r].keep /\ q.drop = req[r].drop \ {k} /\ q.seen = seen
  BY <1>0 DEF Request
<1>. HIDE DEF q, seen
<1>6. req'[r] = q
  BY <1>0, <1>2 DEF Become
<1>. QED
  BY <1>1, <1>2, <1>4, <1>5, <1>6 DEF pc

LEMMA WindowsGo ==
  ASSUME PInv1, NEW r \in Requests, ListWindows(r)
  PROVE  LET q == req'[r] IN
         /\ req[r].pc = "windows" /\ Quiet /\ q.op = req[r].op
         /\ \/ /\ req[r].keep = {}
               /\ q.pc = IF req[r].op = "cancel" THEN "done" ELSE "failed"
            \/ \E k \in req[r].keep :
                 /\ q.pc = IF q.drop = {} THEN "windows" ELSE "trim"
                 /\ q.queue = k /\ q.keep = req[r].keep \ {k}
                 /\ Cardinality(ActiveWindows(k) \ q.drop) <= BasicWindows
<1>0. req \in [Requests -> Request] /\ req[r] \in Request /\ Stands(req[r], organization, businesses, queues)
  BY HeldFields DEF PInv1, Typed
<1>1. /\ req[r].pc = "windows" /\ Quiet
      /\ req[r].keep \in SUBSET Nat /\ req[r].keep \subseteq DOMAIN queues
  BY <1>0 DEF ListWindows, Quiet, account, history, Request, Stands
<1>2. CASE req[r].keep = {} /\ Finish(r)
  <2>. DEFINE pc == IF req[r].op = "cancel" THEN "done" ELSE "failed"
              q  == [Unused EXCEPT !.op = req[r].op, !.pc = pc]
  <2>1. Become(r, q)
    BY <1>2 DEF Finish, End
  <2>. HIDE DEF pc
  <2>2. q.op = req[r].op /\ q.pc = pc
    BY DEF Unused
  <2>. HIDE DEF q
  <2>3. req'[r] = q
    BY <1>0, <2>1 DEF Become
  <2>. QED
    BY <1>1, <1>2, <2>2, <2>3 DEF pc
<1>3. CASE req[r].keep # {}
  <2>1. PICK k \in req[r].keep : k = Least(req[r].keep)
    BY <1>1, <1>3, LeastIsLeast
  <2>. DEFINE drop == Beyond(ActiveWindows(k), BasicWindows)
              pc   == IF drop = {} THEN "windows" ELSE "trim"
              q    == [req[r] EXCEPT !.pc = pc, !.queue = k, !.keep = @ \ {k}, !.drop = drop,
                                     !.seen = See({"windows"})]
  <2>2. Become(r, q)
    BY <1>3, <2>1 DEF ListWindows, BasicWindows
  <2>3. Cardinality(ActiveWindows(k) \ drop) <= BasicWindows
    BY <1>1, KeptWindows
  <2>. HIDE DEF drop, pc
  <2>4. q.op = req[r].op /\ q.pc = pc /\ q.queue = k /\ q.keep = req[r].keep \ {k} /\ q.drop = drop
    BY <1>0 DEF Request
  <2>. HIDE DEF q
  <2>5. req'[r] = q
    BY <1>0, <2>2 DEF Become
  <2>. QED
    BY <1>1, <2>3, <2>4, <2>5 DEF pc
<1>. QED
  BY <1>2, <1>3 DEF ListWindows

LEMMA TrimGoes ==
  ASSUME PInv1, NEW r \in Requests, TrimWindow(r)
  PROVE  \E k \in DOMAIN queues, w \in req[r].drop :
           LET q == req'[r] IN
           /\ WindowOff(k, w) /\ k = req[r].queue /\ req[r].pc = "trim" /\ q.op = req[r].op
           /\ q.pc = IF req[r].drop = {w} THEN "windows" ELSE "trim"
           /\ q.queue = k /\ q.keep = req[r].keep /\ q.drop = req[r].drop \ {w}
<1>0. req \in [Requests -> Request] /\ req[r] \in Request
  BY HeldFields DEF PInv1, Typed
<1>1. PICK k \in DOMAIN queues, w \in req[r].drop :
        k = req[r].queue /\ w = Least(req[r].drop) /\ WindowOff(k, w)
  BY TrimDoes
<1>. DEFINE pc   == IF req[r].drop = {w} THEN "windows" ELSE "trim"
            left == ActiveWindows(req[r].queue) \ {w}
            q    == [req[r] EXCEPT !.drop = @ \ {w}, !.pc = pc, !.seen.windows[req[r].queue] = left]
<1>2. req[r].pc = "trim" /\ Become(r, q)
  BY <1>1 DEF TrimWindow
<1>. HIDE DEF pc, left
<1>3. q.op = req[r].op /\ q.pc = pc /\ q.queue = k /\ q.keep = req[r].keep /\ q.drop = req[r].drop \ {w}
  BY <1>0, <1>1 DEF Request
<1>. HIDE DEF q
<1>4. req'[r] = q
  BY <1>0, <1>2 DEF Become
<1>. QED
  BY <1>1, <1>2, <1>3, <1>4 DEF pc

LEMMA OnlyMine ==
  ASSUME PInv1, NEW r \in Requests, Step(r)
  PROVE  \A s \in Requests \ {r} : req'[s] = req[s]
BY StepMoves DEF Moves, Become, PInv1, Typed

LEMMA NextKeepsSeen ==
  ASSUME PInv1, KeepsSeen, NEW r \in Requests, Step(r)
  PROVE  KeepsSeen'
<1>0. overlapped \subseteq overlapped' /\ \A s \in Requests \ {r} : req'[s] = req[s]
  BY RowsTyped, OnlyMine
<1>1. ASSUME "queues" \notin overlapped' /\ req'[r].pc = "drop"
             => req'[r].keep \cup req'[r].drop \subseteq req'[r].seen.queues
      PROVE  KeepsSeen'
  BY <1>0, <1>1 DEF KeepsSeen
<1>2. Elsewhere(r) => KeepsSeen'
  BY <1>1 DEF Elsewhere
<1>3. ListQueues(r) => KeepsSeen'
  BY <1>1, ListGoes
<1>4. ASSUME DropQueue(r)
      PROVE  KeepsSeen'
  <2>1. PICK k \in req[r].drop :
          /\ req[r].pc = "drop" /\ req'[r].keep = req[r].keep /\ req'[r].drop = req[r].drop \ {k}
          /\ req'[r].seen["queues"] = ActiveQueues \ {k}
    BY <1>4, DropGoes
  <2>2. Holds(req[r]) /\ Notes(req[r])
    BY <1>4, HeldFields DEF DropQueue
  <2>3. "queues" \in DOMAIN req[r].seen /\ req[r].keep \cap req[r].drop = {}
    BY <2>1, <2>2 DEF Holds
  <2>4. "queues" \notin overlapped' => req[r].keep \cup req[r].drop \subseteq ActiveQueues
    BY <1>0, <2>1, <2>2, <2>3, NotesTell, UsageIs DEF KeepsSeen
  <2>. QED
    BY <1>1, <2>1, <2>3, <2>4
<1>5. ListWindows(r) \/ TrimWindow(r) => KeepsSeen'
  BY <1>1, WindowsGo, TrimGoes
<1>. QED
  BY <1>2, <1>3, <1>4, <1>5, ElsewhereGoes DEF Enforce

SeedApproved == businesses[Seed] # None /\ businesses[Seed].status = "approved"

\* Only a review approves the business.
LEMMA ApprovedBy ==
  ASSUME PInv1, NEW r \in Requests, Step(r), SeedApproved'
  PROVE  SeedApproved \/ (CommitApproval(r) /\ req[r].on = Seed)
<1>0. /\ businesses \in [Ids -> BusinessRow \cup {None}] /\ Seed \in Ids /\ r # Seed
      /\ None \notin BusinessRow
  BY HeldFields, PlansAssumption DEF Ids
<1>1. SaveBusiness(r) => businesses'[Seed] = businesses[Seed]
  BY <1>0 DEF SaveBusiness
<1>2. ASSUME SaveRejection(r)
      PROVE  SeedApproved
  <2>. DEFINE b == req[r].on
  <2>1. b \in Ids /\ businesses[b] \in BusinessRow /\ businesses' = [businesses EXCEPT ![b].status = "rejected"]
    BY <1>0, <1>2, HeldFields DEF SaveRejection, At, Stands
  <2>. HIDE DEF b
  <2>2. b = Seed => businesses'[Seed].status = "rejected"
    BY <1>0, <2>1 DEF BusinessRow
  <2>3. b # Seed => businesses'[Seed] = businesses[Seed]
    BY <1>0, <2>1
  <2>. QED
    BY <2>2, <2>3 DEF SeedApproved
<1>3. ASSUME CommitApproval(r), req[r].on # Seed
      PROVE  businesses'[Seed] = businesses[Seed]
  BY <1>0, <1>3 DEF CommitApproval
<1>4. Quiet \/ SaveLapse(r) \/ SaveSubscription(r) \/ SavesQueues(r) \/ CreateOrganization(r)
      \/ SaveOrganization(r) => businesses' = businesses
  BY DEF Quiet, SaveLapse, SaveSubscription, SavesQueues, DropQueue, TrimWindow, SaveNew, SaveToggle,
         CreateOrganization, SaveOrganization
<1>. QED
  BY <1>1, <1>2, <1>3, <1>4, QuietOrWrites DEF Writes, SeedApproved

LEMMA NextKeepsActive ==
  ASSUME PInv1, KeepsSeen, KeepsActiveQueue, NEW r \in Requests, Step(r)
  PROVE  KeepsActiveQueue'
<1>. SUFFICES ASSUME SeedApproved', "queues" \notin overlapped'
              PROVE  ActiveQueues' # {}
  BY DEF KeepsActiveQueue, SeedApproved
<1>0. /\ req[r] \in Request /\ Holds(req[r]) /\ Stands(req[r], organization, businesses, queues)
      /\ "queues" \notin overlapped
  BY HeldFields, RowsTyped
<1>1. SeedApproved => ActiveQueues # {}
  BY <1>0 DEF KeepsActiveQueue, SeedApproved
<1>2. Notes(req[r]) /\ "queues" \in DOMAIN req[r].seen => req[r].seen.queues = ActiveQueues
  BY NotesTell, UsageIs
<1>3. ASSUME CommitApproval(r)
      PROVE  ActiveQueues' # {}
  <2>1. "queues" \in DOMAIN req[r].seen /\ Notes(req[r])
    BY <1>0, <1>3 DEF CommitApproval, At, Holds, Saw
  <2>2. req[r].seen.queues = ActiveQueues
    BY <1>2, <2>1
  <2>3. CASE queues' = queues
    <3>1. ActiveQueues' = ActiveQueues
      BY <2>3 DEF ActiveQueues
    <3>2. CASE SeedApproved
      BY <1>1, <3>1, <3>2
    <3>3. CASE req[r].on = Seed
      <4>1. req[r].seen.queues # {}
        <5>1. queues \in Seq(QueueRow) /\ Len(queues) \in Nat
          BY HeldFields, QueuesAreRows
        <5>. SUFFICES ASSUME req[r].seen.queues = {}
                      PROVE  FALSE
          OBVIOUS
        <5>2. queues' = Append(queues, Queue(TRUE, 1))
          BY <1>3, <3>3 DEF CommitApproval
        <5>3. PICK k \in Nat : k = Len(queues) + 1
          BY <5>1
        <5>4. DOMAIN queues' = DOMAIN queues \cup {k} /\ k \notin DOMAIN queues
          BY <5>1, <5>2, <5>3, AddQueue
        <5>. QED
          BY <2>3, <5>4
      <4>. QED
        BY <2>2, <3>1, <4>1
    <3>. QED
      BY <3>2, <3>3, ApprovedBy
  <2>4. CASE queues' # queues
    BY <1>3, <2>4, ApprovalDoes DEF QueueNew
  <2>. QED
    BY <2>3, <2>4
<1>. SUFFICES ASSUME ~CommitApproval(r)
              PROVE  ActiveQueues' # {}
  BY <1>3
<1>4. ActiveQueues # {}
  BY <1>1, ApprovedBy
<1>5. CASE queues' = queues
  BY <1>4, <1>5 DEF ActiveQueues
<1>6. CASE DropQueue(r)
  <2>1. /\ "queues" \in DOMAIN req[r].seen /\ Notes(req[r]) /\ req[r].pc = "drop"
        /\ req[r].keep \cap req[r].drop = {} /\ req[r].keep # {}
    BY <1>0, <1>6 DEF DropQueue, Holds
  <2>2. req[r].keep \subseteq ActiveQueues
    BY <1>0, <1>2, <2>1 DEF KeepsSeen
  <2>3. PICK k \in req[r].drop : ActiveQueues' = ActiveQueues \ {k}
    BY <1>6, DropDoes DEF QueueOff
  <2>. QED
    BY <2>1, <2>2, <2>3
<1>7. CASE TrimWindow(r) \/ SaveNew(r)
  BY <1>4, <1>7, TrimDoes, NewDoes DEF WindowOff, WindowOn, QueueNew
<1>8. CASE SaveToggle(r)
  <2>1. CASE At(r, "toggleWindow", "save")
    BY <1>4, <1>8, <2>1, ToggleDoes DEF WindowOff, WindowOn, At
  <2>2. CASE At(r, "toggleQueue", "save") /\ req[r].active
    BY <1>4, <1>8, <2>2, ToggleDoes DEF QueueOn, At
  <2>3. CASE At(r, "toggleQueue", "save") /\ ~req[r].active
    <3>1. req[r].seen.queues \ {req[r].queue} # {} /\ Notes(req[r])
      BY <1>0, <1>8, <2>3 DEF At, Holds, Decided, SaveToggle
    <3>2. "queues" \in DOMAIN req[r].seen
      BY <1>0, <2>3 DEF At, Holds, Saw, QueueOps
    <3>3. ActiveQueues' = ActiveQueues \ {req[r].queue}
      BY <1>8, <2>3, ToggleDoes DEF QueueOff, At
    <3>. QED
      BY <1>2, <3>1, <3>2, <3>3
  <2>. QED
    BY <1>8, <2>1, <2>2, <2>3 DEF SaveToggle
<1>. QED
  BY <1>5, <1>6, <1>7, <1>8, StepGrown DEF SavesQueues

-----------------------------------------------------------------------------
(* What has been paid for, and how far the usage may grow.                 *)

\* Under no overlap the row a request read is the row it writes over.
LEMMA RowStands ==
  ASSUME PInv1, NEW r \in Requests, Notes(req[r]), "subscription" \notin overlapped',
         req[r].row \in SubscriptionRow
  PROVE  req[r].row = subscription
BY HeldFields, NotesTell

\* Who writes the subscription, and what becomes of its status and its plan.
LEMMA SubscriptionWritten ==
  ASSUME PInv1, NEW r \in Requests, Step(r), subscription # None, "subscription" \notin overlapped'
  PROVE  \/ subscription' = subscription
         \/ /\ subscription'.plan = subscription.plan
            /\ \/ /\ subscription.status \in {"trial", "pending"} /\ (SaveLapse(r) \/ CommitApproval(r))
                  /\ subscription'.status \in {"expired", "trial"}
               \/ SaveSubscription(r) /\ At(r, "activate", "save") /\ subscription'.status = "active"
               \/ SaveSubscription(r) /\ At(r, "cancel", "save") /\ subscription'.status = "cancelled"
                  /\ req'[r].op = "cancel" /\ req'[r].pc = "list"
         \/ /\ SaveSubscription(r) /\ At(r, "changePlan", "save")
            /\ subscription' = req[r].write /\ subscription'.status = subscription.status
            /\ DOMAIN req[r].seen = Limited /\ SeenFits(req[r].seen, PlanLimits[subscription'.plan])
<1>0. /\ req[r] \in Request /\ Holds(req[r]) /\ Stands(req[r], organization, businesses, queues)
      /\ (organization = None <=> subscription = None) /\ req \in [Requests -> Request]
  BY HeldFields DEF PInv1, Typed
<1>1. \A st \in {"trial", "expired"}, row \in SubscriptionRow :
        [row EXCEPT !.status = st].plan = row.plan /\ [row EXCEPT !.status = st].status = st
  BY DEF SubscriptionRow
<1>2. ASSUME SaveLapse(r)
      PROVE  /\ subscription'.plan = subscription.plan /\ subscription.status = "trial"
             /\ subscription'.status = "expired"
  <2>1. /\ req[r].row \in SubscriptionRow /\ req[r].row.status = "trial" /\ Notes(req[r])
        /\ subscription' = [req[r].row EXCEPT !.status = "expired"]
    BY <1>0, <1>2 DEF SaveLapse, Holds
  <2>. QED
    BY <1>1, <2>1, RowStands
<1>3. ASSUME CommitApproval(r)
      PROVE  \/ subscription' = subscription
             \/ subscription'.plan = subscription.plan /\ subscription.status = "pending"
                /\ subscription'.status = "trial"
  <2>1. req[r].row \in SubscriptionRow /\ Notes(req[r])
    BY <1>0, <1>3 DEF CommitApproval, At, Holds, Decided, Grows
  <2>2. \/ subscription' = subscription
        \/ req[r].row.status = "pending" /\ subscription' = [req[r].row EXCEPT !.status = "trial"]
    BY <1>3 DEF CommitApproval
  <2>. QED
    BY <1>1, <2>1, <2>2, RowStands
<1>4. ASSUME SaveSubscription(r)
      PROVE  \/ /\ subscription'.plan = subscription.plan
                /\ \/ At(r, "activate", "save") /\ subscription'.status = "active"
                   \/ At(r, "cancel", "save") /\ subscription'.status = "cancelled"
                      /\ req'[r].op = "cancel" /\ req'[r].pc = "list"
             \/ /\ At(r, "changePlan", "save")
                /\ subscription' = req[r].write /\ subscription'.status = subscription.status
                /\ DOMAIN req[r].seen = Limited /\ SeenFits(req[r].seen, PlanLimits[subscription'.plan])
  <2>1. /\ req[r].pc = "save" /\ req[r].op \in {"activate", "cancel", "changePlan"}
        /\ subscription' = req[r].write /\ Notes(req[r])
    BY <1>4 DEF SaveSubscription
  <2>2. Decided(req[r]) /\ req[r].row \in SubscriptionRow
    BY <1>0, <2>1 DEF Holds, Decided, Edits
  <2>3. req[r].row = subscription
    BY <2>1, <2>2, RowStands
  <2>4. CASE req[r].op = "activate"
    BY <2>1, <2>2, <2>3, <2>4 DEF Decided, Edits, At
  <2>5. CASE req[r].op = "cancel"
    <3>. DEFINE q == [Unused EXCEPT !.op = "cancel", !.pc = "list"]
    <3>1. Become(r, q)
      BY <1>4, <2>5 DEF SaveSubscription
    <3>2. q.op = "cancel" /\ q.pc = "list"
      BY DEF Unused
    <3>. HIDE DEF q
    <3>3. req'[r] = q
      BY <1>0, <3>1 DEF Become
    <3>. QED
      BY <2>1, <2>2, <2>3, <2>5, <3>2, <3>3 DEF Decided, Edits, At
  <2>6. CASE req[r].op = "changePlan"
    BY <2>1, <2>2, <2>3, <2>6 DEF Decided, At
  <2>. QED
    BY <2>1, <2>4, <2>5, <2>6
<1>5. CreateOrganization(r) => subscription' = subscription
  BY <1>0 DEF CreateOrganization, AdminFits
<1>6. Quiet \/ SavesQueues(r) \/ SaveOrganization(r) \/ SaveBusiness(r)
      \/ SaveRejection(r) => subscription' = subscription
  BY DEF Quiet, SavesQueues, DropQueue, TrimWindow, SaveNew, SaveToggle, SaveOrganization, SaveBusiness,
         SaveRejection, account
<1>. QED
  BY <1>2, <1>3, <1>4, <1>5, <1>6, QuietOrWrites DEF Writes

LEMMA ActivationStep ==
  ASSUME PInv1, [Next]_vars, subscription # None, subscription.status = "active",
         subscription'.status # "active"
  PROVE  \/ "subscription" \in overlapped'
         \/ \E r \in Requests : At(r, "cancel", "save") /\ req'[r].pc = "list"
<1>1. subscription' # subscription
  OBVIOUS
<1>2. PICK r \in Requests : Step(r)
  BY <1>1 DEF Next, Step, TrialEnds, vars
<1>. QED
  BY <1>1, <1>2, SubscriptionWritten DEF At

LEMMA OneMoreFits ==
  ASSUME NEW S, IsFiniteSet(S), NEW x, NEW n \in Nat, Cardinality(S \ {x}) < n
  PROVE  Cardinality(S \cup {x}) <= n
<1>. DEFINE T == S \ {x}
<1>1. IsFiniteSet(T) /\ Cardinality(T) \in Nat
  BY FS_Subset, FS_CardinalityType
<1>2. Cardinality(T \cup {x}) = Cardinality(T) \/ Cardinality(T \cup {x}) = Cardinality(T) + 1
  BY <1>1, FS_AddElement
<1>3. T \cup {x} = S \cup {x}
  OBVIOUS
<1>4. Cardinality(T) < n
  OBVIOUS
<1>. HIDE DEF T
<1>. QED
  BY <1>1, <1>2, <1>3, <1>4

\* The three counts after a step, against the plan there is then.
Within ==
  LET limit   == PlanLimits[subscription'.plan]
      changed == subscription # None /\ subscription'.plan # subscription.plan
      kept(S) == IF changed THEN {} ELSE S
  IN  /\ readmitted' \/ Fits(Usage'.businesses, kept(Usage.businesses), limit.businesses)
      /\ Fits(ActiveQueues', kept(ActiveQueues), limit.queues)
      /\ \A k \in DOMAIN queues : Fits(Usage'.windows[k], kept(Usage.windows[k]), limit.windows)

\* The plan stays, and every count that grows has been asked for room.
LEMMA PlanStays ==
  ASSUME PInv1, Grown, subscription # None => subscription'.plan = subscription.plan,
         \/ readmitted' \/ Usage'.businesses \subseteq Usage.businesses
         \/ Cardinality(Usage'.businesses) <= PlanLimits[subscription'.plan].businesses,
         \/ ActiveQueues' \subseteq ActiveQueues
         \/ Cardinality(ActiveQueues') <= PlanLimits[subscription'.plan].queues,
         \A k \in DOMAIN queues :
           \/ ActiveWindows(k)' \subseteq ActiveWindows(k)
           \/ Cardinality(ActiveWindows(k)') <= PlanLimits[subscription'.plan].windows
  PROVE  Within
<1>1. \A k \in DOMAIN queues : /\ Usage'.windows[k] = ActiveWindows(k)'
                               /\ Usage.windows[k] = ActiveWindows(k)
  BY DEF Usage, Grown, ActiveWindows
<1>. QED
  BY <1>1 DEF Within, Fits

LEMMA SameUsage ==
  ASSUME PInv1, queues' = queues
  PROVE  ActiveQueues' = ActiveQueues /\ \A k \in DOMAIN queues : ActiveWindows(k)' = ActiveWindows(k)
BY DEF ActiveQueues, ActiveWindows

LEMMA SameBusinesses ==
  ASSUME businesses' = businesses
  PROVE  Usage'.businesses = Usage.businesses
BY DEF Usage

\* A request asked the plan that is written, or still there, after its save.
LEMMA AskedThePlan ==
  ASSUME PInv1, NEW r \in Requests, Step(r), overlapped' = {}, Notes(req[r]),
         req[r].pc = "save", Grows(req[r])
  PROVE  /\ req[r].row = subscription /\ subscription \in SubscriptionRow
         /\ HasRoom(req[r], PlanLimits[subscription.plan])
         /\ subscription.plan \in PlanNames
         /\ \A t \in DOMAIN req[r].seen : req[r].seen[t] = Usage[t]
<1>1. Holds(req[r])
  BY HeldFields
<1>2. req[r].row \in SubscriptionRow /\ HasRoom(req[r], PlanLimits[req[r].row.plan])
  BY <1>1 DEF Holds, Decided
<1>3. req[r].row = subscription
  BY <1>2, RowStands
<1>4. \A row \in SubscriptionRow : row.plan \in PlanNames
  BY DEF SubscriptionRow
<1>. QED
  BY <1>2, <1>3, <1>4, NotesTell

LEMMA GrowStep ==
  ASSUME PInv1, NEW r \in Requests, Step(r), overlapped' = {}, subscription' # None
  PROVE  Within
<1>0. /\ req[r] \in Request /\ Holds(req[r]) /\ Stands(req[r], organization, businesses, queues)
      /\ subscription \in SubscriptionRow \cup {None} /\ subscription' \in SubscriptionRow \cup {None}
      /\ (organization = None <=> subscription = None)
      /\ businesses \in [Ids -> BusinessRow \cup {None}] /\ None \notin BusinessRow
      /\ IsFiniteSet(Usage.businesses) /\ Grown
  BY HeldFields, RowsTyped, StepGrown DEF PInv1, World
<1>1. /\ IsFiniteSet(ActiveQueues) /\ ActiveQueues \in SUBSET Nat
      /\ \A k \in DOMAIN queues : IsFiniteSet(ActiveWindows(k)) /\ ActiveWindows(k) \in SUBSET Nat
      /\ 0 \notin ActiveQueues /\ \A k \in DOMAIN queues : 0 \notin ActiveWindows(k)
  <2>1. queues \in Seq(QueueRow)
    BY HeldFields
  <2>2. DOMAIN queues = 1..Len(queues) /\ ActiveQueues \subseteq DOMAIN queues
        /\ \A k \in DOMAIN queues : ActiveWindows(k) \subseteq Nat \ {0}
    BY <2>1, QueuesAreRows
  <2>. QED
    BY <2>1, <2>2, ActiveAreFinite
<1>2. \A p \in PlanNames : /\ PlanLimits[p].businesses \in Nat /\ PlanLimits[p].queues \in Nat \ {0}
                           /\ PlanLimits[p].windows \in Nat \ {0}
  BY Limits
<1>3. subscription'.plan \in PlanNames
  BY <1>0 DEF SubscriptionRow
<1>4. (SavesQueues(r) \/ SaveBusiness(r)) => subscription' = subscription
  BY DEF SavesQueues, DropQueue, TrimWindow, SaveNew, SaveToggle, SaveBusiness, account
<1>5. SavesQueues(r) => businesses' = businesses
  BY DEF SavesQueues, DropQueue, TrimWindow, SaveNew, SaveToggle
<1>6. ASSUME SavesQueues(r),
             \/ ActiveQueues' \subseteq ActiveQueues
             \/ Cardinality(ActiveQueues') <= PlanLimits[subscription'.plan].queues,
             \A k \in DOMAIN queues :
               \/ ActiveWindows(k)' \subseteq ActiveWindows(k)
               \/ Cardinality(ActiveWindows(k)') <= PlanLimits[subscription'.plan].windows
      PROVE  Within
  BY <1>0, <1>4, <1>5, <1>6, SameBusinesses, PlanStays
<1>7. CASE DropQueue(r) \/ TrimWindow(r)
  <2>1. ActiveQueues' \subseteq ActiveQueues
        /\ \A k \in DOMAIN queues : ActiveWindows(k)' \subseteq ActiveWindows(k)
    BY <1>7, DropDoes, TrimDoes DEF QueueOff, WindowOff, Beside
  <2>. QED
    BY <1>6, <1>7, <2>1 DEF SavesQueues
<1>8. CASE SaveNew(r)
  <2>1. Notes(req[r]) /\ SavesQueues(r) /\ subscription' = subscription
    BY <1>4, <1>8 DEF SaveNew, SavesQueues
  <2>2. CASE At(r, "createQueue", "save")
    <3>1. PICK k \in Nat : QueueNew(k, 0)
      BY <1>8, <2>2, NewDoes DEF At
    <3>2. /\ HasRoom(req[r], PlanLimits[subscription.plan])
          /\ \A t \in DOMAIN req[r].seen : req[r].seen[t] = Usage[t]
      BY <2>1, <2>2, AskedThePlan DEF At, Grows
    <3>3. "queues" \in DOMAIN req[r].seen /\ req[r].queue = 0
      BY <1>0, <2>2 DEF At, Holds, Saw, QueueOps
    <3>4. Cardinality(ActiveQueues \ {0}) < PlanLimits[subscription.plan].queues
      BY <2>2, <3>2, <3>3, UsageIs DEF HasRoom, QueueOps, At
    <3>5. ActiveQueues' = ActiveQueues \cup {k} /\ k \notin ActiveQueues
          /\ \A j \in DOMAIN queues : ActiveWindows(j)' = ActiveWindows(j)
      BY <3>1 DEF QueueNew, ActiveQueues
    <3>6. ActiveQueues \ {0} = ActiveQueues \ {k}
      BY <1>1, <3>5
    <3>7. Cardinality(ActiveQueues') <= PlanLimits[subscription'.plan].queues
      BY <1>1, <1>2, <1>3, <2>1, <3>4, <3>5, <3>6, OneMoreFits
    <3>. QED
      BY <1>6, <2>1, <3>5, <3>7
  <2>3. CASE At(r, "createQueue", "first") \/ At(r, "createWindow", "save")
    <3>1. PICK k \in DOMAIN queues, w \in Nat :
            k = req[r].queue /\ w \notin ActiveWindows(k) /\ WindowOn(k, w)
      BY <1>8, <2>3, NewDoes DEF At
    <3>2. ActiveQueues' = ActiveQueues /\ ActiveWindows(k)' = ActiveWindows(k) \cup {w}
          /\ \A j \in DOMAIN queues \ {k} : ActiveWindows(j)' = ActiveWindows(j)
      BY <3>1 DEF WindowOn, Beside
    <3>3. Cardinality(ActiveWindows(k) \ {w}) < PlanLimits[subscription.plan].windows
      <4>1. CASE At(r, "createQueue", "first")
        <5>1. "windows" \in DOMAIN req[r].seen /\ req[r].seen.windows[k] = {}
          BY <1>0, <3>1, <4>1 DEF At, Holds
        <5>2. req[r].seen["windows"] = Usage["windows"]
          BY <2>1, <5>1, NotesTell
        <5>3. ActiveWindows(k) \ {w} = {}
          BY <5>1, <5>2, UsageIs
        <5>. QED
          BY <1>2, <1>3, <2>1, <5>3, FS_EmptySet
      <4>2. CASE At(r, "createWindow", "save")
        <5>1. /\ HasRoom(req[r], PlanLimits[subscription.plan])
              /\ \A t \in DOMAIN req[r].seen : req[r].seen[t] = Usage[t]
          BY <2>1, <4>2, AskedThePlan DEF At, Grows
        <5>2. "windows" \in DOMAIN req[r].seen /\ req[r].window = 0
          BY <1>0, <4>2 DEF At, Holds, Saw, WindowOps, Grows
        <5>3. Cardinality(ActiveWindows(k) \ {0}) < PlanLimits[subscription.plan].windows
          BY <3>1, <4>2, <5>1, <5>2, UsageIs DEF HasRoom, WindowOps, At
        <5>4. ActiveWindows(k) \ {0} = ActiveWindows(k) \ {w}
          BY <1>1, <3>1
        <5>. QED
          BY <5>3, <5>4
      <4>. QED
        BY <2>3, <4>1, <4>2
    <3>4. Cardinality(ActiveWindows(k)') <= PlanLimits[subscription'.plan].windows
      BY <1>1, <1>2, <1>3, <2>1, <3>2, <3>3, OneMoreFits
    <3>. QED
      BY <1>6, <2>1, <3>2, <3>4
  <2>. QED
    BY <1>8, <2>2, <2>3 DEF SaveNew
<1>9. CASE SaveToggle(r)
  <2>1. Notes(req[r]) /\ SavesQueues(r) /\ subscription' = subscription
    BY <1>4, <1>9 DEF SaveToggle, SavesQueues
  <2>2. CASE ~req[r].active
    <3>1. ActiveQueues' \subseteq ActiveQueues
          /\ \A k \in DOMAIN queues : ActiveWindows(k)' \subseteq ActiveWindows(k)
      BY <1>9, <2>2, ToggleDoes DEF QueueOff, WindowOff, Beside
    <3>. QED
      BY <1>6, <2>1, <3>1
  <2>3. CASE At(r, "toggleQueue", "save") /\ req[r].active
    <3>1. PICK k \in DOMAIN queues : k = req[r].queue /\ QueueOn(k)
      BY <1>9, <2>3, ToggleDoes DEF At
    <3>2. /\ HasRoom(req[r], PlanLimits[subscription.plan])
          /\ \A t \in DOMAIN req[r].seen : req[r].seen[t] = Usage[t]
      BY <2>1, <2>3, AskedThePlan DEF At, Grows
    <3>3. "queues" \in DOMAIN req[r].seen
      BY <1>0, <2>3 DEF At, Holds, Saw, QueueOps
    <3>4. Cardinality(ActiveQueues \ {k}) < PlanLimits[subscription.plan].queues
      BY <2>3, <3>1, <3>2, <3>3, UsageIs DEF HasRoom, QueueOps, At
    <3>5. ActiveQueues' = ActiveQueues \cup {k} /\ \A j \in DOMAIN queues : ActiveWindows(j)' = ActiveWindows(j)
      BY <3>1 DEF QueueOn
    <3>6. Cardinality(ActiveQueues') <= PlanLimits[subscription'.plan].queues
      BY <1>1, <1>2, <1>3, <2>1, <3>4, <3>5, OneMoreFits
    <3>. QED
      BY <1>6, <2>1, <3>5, <3>6
  <2>4. CASE At(r, "toggleWindow", "save") /\ req[r].active
    <3>1. PICK k \in DOMAIN queues, w \in Nat : k = req[r].queue /\ w = req[r].window /\ WindowOn(k, w)
      BY <1>9, <2>4, ToggleDoes DEF At
    <3>2. /\ HasRoom(req[r], PlanLimits[subscription.plan])
          /\ \A t \in DOMAIN req[r].seen : req[r].seen[t] = Usage[t]
      BY <2>1, <2>4, AskedThePlan DEF At, Grows
    <3>3. "windows" \in DOMAIN req[r].seen
      BY <1>0, <2>4 DEF At, Holds, Saw, WindowOps, Grows
    <3>4. Cardinality(ActiveWindows(k) \ {w}) < PlanLimits[subscription.plan].windows
      BY <2>4, <3>1, <3>2, <3>3, UsageIs DEF HasRoom, WindowOps, At
    <3>5. ActiveQueues' = ActiveQueues /\ ActiveWindows(k)' = ActiveWindows(k) \cup {w}
          /\ \A j \in DOMAIN queues \ {k} : ActiveWindows(j)' = ActiveWindows(j)
      BY <3>1 DEF WindowOn, Beside
    <3>6. Cardinality(ActiveWindows(k)') <= PlanLimits[subscription'.plan].windows
      BY <1>1, <1>2, <1>3, <2>1, <3>4, <3>5, OneMoreFits
    <3>. QED
      BY <1>6, <2>1, <3>5, <3>6
  <2>. QED
    BY <1>0, <1>9, <2>2, <2>3, <2>4 DEF SaveToggle, Request
<1>10. CASE CommitApproval(r)
  <2>1. /\ Notes(req[r]) /\ req[r].pc = "save" /\ req[r].op = "approve"
        /\ req[r].on \in Ids /\ businesses[req[r].on] # None
        /\ "queues" \in DOMAIN req[r].seen /\ subscription # None
    BY <1>0, <1>10 DEF CommitApproval, At, Stands, Holds, Saw
  <2>2. subscription'.plan = subscription.plan
    <3>1. ~SaveSubscription(r)
      BY <2>1 DEF SaveSubscription
    <3>2. "subscription" \notin overlapped'
      OBVIOUS
    <3>. QED
      BY <2>1, <3>1, <3>2, SubscriptionWritten
  <2>3. readmitted' \/ Usage'.businesses \subseteq Usage.businesses
    <3>1. businesses' = [businesses EXCEPT ![req[r].on].status = "approved"]
          /\ readmitted' = (readmitted \/ businesses[req[r].on].status = "rejected")
      BY <1>10 DEF CommitApproval
    <3>2. \A b \in Ids : b # req[r].on => businesses'[b] = businesses[b]
      BY <1>0, <3>1
    <3>3. businesses[req[r].on].status # "rejected" => Usage'.businesses \subseteq Usage.businesses
      BY <2>1, <3>2 DEF Usage
    <3>. QED
      BY <3>1, <3>3
  <2>4. req[r].seen.queues = ActiveQueues
    BY <2>1, NotesTell, UsageIs
  <2>5. CASE queues' = queues
    BY <1>0, <2>2, <2>3, <2>5, SameUsage, PlanStays
  <2>6. CASE queues' # queues
    <3>1. PICK k \in Nat : QueueNew(k, 1)
      BY <1>10, <2>6, ApprovalDoes
    <3>2. ActiveQueues = {}
      BY <1>10, <2>4, <2>6, ApprovalDoes
    <3>3. ActiveQueues' = {k} /\ \A j \in DOMAIN queues : ActiveWindows(j)' = ActiveWindows(j)
      BY <3>1, <3>2 DEF QueueNew
    <3>4. Cardinality(ActiveQueues') <= PlanLimits[subscription'.plan].queues
      <4>1. Cardinality({k}) = 1
        BY FS_Singleton
      <4>2. PlanLimits[subscription'.plan].queues \in Nat \ {0}
        BY <1>2, <1>3
      <4>. QED
        BY <3>3, <4>1, <4>2
    <3>. QED
      BY <1>0, <2>2, <2>3, <3>3, <3>4, PlanStays
  <2>. QED
    BY <2>5, <2>6
<1>11. CASE SaveBusiness(r)
  <2>1. /\ Notes(req[r]) /\ req[r].pc = "save" /\ req[r].op = "register" /\ queues' = queues
        /\ businesses' = [businesses EXCEPT ![r] = [status |-> "pending", organization |-> req[r].on]]
        /\ subscription' = subscription
    BY <1>4, <1>11 DEF SaveBusiness, At
  <2>2. /\ HasRoom(req[r], PlanLimits[subscription.plan])
        /\ \A t \in DOMAIN req[r].seen : req[r].seen[t] = Usage[t]
    BY <2>1, AskedThePlan DEF Grows
  <2>3. "businesses" \in DOMAIN req[r].seen
    BY <1>0, <2>1 DEF Holds, Saw
  <2>4. Cardinality(Usage.businesses) < PlanLimits[subscription.plan].businesses
    BY <2>1, <2>2, <2>3, UsageIs DEF HasRoom
  <2>5. Usage'.businesses \in SUBSET (Usage.businesses \cup {r})
    BY <2>1 DEF Usage
  <2>6. Cardinality(Usage'.businesses) <= PlanLimits[subscription'.plan].businesses
    <3>. DEFINE S == Usage.businesses
                T == Usage'.businesses
    <3>1. IsFiniteSet(S) /\ Cardinality(S) \in Nat /\ PlanLimits[subscription.plan].businesses \in Nat
      BY <1>0, <1>2, <1>3, <2>1, FS_CardinalityType
    <3>2. /\ IsFiniteSet(S \cup {r}) /\ Cardinality(S \cup {r}) \in Nat
          /\ Cardinality(S \cup {r}) = Cardinality(S) \/ Cardinality(S \cup {r}) = Cardinality(S) + 1
      BY <3>1, FS_AddElement, FS_CardinalityType
    <3>3. IsFiniteSet(T) /\ Cardinality(T) <= Cardinality(S \cup {r}) /\ Cardinality(T) \in Nat
      BY <2>5, <3>2, FS_Subset, FS_CardinalityType
    <3>4. Cardinality(S) < PlanLimits[subscription.plan].businesses
      BY <2>4
    <3>5. subscription' = subscription
      BY <2>1
    <3>. HIDE DEF S, T
    <3>6. Cardinality(T) <= PlanLimits[subscription.plan].businesses
      BY <3>1, <3>2, <3>3, <3>4
    <3>. QED
      BY <3>5, <3>6 DEF T
  <2>. QED
    BY <1>0, <2>1, <2>6, SameUsage, PlanStays
<1>12. CASE SaveRejection(r)
  <2>. DEFINE b == req[r].on
  <2>1. /\ businesses' = [businesses EXCEPT ![b].status = "rejected"]
        /\ b \in Ids /\ businesses[b] # None
        /\ subscription' = subscription /\ queues' = queues
    BY <1>0, <1>12 DEF SaveRejection, At, Stands, account
  <2>. HIDE DEF b
  <2>2. businesses[b] \in BusinessRow
    BY <1>0, <2>1
  <2>3. businesses'[b].status = "rejected" /\ \A c \in Ids \ {b} : businesses'[c] = businesses[c]
    BY <1>0, <2>1, <2>2 DEF BusinessRow
  <2>4. Usage'.businesses \subseteq Usage.businesses
    BY <2>3 DEF Usage
  <2>. QED
    BY <1>0, <2>1, <2>4, SameUsage, PlanStays
<1>13. CASE SaveSubscription(r) /\ At(r, "changePlan", "save")
  <2>1. /\ queues' = queues /\ businesses' = businesses /\ Notes(req[r]) /\ subscription # None
    BY <1>0, <1>13 DEF SaveSubscription, At, Stands
  <2>2. /\ "subscription" \notin overlapped' /\ req[r].op = "changePlan"
    BY <1>13 DEF At
  <2>3. /\ req[r].write \in SubscriptionRow /\ subscription' = req[r].write
        /\ DOMAIN req[r].seen = Limited /\ SeenFits(req[r].seen, PlanLimits[req[r].write.plan])
    BY <1>0, <1>13 DEF SaveSubscription, At, Holds, Decided
  <2>4. \A t \in Limited : req[r].seen[t] = Usage[t]
    BY <2>1, <2>3, NotesTell
  <2>5. /\ req[r].seen["businesses"] = Usage.businesses /\ req[r].seen["queues"] = ActiveQueues
        /\ req[r].seen["windows"] = Usage.windows
    BY <2>4, UsageIs DEF Limited
  <2>6. /\ Cardinality(Usage.businesses) <= PlanLimits[subscription'.plan].businesses
        /\ Cardinality(ActiveQueues) <= PlanLimits[subscription'.plan].queues
        /\ \A k \in DOMAIN queues :
             Cardinality(Usage.windows[k]) <= PlanLimits[subscription'.plan].windows
    BY <2>3, <2>5, UsageIs DEF SeenFits
  <2>7. Usage' = Usage /\ ActiveQueues' = ActiveQueues
    BY <2>1 DEF Usage, ActiveQueues, ActiveWindows
  <2>. QED
    BY <2>6, <2>7 DEF Within, Fits
<1>14. CASE /\ ~SavesQueues(r) /\ ~CommitApproval(r) /\ ~SaveBusiness(r)
            /\ ~SaveRejection(r)
            /\ ~(SaveSubscription(r) /\ At(r, "changePlan", "save"))
  <2>1. queues' = queues
    BY <1>14, StepGrown
  <2>2. businesses' = businesses
    <3>1. Quiet \/ SaveLapse(r) \/ SaveSubscription(r) \/ CreateOrganization(r) \/ SaveOrganization(r)
      BY <1>14, QuietOrWrites DEF Writes
    <3>. QED
      BY <3>1 DEF Quiet, SaveLapse, SaveSubscription, CreateOrganization, SaveOrganization
  <2>3. subscription # None => subscription'.plan = subscription.plan
    <3>1. "subscription" \notin overlapped'
      OBVIOUS
    <3>. QED
      BY <1>14, <3>1, SubscriptionWritten
  <2>. QED
    BY <1>0, <2>1, <2>2, <2>3, SameUsage, SameBusinesses, PlanStays
<1>. QED
  BY <1>7, <1>8, <1>9, <1>10, <1>11, <1>12, <1>13, <1>14 DEF SavesQueues

-----------------------------------------------------------------------------
(* How a cancellation gets there.                                          *)

LEMMA StepsFrom ==
  ASSUME NEW r \in Requests, Step(r)
  PROVE  /\ req[r].pc \notin {"done", "failed"}
         /\ req[r].pc \in EnforcePcs => Enforce(r) \/ Abort(r)
<1>. DEFINE G == /\ req[r].pc \notin {"done", "failed"}
                 /\ req[r].pc \in EnforcePcs => Enforce(r) \/ Abort(r)
<1>1. req[r] = Unused => req[r].pc = "unused"
  BY DEF Unused
<1>2. Bill(r) => G
  BY <1>1 DEF Bill, BeginReadPlan, ReadPlan, SaveLapse, BeginActivate, BeginCancel, Edit, BeginCancelAgain,
         BeginChangePlan, CountQueues, CountWindows, CheckUsage, SaveSubscription, Start, At, EnforcePcs
<1>3. Enforce(r) => G
  BY DEF Enforce, ListQueues, DropQueue, ListWindows, TrimWindow, EnforcePcs
<1>4. Arrange(r) => G
  BY <1>1 DEF Arrange, BeginCreateQueue, BeginToggleQueue, BeginCreateWindow, BeginToggleWindow, CountUsage,
         SaveNew, SaveToggle, Start, At, EnforcePcs
<1>5. Enrol(r) => G
  BY <1>1 DEF Enrol, BeginRegister, CreateOrganization, SaveBusiness, BeginReject, SaveRejection, BeginApprove,
         FindQueue, CommitApproval, BeginOrganization, SaveOrganization, Start, At, EnforcePcs
<1>6. Abort(r) => G
  BY DEF Abort
<1>. QED
  BY <1>2, <1>3, <1>4, <1>5, <1>6 DEF Step

\* What a cancelled subscription lets happen to the queues: they only lose, and
\* a queue that has just opened gets its one window.
Shrinks ==
  /\ Grown /\ ActiveQueues' \subseteq ActiveQueues
  /\ \A k \in DOMAIN queues : \/ ActiveWindows(k)' \subseteq ActiveWindows(k)
                              \/ Cardinality(ActiveWindows(k)') <= BasicWindows

LEMMA CancelledShrinks ==
  ASSUME PInv1, NEW r \in Requests, Step(r), overlapped' = {}, IsCancelled
  PROVE  Shrinks
<1>0. Holds(req[r]) /\ Grown
  BY HeldFields, StepGrown
<1>1. ASSUME Notes(req[r]), req[r].pc = "save", Grows(req[r])
      PROVE  FALSE
  <2>1. req[r].row = subscription
    BY <1>1, AskedThePlan
  <2>2. req[r].row.status \notin Ended
    BY <1>0, <1>1 DEF Holds, Decided
  <2>. QED
    BY <2>1, <2>2 DEF IsCancelled, Ended
<1>2. CASE queues' = queues
  BY <1>0, <1>2, SameUsage DEF Shrinks
<1>3. CASE DropQueue(r) \/ TrimWindow(r)
  <2>1. ActiveQueues' \subseteq ActiveQueues
        /\ \A k \in DOMAIN queues : ActiveWindows(k)' \subseteq ActiveWindows(k)
    BY <1>3, DropDoes, TrimDoes DEF QueueOff, WindowOff, Beside
  <2>. QED
    BY <1>0, <2>1 DEF Shrinks
<1>4. CASE SaveNew(r)
  <2>1. Notes(req[r]) /\ At(r, "createQueue", "first")
    BY <1>1, <1>4 DEF SaveNew, At, Grows
  <2>2. PICK k \in DOMAIN queues, w \in Nat :
          k = req[r].queue /\ w \notin ActiveWindows(k) /\ WindowOn(k, w)
    BY <1>4, <2>1, NewDoes DEF At
  <2>3. "windows" \in DOMAIN req[r].seen /\ req[r].seen.windows[k] = {}
    BY <1>0, <2>1, <2>2 DEF At, Holds
  <2>4. ActiveWindows(k) = {}
    BY <2>1, <2>3, NotesTell, UsageIs
  <2>5. ActiveWindows(k)' = {w} /\ ActiveQueues' = ActiveQueues
        /\ \A j \in DOMAIN queues \ {k} : ActiveWindows(j)' = ActiveWindows(j)
    BY <2>2, <2>4 DEF WindowOn, Beside
  <2>6. Cardinality({w}) = 1 /\ BasicWindows \in Nat \ {0}
    BY FS_Singleton, Limits
  <2>7. Cardinality(ActiveWindows(k)') <= BasicWindows
    BY <2>5, <2>6
  <2>. QED
    BY <1>0, <2>5, <2>7 DEF Shrinks
<1>5. CASE SaveToggle(r)
  <2>1. ~req[r].active
    BY <1>1, <1>5 DEF SaveToggle, At, Grows
  <2>2. ActiveQueues' \subseteq ActiveQueues
        /\ \A k \in DOMAIN queues : ActiveWindows(k)' \subseteq ActiveWindows(k)
    BY <1>5, <2>1, ToggleDoes DEF QueueOff, WindowOff, Beside
  <2>. QED
    BY <1>0, <2>2 DEF Shrinks
<1>6. ~CommitApproval(r)
  BY <1>1 DEF CommitApproval, At, Grows
<1>. QED
  BY <1>2, <1>3, <1>4, <1>5, <1>6, StepGrown DEF SavesQueues

LEMMA FewerFit ==
  ASSUME NEW S, IsFiniteSet(S), NEW T \in SUBSET S, NEW n \in Nat, Cardinality(S) <= n
  PROVE  Cardinality(T) <= n
<1>1. Cardinality(T) <= Cardinality(S) /\ Cardinality(S) \in Nat /\ Cardinality(T) \in Nat
  BY FS_Subset, FS_CardinalityType
<1>. QED
  BY <1>1

LEMMA ClearedStays ==
  ASSUME PInv1, Shrinks, NEW CONSTANT left, Cleared(left)
  PROVE  Cleared(left)'
<1>0. /\ IsFiniteSet(ActiveQueues) /\ ActiveQueues \subseteq DOMAIN queues
      /\ \A k \in DOMAIN queues : IsFiniteSet(ActiveWindows(k))
      /\ BasicQueues \in Nat /\ BasicWindows \in Nat
  BY ActiveAreFinite, QueuesAreRows, Limits DEF PInv1, Typed
<1>1. Cardinality(ActiveQueues') <= BasicQueues
  BY <1>0, FewerFit DEF Shrinks, Cleared
<1>2. ASSUME NEW k \in ActiveQueues' \ left
      PROVE  Cardinality(ActiveWindows(k)') <= BasicWindows
  <2>1. k \in DOMAIN queues /\ k \in ActiveQueues \ left
    BY <1>0, <1>2 DEF Shrinks
  <2>2. Cardinality(ActiveWindows(k)) <= BasicWindows
    BY <2>1 DEF Cleared
  <2>3. ActiveWindows(k)' \subseteq ActiveWindows(k) => Cardinality(ActiveWindows(k)') <= BasicWindows
    BY <1>0, <2>1, <2>2, FewerFit
  <2>. QED
    BY <2>1, <2>3 DEF Shrinks
<1>. QED
  BY <1>1, <1>2 DEF Cleared, BasicQueues, BasicWindows

\* What a cancellation has reached, the steps of the others leave it.
LEMMA ProgressStays ==
  ASSUME PInv1, Shrinks, NEW CONSTANT q, q.pc = "trim" => q.queue \in DOMAIN queues, Progress(q)
  PROVE  Progress(q)'
<1>0. /\ \A k \in DOMAIN queues : IsFiniteSet(ActiveWindows(k)) /\ BasicWindows \in Nat
  BY ActiveAreFinite, Limits DEF PInv1, Typed
<1>1. q.pc = "drop" => Progress(q)'
  BY DEF Progress, Shrinks, BasicQueues
<1>2. q.pc = "windows" => Progress(q)'
  BY ClearedStays DEF Progress
<1>3. ASSUME q.pc = "trim"
      PROVE  Progress(q)'
  <2>1. PICK k \in DOMAIN queues : k = q.queue
    BY <1>3
  <2>2. Cleared(q.keep \cup {q.queue})'
    BY <1>3, ClearedStays DEF Progress
  <2>3. Cardinality(ActiveWindows(k) \ q.drop) <= BasicWindows
    BY <1>3, <2>1 DEF Progress
  <2>4. IsFiniteSet(ActiveWindows(k) \ q.drop)
    BY <1>0, FS_Subset
  <2>5. CASE ActiveWindows(k)' \subseteq ActiveWindows(k)
    <3>1. ActiveWindows(k)' \ q.drop \in SUBSET (ActiveWindows(k) \ q.drop)
      BY <2>5
    <3>2. Cardinality(ActiveWindows(k)' \ q.drop) <= BasicWindows
      BY <1>0, <2>3, <2>4, <3>1, FewerFit
    <3>. QED
      BY <1>3, <2>1, <2>2, <3>2 DEF Progress, BasicWindows
  <2>6. CASE Cardinality(ActiveWindows(k)') <= BasicWindows
    <3>1. IsFiniteSet(ActiveWindows(k)')
      <4>1. queues' \in Seq(QueueRow) /\ k \in DOMAIN queues'
        BY DEF Shrinks, Grown
      <4>2. \A n \in Nat : IsFiniteSet(1..n)
        BY FS_Interval
      <4>3. queues'[k] \in QueueRow
        BY <4>1, LenProperties, ElementOfSeq
      <4>4. queues'[k].windows \in Seq(BOOLEAN)
        BY <4>3 DEF QueueRow
      <4>5. IsFiniteSet(DOMAIN queues'[k].windows)
        BY <4>2, <4>4, LenProperties
      <4>6. ActiveWindows(k)' \in SUBSET DOMAIN queues'[k].windows
        BY DEF ActiveWindows
      <4>. QED
        BY <4>5, <4>6, FS_Subset
    <3>2. Cardinality(ActiveWindows(k)' \ q.drop) <= BasicWindows
      BY <1>0, <2>6, <3>1, FewerFit
    <3>. QED
      BY <1>3, <2>1, <2>2, <3>2 DEF Progress, BasicWindows
  <2>. QED
    BY <2>5, <2>6 DEF Shrinks
<1>4. q.pc = "done" => Progress(q)'
  BY ClearedStays DEF Progress
<1>. QED
  BY <1>1, <1>2, <1>3, <1>4 DEF Progress

\* And its own.
LEMMA ProgressGoes ==
  ASSUME PInv1, NEW r \in Requests, Enforce(r), req[r].op = "cancel",
         req[r].pc \in EnforcePcs, Progress(req[r])
  PROVE  /\ req'[r].op = "cancel" /\ req'[r].pc \in EnforcePcs \cup {"done"}
         /\ Progress(req[r])'
<1>0. /\ req[r] \in Request /\ Holds(req[r]) /\ Stands(req[r], organization, businesses, queues)
      /\ Step(r)
  BY HeldFields DEF Step
<1>1. Quiet => /\ ActiveQueues' = ActiveQueues /\ \A k : ActiveWindows(k)' = ActiveWindows(k)
               /\ \A left : Cleared(left) => Cleared(left)'
  BY DEF Quiet, ActiveQueues, ActiveWindows, Cleared, BasicQueues, BasicWindows
<1>2. CASE ListQueues(r)
  <2>. DEFINE keep == req'[r].keep
              drop == req'[r].drop
  <2>1. /\ Quiet /\ req'[r].op = "cancel" /\ req'[r].pc = IF drop = {} THEN "windows" ELSE "drop"
        /\ keep \cup drop = ActiveQueues /\ Cardinality(keep) <= BasicQueues /\ IsFiniteSet(keep)
    BY <1>2, ListGoes
  <2>2. ActiveQueues' = ActiveQueues
    BY <1>1, <2>1
  <2>3. CASE drop = {}
    <3>1. req'[r].pc = "windows" /\ keep = ActiveQueues'
      BY <2>1, <2>2, <2>3
    <3>2. Cleared(req[r].keep)'
      BY <2>1, <3>1 DEF Cleared, BasicQueues
    <3>. QED
      BY <2>1, <3>1, <3>2 DEF Progress, EnforcePcs
  <2>4. CASE drop # {}
    BY <2>1, <2>2, <2>4 DEF Progress, EnforcePcs, BasicQueues
  <2>. QED
    BY <2>3, <2>4
<1>3. CASE DropQueue(r)
  <2>1. PICK k \in req[r].drop :
          /\ QueueOff(k) /\ req[r].pc = "drop" /\ req'[r].op = "cancel"
          /\ req'[r].pc = IF req[r].drop = {k} THEN "windows" ELSE "drop"
          /\ req'[r].keep = req[r].keep /\ req'[r].drop = req[r].drop \ {k}
    BY <1>3, DropGoes
  <2>2. /\ ActiveQueues \subseteq req[r].keep \cup req[r].drop /\ Cardinality(req[r].keep) <= BasicQueues
        /\ IsFiniteSet(req[r].keep)
    BY <2>1 DEF Progress
  <2>3. ActiveQueues' \subseteq req'[r].keep \cup req'[r].drop
    BY <2>1, <2>2 DEF QueueOff
  <2>4. CASE req[r].drop = {k}
    <3>1. ActiveQueues' \in SUBSET req[r].keep /\ req'[r].pc = "windows"
      BY <2>1, <2>3, <2>4
    <3>2. Cardinality(ActiveQueues') <= BasicQueues
      BY <2>2, <3>1, FewerFit, Limits
    <3>3. Cleared(req[r].keep)'
      BY <2>1, <3>1, <3>2 DEF Cleared, BasicQueues
    <3>. QED
      BY <2>1, <3>1, <3>3 DEF Progress, EnforcePcs
  <2>5. CASE req[r].drop # {k}
    BY <2>1, <2>2, <2>3, <2>5 DEF Progress, EnforcePcs, BasicQueues
  <2>. QED
    BY <2>4, <2>5
<1>4. CASE ListWindows(r)
  <2>1. Quiet /\ req[r].pc = "windows" /\ req'[r].op = "cancel" /\ Cleared(req[r].keep)
    BY <1>4, WindowsGo DEF Progress
  <2>2. CASE req[r].keep = {} /\ req'[r].pc = "done"
    <3>1. Cleared({})'
      BY <1>1, <2>1, <2>2
    <3>. QED
      BY <2>1, <2>2, <3>1 DEF Progress, EnforcePcs
  <2>3. ASSUME NEW k \in req[r].keep, req'[r].pc = IF req'[r].drop = {} THEN "windows" ELSE "trim",
               req'[r].queue = k, req'[r].keep = req[r].keep \ {k},
               Cardinality(ActiveWindows(k) \ req'[r].drop) <= BasicWindows
        PROVE  req'[r].pc \in EnforcePcs \cup {"done"} /\ Progress(req[r])'
    <3>. DEFINE keep == req[r].keep
    <3>1. /\ Cardinality(ActiveQueues') <= BasicQueues
          /\ \A j \in ActiveQueues' \ keep : Cardinality(ActiveWindows(j)') <= BasicWindows
          /\ ActiveWindows(k)' = ActiveWindows(k)
      BY <1>1, <2>1 DEF Cleared
    <3>2. CASE req'[r].drop = {}
      <4>1. Cardinality(ActiveWindows(k)') <= BasicWindows
        <5>1. ActiveWindows(k) \ req'[r].drop = ActiveWindows(k)'
          BY <3>1, <3>2
        <5>. QED
          BY <2>3, <5>1
      <4>2. \A j \in ActiveQueues' \ req'[r].keep : Cardinality(ActiveWindows(j)') <= BasicWindows
        BY <2>3, <3>1, <4>1
      <4>3. Cleared(req[r].keep)'
        BY <3>1, <4>2 DEF Cleared, BasicQueues, BasicWindows
      <4>. QED
        BY <2>3, <3>2, <4>3 DEF Progress, EnforcePcs
    <3>3. CASE req'[r].drop # {}
      <4>1. Cleared(req[r].keep \cup {req[r].queue})'
        BY <2>3, <3>1 DEF Cleared, BasicQueues, BasicWindows
      <4>2. Cardinality(ActiveWindows(k)' \ req'[r].drop) <= BasicWindows
        BY <2>3, <3>1
      <4>3. ActiveWindows(req[r].queue)' = ActiveWindows(k)'
        BY <2>3 DEF ActiveWindows
      <4>. QED
        BY <2>3, <3>3, <4>1, <4>2, <4>3 DEF Progress, EnforcePcs, BasicWindows
    <3>. QED
      BY <3>2, <3>3
  <2>. QED
    BY <1>4, <2>1, <2>2, <2>3, WindowsGo
<1>5. CASE TrimWindow(r)
  <2>1. PICK k \in DOMAIN queues, w \in req[r].drop :
          /\ WindowOff(k, w) /\ k = req[r].queue /\ req[r].pc = "trim" /\ req'[r].op = "cancel"
          /\ req'[r].pc = IF req[r].drop = {w} THEN "windows" ELSE "trim"
          /\ req'[r].queue = k /\ req'[r].keep = req[r].keep /\ req'[r].drop = req[r].drop \ {w}
    BY <1>5, TrimGoes
  <2>2. /\ Cardinality(ActiveQueues) <= BasicQueues
        /\ \A j \in ActiveQueues \ (req[r].keep \cup {k}) : Cardinality(ActiveWindows(j)) <= BasicWindows
        /\ Cardinality(ActiveWindows(k) \ req[r].drop) <= BasicWindows
    BY <2>1 DEF Progress, Cleared
  <2>3. /\ ActiveQueues' = ActiveQueues /\ ActiveQueues \subseteq DOMAIN queues
        /\ \A j \in DOMAIN queues \ {k} : ActiveWindows(j)' = ActiveWindows(j)
        /\ ActiveWindows(k)' = ActiveWindows(k) \ {w}
    BY <2>1 DEF WindowOff, Beside, ActiveQueues
  <2>4. ActiveWindows(k)' \ req'[r].drop = ActiveWindows(k) \ req[r].drop
    BY <2>1, <2>3
  <2>5. \A j \in ActiveQueues' \ (req'[r].keep \cup {k}) : Cardinality(ActiveWindows(j)') <= BasicWindows
    BY <2>1, <2>2, <2>3
  <2>6. CASE req[r].drop = {w}
    <3>1. ActiveWindows(k)' \ req'[r].drop = ActiveWindows(k)'
      BY <2>1, <2>6
    <3>2. Cardinality(ActiveWindows(k)') <= BasicWindows
      BY <2>2, <2>4, <3>1
    <3>3. \A j \in ActiveQueues' \ req'[r].keep : Cardinality(ActiveWindows(j)') <= BasicWindows
      BY <2>5, <3>2
    <3>4. Cleared(req[r].keep)'
      BY <2>2, <2>3, <3>3 DEF Cleared, BasicQueues, BasicWindows
    <3>. QED
      BY <2>1, <2>6, <3>4 DEF Progress, EnforcePcs
  <2>7. CASE req[r].drop # {w}
    <3>1. Cleared(req[r].keep \cup {req[r].queue})'
      BY <2>1, <2>2, <2>3, <2>5 DEF Cleared, BasicQueues, BasicWindows
    <3>2. ActiveWindows(req[r].queue)' = ActiveWindows(k)'
      BY <2>1 DEF ActiveWindows
    <3>. QED
      BY <2>1, <2>2, <2>4, <2>7, <3>1, <3>2 DEF Progress, EnforcePcs, BasicWindows
  <2>. QED
    BY <2>6, <2>7
<1>. QED
  BY <1>2, <1>3, <1>4, <1>5 DEF Enforce

LEMMA OthersProgress ==
  ASSUME PInv1, NEW r \in Requests, Step(r), overlapped' = {}, IsCancelled,
         NEW s \in Requests \ {r}, Progress(req[s])
  PROVE  Progress(req[s])'
<1>1. req'[s] = req[s] /\ Shrinks /\ req[s] \in Request
      /\ Stands(req[s], organization, businesses, queues)
  BY OnlyMine, CancelledShrinks, HeldFields
<1>2. PICK q \in Request : q = req[s]
  BY <1>1
<1>3. Progress(q)'
  <2>1. Progress(q) /\ (q.pc = "trim" => q.queue \in DOMAIN queues)
    BY <1>1, <1>2 DEF Stands
  <2>. QED
    BY <1>1, <2>1, ProgressStays
<1>. QED
  BY <1>1, <1>2, <1>3 DEF Progress, Cleared, ActiveWindows

\* How a request comes to be cancelling, or done with an activation.
LEMMA ComesTo ==
  ASSUME PInv1, NEW r \in Requests, Step(r)
  PROVE  /\ Cancelling(r)' => \/ Enforce(r) /\ req[r].op = "cancel" /\ req[r].pc \in EnforcePcs
                              \/ req'[r].pc = "list" /\ BeginCancelAgain(r)
                              \/ req'[r].pc = "list" /\ At(r, "cancel", "save") /\ SaveSubscription(r)
         /\ At(r, "activate", "save") /\ SaveSubscription(r) => At(r, "activate", "done")'
<1>1. Enforce(r) => req'[r].op = req[r].op /\ req[r].pc \in EnforcePcs
  <2>1. ListQueues(r) => req'[r].op = req[r].op /\ req[r].pc \in EnforcePcs
    BY ListGoes DEF EnforcePcs
  <2>2. DropQueue(r) => req'[r].op = req[r].op /\ req[r].pc \in EnforcePcs
    BY DropGoes DEF EnforcePcs
  <2>3. ListWindows(r) => req'[r].op = req[r].op /\ req[r].pc \in EnforcePcs
    BY WindowsGo DEF EnforcePcs
  <2>4. TrimWindow(r) => req'[r].op = req[r].op /\ req[r].pc \in EnforcePcs
    BY TrimGoes DEF EnforcePcs
  <2>. QED
    BY <2>1, <2>2, <2>3, <2>4 DEF Enforce
<1>2. ASSUME At(r, "activate", "save"), SaveSubscription(r)
      PROVE  At(r, "activate", "done")'
  <2>. DEFINE q == [Unused EXCEPT !.op = req[r].op, !.pc = "done"]
  <2>1. Become(r, q) /\ req \in [Requests -> Request] /\ req[r].op = "activate"
    BY <1>2 DEF SaveSubscription, At, End, PInv1, Typed
  <2>2. q.op = "activate" /\ q.pc = "done"
    BY <2>1 DEF Unused
  <2>. HIDE DEF q
  <2>3. req'[r] = q
    BY <2>1 DEF Become
  <2>. QED
    BY <2>2, <2>3 DEF At
<1>3. Elsewhere(r) /\ Cancelling(r)' =>
        \/ req'[r].pc = "list" /\ BeginCancelAgain(r)
        \/ req'[r].pc = "list" /\ At(r, "cancel", "save") /\ SaveSubscription(r)
  BY DEF Elsewhere, Cancelling, EnforcePcs
<1>. QED
  BY <1>1, <1>2, <1>3, ElsewhereGoes DEF Cancelling

\* A cancellation that has come to "list" owes nothing yet.
LEMMA CancelledHere ==
  ASSUME PInv1, NEW r \in Requests, Step(r), overlapped' = {}, Cancelling(r)',
         Cancelling(r) => IsCancelled /\ Progress(req[r])
  PROVE  IsCancelled' /\ Progress(req[r])'
<1>0. /\ Holds(req[r]) /\ (subscription # None => subscription \in SubscriptionRow)
      /\ None \notin SubscriptionRow
  BY HeldFields
<1>1. CASE Enforce(r) /\ req[r].op = "cancel" /\ req[r].pc \in EnforcePcs
  <2>1. IsCancelled /\ Progress(req[r])
    BY <1>1 DEF Cancelling
  <2>2. Progress(req[r])'
    BY <1>1, <2>1, ProgressGoes
  <2>3. subscription' = subscription
    BY <1>1 DEF Enforce, ListQueues, DropQueue, ListWindows, TrimWindow, account
  <2>. QED
    BY <2>1, <2>2, <2>3 DEF IsCancelled
<1>2. ASSUME req'[r].pc = "list"
      PROVE  Progress(req[r])'
  BY <1>2 DEF Progress
<1>3. CASE req'[r].pc = "list" /\ BeginCancelAgain(r)
  BY <1>2, <1>3 DEF BeginCancelAgain, account, IsCancelled
<1>4. CASE req'[r].pc = "list" /\ At(r, "cancel", "save") /\ SaveSubscription(r)
  <2>1. subscription' = req[r].write /\ req[r].write \in SubscriptionRow
        /\ req[r].write.status = "cancelled"
    BY <1>0, <1>4 DEF At, SaveSubscription, Holds, Decided, Edits
  <2>. QED
    BY <1>0, <1>2, <1>4, <2>1 DEF IsCancelled
<1>. QED
  BY <1>1, <1>3, <1>4, ComesTo

LEMMA NextOnceCancelled ==
  ASSUME PInv1, OnceCancelled, NEW r \in Requests, Step(r)
  PROVE  OnceCancelled'
<1>. SUFFICES ASSUME overlapped' = {}, NotActivated', NEW s \in Requests, Cancelling(s)'
              PROVE  IsCancelled' /\ Progress(req[s])'
  BY DEF OnceCancelled
<1>1. overlapped = {}
  BY RowsTyped
<1>2. \A t \in Requests \ {r} : req'[t] = req[t]
  BY OnlyMine
<1>3. NotActivated
  <2>. SUFFICES ASSUME NEW t \in Requests, At(t, "activate", "done")
                PROVE  FALSE
    BY DEF NotActivated
  <2>1. t # r
    BY StepsFrom DEF At
  <2>2. At(t, "activate", "done")'
    BY <1>2, <2>1 DEF At
  <2>. QED
    BY <2>2 DEF NotActivated
<1>4. CASE s = r
  BY <1>1, <1>3, <1>4, CancelledHere DEF OnceCancelled
<1>5. CASE s # r
  <2>1. IsCancelled /\ Progress(req[s])
    BY <1>1, <1>2, <1>3, <1>5 DEF OnceCancelled, Cancelling
  <2>2. Progress(req[s])'
    BY <1>5, <2>1, OthersProgress
  <2>3. IsCancelled'
    <3>1. ~(SaveSubscription(r) /\ At(r, "activate", "save"))
      BY ComesTo DEF NotActivated
    <3>2. /\ subscription # None /\ subscription.status = "cancelled"
          /\ "subscription" \notin overlapped'
      BY <2>1 DEF IsCancelled
    <3>3. subscription'.status = "cancelled"
      BY <3>1, <3>2, SubscriptionWritten
    <3>4. subscription' # None
      BY <3>2, HeldFields, RowsTyped
    <3>. QED
      BY <3>3, <3>4 DEF IsCancelled
  <2>. QED
    BY <2>2, <2>3
<1>. QED
  BY <1>4, <1>5

LEMMA NextLastCancelled ==
  ASSUME PInv1, LastCancelled, NEW r \in Requests, Step(r)
  PROVE  LastCancelled'
<1>. DEFINE W(s) == /\ req[s].op = "cancel" /\ req[s].pc \in EnforcePcs \cup {"done", "failed"}
                    /\ Progress(req[s])
<1>. SUFFICES ASSUME overlapped' = {}, IsCancelled'
              PROVE  \E s \in Requests : W(s)'
  BY DEF LastCancelled
<1>1. overlapped = {}
  BY RowsTyped
<1>2. CASE IsCancelled
  <2>1. PICK s \in Requests : W(s)
    BY <1>1, <1>2 DEF LastCancelled
  <2>2. CASE s # r
    <3>1. Progress(req[s])'
      BY <1>2, <2>1, <2>2, OthersProgress
    <3>. QED
      BY <2>1, <2>2, <3>1, OnlyMine
  <2>3. CASE s = r /\ Enforce(r)
    <3>1. req[r].pc \in EnforcePcs
      BY <2>1, <2>3, StepsFrom
    <3>. QED
      BY <2>1, <2>3, <3>1, ProgressGoes
  <2>4. CASE s = r /\ Abort(r)
    <3>. DEFINE q == [Unused EXCEPT !.op = req[r].op, !.pc = "failed"]
    <3>1. Become(r, q) /\ req \in [Requests -> Request]
      BY <2>4 DEF Abort, End, PInv1, Typed
    <3>2. q.op = "cancel" /\ q.pc = "failed"
      BY <2>1, <2>4 DEF Unused
    <3>. HIDE DEF q
    <3>3. req'[r].op = "cancel" /\ req'[r].pc = "failed"
      BY <3>1, <3>2 DEF Become
    <3>4. W(r)'
      BY <3>3 DEF Progress
    <3>. QED
      BY <3>4
  <2>. QED
    BY <2>1, <2>2, <2>3, <2>4, StepsFrom
<1>3. CASE ~IsCancelled /\ subscription # None
  <2>1. /\ "subscription" \notin overlapped' /\ subscription.status # "cancelled"
        /\ subscription'.status = "cancelled"
    BY <1>3 DEF IsCancelled
  <2>2. req'[r].op = "cancel" /\ req'[r].pc = "list"
    BY <1>3, <2>1, SubscriptionWritten
  <2>3. W(r)'
    BY <2>2 DEF Progress, EnforcePcs
  <2>. QED
    BY <2>3
<1>4. CASE subscription = None
  <2>1. Stands(req[r], organization, businesses, queues) /\ organization = None
        /\ Holds(req[r])
        /\ \A b \in Ids : businesses[b] = None
    BY <1>4, HeldFields DEF PInv1, World
  <2>2. subscription' # None /\ subscription'.status = "cancelled"
    BY DEF IsCancelled
  <2>3. ~Quiet
    BY <1>4, <2>2 DEF Quiet
  <2>4. ~(SaveLapse(r) \/ SaveSubscription(r) \/ SavesQueues(r) \/ SaveOrganization(r)
          \/ SaveBusiness(r) \/ CommitApproval(r) \/ SaveRejection(r))
    BY <2>1 DEF SaveLapse, SaveSubscription, SavesQueues, DropQueue, TrimWindow, SaveNew, SaveToggle,
                SaveOrganization, SaveBusiness, CommitApproval, SaveRejection, At, Stands
  <2>5. CreateOrganization(r)
    BY <2>3, <2>4, QuietOrWrites DEF Writes
  <2>6. subscription' = subscription \/ subscription' = [status |-> "pending", plan |-> "basic"]
    BY <2>5 DEF CreateOrganization, NewSubscription
  <2>. QED
    BY <1>4, <2>2, <2>6
<1>. QED
  BY <1>2, <1>3, <1>4

\* The end of a trial and a step that is none touch nothing of this.
LEMMA OthersKeep ==
  ASSUME UNCHANGED <<subscription, businesses, queues, req, overlapped>>,
         KeepsSeen, KeepsActiveQueue, OnceCancelled, LastCancelled
  PROVE  KeepsSeen' /\ KeepsActiveQueue' /\ OnceCancelled' /\ LastCancelled'
<1>1. /\ ActiveQueues' = ActiveQueues
      /\ IsCancelled' = IsCancelled /\ NotActivated' = NotActivated
      /\ \A r \in Requests : Cancelling(r)' = Cancelling(r)
  BY DEF ActiveQueues, IsCancelled, NotActivated, Cancelling, At
<1>2. ASSUME NEW r \in Requests
      PROVE  Progress(req[r])' = Progress(req[r])
  BY DEF Progress, Cleared, ActiveQueues, ActiveWindows, BasicQueues, BasicWindows
<1>3. KeepsSeen' /\ KeepsActiveQueue'
  BY <1>1 DEF KeepsSeen, KeepsActiveQueue
<1>4. OnceCancelled'
  BY <1>1, <1>2 DEF OnceCancelled
<1>5. LastCancelled'
  BY <1>1, <1>2 DEF LastCancelled
<1>. QED
  BY <1>3, <1>4, <1>5

LEMMA InitPInv ==
  ASSUME Init
  PROVE  PInv
<1>1. overlapped = {} /\ \A r \in Requests : req[r].op = None /\ req[r].pc = "unused"
  BY UnusedFields DEF Init
<1>2. ~IsCancelled
  <2>1. \/ subscription = None \/ subscription = [status |-> "pending", plan |-> "basic"]
        \/ subscription = [status |-> "trial", plan |-> "basic"]
        \/ subscription \in [status : {"trial", "active"}, plan : {"pro"}]
        \/ subscription = [status |-> "active", plan |-> "premium"]
    BY DEF Init
  <2>2. \A row \in [status : {"trial", "active"}, plan : {"pro"}] : row.status \in {"trial", "active"}
    OBVIOUS
  <2>. QED
    BY <2>1, <2>2 DEF IsCancelled
<1>3. KeepsSeen /\ OnceCancelled /\ LastCancelled
  BY <1>1, <1>2 DEF KeepsSeen, OnceCancelled, LastCancelled, Cancelling, EnforcePcs
<1>. QED
  BY <1>3, InitPInv1, FirstQueues DEF PInv, KeepsActiveQueue

LEMMA NextPInv ==
  ASSUME PInv, [Next]_vars
  PROVE  PInv'
<1>1. PInv1'
  BY NextPInv1 DEF PInv
<1>2. ASSUME NEW r \in Requests, Step(r)
      PROVE  KeepsSeen' /\ KeepsActiveQueue' /\ OnceCancelled' /\ LastCancelled'
  BY <1>2, NextKeepsSeen, NextKeepsActive, NextOnceCancelled, NextLastCancelled DEF PInv
<1>3. CASE TrialEnds \/ UNCHANGED vars
  <2>1. UNCHANGED <<subscription, businesses, queues, req, overlapped>>
    BY <1>3 DEF TrialEnds, vars, history
  <2>. QED
    BY <1>1, <2>1, OthersKeep DEF PInv
<1>. QED
  BY <1>1, <1>2, <1>3 DEF Next, Step, PInv

\* Either nobody activated, and the cancellation that has answered is as far as
\* it says; or none is unfinished, and the last one is.
LEMMA RestoredByCancellation ==
  ASSUME PInv
  PROVE  EnforcementRestores
<1>. SUFFICES ASSUME overlapped = {}, IsCancelled,
                     NEW r \in Requests, At(r, "cancel", "done"),
                     \/ NotActivated
                     \/ \A s \in Requests : req[s].op = "cancel" => req[s].pc = "done"
              PROVE  Cleared({})
  BY DEF EnforcementRestores, IsCancelled, NotActivated, Cleared, BasicQueues, BasicWindows
<1>1. CASE NotActivated
  <2>1. Progress(req[r])
    BY <1>1 DEF PInv, OnceCancelled, Cancelling, At
  <2>. QED
    BY <2>1 DEF Progress, At
<1>2. CASE \A s \in Requests : req[s].op = "cancel" => req[s].pc = "done"
  <2>1. PICK s \in Requests : req[s].op = "cancel" /\ Progress(req[s])
    BY DEF PInv, LastCancelled
  <2>. QED
    BY <1>2, <2>1 DEF Progress
<1>. QED
  BY <1>1, <1>2

-----------------------------------------------------------------------------
(* The theorems.                                                           *)

\* What the requests hold, how far each cancellation has come, and that a
\* queue stays active, is so in every reachable state.
THEOREM PlansInductive == Spec => []PInv
<1>1. Init => PInv
  BY InitPInv
<1>2. PInv /\ [Next]_vars => PInv'
  BY NextPInv
<1>. QED
  BY <1>1, <1>2, PTL DEF Spec

\* Every table and every request has the shape its module gives it.
THEOREM PlansTypeCorrect == Spec => []TypeOK
<1>1. PInv => TypeOK
  BY PInv1Tells DEF PInv
<1>. QED
  BY <1>1, PlansInductive, PTL

\* All the businesses an owner registers belong to one organization.
THEOREM OneOrganizationHolds == Spec => []OneOrganization
<1>1. PInv => OneOrganization
  BY PInv1Tells DEF PInv
<1>. QED
  BY <1>1, PlansInductive, PTL

\* An approved business keeps an active queue, unless the queues changed between
\* a request's read and its save.
THEOREM KeepsActiveHolds == Spec => []KeepsActiveQueue
<1>1. PInv => KeepsActiveQueue
  BY DEF PInv
<1>. QED
  BY <1>1, PlansInductive, PTL

\* A cancellation that has answered has brought the business back to the basic
\* plan, also after attempts that failed half way.
THEOREM EnforcementHolds == Spec => []EnforcementRestores
<1>1. PInv => EnforcementRestores
  BY RestoredByCancellation
<1>. QED
  BY <1>1, PlansInductive, PTL

\* Only a cancellation ends what has been paid for.
THEOREM ActivationHolds == Spec => ActivationStands
<1>1. PInv /\ [Next]_vars =>
        [subscription # None /\ subscription.status = "active" /\ subscription'.status # "active" =>
           \/ "subscription" \in overlapped'
           \/ \E r \in Requests : At(r, "cancel", "save") /\ req'[r].pc = "list"]_vars
  BY ActivationStep DEF PInv
<1>. QED
  BY <1>1, PlansInductive, PTL DEF Spec, ActivationStands

\* Nothing grows past the plan, as long as no save was decided by what had
\* changed meanwhile.
THEOREM GrowthHolds == Spec => GrowsWithinPlan
<1>1. ASSUME PInv, [Next]_vars, overlapped' = {}, subscription' # None
      PROVE  Within
  <2>1. ASSUME NEW r \in Requests, Step(r)
        PROVE  Within
    BY <1>1, <2>1, GrowStep DEF PInv
  <2>2. CASE TrialEnds \/ UNCHANGED vars
    <3>1. UNCHANGED <<subscription, businesses, queues>>
      BY <2>2 DEF TrialEnds, vars
    <3>2. Usage' = Usage /\ ActiveQueues' = ActiveQueues
      BY <3>1 DEF Usage, ActiveQueues, ActiveWindows
    <3>. QED
      BY <3>1, <3>2 DEF Within, Fits
  <2>. QED
    BY <1>1, <2>1, <2>2 DEF Next, Step
<1>2. PInv /\ [Next]_vars =>
        [overlapped' = {} /\ subscription' # None =>
           LET limit   == PlanLimits[subscription'.plan]
               changed == subscription # None /\ subscription'.plan # subscription.plan
               kept(S) == IF changed THEN {} ELSE S
           IN  /\ readmitted' \/ Fits(Usage'.businesses, kept(Usage.businesses), limit.businesses)
               /\ Fits(ActiveQueues', kept(ActiveQueues), limit.queues)
               /\ \A k \in DOMAIN queues :
                    Fits(Usage'.windows[k], kept(Usage.windows[k]), limit.windows)]_vars
  BY <1>1 DEF Within
<1>. QED
  BY <1>2, PlansInductive, PTL DEF Spec, GrowsWithinPlan
=============================================================================
