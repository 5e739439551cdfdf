---------------------------- MODULE AdmissionProofs --------------------------
(***************************************************************************)
(* Proofs about what one gateway process hands out.                        *)
(*                                                                         *)
(* BatchShutdown, for every capacity, any set of requests and any backlog: *)
(* permits are conserved, every execution is tracked until shutdown has    *)
(* joined it, an admitted request is refused only after the deadline, and  *)
(* a shutdown that holds every permit cuts no execution.                   *)
(*                                                                         *)
(* ObservationSink, for every number of calls and every limit: the         *)
(* directory of observations is evidence at every moment.                  *)
(*                                                                         *)
(* LiveHandshake, for every set of clients, number of slots, bound, frame  *)
(* and text: provider sessions are covered by live slots, and what one     *)
(* side of the handshake lets through the next side reads as it was meant. *)
(***************************************************************************)
EXTENDS BatchShutdown, ObservationSink, LiveHandshake, DataLemmas

(* PART ONE: batch permits and shutdown *)
-----------------------------------------------------------------------------
(* The inductive invariant *)

\* The actors that hold a permit of a kind, and the permits that exist.
Holders(k) == {t \in Actors : k \in Holds(t)}
Total(k) == IF k = "provider" THEN ProviderCapacity ELSE Capacity

\* Conservation, with the finiteness that makes the cardinality meaningful.
Conserved ==
    \A k \in Kinds :
        /\ IsFiniteSet(Holders(k))
        /\ free[k] + Cardinality(Holders(k)) + (IF k = "global" THEN gathered ELSE 0) = Total(k)

\* A request never waits and the worker never passes through a handler.
PcInv ==
    /\ \A r \in Requests : pc[r] \notin {"enter", "wait", "verify"}
    /\ pc[Worker] \notin {"try", "recheck", "admit", "spawn"}
    /\ pc[Worker] \notin {"new", "over"} => left > 0

QueueInv ==
    /\ Waiting(Worker) <=> pc[Worker] = "wait"
    /\ Waiting(Shutdown) => stage = "quiesce" /\ gathered < Capacity

\* What each stage of shutdown has already done.
StageInv ==
    /\ accepting <=> stage = "serving"
    /\ closed <=> stage \in {"take", "drain", "join", "stopped"}
    /\ stage \notin {"drain", "join", "stopped"} => draining = {}
    /\ stage \in {"drain", "join", "stopped"} => registry = {}
    /\ stage \in {"serving", "signalled"} => gathered = 0
    /\ stage \in {"close", "take", "drain", "join"} => gathered = Capacity \/ expired
    /\ stage = "stopped" => \A t \in draining : pc[t] = "over"

TrackInv == \A t \in Actors : Running(t) => t \in registry \cup draining

\* Once registration is closed in time, no handler is between its permit and
\* its spawn, and none can get there again.
LateInv ==
    /\ closed /\ ~expired =>
        \A r \in Requests : pc[r] \notin {"batch", "provider", "admit", "spawn"}
    /\ refused # {} => expired

ShutdownInv ==
    /\ TypeOK /\ Conserved /\ PcInv /\ QueueInv /\ StageInv /\ TrackInv /\ LateInv

-----------------------------------------------------------------------------
(* The waiters of the global semaphore *)

LEMMA QueueKept ==
    ASSUME UNCHANGED queue
    PROVE  \A w : Waiting(w)' <=> Waiting(w)
BY DEF Waiting

LEMMA AppendOne ==
    ASSUME NEW a, NEW b
    PROVE  Append(<<a>>, b) = <<a, b>>
<1> DEFINE s == Append(<<a>>, b)
<1> DEFINE T == {a, b}
<1>1. <<a>> \in Seq(T)
  OBVIOUS
<1>2. s \in Seq(T) /\ Len(s) = 2 /\ s[1] = a /\ s[2] = b
  BY <1>1, AppendProperties
<1>3. <<a, b>> \in Seq(T) /\ Len(<<a, b>>) = 2 /\ <<a, b>>[1] = a /\ <<a, b>>[2] = b
  OBVIOUS
<1>4. \A i \in 1 .. 2 : s[i] = <<a, b>>[i]
  BY <1>2, <1>3
<1> HIDE DEF s, T
<1>5. QED
  BY <1>2, <1>3, <1>4, SeqEqual DEF s

\* A waiter that was not in the queue goes to its end.
LEMMA QueueJoined ==
    ASSUME queue \in Queues, NEW w \in {Worker, Shutdown}, ~Waiting(w), queue' = Append(queue, w)
    PROVE  queue' \in Queues /\ \A v : Waiting(v)' <=> Waiting(v) \/ v = w
<1> USE ActorAssumption DEF Waiting
<1>1. CASE queue = <<>>
  BY <1>1 DEF Queues
<1>2. CASE queue = <<Worker>>
  <2>1. w = Shutdown
    BY <1>2
  <2>2. queue' = <<Worker, Shutdown>>
    BY <1>2, <2>1, AppendOne
  <2>3. queue' \in Queues
    BY <2>2 DEF Queues
  <2>4. \A v : Waiting(v)' <=> v = Worker \/ v = Shutdown
    BY <2>2
  <2>5. \A v : Waiting(v) <=> v = Worker
    BY <1>2
  <2>6. QED
    BY <2>1, <2>3, <2>4, <2>5
<1>3. CASE queue = <<Shutdown>>
  <2>1. w = Worker
    BY <1>3
  <2>2. queue' = <<Shutdown, Worker>>
    BY <1>3, <2>1, AppendOne
  <2>3. queue' \in Queues
    BY <2>2 DEF Queues
  <2>4. \A v : Waiting(v)' <=> v = Shutdown \/ v = Worker
    BY <2>2
  <2>5. \A v : Waiting(v) <=> v = Shutdown
    BY <1>3
  <2>6. QED
    BY <2>1, <2>3, <2>4, <2>5
<1>4. CASE queue = <<Worker, Shutdown>>
  BY <1>4
<1>5. CASE queue = <<Shutdown, Worker>>
  BY <1>5
<1>6. QED
  BY <1>1, <1>2, <1>3, <1>4, <1>5 DEF Queues

\* A waiter leaves it from any place.
LEMMA QueueLeft ==
    ASSUME queue \in Queues, NEW w, queue' = QueueWithout(w)
    PROVE  queue' \in Queues /\ \A v : Waiting(v)' <=> Waiting(v) /\ v # w
<1> USE ActorAssumption DEF Waiting, QueueWithout
<1>1. CASE queue = <<>>
  BY <1>1 DEF Queues
<1>2. CASE queue = <<Worker>>
  BY <1>2 DEF Queues
<1>3. CASE queue = <<Shutdown>>
  BY <1>3 DEF Queues
<1>4. CASE queue = <<Worker, Shutdown>>
  BY <1>4 DEF Queues
<1>5. CASE queue = <<Shutdown, Worker>>
  BY <1>5 DEF Queues
<1>6. QED
  BY <1>1, <1>2, <1>3, <1>4, <1>5 DEF Queues

\* The first waiter is served.
LEMMA QueueServed ==
    ASSUME queue \in Queues, queue # <<>>
    PROVE  /\ Head(queue) \in {Worker, Shutdown} /\ Waiting(Head(queue))
           /\ Tail(queue) = QueueWithout(Head(queue))
<1> USE ActorAssumption DEF Waiting, QueueWithout
<1>1. CASE queue = <<Worker>>
  BY <1>1
<1>2. CASE queue = <<Shutdown>>
  BY <1>2
<1>3. CASE queue = <<Worker, Shutdown>>
  BY <1>3
<1>4. CASE queue = <<Shutdown, Worker>>
  BY <1>4
<1>5. QED
  BY <1>1, <1>2, <1>3, <1>4 DEF Queues

-----------------------------------------------------------------------------
(* Counting permits *)

\* The permits an actor holds, as a function of where it is.
HeldAt(w) ==
    CASE w \in {"recheck", "batch"}                  -> {"global"}
      [] w = "provider"                              -> {"global", "batch"}
      [] w \in {"admit", "spawn", "verify", "run"}   -> Kinds
      [] w = "drop"                                  -> {"batch", "provider"}
      [] OTHER                                       -> {}

LEMMA HoldsAt ==
    ASSUME NEW t
    PROVE  Holds(t) = HeldAt(pc[t]) /\ Holds(t)' = HeldAt(pc'[t])
BY DEF Holds, HeldAt

LEMMA Totals ==
    ASSUME NEW k \in Kinds
    PROVE  Total(k) \in 0 .. Capacity
BY CapacityAssumption DEF Total, ProviderCapacity

LEMMA Counted ==
    ASSUME Conserved, NEW k \in Kinds
    PROVE  Cardinality(Holders(k)) \in Nat
BY FS_CardinalityType DEF Conserved

\* The books bound what is free and what shutdown has gathered.
LEMMA Ranges ==
    ASSUME Conserved', free' \in [Kinds -> Nat], gathered' \in Nat
    PROVE  free' \in [Kinds -> 0 .. Capacity] /\ gathered' \in 0 .. Capacity
<1>1. \A k \in Kinds : Cardinality(Holders(k)') \in Nat
  BY FS_CardinalityType DEF Conserved
<1>2. \A k \in Kinds : free'[k] \in 0 .. Capacity
  BY <1>1, Totals, CapacityAssumption DEF Conserved
<1>3. gathered' \in 0 .. Capacity
  <2>1. "global" \in Kinds
    BY DEF Kinds
  <2>2. QED
    BY <1>1, <2>1, Totals, CapacityAssumption DEF Conserved
<1>4. QED
  BY <1>2, <1>3

\* While shutdown has gathered every permit, nobody else holds a global one.
LEMMA Quiet ==
    ASSUME TypeOK, Conserved, gathered = Capacity
    PROVE  \A t \in Actors : "global" \notin Holds(t)
<1>1. "global" \in Kinds
  BY DEF Kinds
<1>2. free["global"] \in Nat /\ Cardinality(Holders("global")) \in Nat
  BY <1>1, Counted DEF TypeOK
<1>3. free["global"] + Cardinality(Holders("global")) + gathered = Capacity
  BY <1>1 DEF Conserved, Total
<1>4. Cardinality(Holders("global")) = 0
  BY <1>2, <1>3, CapacityAssumption
<1>5. Holders("global") = {}
  BY <1>1, <1>4, FS_EmptySet DEF Conserved
<1>6. QED
  BY <1>5 DEF Holders

\* An actor that moves, exchanging its permits for those of its new place,
\* keeps the books balanced.
LEMMA Moves ==
    ASSUME TypeOK, Conserved, NEW t \in Actors, NEW w \in Pc,
           pc' = [pc EXCEPT ![t] = w], UNCHANGED gathered,
           \A k \in Kinds : free'[k] = free[k] + (IF k \in HeldAt(pc[t]) THEN 1 ELSE 0)
                                             - (IF k \in HeldAt(w) THEN 1 ELSE 0)
    PROVE  Conserved'
<1> SUFFICES ASSUME NEW k \in Kinds
             PROVE  /\ IsFiniteSet(Holders(k)')
                    /\ free'[k] + Cardinality(Holders(k)')
                        + (IF k = "global" THEN gathered' ELSE 0) = Total(k)
  BY DEF Conserved, Total
<1>1. IsFiniteSet(Holders(k)) /\ Cardinality(Holders(k)) \in Nat
  BY Counted DEF Conserved
<1>2. free[k] \in Int /\ gathered \in Int /\ pc'[t] = w
  BY CapacityAssumption DEF TypeOK
<1>3. \A u \in Actors \ {t} : Holds(u)' = Holds(u)
  BY HoldsAt DEF TypeOK
<1>4. Holds(t) = HeldAt(pc[t]) /\ Holds(t)' = HeldAt(w)
  BY HoldsAt, <1>2
<1>7. free[k] + Cardinality(Holders(k)) + (IF k = "global" THEN gathered ELSE 0) = Total(k)
  BY DEF Conserved
<1>5. CASE k \in HeldAt(w)
  <2>1. Holders(k)' = Holders(k) \cup {t}
    BY <1>3, <1>4, <1>5 DEF Holders, Actors
  <2>2. t \in Holders(k) <=> k \in HeldAt(pc[t])
    BY <1>4 DEF Holders
  <2>3. /\ IsFiniteSet(Holders(k)')
        /\ Cardinality(Holders(k)') =
             Cardinality(Holders(k)) + (IF k \in HeldAt(pc[t]) THEN 0 ELSE 1)
    BY <1>1, <2>1, <2>2, FS_AddElement
  <2>4. QED
    BY <1>1, <1>2, <1>5, <1>7, <2>3
<1>6. CASE k \notin HeldAt(w)
  <2>1. Holders(k)' = Holders(k) \ {t}
    BY <1>3, <1>4, <1>6 DEF Holders, Actors
  <2>2. t \in Holders(k) <=> k \in HeldAt(pc[t])
    BY <1>4 DEF Holders
  <2>3. /\ IsFiniteSet(Holders(k)')
        /\ Cardinality(Holders(k)') =
             Cardinality(Holders(k)) - (IF k \in HeldAt(pc[t]) THEN 1 ELSE 0)
    BY <1>1, <2>1, <2>2, FS_RemoveElement
  <2>4. QED
    BY <1>1, <1>2, <1>6, <1>7, <2>3
<1>8. QED
  BY <1>5, <1>6

\* The books are about positions and counters only.
LEMMA Stays ==
    ASSUME Conserved, UNCHANGED pc,
           \A k \in Kinds :
              free'[k] + (IF k = "global" THEN gathered' ELSE 0)
                = free[k] + (IF k = "global" THEN gathered ELSE 0),
           TypeOK, gathered' \in Int, \A k \in Kinds : free'[k] \in Int
    PROVE  Conserved'
<1>1. \A k \in Kinds : Holders(k)' = Holders(k)
  BY DEF Holders, Holds
<1>2. \A k \in Kinds : Cardinality(Holders(k)) \in Nat
  BY Counted
<1>3. QED
  BY <1>1, <1>2, CapacityAssumption DEF Conserved, TypeOK, Total

\* The three ways to move: with the same permits, giving all of them up, and
\* with one more.
LEMMA MovesAlong ==
    ASSUME TypeOK, Conserved, NEW t \in Actors, NEW w \in Pc, HeldAt(w) = HeldAt(pc[t]),
           Goto(t, w), UNCHANGED <<free, gathered>>
    PROVE  Conserved'
<1>1. \A k \in Kinds : free[k] \in Int
  BY CapacityAssumption DEF TypeOK
<1>2. \A k \in Kinds : free'[k] = free[k] + (IF k \in HeldAt(pc[t]) THEN 1 ELSE 0)
                                           - (IF k \in HeldAt(w) THEN 1 ELSE 0)
  BY <1>1
<1>3. QED
  BY <1>2, Moves DEF Goto

LEMMA MovesFree ==
    ASSUME TypeOK, Conserved, NEW t \in Actors, NEW w \in Pc, HeldAt(w) = {},
           LetGo(t, w), UNCHANGED gathered
    PROVE  Conserved' /\ free' \in [Kinds -> 0 .. Capacity]
<1>1. free' \in [Kinds -> Nat] /\ \A k \in Kinds : free[k] \in Int
  BY CapacityAssumption DEF TypeOK, LetGo, Returning
<1>2. \A k \in Kinds : free'[k] = free[k] + (IF k \in HeldAt(pc[t]) THEN 1 ELSE 0)
                                           - (IF k \in HeldAt(w) THEN 1 ELSE 0)
  BY <1>1, HoldsAt DEF LetGo, Returning
<1>3. Conserved'
  BY <1>2, Moves DEF LetGo
<1>4. gathered' \in Nat
  BY DEF TypeOK
<1>5. QED
  BY <1>1, <1>3, <1>4, Ranges

LEMMA MovesTaking ==
    ASSUME TypeOK, Conserved, NEW t \in Actors, NEW w \in Pc, NEW kind \in Kinds,
           kind \notin HeldAt(pc[t]), HeldAt(w) = HeldAt(pc[t]) \cup {kind},
           Take(t, kind, w), UNCHANGED gathered
    PROVE  Conserved' /\ free' \in [Kinds -> 0 .. Capacity]
<1>1. \A k \in Kinds : free[k] \in Nat
  BY CapacityAssumption DEF TypeOK
<1>2. free' \in [Kinds -> Nat]
  BY <1>1 DEF Take, Without
<1>3. \A k \in Kinds : free'[k] = free[k] + (IF k \in HeldAt(pc[t]) THEN 1 ELSE 0)
                                           - (IF k \in HeldAt(w) THEN 1 ELSE 0)
  BY <1>1 DEF Take, Without
<1>4. Conserved'
  BY <1>3, Moves DEF Take
<1>5. gathered' \in Nat
  BY DEF TypeOK
<1>6. QED
  BY <1>2, <1>4, <1>5, Ranges

-----------------------------------------------------------------------------
(* Each step keeps the invariant.  The books are settled by the lemmas above; *)
(* what is left is where the actors are and what shutdown has done.           *)

USE DEF stopVars, history, taskVars, semVars

Places == PcInv /\ QueueInv /\ StageInv /\ TrackInv /\ LateInv

Reserving == {"batch", "provider", "admit", "spawn"}

\* A handler that moves on starts reserving only while work is accepted, and
\* a request starts to run only through its spawn.
LEMMA RequestMoves ==
    ASSUME ShutdownInv, NEW r \in Requests, NEW w \in Pc \ {"enter", "wait", "verify"},
           pc' = [pc EXCEPT ![r] = w], UNCHANGED <<left, queue, gathered, stopVars, refused>>,
           pc[r] # "over",
           w \in {"run", "drop"} => pc[r] \in {"run", "drop"},
           w \in Reserving => accepting \/ pc[r] \in Reserving
    PROVE  Places'
<1> USE ActorAssumption DEF ShutdownInv
<1>1. r \in Actors /\ r # Worker
  BY DEF Actors
<1>2. \A t \in Actors : pc'[t] = IF t = r THEN w ELSE pc[t]
  BY <1>1 DEF TypeOK
<1>3. Worker \in Actors /\ Requests \subseteq Actors /\ draining \subseteq Actors
  BY DEF Actors, TypeOK
<1>4. PcInv' /\ StageInv'
  BY <1>1, <1>2, <1>3 DEF PcInv, StageInv
<1>5. TrackInv'
  BY <1>1, <1>2, <1>3 DEF TrackInv, Running
<1>6. LateInv'
  BY <1>1, <1>2, <1>3 DEF LateInv, StageInv, Reserving
<1>7. QueueInv'
  BY <1>1, <1>2, <1>3, QueueKept DEF QueueInv
<1>8. QED
  BY <1>4, <1>5, <1>6, <1>7 DEF Places

\* The worker is registered for as long as it lives; it moves between places
\* of its own.
LEMMA WorkerMoves ==
    ASSUME ShutdownInv, NEW w \in Pc \ {"try", "recheck", "admit", "spawn"},
           pc' = [pc EXCEPT ![Worker] = w], UNCHANGED <<gathered, stopVars, refused>>,
           pc[Worker] # "over", w \notin {"new", "over"} => left' > 0,
           Waiting(Worker)' <=> w = "wait", Waiting(Shutdown)' <=> Waiting(Shutdown)
    PROVE  Places'
<1> USE ActorAssumption DEF ShutdownInv
<1>1. Worker \in Actors /\ Requests \subseteq Actors /\ draining \subseteq Actors
  BY DEF Actors, TypeOK
<1>2. \A t \in Actors : pc'[t] = IF t = Worker THEN w ELSE pc[t]
  BY <1>1 DEF TypeOK
<1>3. PcInv' /\ StageInv'
  BY <1>1, <1>2 DEF PcInv, StageInv
<1>4. TrackInv'
  BY <1>1, <1>2 DEF TrackInv, Running
<1>5. LateInv'
  BY <1>1, <1>2 DEF LateInv
<1>6. QueueInv'
  BY <1>1, <1>2 DEF QueueInv
<1>7. QED
  BY <1>3, <1>4, <1>5, <1>6 DEF Places

LEMMA SPostArrives ==
    ASSUME ShutdownInv, NEW r \in Requests, PostArrives(r)
    PROVE  ShutdownInv'
<1> USE ActorAssumption, CapacityAssumption DEF ShutdownInv, PostArrives
<1> DEFINE w == IF accepting THEN "try" ELSE "over"
<1>0. r \in Actors /\ w \in Pc /\ w \in {"try", "over"} /\ Goto(r, w) /\ HeldAt(w) = HeldAt(pc[r])
  BY DEF Actors, Pc, HeldAt
<1> HIDE DEF w
<1>1. Conserved'
  BY <1>0, MovesAlong
<1>2. TypeOK'
  BY <1>0 DEF TypeOK, Goto
<1>3. Places'
  BY <1>0, RequestMoves DEF Goto, Reserving
<1>4. QED
  BY <1>1, <1>2, <1>3 DEF Places

LEMMA SPostAcquires ==
    ASSUME ShutdownInv, NEW r \in Requests, PostAcquires(r)
    PROVE  ShutdownInv'
<1> USE ActorAssumption, CapacityAssumption DEF ShutdownInv, PostAcquires
<1>0. r \in Actors /\ "recheck" \in Pc /\ "over" \in Pc /\ "global" \in Kinds /\ Kinds = {"global", "batch", "provider"}
  BY DEF Actors, Pc, Kinds
<1>1. Conserved' /\ free' \in [Kinds -> 0 .. Capacity]
  <2>1. CASE Take(r, "global", "recheck")
    BY <1>0, <2>1, MovesTaking DEF HeldAt, TypeOK
  <2>2. CASE Goto(r, "over") /\ UNCHANGED free
    BY <1>0, <2>2, MovesAlong DEF HeldAt, TypeOK
  <2>3. QED
    BY <2>1, <2>2
<1>2. TypeOK'
  BY <1>0, <1>1 DEF TypeOK, Goto, Take
<1>3. Places'
  <2>1. CASE Take(r, "global", "recheck")
    BY <1>0, <2>1, RequestMoves DEF Goto, Take, Reserving
  <2>2. CASE Goto(r, "over") /\ UNCHANGED free
    BY <1>0, <2>2, RequestMoves DEF Goto, Take, Reserving
  <2>3. QED
    BY <2>1, <2>2
<1>4. QED
  BY <1>1, <1>2, <1>3 DEF Places

LEMMA SPostRechecks ==
    ASSUME ShutdownInv, NEW r \in Requests, PostRechecks(r)
    PROVE  ShutdownInv'
<1> USE ActorAssumption, CapacityAssumption DEF ShutdownInv, PostRechecks
<1>0. r \in Actors /\ "batch" \in Pc /\ "over" \in Pc /\ "global" \in Kinds /\ Kinds = {"global", "batch", "provider"}
  BY DEF Actors, Pc, Kinds
<1>1. Conserved' /\ free' \in [Kinds -> 0 .. Capacity]
  <2>1. CASE accepting /\ Goto(r, "batch") /\ UNCHANGED free
    BY <1>0, <2>1, MovesAlong DEF HeldAt, TypeOK
  <2>2. CASE LetGo(r, "over")
    BY <1>0, <2>2, MovesFree DEF HeldAt, TypeOK
  <2>3. QED
    BY <2>1, <2>2
<1>2. TypeOK'
  BY <1>0, <1>1 DEF TypeOK, Goto, LetGo
<1>3. Places'
  <2>1. CASE accepting /\ Goto(r, "batch") /\ UNCHANGED free
    BY <1>0, <2>1, RequestMoves DEF Goto, LetGo, Reserving
  <2>2. CASE LetGo(r, "over")
    BY <1>0, <2>2, RequestMoves DEF Goto, LetGo, Reserving
  <2>3. QED
    BY <2>1, <2>2
<1>4. QED
  BY <1>1, <1>2, <1>3 DEF Places

LEMMA SReservesBatch ==
    ASSUME ShutdownInv, NEW r \in Requests, PostReserves(r, "batch", "batch", "provider")
    PROVE  ShutdownInv'
<1> USE ActorAssumption, CapacityAssumption DEF ShutdownInv, PostReserves
<1>0. r \in Actors /\ "provider" \in Pc /\ "over" \in Pc /\ "global" \in Kinds /\ Kinds = {"global", "batch", "provider"}
  BY DEF Actors, Pc, Kinds
<1>1. Conserved' /\ free' \in [Kinds -> 0 .. Capacity]
  <2>1. CASE Take(r, "batch", "provider")
    BY <1>0, <2>1, MovesTaking DEF HeldAt, TypeOK
  <2>2. CASE LetGo(r, "over")
    BY <1>0, <2>2, MovesFree DEF HeldAt, TypeOK
  <2>3. QED
    BY <2>1, <2>2
<1>2. TypeOK'
  BY <1>0, <1>1 DEF TypeOK, Take, LetGo
<1>3. Places'
  <2>1. CASE Take(r, "batch", "provider")
    BY <1>0, <2>1, RequestMoves DEF Take, LetGo, Reserving
  <2>2. CASE LetGo(r, "over")
    BY <1>0, <2>2, RequestMoves DEF Take, LetGo, Reserving
  <2>3. QED
    BY <2>1, <2>2
<1>4. QED
  BY <1>1, <1>2, <1>3 DEF Places

LEMMA SReservesProvider ==
    ASSUME ShutdownInv, NEW r \in Requests, PostReserves(r, "provider", "provider", "admit")
    PROVE  ShutdownInv'
<1> USE ActorAssumption, CapacityAssumption DEF ShutdownInv, PostReserves
<1>0. r \in Actors /\ "admit" \in Pc /\ "over" \in Pc /\ "global" \in Kinds /\ Kinds = {"global", "batch", "provider"}
  BY DEF Actors, Pc, Kinds
<1>1. Conserved' /\ free' \in [Kinds -> 0 .. Capacity]
  <2>1. CASE Take(r, "provider", "admit")
    BY <1>0, <2>1, MovesTaking DEF HeldAt, TypeOK
  <2>2. CASE LetGo(r, "over")
    BY <1>0, <2>2, MovesFree DEF HeldAt, TypeOK
  <2>3. QED
    BY <2>1, <2>2
<1>2. TypeOK'
  BY <1>0, <1>1 DEF TypeOK, Take, LetGo
<1>3. Places'
  <2>1. CASE Take(r, "provider", "admit")
    BY <1>0, <2>1, RequestMoves DEF Take, LetGo, Reserving
  <2>2. CASE LetGo(r, "over")
    BY <1>0, <2>2, RequestMoves DEF Take, LetGo, Reserving
  <2>3. QED
    BY <2>1, <2>2
<1>4. QED
  BY <1>1, <1>2, <1>3 DEF Places

LEMMA SPostReturns ==
    ASSUME ShutdownInv, NEW r \in Requests, PostReturns(r)
    PROVE  ShutdownInv'
<1> USE ActorAssumption, CapacityAssumption DEF ShutdownInv, PostReturns
<1>0. r \in Actors /\ "over" \in Pc
  BY DEF Actors, Pc
<1>1. Conserved' /\ free' \in [Kinds -> 0 .. Capacity]
  BY <1>0, MovesFree DEF HeldAt
<1>2. TypeOK'
  BY <1>0, <1>1 DEF TypeOK, LetGo
<1>3. Places'
  BY <1>0, RequestMoves DEF LetGo, Reserving
<1>4. QED
  BY <1>1, <1>2, <1>3 DEF Places

LEMMA SPermitsDropped ==
    ASSUME ShutdownInv, NEW r \in Requests, PermitsDropped(r)
    PROVE  ShutdownInv'
<1> USE ActorAssumption, CapacityAssumption DEF ShutdownInv, PermitsDropped
<1>0. r \in Actors /\ "over" \in Pc
  BY DEF Actors, Pc
<1>1. Conserved' /\ free' \in [Kinds -> 0 .. Capacity]
  BY <1>0, MovesFree DEF HeldAt
<1>2. TypeOK'
  BY <1>0, <1>1 DEF TypeOK, LetGo
<1>3. Places'
  BY <1>0, RequestMoves DEF LetGo, Reserving
<1>4. QED
  BY <1>1, <1>2, <1>3 DEF Places

LEMMA SPostAdmits ==
    ASSUME ShutdownInv, NEW r \in Requests, PostAdmits(r)
    PROVE  ShutdownInv'
<1> USE ActorAssumption, CapacityAssumption DEF ShutdownInv, PostAdmits
<1>0. r \in Actors /\ "spawn" \in Pc
  BY DEF Actors, Pc
<1>1. Conserved'
  BY <1>0, MovesAlong DEF HeldAt
<1>2. TypeOK'
  BY <1>0 DEF TypeOK, Goto
<1>3. Places'
  BY <1>0, RequestMoves DEF Goto, Reserving
<1>4. QED
  BY <1>1, <1>2, <1>3 DEF Places

LEMMA SPostSpawns ==
    ASSUME ShutdownInv, NEW r \in Requests, PostSpawns(r)
    PROVE  ShutdownInv'
<1> USE ActorAssumption, CapacityAssumption DEF ShutdownInv, PostSpawns
<1>0. r \in Actors /\ r # Worker /\ "run" \in Pc /\ "over" \in Pc /\ Worker \in Actors
      /\ Requests \subseteq Actors
  BY DEF Actors, Pc
<1>1. CASE closed
  <2>1. Conserved' /\ free' \in [Kinds -> 0 .. Capacity]
    BY <1>0, <1>1, MovesFree DEF HeldAt
  <2>2. TypeOK'
    BY <1>0, <1>1, <2>1 DEF TypeOK, LetGo
  <2>3. expired
    BY <1>1 DEF LateInv
  <2>4. \A t \in Actors : pc'[t] = IF t = r THEN "over" ELSE pc[t]
    BY <1>0, <1>1 DEF TypeOK, LetGo
  <2>5. draining \subseteq Actors /\ \A v : Waiting(v)' <=> Waiting(v)
    BY QueueKept DEF TypeOK
  <2>6. PcInv' /\ QueueInv'
    BY <1>0, <1>1, <2>4, <2>5 DEF PcInv, QueueInv
  <2>7. StageInv' /\ LateInv'
    BY <1>0, <1>1, <2>3, <2>4, <2>5 DEF StageInv, LateInv
  <2>8. TrackInv'
    BY <1>0, <1>1, <2>4 DEF TrackInv, Running
  <2>9. QED
    BY <2>1, <2>2, <2>6, <2>7, <2>8
<1>2. CASE ~closed
  <2>1. Conserved'
    BY <1>0, <1>2, MovesAlong DEF HeldAt
  <2>2. TypeOK'
    BY <1>0, <1>2 DEF TypeOK, Goto, Unfinished
  <2>3. \A t \in Actors : pc'[t] = IF t = r THEN "run" ELSE pc[t]
    BY <1>0, <1>2 DEF TypeOK, Goto
  <2>4. draining \subseteq Actors /\ \A v : Waiting(v)' <=> Waiting(v)
    BY QueueKept DEF TypeOK
  <2>5. PcInv' /\ QueueInv'
    BY <1>0, <1>2, <2>3, <2>4 DEF PcInv, QueueInv
  <2>6. StageInv' /\ LateInv'
    BY <1>0, <1>2, <2>3, <2>4 DEF StageInv, LateInv
  <2>7. TrackInv'
    BY <1>0, <1>2, <2>3 DEF TrackInv, Running, Unfinished
  <2>8. QED
    BY <2>1, <2>2, <2>5, <2>6, <2>7
<1>3. QED
  BY <1>1, <1>2

LEMMA SWorkerStarts ==
    ASSUME ShutdownInv, WorkerStarts
    PROVE  ShutdownInv'
<1> USE ActorAssumption, CapacityAssumption, BacklogAssumption DEF ShutdownInv, WorkerStarts
<1>0. Worker \in Actors /\ {"enter", "new"} \subseteq Pc
  BY DEF Actors, Pc
<1>1. CASE accepting
  <2>1. Conserved'
    BY <1>0, <1>1, MovesAlong DEF HeldAt
  <2>2. TypeOK'
    BY <1>0, <1>1 DEF TypeOK, Goto
  <2>3. Places'
    BY <1>0, <1>1, WorkerMoves, QueueKept DEF Goto, QueueInv
  <2>4. QED
    BY <2>1, <2>2, <2>3 DEF Places
<1>2. CASE ~accepting
  <2>1. Goto(Worker, "new")
    BY <1>0, <1>2 DEF Goto, TypeOK
  <2>2. Conserved'
    BY <1>0, <2>1, MovesAlong
  <2>3. TypeOK'
    BY <1>2 DEF TypeOK
  <2>4. Places'
    BY <1>0, <2>1, WorkerMoves, QueueKept DEF Goto, QueueInv
  <2>5. QED
    BY <2>2, <2>3, <2>4 DEF Places
<1>3. QED
  BY <1>1, <1>2

LEMMA SWorkerWaits ==
    ASSUME ShutdownInv, WorkerWaits
    PROVE  ShutdownInv'
<1> USE ActorAssumption, CapacityAssumption, BacklogAssumption DEF ShutdownInv, WorkerWaits
<1>0. Worker \in Actors /\ "wait" \in Pc
  BY DEF Actors, Pc
<1>1. Conserved'
  BY <1>0, MovesAlong DEF HeldAt
<1>2. queue' \in Queues /\ \A v : Waiting(v)' <=> Waiting(v) \/ v = Worker
  BY QueueJoined DEF QueueInv, TypeOK
<1>3. TypeOK'
  BY <1>0, <1>2 DEF TypeOK, Goto
<1>4. left' > 0
  BY DEF PcInv
<1>5. Places'
  BY <1>0, <1>2, <1>4, WorkerMoves DEF Goto
<1>6. QED
  BY <1>1, <1>3, <1>5 DEF Places

LEMMA SWorkerReservesBatch ==
    ASSUME ShutdownInv, WorkerReserves("batch", "batch", "provider")
    PROVE  ShutdownInv'
<1> USE ActorAssumption, CapacityAssumption, BacklogAssumption DEF ShutdownInv, WorkerReserves
<1>0. Worker \in Actors /\ "provider" \in Pc /\ Kinds = {"global", "batch", "provider"}
  BY DEF Actors, Pc, Kinds
<1>1. Conserved' /\ free' \in [Kinds -> 0 .. Capacity]
  BY <1>0, MovesTaking DEF HeldAt
<1>2. TypeOK'
  BY <1>0, <1>1 DEF TypeOK, Take
<1>3. left' > 0
  BY DEF PcInv
<1>4. Places'
  BY <1>0, <1>3, WorkerMoves, QueueKept DEF Take, QueueInv
<1>5. QED
  BY <1>1, <1>2, <1>4 DEF Places

LEMMA SWorkerReservesProvider ==
    ASSUME ShutdownInv, WorkerReserves("provider", "provider", "verify")
    PROVE  ShutdownInv'
<1> USE ActorAssumption, CapacityAssumption, BacklogAssumption DEF ShutdownInv, WorkerReserves
<1>0. Worker \in Actors /\ "verify" \in Pc /\ Kinds = {"global", "batch", "provider"}
  BY DEF Actors, Pc, Kinds
<1>1. Conserved' /\ free' \in [Kinds -> 0 .. Capacity]
  BY <1>0, MovesTaking DEF HeldAt
<1>2. TypeOK'
  BY <1>0, <1>1 DEF TypeOK, Take
<1>3. left' > 0
  BY DEF PcInv
<1>4. Places'
  BY <1>0, <1>3, WorkerMoves, QueueKept DEF Take, QueueInv
<1>5. QED
  BY <1>1, <1>2, <1>4 DEF Places

LEMMA SWorkerVerifies ==
    ASSUME ShutdownInv, WorkerVerifies
    PROVE  ShutdownInv'
<1> USE ActorAssumption, CapacityAssumption, BacklogAssumption DEF ShutdownInv, WorkerVerifies
<1>0. Worker \in Actors /\ {"run", "new"} \subseteq Pc /\ left > 0
  BY DEF Actors, Pc, PcInv
<1>1. CASE accepting
  <2>1. Conserved'
    BY <1>0, <1>1, MovesAlong DEF HeldAt
  <2>2. TypeOK'
    BY <1>0, <1>1 DEF TypeOK, Goto
  <2>3. Places'
    BY <1>0, <1>1, WorkerMoves, QueueKept DEF Goto, QueueInv
  <2>4. QED
    BY <2>1, <2>2, <2>3 DEF Places
<1>2. CASE ~accepting
  <2>1. Conserved' /\ free' \in [Kinds -> 0 .. Capacity]
    BY <1>0, <1>2, MovesFree DEF HeldAt
  <2>2. TypeOK'
    BY <1>0, <1>2, <2>1 DEF TypeOK, LetGo
  <2>3. Places'
    BY <1>0, <1>2, WorkerMoves, QueueKept DEF LetGo, QueueInv
  <2>4. QED
    BY <2>1, <2>2, <2>3 DEF Places
<1>3. QED
  BY <1>1, <1>2

LEMMA SWorkerMovesOn ==
    ASSUME ShutdownInv, WorkerMovesOn
    PROVE  ShutdownInv'
<1> USE ActorAssumption, CapacityAssumption, BacklogAssumption DEF ShutdownInv, WorkerMovesOn
<1>0. Worker \in Actors /\ "new" \in Pc /\ left > 0
  BY DEF Actors, Pc, PcInv
<1>1. Conserved' /\ free' \in [Kinds -> 0 .. Capacity]
  BY <1>0, MovesFree DEF HeldAt
<1>2. TypeOK'
  BY <1>0, <1>1 DEF TypeOK, LetGo
<1>3. Places'
  BY <1>0, WorkerMoves, QueueKept DEF LetGo, QueueInv
<1>4. QED
  BY <1>1, <1>2, <1>3 DEF Places

LEMMA SWorkerEnds ==
    ASSUME ShutdownInv, WorkerEnds
    PROVE  ShutdownInv'
<1> USE ActorAssumption, CapacityAssumption, BacklogAssumption DEF ShutdownInv, WorkerEnds
<1>0. Worker \in Actors /\ "over" \in Pc
  BY DEF Actors, Pc
<1>1. Conserved'
  BY <1>0, MovesAlong DEF HeldAt
<1>2. TypeOK'
  BY <1>0 DEF TypeOK, Goto
<1>3. Places'
  BY <1>0, WorkerMoves, QueueKept DEF Goto, QueueInv
<1>4. QED
  BY <1>1, <1>2, <1>3 DEF Places

LEMMA SExecutionEnds ==
    ASSUME ShutdownInv, NEW t \in Actors, ExecutionEnds(t)
    PROVE  ShutdownInv'
<1> USE ActorAssumption, CapacityAssumption, BacklogAssumption DEF ShutdownInv, ExecutionEnds
<1>0. "drop" \in Pc /\ "over" \in Pc
  BY DEF Pc
<1>1. Conserved' /\ free' \in [Kinds -> 0 .. Capacity]
  <2>1. free' \in [Kinds -> Nat] /\ \A k \in Kinds : free[k] \in Int
    BY DEF TypeOK, Returning
  <2>2. \A k \in Kinds : free'[k] = free[k] + (IF k \in HeldAt(pc[t]) THEN 1 ELSE 0)
                                             - (IF k \in HeldAt("drop") THEN 1 ELSE 0)
    BY <2>1 DEF Returning, HeldAt, Kinds
  <2>3. Conserved'
    BY <1>0, <2>2, Moves DEF Goto
  <2>4. gathered' \in Nat
    BY DEF TypeOK
  <2>5. QED
    BY <2>1, <2>3, <2>4, Ranges
<1>2. TypeOK'
  BY <1>0, <1>1 DEF TypeOK, Goto
<1>3. Places'
  <2>1. CASE t \in Requests
    BY <1>0, <2>1, RequestMoves DEF Goto, Reserving
  <2>2. CASE t = Worker
    <3>1. left' > 0
      BY <2>2 DEF PcInv
    <3>2. QED
      BY <1>0, <2>2, <3>1, WorkerMoves, QueueKept DEF Goto, QueueInv
  <2>3. QED
    BY <2>1, <2>2 DEF Actors
<1>4. QED
  BY <1>1, <1>2, <1>3 DEF Places

LEMMA STaskAborts ==
    ASSUME ShutdownInv, NEW t \in Actors, TaskAborts(t)
    PROVE  ShutdownInv'
<1> USE ActorAssumption, CapacityAssumption, BacklogAssumption DEF ShutdownInv, TaskAborts
<1>0. "over" \in Pc
  BY DEF Pc
<1>1. Conserved' /\ free' \in [Kinds -> 0 .. Capacity]
  BY <1>0, MovesFree DEF HeldAt
<1>2. queue' \in Queues /\ \A v : Waiting(v)' <=> Waiting(v) /\ v # t
  BY QueueLeft DEF TypeOK
<1>3. TypeOK'
  BY <1>0, <1>1, <1>2 DEF TypeOK, LetGo
<1>4. Places'
  <2>1. CASE t \in Requests
    <3>1. pc[t] = "run" /\ ~Waiting(t)
      <4>1. t \notin {Worker, Shutdown}
        BY <2>1
      <4>2. QED
        BY <2>1, <4>1 DEF Running, Waiting, TypeOK, Queues
    <3>2. UNCHANGED queue
      BY <3>1 DEF QueueWithout
    <3>3. QED
      BY <1>0, <2>1, <3>1, <3>2, RequestMoves DEF LetGo, Reserving
  <2>2. CASE t = Worker
    <3>1. pc[Worker] # "over" /\ Worker # Shutdown
      BY <2>2 DEF Running
    <3>2. QED
      BY <1>0, <1>2, <2>2, <3>1, WorkerMoves DEF LetGo, QueueInv
  <2>3. QED
    BY <2>1, <2>2 DEF Actors
<1>5. QED
  BY <1>1, <1>3, <1>4 DEF Places

LEMMA SHandOver ==
    ASSUME ShutdownInv, HandOver
    PROVE  ShutdownInv'
<1> USE ActorAssumption, CapacityAssumption, BacklogAssumption DEF ShutdownInv, HandOver
<1>0. Worker \in Actors /\ "batch" \in Pc /\ "global" \in Kinds /\ Shutdown # Worker
  BY DEF Actors, Pc, Kinds
<1>1. /\ Head(queue) \in {Worker, Shutdown} /\ Waiting(Head(queue))
      /\ Tail(queue) = QueueWithout(Head(queue))
  BY QueueServed DEF TypeOK
<1>2. CASE Head(queue) = Worker
  <2>1. pc[Worker] = "wait"
    BY <1>1, <1>2 DEF QueueInv
  <2>2. Conserved' /\ free' \in [Kinds -> 0 .. Capacity]
    BY <1>0, <1>2, <2>1, MovesTaking DEF HeldAt
  <2>3. queue' \in Queues /\ \A v : Waiting(v)' <=> Waiting(v) /\ v # Worker
    BY <1>1, <1>2, QueueLeft DEF TypeOK
  <2>4. TypeOK'
    BY <1>0, <1>2, <2>2, <2>3 DEF TypeOK, Take
  <2>5. left' > 0
    BY <2>1 DEF PcInv
  <2>6. Places'
    BY <1>0, <1>2, <2>1, <2>3, <2>5, WorkerMoves DEF Take
  <2>7. QED
    BY <2>2, <2>4, <2>6 DEF Places
<1>3. CASE Head(queue) = Shutdown
  <2>1. /\ stage = "quiesce" /\ gathered < Capacity /\ UNCHANGED <<pc, left, stopVars, history>>
        /\ gathered' = gathered + 1 /\ free' = Without({"global"})
        /\ queue' = IF gathered + 1 = Capacity THEN Tail(queue) ELSE queue
    BY <1>0, <1>1, <1>3 DEF QueueInv
  <2>2. /\ free' \in [Kinds -> Nat] /\ gathered' \in Nat
        /\ \A k \in Kinds : free[k] \in Nat
    BY <2>1 DEF TypeOK, Without
  <2>3. \A k \in Kinds :
            free'[k] + (IF k = "global" THEN gathered' ELSE 0)
              = free[k] + (IF k = "global" THEN gathered ELSE 0)
    <3>1. gathered \in Int /\ \A k \in Kinds : free'[k] = IF k = "global" THEN free[k] - 1 ELSE free[k]
      BY <2>1 DEF Without, TypeOK
    <3> HIDE DEF HandOver
    <3>2. QED
      BY <2>1, <2>2, <3>1, SMTT(30)
  <2>4. Conserved'
    BY <2>1, <2>2, <2>3, Stays
  <2>5. free' \in [Kinds -> 0 .. Capacity] /\ gathered' \in 0 .. Capacity
    BY <2>2, <2>4, Ranges
  <2>6. /\ queue' \in Queues /\ (Waiting(Worker)' <=> Waiting(Worker))
        /\ Waiting(Shutdown)' => gathered' < Capacity
    <3>1. CASE gathered + 1 = Capacity
      BY <1>0, <1>1, <1>3, <2>1, <3>1, QueueLeft DEF TypeOK
    <3>2. CASE gathered + 1 # Capacity
      BY <2>1, <3>2, QueueKept DEF TypeOK
    <3>3. QED
      BY <3>1, <3>2
  <2>11. stage = "quiesce" /\ UNCHANGED <<pc, left, stopVars, history>>
    BY <2>1
  <2> HIDE DEF HandOver
  <2>7. TypeOK'
    BY <2>11, <2>5, <2>6 DEF TypeOK
  <2>8. PcInv' /\ QueueInv' /\ StageInv'
    BY <2>11, <2>6 DEF PcInv, QueueInv, StageInv
  <2>9. TrackInv' /\ LateInv'
    BY <2>11 DEF TrackInv, LateInv, Running
  <2>10. QED
    BY <2>4, <2>7, <2>8, <2>9
<1>4. QED
  BY <1>1, <1>2, <1>3

-----------------------------------------------------------------------------
(* The steps of shutdown move no actor *)

LEMMA SSignal ==
    ASSUME ShutdownInv, Signal
    PROVE  ShutdownInv'
<1> USE ActorAssumption, CapacityAssumption, BacklogAssumption DEF ShutdownInv, Signal
<1>1. Conserved'
  <2>1. \A k \in Kinds : free'[k] \in Int
    BY DEF TypeOK
  <2>2. QED
    BY <2>1, Stays DEF TypeOK
<1>2. TypeOK'
  BY DEF TypeOK, Stages, Unfinished, StageInv
<1>3. PcInv' /\ TrackInv'
  BY DEF PcInv, TrackInv, StageInv, Running
<1>4. StageInv' /\ LateInv'
  BY DEF StageInv, LateInv, TypeOK
<1>5. QueueInv'
  BY QueueKept DEF QueueInv
<1>6. QED
  BY <1>1, <1>2, <1>3, <1>4, <1>5

LEMMA SDeadlinePasses ==
    ASSUME ShutdownInv, DeadlinePasses
    PROVE  ShutdownInv'
<1> USE ActorAssumption, CapacityAssumption, BacklogAssumption DEF ShutdownInv, DeadlinePasses
<1>1. Conserved'
  <2>1. \A k \in Kinds : free'[k] \in Int
    BY DEF TypeOK
  <2>2. QED
    BY <2>1, Stays DEF TypeOK
<1>2. TypeOK'
  BY DEF TypeOK, Stages, Unfinished, StageInv
<1>3. PcInv' /\ TrackInv'
  BY DEF PcInv, TrackInv, StageInv, Running
<1>4. StageInv' /\ LateInv'
  BY DEF StageInv, LateInv, TypeOK
<1>5. QueueInv'
  BY QueueKept DEF QueueInv
<1>6. QED
  BY <1>1, <1>2, <1>3, <1>4, <1>5

LEMMA SQuiescent ==
    ASSUME ShutdownInv, Quiescent
    PROVE  ShutdownInv'
<1> USE ActorAssumption, CapacityAssumption, BacklogAssumption DEF ShutdownInv, Quiescent
<1>1. Conserved'
  <2>1. \A k \in Kinds : free'[k] \in Int
    BY DEF TypeOK
  <2>2. QED
    BY <2>1, Stays DEF TypeOK
<1>2. TypeOK'
  BY DEF TypeOK, Stages, Unfinished, StageInv
<1>3. PcInv' /\ TrackInv'
  BY DEF PcInv, TrackInv, StageInv, Running
<1>4. StageInv' /\ LateInv'
  BY DEF StageInv, LateInv, TypeOK
<1>5. QueueInv'
  BY QueueKept DEF QueueInv
<1>6. QED
  BY <1>1, <1>2, <1>3, <1>4, <1>5

LEMMA SCloseRegistration ==
    ASSUME ShutdownInv, CloseRegistration
    PROVE  ShutdownInv'
<1> USE ActorAssumption, CapacityAssumption, BacklogAssumption DEF ShutdownInv, CloseRegistration
<1>1. Conserved'
  <2>1. \A k \in Kinds : free'[k] \in Int
    BY DEF TypeOK
  <2>2. QED
    BY <2>1, Stays DEF TypeOK
<1>2. TypeOK'
  BY DEF TypeOK, Stages
<1>3. PcInv' /\ TrackInv'
  BY DEF PcInv, TrackInv, Running
<1>4. StageInv'
  BY DEF StageInv, TypeOK
<1>5. QueueInv'
  BY QueueKept DEF QueueInv
<1>6. LateInv'
  <2>1. CASE expired
    BY <2>1 DEF LateInv
  <2>2. CASE ~expired
    <3>1. \A t \in Actors : "global" \notin Holds(t)
      BY <2>2, Quiet DEF StageInv
    <3>2. \A r \in Requests : "global" \notin HeldAt(pc[r])
      BY <3>1, HoldsAt DEF Actors
    <3>3. \A r \in Requests : pc[r] \notin {"batch", "provider", "admit", "spawn"}
      BY <3>2 DEF HeldAt, Kinds
    <3>4. QED
      BY <2>2, <3>3 DEF LateInv
  <2>3. QED
    BY <2>1, <2>2
<1>7. QED
  BY <1>1, <1>2, <1>3, <1>4, <1>5, <1>6

LEMMA STakeTasks ==
    ASSUME ShutdownInv, TakeTasks
    PROVE  ShutdownInv'
<1> USE ActorAssumption, CapacityAssumption, BacklogAssumption DEF ShutdownInv, TakeTasks
<1>1. Conserved'
  <2>1. \A k \in Kinds : free'[k] \in Int
    BY DEF TypeOK
  <2>2. QED
    BY <2>1, Stays DEF TypeOK
<1>2. TypeOK'
  BY DEF TypeOK, Stages, Unfinished, StageInv
<1>3. PcInv' /\ TrackInv'
  BY DEF PcInv, TrackInv, StageInv, Running
<1>4. StageInv' /\ LateInv'
  BY DEF StageInv, LateInv, TypeOK
<1>5. QueueInv'
  BY QueueKept DEF QueueInv
<1>6. QED
  BY <1>1, <1>2, <1>3, <1>4, <1>5

LEMMA SDrainExpires ==
    ASSUME ShutdownInv, DrainExpires
    PROVE  ShutdownInv'
<1> USE ActorAssumption, CapacityAssumption, BacklogAssumption DEF ShutdownInv, DrainExpires
<1>1. Conserved'
  <2>1. \A k \in Kinds : free'[k] \in Int
    BY DEF TypeOK
  <2>2. QED
    BY <2>1, Stays DEF TypeOK
<1>2. TypeOK'
  BY DEF TypeOK, Stages, Unfinished, StageInv
<1>3. PcInv' /\ TrackInv'
  BY DEF PcInv, TrackInv, StageInv, Running
<1>4. StageInv' /\ LateInv'
  BY DEF StageInv, LateInv, TypeOK
<1>5. QueueInv'
  BY QueueKept DEF QueueInv
<1>6. QED
  BY <1>1, <1>2, <1>3, <1>4, <1>5

LEMMA SAwaitQuiescence ==
    ASSUME ShutdownInv, AwaitQuiescence
    PROVE  ShutdownInv'
<1> USE ActorAssumption, CapacityAssumption, BacklogAssumption DEF ShutdownInv, AwaitQuiescence
<1>1. Conserved'
  <2>1. \A k \in Kinds : free'[k] \in Int
    BY DEF TypeOK
  <2>2. QED
    BY <2>1, Stays DEF TypeOK
<1>2. queue' \in Queues /\ \A v : Waiting(v)' <=> Waiting(v) \/ v = Shutdown
  BY QueueJoined DEF QueueInv, TypeOK
<1>3. TypeOK'
  BY <1>2 DEF TypeOK, Stages
<1>4. PcInv' /\ TrackInv'
  BY DEF PcInv, TrackInv, Running
<1>5. StageInv' /\ LateInv'
  BY DEF StageInv, LateInv, TypeOK
<1>6. QueueInv'
  BY <1>2 DEF QueueInv, StageInv
<1>7. QED
  BY <1>1, <1>3, <1>4, <1>5, <1>6

LEMMA SQuiescenceExpires ==
    ASSUME ShutdownInv, QuiescenceExpires
    PROVE  ShutdownInv'
<1> USE ActorAssumption, CapacityAssumption, BacklogAssumption DEF ShutdownInv, QuiescenceExpires
<1>0. gathered \in Nat /\ \A k \in Kinds : free[k] \in Nat
  BY DEF TypeOK
<1>1. /\ \A k \in Kinds : free'[k] = IF k = "global" THEN free[k] + gathered ELSE free[k]
      /\ free' \in [Kinds -> Nat] /\ gathered' = 0
  <2>1. free' = [free EXCEPT !["global"] = @ + gathered] /\ gathered' = 0 /\ DOMAIN free = Kinds
    BY DEF TypeOK
  <2>2. free = [k \in Kinds |-> free[k]]
    BY DEF TypeOK
  <2> HIDE DEF QuiescenceExpires
  <2>3. ASSUME NEW k \in Kinds
        PROVE  free'[k] = IF k = "global" THEN free[k] + gathered ELSE free[k]
    BY <2>1, <2>2
  <2>4. free' \in [Kinds -> Nat]
    <3>1. \A k \in Kinds : free'[k] \in Nat
      BY <1>0, <2>3
    <3>2. QED
      BY <2>1, <3>1
  <2>5. QED
    BY <2>1, <2>3, <2>4
<1>2. Conserved'
  BY <1>0, <1>1, Stays
<1>3. free' \in [Kinds -> 0 .. Capacity]
  BY <1>1, <1>2, Ranges
<1>4. queue' \in Queues /\ \A v : Waiting(v)' <=> Waiting(v) /\ v # Shutdown
  BY QueueLeft DEF TypeOK
<1>5. TypeOK'
  BY <1>3, <1>4 DEF TypeOK, Stages
<1>6. PcInv' /\ TrackInv'
  BY DEF PcInv, TrackInv, Running
<1>7. StageInv' /\ LateInv'
  BY DEF StageInv, LateInv, TypeOK
<1>8. QueueInv'
  BY <1>4 DEF QueueInv
<1>9. QED
  BY <1>2, <1>5, <1>6, <1>7, <1>8

LEMMA SShutdownReturns ==
    ASSUME ShutdownInv, ShutdownReturns
    PROVE  ShutdownInv'
<1> USE ActorAssumption, CapacityAssumption, BacklogAssumption DEF ShutdownInv, ShutdownReturns
<1>0. gathered \in Nat /\ \A k \in Kinds : free[k] \in Nat
  BY DEF TypeOK
<1>1. /\ \A k \in Kinds : free'[k] = IF k = "global" THEN free[k] + gathered ELSE free[k]
      /\ free' \in [Kinds -> Nat] /\ gathered' = 0
  <2>1. free' = [free EXCEPT !["global"] = @ + gathered] /\ gathered' = 0 /\ DOMAIN free = Kinds
    BY DEF TypeOK
  <2>2. free = [k \in Kinds |-> free[k]]
    BY DEF TypeOK
  <2> HIDE DEF ShutdownReturns
  <2>3. ASSUME NEW k \in Kinds
        PROVE  free'[k] = IF k = "global" THEN free[k] + gathered ELSE free[k]
    BY <2>1, <2>2
  <2>4. free' \in [Kinds -> Nat]
    <3>1. \A k \in Kinds : free'[k] \in Nat
      BY <1>0, <2>3
    <3>2. QED
      BY <2>1, <3>1
  <2>5. QED
    BY <2>1, <2>3, <2>4
<1>2. Conserved'
  BY <1>0, <1>1, Stays
<1>3. free' \in [Kinds -> 0 .. Capacity]
  BY <1>1, <1>2, Ranges
<1>4. TypeOK'
  BY <1>3 DEF TypeOK, Stages
<1>5. PcInv' /\ TrackInv'
  BY DEF PcInv, TrackInv, Running
<1>6. StageInv' /\ LateInv'
  BY DEF StageInv, LateInv, TypeOK, Unfinished
<1>7. QueueInv'
  BY QueueKept DEF QueueInv
<1>8. QED
  BY <1>2, <1>4, <1>5, <1>6, <1>7

-----------------------------------------------------------------------------
(* Theorems *)

LEMMA ShutdownInit == Init => ShutdownInv
<1> SUFFICES ASSUME Init PROVE ShutdownInv
  OBVIOUS
<1> USE CapacityAssumption, BacklogAssumption, ActorAssumption DEF Init, Actors
<1>1. ProviderCapacity \in 0 .. Capacity
  BY DEF ProviderCapacity
<1>2. TypeOK
  <2>1. free \in [Kinds -> 0 .. Capacity]
    BY <1>1
  <2>2. pc \in [Actors -> Pc] /\ stage \in Stages /\ queue \in Queues
    BY DEF Pc, Stages, Queues
  <2>3. left \in 0 .. Candidates /\ gathered \in 0 .. Capacity
    OBVIOUS
  <2>4. registry \subseteq Actors /\ draining \subseteq Actors /\ aborting \subseteq draining
        /\ refused \subseteq Requests /\ aborted \subseteq Actors
    OBVIOUS
  <2>5. accepting \in BOOLEAN /\ closed \in BOOLEAN /\ expired \in BOOLEAN
    OBVIOUS
  <2> HIDE DEF Init
  <2>6. QED
    BY <2>1, <2>2, <2>3, <2>4, <2>5 DEF TypeOK
<1>3. Conserved
  <2>1. \A k \in Kinds : Holders(k) = {}
    BY DEF Holders, Holds
  <2>2. \A k \in Kinds : free[k] = Total(k) /\ Total(k) \in Int
    BY <1>1 DEF Total
  <2>3. IsFiniteSet({}) /\ Cardinality({}) = 0
    BY FS_EmptySet
  <2>4. gathered = 0
    OBVIOUS
  <2> HIDE DEF Init
  <2>5. \A k \in Kinds : IsFiniteSet(Holders(k)) /\ Cardinality(Holders(k)) = 0
    BY <2>1, <2>3
  <2>6. QED
    BY <2>2, <2>4, <2>5 DEF Conserved
<1>4. PcInv /\ StageInv /\ LateInv
  BY DEF PcInv, StageInv, LateInv
<1>5. QueueInv
  BY DEF QueueInv, Waiting
<1>6. TrackInv
  BY DEF TrackInv, Running
<1>7. QED
  BY <1>2, <1>3, <1>4, <1>5, <1>6 DEF ShutdownInv

LEMMA ShutdownStutter ==
    ASSUME ShutdownInv, UNCHANGED vars
    PROVE  ShutdownInv'
<1> USE DEF ShutdownInv, vars
<1>1. TypeOK' /\ PcInv' /\ StageInv' /\ LateInv'
  BY DEF TypeOK, PcInv, StageInv, LateInv
<1>2. TrackInv' /\ Conserved'
  BY DEF TrackInv, Running, Conserved, Holders, Holds
<1>3. QueueInv'
  BY QueueKept DEF QueueInv
<1>4. QED
  BY <1>1, <1>2, <1>3

LEMMA ShutdownNext == ShutdownInv /\ [Next]_vars => ShutdownInv'
<1> SUFFICES ASSUME ShutdownInv, [Next]_vars PROVE ShutdownInv'
  OBVIOUS
<1>1. ASSUME NEW r \in Requests, Post(r) PROVE ShutdownInv'
  BY <1>1, SPostArrives, SPostAcquires, SPostRechecks, SReservesBatch, SReservesProvider,
     SPostReturns, SPostAdmits, SPostSpawns, SPermitsDropped DEF Post
<1>2. ASSUME NEW t \in Actors, ExecutionEnds(t) \/ TaskAborts(t) PROVE ShutdownInv'
  BY <1>2, SExecutionEnds, STaskAborts
<1>3. CASE Backlog
  BY <1>3, SWorkerStarts, SWorkerWaits, SWorkerVerifies, SWorkerMovesOn, SWorkerEnds,
     SWorkerReservesBatch, SWorkerReservesProvider DEF Backlog
<1>4. CASE Stopping
  BY <1>4, SSignal, SAwaitQuiescence, SQuiescent, SQuiescenceExpires, SCloseRegistration,
     STakeTasks, SDrainExpires, SShutdownReturns DEF Stopping
<1>5. CASE Stopped \/ UNCHANGED vars
  BY <1>5, ShutdownStutter DEF Stopped
<1>6. QED
  BY <1>1, <1>2, <1>3, <1>4, <1>5, SHandOver, SDeadlinePasses DEF Next

\* The inductive invariant holds of every behaviour of the gateway's shutdown:
\* permits are where the positions of the tasks say, the queue holds the
\* waiters and nobody else, every execution is registered or being drained,
\* each stage has done what it follows from, and a handler is refused only
\* after the deadline (GatewayState, shutdown_batch_tasks).
THEOREM ShutdownInvariance == Spec => []ShutdownInv
<1>1. QED
  BY ShutdownInit, ShutdownNext, PTL DEF Spec

\* Permits and positions stay in range: no permit is ever owed, no waiter
\* queues twice, the backlog never runs below empty.
THEOREM ShutdownTypes == Spec => []TypeOK
<1>1. ShutdownInv => TypeOK
  BY DEF ShutdownInv
<1>2. QED
  BY <1>1, ShutdownInvariance, PTL

\* No permit is lost or duplicated, on any path of any number of requests.
THEOREM PermitsAreConserved == Spec => []PermitsConserved
<1>1. ShutdownInv => PermitsConserved
  BY DEF ShutdownInv, Conserved, PermitsConserved, Holders, Total
<1>2. QED
  BY <1>1, ShutdownInvariance, PTL

\* Every execution is registered or being drained, and none outlives the
\* shutdown that has returned.
THEOREM TasksAreAccountedFor == Spec => []TasksAccountedFor
<1>1. ShutdownInv => TasksAccountedFor
  <2> SUFFICES ASSUME ShutdownInv PROVE TasksAccountedFor
    OBVIOUS
  <2>1. \A t \in Actors : Running(t) => t \in registry \cup draining
    BY DEF ShutdownInv, TrackInv
  <2>2. ASSUME stage = "stopped", NEW t \in Actors, Running(t) PROVE FALSE
    BY <2>1, <2>2 DEF ShutdownInv, StageInv, Running
  <2>3. QED
    BY <2>1, <2>2 DEF TasksAccountedFor
<1>2. QED
  BY <1>1, ShutdownInvariance, PTL

\* A request that has admitted a job is refused its execution only after the
\* shutdown deadline.
THEOREM RefusedOnlyAfterDeadline == Spec => []RefusedOnlyLate
<1>1. ShutdownInv => RefusedOnlyLate
  BY DEF ShutdownInv, LateInv, RefusedOnlyLate
<1>2. QED
  BY <1>1, ShutdownInvariance, PTL

\* Only an abort adds to the aborted tasks.
LEMMA AbortsAlone ==
    ASSUME [Next]_vars, aborted' # aborted
    PROVE  \E t \in Actors : TaskAborts(t)
<1>1. ASSUME NEW r \in Requests, Post(r) PROVE UNCHANGED aborted
  BY <1>1 DEF Post, PostArrives, PostAcquires, PostRechecks, PostReserves, PostReturns,
     PostAdmits, PostSpawns, PermitsDropped
<1>2. Backlog => UNCHANGED aborted
  BY DEF Backlog, WorkerStarts, WorkerWaits, WorkerVerifies, WorkerMovesOn, WorkerEnds, WorkerReserves
<1>3. Stopping => UNCHANGED aborted
  BY DEF Stopping, Signal, AwaitQuiescence, Quiescent, QuiescenceExpires, CloseRegistration,
     TakeTasks, DrainExpires, ShutdownReturns
<1>4. HandOver \/ DeadlinePasses \/ Stopped \/ UNCHANGED vars => UNCHANGED aborted
  BY DEF HandOver, DeadlinePasses, Stopped, vars
<1>5. \A t \in Actors : ExecutionEnds(t) => UNCHANGED aborted
  BY DEF ExecutionEnds
<1>6. QED
  BY <1>1, <1>2, <1>3, <1>4, <1>5 DEF Next

\* Once shutdown holds every permit, an abort hits at most a backlog worker
\* that holds none.
THEOREM AbortsAreQuiet == Spec => QuietAborts
<1>1. ShutdownInv /\ [Next]_vars =>
        [gathered = Capacity => aborted' \ aborted \subseteq {t \in {Worker} : Holds(t) = {}}]_vars
  <2> SUFFICES ASSUME ShutdownInv, [Next]_vars, gathered = Capacity, aborted' # aborted
               PROVE  aborted' \ aborted \subseteq {t \in {Worker} : Holds(t) = {}}
    OBVIOUS
  <2>1. PICK t \in Actors : TaskAborts(t)
    BY AbortsAlone
  <2>2. "global" \notin HeldAt(pc[t]) /\ pc[t] \in Pc
    BY Quiet, HoldsAt DEF ShutdownInv, TypeOK
  <2>3. pc[t] \notin {"run", "drop"}
    BY <2>1, <2>2 DEF TaskAborts, HeldAt, Kinds
  <2>4. t = Worker
    BY <2>1, <2>3 DEF TaskAborts, Running, Actors
  <2>5. Holds(t) = {}
    BY <2>2, <2>3, HoldsAt DEF HeldAt, Kinds, Pc
  <2>6. QED
    BY <2>1, <2>4, <2>5 DEF TaskAborts
<1>2. QED
  BY <1>1, ShutdownInvariance, PTL DEF Spec, QuietAborts

(* PART TWO: the directory of observations *)
-----------------------------------------------------------------------------
(* The inductive invariant *)

WorkerPlaces == {"none", "spawned", "create", "write", "sync", "publish", "unlink", "opendir",
           "syncdir", "ready", "wait", "cleanup", "report", "done"}

SinkTypes ==
    /\ written \in Nat
    /\ caller \in [Calls -> {"idle", "called", "limited", "awaiting"} \cup Verdicts]
    /\ late \in [Calls -> BOOLEAN]
    /\ receipt \in [Calls -> {"active", "cancelled", "accepted"}]
    /\ ready \in [Calls -> {"none", "ok", "err", "closed"}]
    /\ worker \in [Calls -> WorkerPlaces]
    /\ checked \in [Calls -> BOOLEAN] /\ sleeping \in [Calls -> BOOLEAN]
    /\ inode \in [Calls -> {"empty", "written", "synced"}]
    /\ temp \in [Calls -> BOOLEAN] /\ durable \in [Calls -> BOOLEAN]
    /\ final \in [Calls -> {"none", "own", "foreign"}]
    /\ alive \in BOOLEAN /\ dirty \in BOOLEAN

\* The calls the counter counts, and those of them that are within the limit.
CountedCalls == {c \in Calls : caller[c] \notin {"idle", "refused"}}
Granted == {c \in Calls : caller[c] \notin {"idle", "refused", "limited"}}

CounterInv ==
    /\ written = Cardinality(CountedCalls)
    /\ Cardinality(Granted) <= MaxObservations

\* The record is under its final name for good.
Whole(c) == final[c] = "own" /\ inode[c] = "synced" /\ durable[c] /\ ~temp[c]

\* Caller, receipt and worker of one call agree on its outcome.
VerdictInv(c) ==
    /\ worker[c] # "none" => caller[c] \in {"awaiting", "ok", "failed", "dropped"}
    /\ final[c] = "own" => worker[c] # "none"
    /\ caller[c] = "ok" <=> receipt[c] = "accepted"
    /\ ready[c] = "ok" => worker[c] \in {"wait", "cleanup", "done"}
    /\ ready[c] \in {"err", "closed"} => worker[c] = "done"
    /\ receipt[c] = "accepted" => ready[c] = "ok" /\ worker[c] \in {"wait", "done"} /\ Whole(c)
    /\ ready[c] = "ok" /\ receipt[c] = "active" => worker[c] = "wait"

\* What a living worker has done by the step it is at.
WorkInv(c) ==
    /\ worker[c] \in {"none", "spawned", "create"} => ~temp[c] /\ final[c] # "own"
    /\ worker[c] \in {"publish", "unlink", "opendir", "syncdir", "ready", "wait"} =>
            inode[c] = "synced"
    /\ worker[c] \in {"unlink", "opendir", "syncdir", "ready", "wait"} => final[c] = "own"
    /\ worker[c] \in {"opendir", "syncdir", "ready", "wait"} => ~temp[c]
    /\ worker[c] \in {"ready", "wait"} => durable[c]
    /\ worker[c] = "report" => dirty \/ (~temp[c] /\ final[c] # "own")
    /\ worker[c] = "done" => dirty \/ (~temp[c] /\ (final[c] = "own" <=> receipt[c] = "accepted"))

SinkInv ==
    /\ SinkTypes
    /\ CounterInv
    /\ \A c \in Calls : VerdictInv(c) /\ (alive => WorkInv(c))

-----------------------------------------------------------------------------
(* The order of the system calls *)

LEMMA StepOrder ==
    /\ Working = {"create", "write", "sync", "publish", "unlink", "opendir", "syncdir", "ready"}
    /\ Steps[1] = "create"
    /\ After("create") = "write" /\ After("write") = "sync" /\ After("sync") = "publish"
    /\ After("publish") = "unlink" /\ After("unlink") = "opendir"
    /\ After("opendir") = "syncdir" /\ After("syncdir") = "ready"
<1>1. DOMAIN Steps = 1 .. 8 /\ Len(Steps) - 1 = 7
  BY DEF Steps
<1>2. /\ Steps[1] = "create" /\ Steps[2] = "write" /\ Steps[3] = "sync" /\ Steps[4] = "publish"
      /\ Steps[5] = "unlink" /\ Steps[6] = "opendir" /\ Steps[7] = "syncdir" /\ Steps[8] = "ready"
  BY DEF Steps
<1>3. 1 .. 8 = {1, 2, 3, 4, 5, 6, 7, 8} /\ 1 .. 7 = {1, 2, 3, 4, 5, 6, 7}
  OBVIOUS
<1> HIDE DEF Steps
<1>4. Working = {"create", "write", "sync", "publish", "unlink", "opendir", "syncdir", "ready"}
  BY <1>1, <1>2, <1>3 DEF Working, Range
<1>5. ASSUME NEW k \in 1 .. 7
      PROVE  After(Steps[k]) = Steps[1 + k]
  <2> DEFINE i == CHOOSE n \in 1 .. Len(Steps) - 1 : Steps[n] = Steps[k]
  <2>1. i \in 1 .. 7 /\ Steps[i] = Steps[k]
    BY <1>1
  <2> HIDE DEF i
  <2>2. i = k
    BY <1>2, <1>3, <2>1
  <2>3. QED
    BY <2>2 DEF After, i
<1>6. QED
  BY <1>2, <1>3, <1>4, <1>5

-----------------------------------------------------------------------------
(* A step of one call leaves the others alone *)

\* Nothing of call d changes.
SameCall(d) ==
    /\ caller'[d] = caller[d] /\ receipt'[d] = receipt[d] /\ ready'[d] = ready[d]
    /\ worker'[d] = worker[d] /\ inode'[d] = inode[d] /\ temp'[d] = temp[d]
    /\ final'[d] = final[d] /\ durable'[d] = durable[d]

LEMMA OthersKept ==
    ASSUME NEW d \in Calls, VerdictInv(d), alive => WorkInv(d), SameCall(d),
           alive' = alive, dirty => dirty'
    PROVE  VerdictInv(d)' /\ (alive' => WorkInv(d)')
BY DEF VerdictInv, WorkInv, Whole, SameCall

\* The counter does not notice what a call does between its slot and its end.
LEMMA CounterKept ==
    ASSUME CounterInv, written' = written,
           \A d \in Calls : /\ caller'[d] \in {"idle", "refused"} <=> caller[d] \in {"idle", "refused"}
                            /\ caller'[d] = "limited" <=> caller[d] = "limited"
    PROVE  CounterInv'
<1>1. CountedCalls' = CountedCalls /\ Granted' = Granted
  BY DEF CountedCalls, Granted
<1>2. QED
  BY <1>1 DEF CounterInv

\* A step of call c: everybody else stays, and c ends in a legal state.
LEMMA OneCall ==
    ASSUME SinkInv, NEW c \in Calls, SinkTypes', CounterInv',
           \A d \in Calls \ {c} : SameCall(d),
           alive' = alive, dirty => dirty', VerdictInv(c)', alive' => WorkInv(c)'
    PROVE  SinkInv'
<1>1. ASSUME NEW d \in Calls
      PROVE  VerdictInv(d)' /\ (alive' => WorkInv(d)')
  <2>1. CASE d = c
    BY <2>1
  <2>2. CASE d # c
    BY <2>2, OthersKept DEF SinkInv
  <2>3. QED
    BY <2>1, <2>2
<1>2. QED
  BY <1>1 DEF SinkInv

-----------------------------------------------------------------------------
(* The caller's steps *)

LEMMA SCall ==
    ASSUME IsFiniteSet(Calls), MaxObservations \in Nat, SinkInv, NEW c \in Calls, Call(c)
    PROVE  SinkInv'
<1>0. SinkTypes /\ VerdictInv(c) /\ (alive => WorkInv(c))
  BY DEF SinkInv
<1>1. SinkTypes'
  BY <1>0 DEF SinkTypes, Call, fileVars
<1>2. caller[c] = "idle" /\ caller' = [caller EXCEPT ![c] = IF WithinLimit(written) THEN "called" ELSE "limited"]
      /\ written' = written + 1
  BY DEF Call
<1>3. CounterInv'
  <2>1. IsFiniteSet(CountedCalls) /\ IsFiniteSet(Granted) /\ c \notin CountedCalls /\ c \notin Granted
        /\ Granted \subseteq CountedCalls
    BY <1>2, FS_Subset DEF CountedCalls, Granted
  <2>2. CountedCalls' = CountedCalls \cup {c}
    BY <1>0, <1>2 DEF CountedCalls, SinkTypes
  <2>3. Cardinality(CountedCalls') = Cardinality(CountedCalls) + 1
    BY <2>1, <2>2, FS_AddElement
  <2>4. CASE WithinLimit(written)
    <3>1. Granted' = Granted \cup {c}
      BY <1>0, <1>2, <2>4 DEF Granted, SinkTypes
    <3>2. Cardinality(Granted') = Cardinality(Granted) + 1
      BY <2>1, <3>1, FS_AddElement
    <3>3. Cardinality(Granted) <= Cardinality(CountedCalls) /\ Cardinality(Granted) \in Nat
          /\ Cardinality(CountedCalls) \in Nat
      BY <2>1, FS_Subset, FS_CardinalityType
    <3>4. QED
      BY <1>2, <2>3, <2>4, <3>2, <3>3 DEF SinkInv, CounterInv, WithinLimit
  <2>5. CASE ~WithinLimit(written)
    <3>1. Granted' = Granted
      BY <1>0, <1>2, <2>5 DEF Granted, SinkTypes
    <3>2. QED
      BY <1>2, <2>3, <3>1 DEF SinkInv, CounterInv
  <2>6. QED
    BY <2>4, <2>5
<1>4. \A d \in Calls \ {c} : SameCall(d)
  BY <1>0 DEF SinkTypes, SameCall, Call, fileVars
<1>5. VerdictInv(c)' /\ (alive' => WorkInv(c)') /\ alive' = alive /\ dirty' = dirty
  BY <1>0 DEF VerdictInv, WorkInv, Whole, SinkTypes, Call, fileVars
<1>6. QED
  BY <1>1, <1>3, <1>4, <1>5, OneCall

LEMMA SRefuse ==
    ASSUME IsFiniteSet(Calls), SinkInv, NEW c \in Calls, RefuseCall(c)
    PROVE  SinkInv'
<1>0. SinkTypes /\ VerdictInv(c) /\ (alive => WorkInv(c))
  BY DEF SinkInv
<1>1. caller[c] = "limited" /\ caller' = [caller EXCEPT ![c] = "refused"] /\ written' = written - 1
  BY DEF RefuseCall
<1>2. IsFiniteSet(CountedCalls) /\ c \in CountedCalls
  BY <1>1, FS_Subset DEF CountedCalls
<1>3. CountedCalls' = CountedCalls \ {c} /\ Granted' = Granted
  BY <1>0, <1>1 DEF CountedCalls, Granted, SinkTypes
<1>4. Cardinality(CountedCalls') = Cardinality(CountedCalls) - 1 /\ Cardinality(CountedCalls') \in Nat
  BY <1>2, <1>3, FS_RemoveElement, FS_CardinalityType
<1>5. CounterInv' /\ written' \in Nat
  BY <1>1, <1>3, <1>4 DEF SinkInv, CounterInv
<1>6. SinkTypes'
  BY <1>0, <1>5 DEF SinkTypes, RefuseCall, fileVars, Verdicts
<1>7. \A d \in Calls \ {c} : SameCall(d)
  BY <1>0 DEF SinkTypes, SameCall, RefuseCall, fileVars
<1>8. VerdictInv(c)' /\ (alive' => WorkInv(c)') /\ alive' = alive /\ dirty' = dirty
  BY <1>0 DEF VerdictInv, WorkInv, Whole, SinkTypes, RefuseCall, fileVars
<1>9. QED
  BY <1>5, <1>6, <1>7, <1>8, OneCall

LEMMA SSpawn == ASSUME SinkInv, NEW c \in Calls, Spawn(c) PROVE SinkInv'
<1> USE StepOrder DEF Spawn, callVars, fileVars
<1>0. SinkTypes /\ CounterInv /\ VerdictInv(c) /\ (alive => WorkInv(c))
  BY DEF SinkInv
<1>1. SinkTypes'
  BY <1>0 DEF SinkTypes, Verdicts, WorkerPlaces
<1>2. CounterInv'
  BY <1>0, CounterKept DEF SinkTypes
<1>3. \A d \in Calls \ {c} : SameCall(d)
  BY <1>0 DEF SinkTypes, SameCall
<1>4. VerdictInv(c)' /\ (alive' => WorkInv(c)') /\ alive' = alive /\ (dirty => dirty')
  BY <1>0 DEF VerdictInv, WorkInv, Whole, SinkTypes
<1>5. QED
  BY <1>1, <1>2, <1>3, <1>4, OneCall

LEMMA SCallDeadlinePasses == ASSUME SinkInv, NEW c \in Calls, CallDeadlinePasses(c) PROVE SinkInv'
<1> USE StepOrder DEF CallDeadlinePasses, callVars, fileVars
<1>0. SinkTypes /\ CounterInv /\ VerdictInv(c) /\ (alive => WorkInv(c))
  BY DEF SinkInv
<1>1. SinkTypes'
  BY <1>0 DEF SinkTypes, Verdicts, WorkerPlaces
<1>2. CounterInv'
  BY <1>0, CounterKept DEF SinkTypes
<1>3. \A d \in Calls \ {c} : SameCall(d)
  BY <1>0 DEF SinkTypes, SameCall
<1>4. VerdictInv(c)' /\ (alive' => WorkInv(c)') /\ alive' = alive /\ (dirty => dirty')
  BY <1>0 DEF VerdictInv, WorkInv, Whole, SinkTypes
<1>5. QED
  BY <1>1, <1>2, <1>3, <1>4, OneCall

LEMMA SAnswered == ASSUME SinkInv, NEW c \in Calls, Answered(c) PROVE SinkInv'
<1> USE StepOrder DEF Answered, accept, accepts, cancel, callVars, fileVars
<1>0. SinkTypes /\ CounterInv /\ VerdictInv(c) /\ (alive => WorkInv(c))
  BY DEF SinkInv
<1>1. SinkTypes'
  <2>1. worker' \in [Calls -> WorkerPlaces] /\ checked' \in [Calls -> BOOLEAN]
    BY <1>0 DEF SinkTypes, WorkerPlaces
  <2>2. caller' \in [Calls -> {"idle", "called", "limited", "awaiting"} \cup Verdicts]
    BY <1>0 DEF SinkTypes, Verdicts
  <2>3. /\ receipt' \in [Calls -> {"active", "cancelled", "accepted"}]
        /\ sleeping' \in [Calls -> BOOLEAN]
    BY <1>0, ZenonT(60) DEF SinkTypes
  <2>4. ready' \in [Calls -> {"none", "ok", "err", "closed"}]
    BY <1>0 DEF SinkTypes
  <2>5. /\ inode' \in [Calls -> {"empty", "written", "synced"}]
        /\ temp' \in [Calls -> BOOLEAN] /\ durable' \in [Calls -> BOOLEAN]
        /\ final' \in [Calls -> {"none", "own", "foreign"}] /\ dirty' \in BOOLEAN
    BY <1>0 DEF SinkTypes
  <2>6. QED
    BY <1>0, <2>1, <2>2, <2>3, <2>4, <2>5 DEF SinkTypes
<1>2. CounterInv'
  BY <1>0, CounterKept DEF SinkTypes
<1>3. \A d \in Calls \ {c} : SameCall(d)
  BY <1>0 DEF SinkTypes, SameCall
<1>4. VerdictInv(c)' /\ (alive' => WorkInv(c)') /\ alive' = alive /\ (dirty => dirty')
  BY <1>0 DEF VerdictInv, WorkInv, Whole, SinkTypes
<1>5. QED
  BY <1>1, <1>2, <1>3, <1>4, OneCall

LEMMA SDropped == ASSUME SinkInv, NEW c \in Calls, Dropped(c) PROVE SinkInv'
<1> USE StepOrder DEF Dropped, cancel, callVars, fileVars
<1>0. SinkTypes /\ CounterInv /\ VerdictInv(c) /\ (alive => WorkInv(c))
  BY DEF SinkInv
<1>1. SinkTypes'
  BY <1>0 DEF SinkTypes, Verdicts, WorkerPlaces
<1>2. CounterInv'
  BY <1>0, CounterKept DEF SinkTypes
<1>3. \A d \in Calls \ {c} : SameCall(d)
  BY <1>0 DEF SinkTypes, SameCall
<1>4. VerdictInv(c)' /\ (alive' => WorkInv(c)') /\ alive' = alive /\ (dirty => dirty')
  BY <1>0 DEF VerdictInv, WorkInv, Whole, SinkTypes
<1>5. QED
  BY <1>1, <1>2, <1>3, <1>4, OneCall

-----------------------------------------------------------------------------
(* The worker's steps *)

LEMMA SStart == ASSUME SinkInv, NEW c \in Calls, Start(c) PROVE SinkInv'
<1> USE StepOrder DEF Start, MoveTo, Send, callVars, fileVars
<1>0. SinkTypes /\ CounterInv /\ VerdictInv(c) /\ (alive => WorkInv(c))
  BY DEF SinkInv
<1>1. SinkTypes'
  <2>1. worker' \in [Calls -> WorkerPlaces] /\ checked' \in [Calls -> BOOLEAN]
    <3>1. PICK place \in {"create", "report", "done"} :
                worker' = [worker EXCEPT ![c] = place] /\ checked' = [checked EXCEPT ![c] = FALSE]
      OBVIOUS
    <3>2. QED
      BY <1>0, <3>1 DEF SinkTypes, WorkerPlaces
  <2>2. caller' \in [Calls -> {"idle", "called", "limited", "awaiting"} \cup Verdicts]
    BY <1>0 DEF SinkTypes, Verdicts
  <2>3. /\ receipt' \in [Calls -> {"active", "cancelled", "accepted"}]
        /\ sleeping' \in [Calls -> BOOLEAN]
    BY <1>0 DEF SinkTypes
  <2>4. ready' \in [Calls -> {"none", "ok", "err", "closed"}]
    BY <1>0 DEF SinkTypes
  <2>5. /\ inode' \in [Calls -> {"empty", "written", "synced"}]
        /\ temp' \in [Calls -> BOOLEAN] /\ durable' \in [Calls -> BOOLEAN]
        /\ final' \in [Calls -> {"none", "own", "foreign"}] /\ dirty' \in BOOLEAN
    BY <1>0 DEF SinkTypes
  <2>6. QED
    BY <1>0, <2>1, <2>2, <2>3, <2>4, <2>5 DEF SinkTypes
<1>2. CounterInv'
  BY <1>0, CounterKept DEF SinkTypes
<1>3. \A d \in Calls \ {c} : SameCall(d)
  BY <1>0 DEF SinkTypes, SameCall
<1>4. VerdictInv(c)' /\ (alive' => WorkInv(c)') /\ alive' = alive /\ (dirty => dirty')
  BY <1>0 DEF VerdictInv, WorkInv, Whole, SinkTypes
<1>5. QED
  BY <1>1, <1>2, <1>3, <1>4, OneCall

LEMMA SCheckpoint == ASSUME SinkInv, NEW c \in Calls, Checkpoint(c) PROVE SinkInv'
<1> USE StepOrder DEF Checkpoint, MoveTo, is_active_before, callVars, fileVars
<1>0. SinkTypes /\ CounterInv /\ VerdictInv(c) /\ (alive => WorkInv(c))
  BY DEF SinkInv
<1>1. SinkTypes'
  <2>1. worker' \in [Calls -> WorkerPlaces] /\ checked' \in [Calls -> BOOLEAN]
    BY <1>0, ZenonT(60) DEF SinkTypes, WorkerPlaces
  <2>2. caller' \in [Calls -> {"idle", "called", "limited", "awaiting"} \cup Verdicts]
    BY <1>0 DEF SinkTypes, Verdicts
  <2>3. /\ receipt' \in [Calls -> {"active", "cancelled", "accepted"}]
        /\ sleeping' \in [Calls -> BOOLEAN]
    BY <1>0 DEF SinkTypes
  <2>4. ready' \in [Calls -> {"none", "ok", "err", "closed"}]
    BY <1>0 DEF SinkTypes
  <2>5. /\ inode' \in [Calls -> {"empty", "written", "synced"}]
        /\ temp' \in [Calls -> BOOLEAN] /\ durable' \in [Calls -> BOOLEAN]
        /\ final' \in [Calls -> {"none", "own", "foreign"}] /\ dirty' \in BOOLEAN
    BY <1>0 DEF SinkTypes
  <2>6. QED
    BY <1>0, <2>1, <2>2, <2>3, <2>4, <2>5 DEF SinkTypes
<1>2. CounterInv'
  BY <1>0, CounterKept DEF SinkTypes
<1>3. \A d \in Calls \ {c} : SameCall(d)
  BY <1>0 DEF SinkTypes, SameCall
<1>4. VerdictInv(c)' /\ (alive' => WorkInv(c)') /\ alive' = alive /\ (dirty => dirty')
  BY <1>0 DEF VerdictInv, WorkInv, Whole, SinkTypes
<1>5. QED
  BY <1>1, <1>2, <1>3, <1>4, OneCall

LEMMA SSystemCall == ASSUME SinkInv, NEW c \in Calls, SystemCall(c) PROVE SinkInv'
<1> USE StepOrder DEF SystemCall, MoveTo, Effect, CanSucceed, callVars, fileVars
<1>0. SinkTypes /\ CounterInv /\ VerdictInv(c) /\ (alive => WorkInv(c))
  BY DEF SinkInv
<1>1. SinkTypes'
  <2>1. worker' \in [Calls -> WorkerPlaces] /\ checked' \in [Calls -> BOOLEAN]
    BY <1>0 DEF SinkTypes, WorkerPlaces
  <2>2. caller' \in [Calls -> {"idle", "called", "limited", "awaiting"} \cup Verdicts]
    BY <1>0 DEF SinkTypes, Verdicts
  <2>3. /\ receipt' \in [Calls -> {"active", "cancelled", "accepted"}]
        /\ sleeping' \in [Calls -> BOOLEAN]
    BY <1>0 DEF SinkTypes
  <2>4. ready' \in [Calls -> {"none", "ok", "err", "closed"}]
    BY <1>0 DEF SinkTypes
  <2>5. /\ inode' \in [Calls -> {"empty", "written", "synced"}]
        /\ temp' \in [Calls -> BOOLEAN] /\ durable' \in [Calls -> BOOLEAN]
        /\ final' \in [Calls -> {"none", "own", "foreign"}] /\ dirty' \in BOOLEAN
    BY <1>0, ZenonT(60) DEF SinkTypes
  <2>6. QED
    BY <1>0, <2>1, <2>2, <2>3, <2>4, <2>5 DEF SinkTypes
<1>2. CounterInv'
  BY <1>0, CounterKept DEF SinkTypes
<1>3. \A d \in Calls \ {c} : SameCall(d)
  BY <1>0, ZenonT(60) DEF SinkTypes, SameCall
<1>4. VerdictInv(c)' /\ (alive' => WorkInv(c)') /\ alive' = alive /\ (dirty => dirty')
  <2>1. /\ worker[c] \in {"create", "write", "sync", "publish", "unlink", "opendir", "syncdir"}
        /\ worker' = [worker EXCEPT ![c] = After(worker[c])]
        /\ UNCHANGED <<caller, receipt, ready, alive, dirty>>
    OBVIOUS
  <2>2. CASE worker[c] = "create"
    <3>1. worker'[c] = "write" /\ temp'[c] = TRUE /\ UNCHANGED <<inode, final, durable>>
      BY <1>0, <2>1, <2>2 DEF SinkTypes
    <3>2. QED
      BY <1>0, <2>1, <2>2, <3>1 DEF VerdictInv, WorkInv, Whole
  <2>3. CASE worker[c] = "write"
    <3>1. worker'[c] = "sync" /\ UNCHANGED <<temp, final, durable>>
      BY <1>0, <2>1, <2>3 DEF SinkTypes
    <3>2. QED
      BY <1>0, <2>1, <2>3, <3>1 DEF VerdictInv, WorkInv, Whole
  <2>4. CASE worker[c] = "sync"
    <3>1. worker'[c] = "publish" /\ inode'[c] = "synced" /\ UNCHANGED <<temp, final, durable>>
      BY <1>0, <2>1, <2>4 DEF SinkTypes
    <3>2. QED
      BY <1>0, <2>1, <2>4, <3>1 DEF VerdictInv, WorkInv, Whole
  <2>5. CASE worker[c] = "publish"
    <3>1. worker'[c] = "unlink" /\ final'[c] = "own" /\ UNCHANGED <<inode, temp, durable>>
      BY <1>0, <2>1, <2>5 DEF SinkTypes
    <3>2. QED
      BY <1>0, <2>1, <2>5, <3>1 DEF VerdictInv, WorkInv, Whole
  <2>6. CASE worker[c] = "unlink"
    <3>1. worker'[c] = "opendir" /\ temp'[c] = FALSE /\ UNCHANGED <<inode, final, durable>>
      BY <1>0, <2>1, <2>6 DEF SinkTypes
    <3>2. QED
      BY <1>0, <2>1, <2>6, <3>1 DEF VerdictInv, WorkInv, Whole
  <2>7. CASE worker[c] = "opendir"
    <3>1. worker'[c] = "syncdir" /\ UNCHANGED <<inode, temp, final, durable>>
      BY <1>0, <2>1, <2>7 DEF SinkTypes
    <3>2. QED
      BY <1>0, <2>1, <2>7, <3>1 DEF VerdictInv, WorkInv, Whole
  <2>8. CASE worker[c] = "syncdir"
    <3>1. worker'[c] = "ready" /\ durable'[c] = TRUE /\ UNCHANGED <<inode, temp, final>>
      BY <1>0, <2>1, <2>8 DEF SinkTypes
    <3>2. QED
      BY <1>0, <2>1, <2>8, <3>1 DEF VerdictInv, WorkInv, Whole
  <2>9. QED
    BY <2>1, <2>2, <2>3, <2>4, <2>5, <2>6, <2>7, <2>8
<1>5. QED
  BY <1>1, <1>2, <1>3, <1>4, OneCall

LEMMA SSystemCallFails == ASSUME SinkInv, NEW c \in Calls, SystemCallFails(c) PROVE SinkInv'
<1> USE StepOrder DEF SystemCallFails, MoveTo, callVars, fileVars
<1>0. SinkTypes /\ CounterInv /\ VerdictInv(c) /\ (alive => WorkInv(c))
  BY DEF SinkInv
<1>1. SinkTypes'
  <2>1. worker' \in [Calls -> WorkerPlaces] /\ checked' \in [Calls -> BOOLEAN]
    BY <1>0, ZenonT(60) DEF SinkTypes, WorkerPlaces
  <2>2. caller' \in [Calls -> {"idle", "called", "limited", "awaiting"} \cup Verdicts]
    BY <1>0 DEF SinkTypes, Verdicts
  <2>3. /\ receipt' \in [Calls -> {"active", "cancelled", "accepted"}]
        /\ sleeping' \in [Calls -> BOOLEAN]
    BY <1>0 DEF SinkTypes
  <2>4. ready' \in [Calls -> {"none", "ok", "err", "closed"}]
    BY <1>0 DEF SinkTypes
  <2>5. /\ inode' \in [Calls -> {"empty", "written", "synced"}]
        /\ temp' \in [Calls -> BOOLEAN] /\ durable' \in [Calls -> BOOLEAN]
        /\ final' \in [Calls -> {"none", "own", "foreign"}] /\ dirty' \in BOOLEAN
    BY <1>0 DEF SinkTypes
  <2>6. QED
    BY <1>0, <2>1, <2>2, <2>3, <2>4, <2>5 DEF SinkTypes
<1>2. CounterInv'
  BY <1>0, CounterKept DEF SinkTypes
<1>3. \A d \in Calls \ {c} : SameCall(d)
  BY <1>0 DEF SinkTypes, SameCall
<1>4. VerdictInv(c)' /\ (alive' => WorkInv(c)') /\ alive' = alive /\ (dirty => dirty')
  BY <1>0 DEF VerdictInv, WorkInv, Whole, SinkTypes
<1>5. QED
  BY <1>1, <1>2, <1>3, <1>4, OneCall

LEMMA STellReady == ASSUME SinkInv, NEW c \in Calls, TellReady(c) PROVE SinkInv'
<1> USE StepOrder DEF TellReady, MoveTo, Send, cancel, callVars, fileVars
<1>0. SinkTypes /\ CounterInv /\ VerdictInv(c) /\ (alive => WorkInv(c))
  BY DEF SinkInv
<1>1. SinkTypes'
  <2>1. worker' \in [Calls -> WorkerPlaces] /\ checked' \in [Calls -> BOOLEAN]
    BY <1>0 DEF SinkTypes, WorkerPlaces
  <2>2. caller' \in [Calls -> {"idle", "called", "limited", "awaiting"} \cup Verdicts]
    BY <1>0 DEF SinkTypes, Verdicts
  <2>3. /\ receipt' \in [Calls -> {"active", "cancelled", "accepted"}]
        /\ sleeping' \in [Calls -> BOOLEAN]
    BY <1>0, ZenonT(60) DEF SinkTypes
  <2>4. ready' \in [Calls -> {"none", "ok", "err", "closed"}]
    BY <1>0 DEF SinkTypes
  <2>5. /\ inode' \in [Calls -> {"empty", "written", "synced"}]
        /\ temp' \in [Calls -> BOOLEAN] /\ durable' \in [Calls -> BOOLEAN]
        /\ final' \in [Calls -> {"none", "own", "foreign"}] /\ dirty' \in BOOLEAN
    BY <1>0 DEF SinkTypes
  <2>6. QED
    BY <1>0, <2>1, <2>2, <2>3, <2>4, <2>5 DEF SinkTypes
<1>2. CounterInv'
  BY <1>0, CounterKept DEF SinkTypes
<1>3. \A d \in Calls \ {c} : SameCall(d)
  BY <1>0 DEF SinkTypes, SameCall
<1>4. VerdictInv(c)' /\ (alive' => WorkInv(c)') /\ alive' = alive /\ (dirty => dirty')
  BY <1>0 DEF VerdictInv, WorkInv, Whole, SinkTypes
<1>5. QED
  BY <1>1, <1>2, <1>3, <1>4, OneCall

LEMMA SWaitForCaller == ASSUME SinkInv, NEW c \in Calls, WaitForCaller(c) PROVE SinkInv'
<1> USE StepOrder DEF WaitForCaller, MoveTo, callVars, fileVars
<1>0. SinkTypes /\ CounterInv /\ VerdictInv(c) /\ (alive => WorkInv(c))
  BY DEF SinkInv
<1>1. SinkTypes'
  <2>1. worker' \in [Calls -> WorkerPlaces] /\ checked' \in [Calls -> BOOLEAN]
    BY <1>0, ZenonT(60) DEF SinkTypes, WorkerPlaces
  <2>2. caller' \in [Calls -> {"idle", "called", "limited", "awaiting"} \cup Verdicts]
    BY <1>0 DEF SinkTypes, Verdicts
  <2>3. /\ receipt' \in [Calls -> {"active", "cancelled", "accepted"}]
        /\ sleeping' \in [Calls -> BOOLEAN]
    BY <1>0 DEF SinkTypes
  <2>4. ready' \in [Calls -> {"none", "ok", "err", "closed"}]
    BY <1>0 DEF SinkTypes
  <2>5. /\ inode' \in [Calls -> {"empty", "written", "synced"}]
        /\ temp' \in [Calls -> BOOLEAN] /\ durable' \in [Calls -> BOOLEAN]
        /\ final' \in [Calls -> {"none", "own", "foreign"}] /\ dirty' \in BOOLEAN
    BY <1>0 DEF SinkTypes
  <2>6. QED
    BY <1>0, <2>1, <2>2, <2>3, <2>4, <2>5 DEF SinkTypes
<1>2. CounterInv'
  BY <1>0, CounterKept DEF SinkTypes
<1>3. \A d \in Calls \ {c} : SameCall(d)
  BY <1>0 DEF SinkTypes, SameCall
<1>4. VerdictInv(c)' /\ (alive' => WorkInv(c)') /\ alive' = alive /\ (dirty => dirty')
  BY <1>0 DEF VerdictInv, WorkInv, Whole, SinkTypes
<1>5. QED
  BY <1>1, <1>2, <1>3, <1>4, OneCall

LEMMA SCleanup == ASSUME SinkInv, NEW c \in Calls, Cleanup(c) PROVE SinkInv'
<1> USE StepOrder DEF Cleanup, MoveTo, RemovesFinal, callVars, fileVars
<1>0. SinkTypes /\ CounterInv /\ VerdictInv(c) /\ (alive => WorkInv(c))
  BY DEF SinkInv
<1>1. SinkTypes'
  BY <1>0, ZenonT(60) DEF SinkTypes, Verdicts, WorkerPlaces
<1>2. CounterInv'
  BY <1>0, CounterKept DEF SinkTypes
<1>3. \A d \in Calls \ {c} : SameCall(d)
  BY <1>0 DEF SinkTypes, SameCall
<1>4. VerdictInv(c)' /\ (alive' => WorkInv(c)') /\ alive' = alive /\ (dirty => dirty')
  <2>1. VerdictInv(c)' /\ alive' = alive /\ (dirty => dirty')
    BY <1>0 DEF VerdictInv, Whole, SinkTypes
  <2>2. worker'[c] = "done" => receipt[c] # "accepted" /\ receipt'[c] = receipt[c]
    BY <1>0 DEF VerdictInv, SinkTypes
  <2>3. worker'[c] \in {"done", "report"} /\ (dirty' \/ (~temp'[c] /\ final'[c] # "own"))
    BY <1>0 DEF SinkTypes
  <2>4. QED
    BY <2>1, <2>2, <2>3 DEF WorkInv
<1>5. QED
  BY <1>1, <1>2, <1>3, <1>4, OneCall

LEMMA SReport == ASSUME SinkInv, NEW c \in Calls, Report(c) PROVE SinkInv'
<1> USE StepOrder DEF Report, MoveTo, Send, callVars, fileVars
<1>0. SinkTypes /\ CounterInv /\ VerdictInv(c) /\ (alive => WorkInv(c))
  BY DEF SinkInv
<1>1. SinkTypes'
  BY <1>0 DEF SinkTypes, Verdicts, WorkerPlaces
<1>2. CounterInv'
  BY <1>0, CounterKept DEF SinkTypes
<1>3. \A d \in Calls \ {c} : SameCall(d)
  BY <1>0 DEF SinkTypes, SameCall
<1>4. VerdictInv(c)' /\ (alive' => WorkInv(c)') /\ alive' = alive /\ (dirty => dirty')
  BY <1>0 DEF VerdictInv, WorkInv, Whole, SinkTypes
<1>5. QED
  BY <1>1, <1>2, <1>3, <1>4, OneCall

-----------------------------------------------------------------------------
(* The power supply *)

LEMMA SPowerLoss == ASSUME SinkInv, PowerLoss PROVE SinkInv'
<1>0. SinkTypes /\ CounterInv
  BY DEF SinkInv
<1>1. /\ alive' = FALSE
      /\ UNCHANGED <<written, caller, late, receipt, ready, worker, checked, sleeping, durable, dirty>>
  BY DEF PowerLoss, callVars
<1>2. PICK kept \in SUBSET {c \in Calls : final[c] = "own"}, keptTemp \in SUBSET {c \in Calls : temp[c]} :
        /\ final' = [c \in Calls |->
                        IF final[c] = "own" /\ ~durable[c] /\ c \notin kept THEN "none" ELSE final[c]]
        /\ temp' = [c \in Calls |-> c \in keptTemp]
        /\ inode' = [c \in Calls |-> IF inode[c] = "written" THEN "empty" ELSE inode[c]]
  BY DEF PowerLoss
<1>3. SinkTypes'
  <2>1. final' \in [Calls -> {"none", "own", "foreign"}]
    BY <1>0, <1>2 DEF SinkTypes
  <2>2. temp' \in [Calls -> BOOLEAN]
    BY <1>2
  <2>3. inode' \in [Calls -> {"empty", "written", "synced"}]
    BY <1>0, <1>2 DEF SinkTypes
  <2>4. QED
    BY <1>0, <1>1, <2>1, <2>2, <2>3 DEF SinkTypes
<1>4. CounterInv'
  BY <1>0, <1>1 DEF CounterInv, CountedCalls, Granted
<1>5. ASSUME NEW d \in Calls
      PROVE  VerdictInv(d)'
  <2>1. VerdictInv(d)
    BY DEF SinkInv
  <2>2. /\ final'[d] = "own" => final[d] = "own"
        /\ Whole(d) => Whole(d)'
    BY <1>1, <1>2 DEF Whole
  <2>3. QED
    BY <1>1, <2>1, <2>2 DEF VerdictInv
<1>6. QED
  BY <1>1, <1>3, <1>4, <1>5 DEF SinkInv

LEMMA SinkUnchanged == ASSUME SinkInv, UNCHANGED sinkVars PROVE SinkInv'
<1>1. SinkTypes' /\ CounterInv'
  BY DEF SinkInv, SinkTypes, CounterInv, CountedCalls, Granted, sinkVars
<1>2. ASSUME NEW d \in Calls
      PROVE  VerdictInv(d)' /\ (alive' => WorkInv(d)')
  BY OthersKept DEF SinkInv, SameCall, sinkVars
<1>3. QED
  BY <1>1, <1>2 DEF SinkInv

-----------------------------------------------------------------------------
LEMMA SinkStarts ==
    ASSUME MaxObservations \in Nat, SinkInit
    PROVE  SinkInv
<1>1. SinkTypes
  BY DEF SinkInit, SinkTypes, WorkerPlaces
<1>2. CounterInv
  <2>1. CountedCalls = {} /\ Granted = {}
    BY DEF SinkInit, CountedCalls, Granted
  <2>2. QED
    BY <2>1, FS_EmptySet DEF SinkInit, CounterInv
<1>3. \A c \in Calls : VerdictInv(c) /\ WorkInv(c)
  BY DEF SinkInit, VerdictInv, WorkInv
<1>4. QED
  BY <1>1, <1>2, <1>3 DEF SinkInv

LEMMA SinkStep ==
    ASSUME IsFiniteSet(Calls), MaxObservations \in Nat, SinkInv, [SinkNext]_sinkVars
    PROVE  SinkInv'
<1>1. CASE UNCHANGED sinkVars \/ Over
  BY <1>1, SinkUnchanged DEF Over
<1>2. CASE PowerLoss
  BY <1>2, SPowerLoss
<1>3. ASSUME NEW c \in Calls, CallerStep(c) \/ CallDeadlinePasses(c)
      PROVE  SinkInv'
  BY <1>3, SCall, SRefuse, SSpawn, SAnswered, SDropped, SCallDeadlinePasses DEF CallerStep
<1>4. ASSUME NEW c \in Calls, WorkerStep(c)
      PROVE  SinkInv'
  BY <1>4, SStart, SCheckpoint, SSystemCall, SSystemCallFails, STellReady, SWaitForCaller,
     SCleanup, SReport DEF WorkerStep
<1>5. QED
  BY <1>1, <1>2, <1>3, <1>4 DEF SinkNext

LEMMA SinkEvidence ==
    ASSUME IsFiniteSet(Calls), MaxObservations \in Nat, SinkInv
    PROVE  EvidenceInv
<1>1. AcceptedIsDurable
  BY DEF SinkInv, VerdictInv, Whole, AcceptedIsDurable
<1>2. InventoryIsEvidence
  BY DEF SinkInv, VerdictInv, WorkInv, InventoryIsEvidence
<1>3. RecordsBounded
  <2> DEFINE Own == {c \in Calls : final[c] = "own"}
  <2>1. Own \subseteq Granted /\ IsFiniteSet(Granted)
    BY FS_Subset DEF SinkInv, VerdictInv, Granted
  <2>2. Cardinality(Own) <= Cardinality(Granted) /\ Cardinality(Own) \in Nat /\ Cardinality(Granted) \in Nat
    BY <2>1, FS_Subset, FS_CardinalityType
  <2>3. QED
    BY <2>2 DEF RecordsBounded, SinkInv, CounterInv
<1>4. QED
  BY <1>1, <1>2, <1>3 DEF EvidenceInv

\* The directory of observations is evidence at every moment of every race
\* between callers, workers, timers and the power supply: each accepted record
\* is whole and durable, nothing is left of a call that was not accepted, and
\* there are no more records than the limit allows (file_sink.rs), for every
\* finite number of calls and every limit.
THEOREM RecordsAreEvidence == SinkSpec => []EvidenceInv
<1>1. SinkInit => SinkInv
  BY SinkStarts, SinkAssumption
<1>2. SinkInv /\ [SinkNext]_sinkVars => SinkInv'
  BY SinkStep, SinkAssumption
<1>3. SinkInv => EvidenceInv
  BY SinkEvidence, SinkAssumption
<1>4. QED
  BY <1>1, <1>2, <1>3, PTL DEF SinkSpec

(* PART THREE: live slots and handshakes *)
-----------------------------------------------------------------------------
(* The slots *)

\* A client with a slot is between taking it and returning it.
Holding == {"recheck", "upgraded", "frame", "open", "connecting", "ready", "stream",
            "close_provider", "close_socket", "returned"}

Sessions == {"ready", "stream", "close_provider", "close_socket"}

SlotInv ==
    /\ conn = [c \in Clients |-> conn[c]]
    /\ permits = {c \in Clients : conn[c] \in Holding}
    /\ paid \subseteq {c \in Clients : conn[c] \in Sessions}
    /\ IsFiniteSet(permits) /\ Cardinality(permits) <= LiveConnections

\* A client moves on and keeps the slot it has, or goes on without one.
LEMMA Moved ==
    ASSUME SlotInv, NEW c \in Clients, NEW place, Go(c, place), UNCHANGED permits,
           conn[c] \in Holding <=> place \in Holding,
           paid' \subseteq paid \/ paid' = paid \cup {c},
           c \in paid' => place \in Sessions
    PROVE  SlotInv'
<1>1. conn' = [d \in Clients |-> conn'[d]] /\ conn'[c] = place /\ \A d \in Clients \ {c} : conn'[d] = conn[d]
  BY DEF SlotInv, Go
<1>2. permits' = {d \in Clients : conn'[d] \in Holding}
  BY <1>1 DEF SlotInv
<1>3. paid' \subseteq {d \in Clients : conn'[d] \in Sessions}
  BY <1>1 DEF SlotInv
<1>4. QED
  BY <1>1, <1>2, <1>3 DEF SlotInv

\* A client gives its slot back.
LEMMA Returned ==
    ASSUME SlotInv, LiveConnections \in Nat, NEW c \in Clients, Go(c, "gone"),
           permits' = permits \ {c}, UNCHANGED paid, conn[c] \notin Sessions
    PROVE  SlotInv'
<1>1. conn' = [d \in Clients |-> conn'[d]] /\ conn'[c] = "gone" /\ \A d \in Clients \ {c} : conn'[d] = conn[d]
  BY DEF SlotInv, Go
<1>2. permits' = {d \in Clients : conn'[d] \in Holding}
  BY <1>1 DEF SlotInv, Holding
<1>3. paid' \subseteq {d \in Clients : conn'[d] \in Sessions}
  BY <1>1 DEF SlotInv
<1>4. IsFiniteSet(permits') /\ Cardinality(permits') <= LiveConnections
  <2>1. permits' \subseteq permits /\ IsFiniteSet(permits) /\ Cardinality(permits) <= LiveConnections
    BY DEF SlotInv
  <2>2. /\ IsFiniteSet(permits') /\ Cardinality(permits') <= Cardinality(permits)
        /\ Cardinality(permits) \in Nat /\ Cardinality(permits') \in Nat
    BY <2>1, FS_Subset, FS_CardinalityType
  <2>3. QED
    BY <2>1, <2>2
<1>5. QED
  BY <1>1, <1>2, <1>3, <1>4 DEF SlotInv

LEMMA SAcquire ==
    ASSUME SlotInv, LiveConnections \in Nat, NEW c \in Clients, AcquireSlot(c)
    PROVE  SlotInv'
<1>1. CASE Cardinality(permits) < LiveConnections
  <2>1. /\ conn[c] = "acquire" /\ permits' = permits \cup {c} /\ Go(c, "recheck") /\ UNCHANGED paid
    BY <1>1 DEF AcquireSlot
  <2>2. conn' = [d \in Clients |-> conn'[d]] /\ conn'[c] = "recheck" /\ \A d \in Clients \ {c} : conn'[d] = conn[d]
    BY <2>1 DEF SlotInv, Go
  <2>3. permits' = {d \in Clients : conn'[d] \in Holding}
    BY <2>1, <2>2 DEF SlotInv, Holding
  <2>4. paid' \subseteq {d \in Clients : conn'[d] \in Sessions}
    BY <2>1, <2>2 DEF SlotInv, Sessions
  <2>5. c \notin permits /\ IsFiniteSet(permits)
    BY <2>1 DEF SlotInv, Holding
  <2>6. IsFiniteSet(permits') /\ Cardinality(permits') = Cardinality(permits) + 1 /\ Cardinality(permits) \in Nat
    BY <2>1, <2>5, FS_AddElement, FS_CardinalityType
  <2>7. QED
    BY <1>1, <2>2, <2>3, <2>4, <2>6 DEF SlotInv
<1>2. CASE ~(Cardinality(permits) < LiveConnections)
  <2>1. conn[c] = "acquire" /\ Go(c, "gone") /\ UNCHANGED <<permits, paid>>
    BY <1>2 DEF AcquireSlot
  <2>2. c \notin paid
    BY <2>1 DEF SlotInv, Sessions
  <2>3. QED
    BY <2>1, <2>2, Moved DEF Holding
<1>3. QED
  BY <1>1, <1>2

\* The steps of a client that neither take nor return a slot.
ClientMoves(c) ==
    \E place : /\ Go(c, place) /\ UNCHANGED permits
               /\ conn[c] \in Holding <=> place \in Holding
               /\ paid' \subseteq paid \/ paid' = paid \cup {c}
               /\ c \in paid' => place \in Sessions

LEMMA Idle ==
    ASSUME SlotInv, NEW c \in Clients, UNCHANGED <<conn, permits, paid>>
    PROVE  ClientMoves(c)
<1>1. Go(c, conn[c])
  BY DEF SlotInv, Go
<1>2. c \in paid => conn[c] \in Sessions
  BY DEF SlotInv
<1>3. QED
  BY <1>1, <1>2 DEF ClientMoves

LEMMA ClientStepMoves ==
    ASSUME SlotInv, NEW c \in Clients,
           \/ Authenticate(c) \/ CheckAccepting(c) \/ StartRun(c) \/ ReceiveConfig(c)
           \/ ConfigTimeout(c) \/ ConfigLost(c) \/ Open(c) \/ Connected(c) \/ ConnectFails(c)
           \/ SendReady(c) \/ SendAck(c) \/ SendTranscript(c) \/ SendFinalizeComplete(c)
           \/ StreamEnds(c) \/ CloseProvider(c) \/ CloseSocket(c) \/ Reconnect(c)
    PROVE  ClientMoves(c)
<1>0. c \in paid => conn[c] \in Sessions
  BY DEF SlotInv
<1> USE DEF Holding, Sessions
<1>1. CASE Authenticate(c) \/ CheckAccepting(c) \/ Reconnect(c)
  BY <1>0, <1>1 DEF ClientMoves, Authenticate, CheckAccepting, Reconnect
<1>2. CASE StartRun(c) \/ ConfigTimeout(c) \/ ConfigLost(c) \/ ConnectFails(c)
  BY <1>0, <1>2 DEF ClientMoves, StartRun, ConfigTimeout, ConfigLost, ConnectFails, Refuse
<1>3. CASE ReceiveConfig(c)
  <2>1. /\ conn[c] = "frame" /\ UNCHANGED <<permits, paid>>
        /\ Go(c, "close_socket") \/ Go(c, "open")
    BY <1>3 DEF ReceiveConfig, Refuse
  <2>2. QED
    BY <1>0, <2>1 DEF ClientMoves
<1>4. CASE Open(c)
  <2>1. /\ conn[c] = "open" /\ UNCHANGED <<permits, paid>>
        /\ Go(c, "close_socket") \/ Go(c, "connecting")
    BY <1>4 DEF Open, Refuse
  <2>2. QED
    BY <1>0, <2>1 DEF ClientMoves
<1>5. CASE Connected(c)
  BY <1>0, <1>5 DEF ClientMoves, Connected
<1>6. CASE SendReady(c) \/ SendFinalizeComplete(c) \/ StreamEnds(c)
  BY <1>0, <1>6 DEF ClientMoves, SendReady, SendFinalizeComplete, StreamEnds
<1>7. CASE SendAck(c)
  BY <1>7, Idle DEF SendAck
<1>8. CASE SendTranscript(c)
  <2>1. /\ conn[c] = "stream" /\ UNCHANGED <<permits, paid>>
        /\ UNCHANGED conn \/ Go(c, "close_provider")
    BY <1>8 DEF SendTranscript
  <2>2. QED
    BY <1>0, <2>1, Idle DEF ClientMoves
<1>9. CASE CloseProvider(c) \/ CloseSocket(c)
  BY <1>0, <1>9 DEF ClientMoves, CloseProvider, CloseSocket
<1>10. QED
  BY <1>1, <1>2, <1>3, <1>4, <1>5, <1>6, <1>7, <1>8, <1>9

LEMMA SlotStep == SlotInv /\ [HandshakeNext]_handshakeVars => SlotInv'
<1> SUFFICES ASSUME SlotInv, [HandshakeNext]_handshakeVars PROVE SlotInv'
  OBVIOUS
<1>1. CASE UNCHANGED handshakeVars \/ BeginShutdown
  BY <1>1 DEF SlotInv, handshakeVars, BeginShutdown
<1>2. ASSUME NEW c \in Clients, ClientMoves(c) PROVE SlotInv'
  BY <1>2, Moved DEF ClientMoves
<1>3. ASSUME NEW c \in Clients, Recheck(c) \/ UpgradeLost(c) \/ ReturnSlot(c) PROVE SlotInv'
  <2>1. CASE Go(c, "gone") /\ permits' = permits \ {c} /\ UNCHANGED paid
             /\ conn[c] \in {"recheck", "upgraded", "returned"}
    BY <2>1, Returned, SlotsAssumption DEF Sessions
  <2>2. CASE conn[c] = "recheck" /\ Go(c, "upgraded") /\ UNCHANGED <<permits, paid>>
    <3>1. c \notin paid
      BY <2>2 DEF SlotInv, Sessions
    <3>2. QED
      BY <2>2, <3>1, Moved DEF Holding
  <2>3. QED
    BY <1>3, <2>1, <2>2 DEF Recheck, UpgradeLost, ReturnSlot
<1>4. QED
  BY <1>1, <1>2, <1>3, ClientStepMoves, SAcquire, SlotsAssumption DEF HandshakeNext, Serve

\* However many clients connect, are refused, time out, shut down or come back:
\* every connection attempt to a provider and every open provider session is
\* covered by a live slot, and at most live_connections are out (upgrade, where
\* the permit has to outlive run).
THEOREM PaidSessionsHoldSlots == HandshakeSpec => []PaidHoldsSlot
<1>1. HandshakeInit => SlotInv
  BY FS_EmptySet, SlotsAssumption DEF HandshakeInit, SlotInv, Holding
<1>2. SlotInv => PaidHoldsSlot
  BY DEF SlotInv, PaidHoldsSlot, Holding, Sessions
<1>3. QED
  BY <1>1, <1>2, SlotStep, PTL DEF HandshakeSpec

-----------------------------------------------------------------------------
(* The key terms of a session *)

\* The terms an ElevenLabs session asks for: the wanted ones, normalized, each
\* once.
LEMMA EachTermOnce ==
    ASSUME NEW terms \in Seq(Seq(Nat)), NEW provider, provider # "deepgram",
           NEW sent, sent = canonicalize_keyterms(provider, terms)
    PROVE  /\ Len(sent) <= Len(terms) /\ IsInjective(sent)
           /\ \A n \in DOMAIN sent : \E i \in DOMAIN terms : sent[n] = ProviderTerm(terms[i])
           /\ \A i \in DOMAIN terms : \E n \in DOMAIN sent : sent[n] = ProviderTerm(terms[i])
<1> DEFINE Same(i, j) == ProviderTerm(terms[j]) = ProviderTerm(terms[i])
           first == {i \in DOMAIN terms : \A j \in 1 .. i - 1 : ~Same(i, j)}
           L == InOrder(first)
           n == Cardinality(first)
<1>1. DOMAIN terms = 1 .. Len(terms) /\ Len(terms) \in Nat /\ \A i \in DOMAIN terms : terms[i] \in Seq(Nat)
  OBVIOUS
<1>2. /\ first \in SUBSET Nat /\ IsFiniteSet(first)
      /\ n \in Nat /\ n <= Len(terms)
  <2>1. IsFiniteSet(DOMAIN terms) /\ Cardinality(DOMAIN terms) = Len(terms)
    <3>1. \A m \in Nat : IsFiniteSet(1 .. m) /\ Cardinality(1 .. m) = m
      BY FS_Interval
    <3>2. QED
      BY <1>1, <3>1
  <2>2. first \in SUBSET DOMAIN terms
    OBVIOUS
  <2> HIDE DEF first
  <2>3. QED
    BY <1>1, <2>1, <2>2, FS_Subset, FS_CardinalityType
<1>3. sent = [i \in DOMAIN L |-> ProviderTerm(terms[L[i]])]
  BY DEF canonicalize_keyterms
<1>4. \A i \in first : i \in DOMAIN terms /\ \A j \in 1 .. i - 1 : ~Same(i, j)
  OBVIOUS
<1>5. \A i \in DOMAIN terms : \E k \in first : Same(i, k)
  <2> SUFFICES ASSUME NEW i \in DOMAIN terms PROVE \E k \in first : Same(i, k)
    OBVIOUS
  <2> DEFINE U == {j \in DOMAIN terms : Same(i, j)}
  <2>1. U \in SUBSET Nat /\ U # {}
    BY <1>1
  <2>2. PICK k \in U : \A j \in U : k <= j
    <3> HIDE DEF U
    <3>1. QED
      BY <2>1, LeastMember
  <2>3. ASSUME NEW j \in 1 .. k - 1 PROVE ~Same(k, j)
    <3>1. k \in 1 .. Len(terms) /\ k \in Nat /\ j \in Nat /\ j < k /\ j \in DOMAIN terms
      BY <1>1
    <3>2. j \notin U
      BY <2>2, <3>1
    <3>3. QED
      BY <3>1, <3>2
  <2>4. k \in first /\ Same(i, k)
    BY <2>3
  <2> HIDE DEF first, U, Same
  <2>5. QED
    BY <2>4
<1> HIDE DEF first
<1>6. /\ DOMAIN L = 1 .. n
      /\ \A i \in 1 .. n : L[i] \in first
      /\ \A k \in first : \E i \in 1 .. n : L[i] = k
      /\ \A i, j \in 1 .. n : i < j => L[i] < L[j]
  BY <1>2, Listing
<1> HIDE DEF L, n
<1>7. DOMAIN sent = 1 .. n /\ \A i \in 1 .. n : sent[i] = ProviderTerm(terms[L[i]])
  BY <1>3, <1>6
<1>8. Len(sent) = n
  BY <1>2, <1>7
<1>9. ASSUME NEW i \in 1 .. n, NEW j \in 1 .. n, i < j PROVE sent[i] # sent[j]
  <2>1. L[i] \in DOMAIN terms /\ L[j] \in DOMAIN terms /\ L[i] < L[j]
    BY <1>4, <1>6, <1>9
  <2>2. L[i] \in 1 .. L[j] - 1
    BY <1>1, <2>1
  <2>3. ~Same(L[j], L[i])
    BY <1>4, <1>6, <2>2
  <2>4. QED
    BY <1>7, <2>3
<1>10. IsInjective(sent)
  <2> SUFFICES ASSUME NEW i \in 1 .. n, NEW j \in 1 .. n, sent[i] = sent[j] PROVE i = j
    BY <1>7 DEF IsInjective
  <2>1. i \in Nat /\ j \in Nat
    BY <1>2
  <2>2. ~(i < j) /\ ~(j < i)
    BY <1>9
  <2>3. QED
    BY <2>1, <2>2
<1>11. \A i \in DOMAIN sent : \E k \in DOMAIN terms : sent[i] = ProviderTerm(terms[k])
  BY <1>4, <1>6, <1>7
<1>12. ASSUME NEW i \in DOMAIN terms PROVE \E m \in DOMAIN sent : sent[m] = ProviderTerm(terms[i])
  <2>1. PICK k \in first : Same(i, k)
    BY <1>5
  <2>2. PICK m \in 1 .. n : L[m] = k
    BY <1>6
  <2>3. QED
    BY <1>7, <2>1, <2>2
<1>13. QED
  BY <1>2, <1>8, <1>10, <1>11, <1>12

-----------------------------------------------------------------------------
(* Lengths *)

\* A text has at least as many bytes as UTF-16 units and as characters.
LEMMA BytesAreMost ==
    ASSUME NEW t \in Seq(Nat)
    PROVE  /\ Bytes(t) \in Nat /\ Units(t) \in Nat
           /\ Len(t) <= Bytes(t) /\ Units(t) <= Bytes(t)
<1> DEFINE n == Len(t)
           b == [i \in DOMAIN t |-> Utf8Bytes(t[i])]
           u == [i \in DOMAIN t |-> Len(Utf16(t[i]))]
<1>1. n \in Nat /\ DOMAIN b = 1 .. n /\ DOMAIN u = 1 .. n
  OBVIOUS
<1>2. \A x : Utf8Bytes(x) \in Nat /\ Utf8Bytes(x) >= 1
             /\ Len(Utf16(x)) \in Nat /\ Len(Utf16(x)) <= Utf8Bytes(x)
  <2> SUFFICES ASSUME NEW x
               PROVE  Utf8Bytes(x) \in Nat /\ Utf8Bytes(x) >= 1
                      /\ Len(Utf16(x)) \in Nat /\ Len(Utf16(x)) <= Utf8Bytes(x)
    OBVIOUS
  <2>1. Utf8Bytes(x) \in {1, 3, 4} /\ (x = Emoji => Utf8Bytes(x) = 4)
    BY DEF Utf8Bytes, Emoji, Private
  <2>2. Len(Utf16(x)) = IF x = Emoji THEN 2 ELSE 1
    BY DEF Utf16
  <2>3. QED
    BY <2>1, <2>2
<1>3. \A i \in 1 .. n : b[i] = Utf8Bytes(t[i]) /\ u[i] = Len(Utf16(t[i]))
  BY <1>1
<1>4. Bytes(t) = SumFunction(b) /\ Units(t) = SumFunction(u)
  BY DEF Bytes, Units
<1> HIDE DEF n, b, u
<1>5. \A i \in 1 .. n : b[i] \in Nat /\ b[i] >= 1 /\ u[i] \in Nat /\ u[i] <= b[i]
  BY <1>2, <1>3
<1>6. SumFunction(b) \in Nat /\ n <= SumFunction(b) /\ SumFunction(u) \in Nat
  BY <1>1, <1>5, SumBounds
<1>7. SumFunction(u) <= SumFunction(b)
  BY <1>1, <1>5, SumMonotone
<1>8. QED
  BY <1>4, <1>6, <1>7 DEF n

\* What an adapter lets through is not refused further on.
LEMMA ReadIsDelivered ==
    ASSUME NEW text \in Seq(Nat), NEW confidence \in Int, AdapterReads(text, confidence)
    PROVE  validate_transcript(text, confidence) /\ SegmentValid(text, confidence, MaxTranscript)
<1>1. /\ Bytes(text) \in Nat /\ Units(text) \in Nat /\ Len(text) \in Nat /\ MaxTranscript \in Nat
      /\ Len(text) <= Bytes(text) /\ Units(text) <= Bytes(text)
  BY BytesAreMost, WireAssumption
<1>2. QED
  BY <1>1 DEF AdapterReads, validate_transcript, SegmentValid

-----------------------------------------------------------------------------
(* What is admitted is understood further on *)

\* A configuration that passed prepare_session.
Admitted(want) ==
    /\ want = [identity |-> want.identity, language |-> want.language, session |-> "canonical",
               format |-> want.format, keyterms |-> want.keyterms]
    /\ want.identity \in Identities /\ want.keyterms \in Seq(Seq(Nat))
    /\ want.format \in {"Opus48Khz", "PcmS16le16Khz"}
    /\ validate_language(want.language) /\ validate_keyterms(want.keyterms)
    /\ validate(want.identity, want.language, want.keyterms, input_format(want))

AllTexts == UNION {Texts[c] : c \in Clients}

\* A message the gateway may send to a client with this configuration.
Sound(m, want) ==
    \/ want # None /\ m = [kind |-> "Ready", session |-> "canonical", identity |-> want[1].identity]
    \/ \E seq \in 1 .. 2 : m = [kind |-> "Ack", seq |-> seq]
    \/ \E kind \in {"Partial", "SegmentFinal", "Final"}, text \in AllTexts, confidence \in {0, 100, 101} :
        m = Segment(kind, text, 1, 2, confidence) /\ SegmentValid(text, confidence, MaxTranscript)
    \/ \E outcome \in Outcomes :
        m = [kind |-> "FinalizeComplete", status |-> outcome[1], saw |-> outcome[2]]
    \/ \E code \in {"INVALID_CONFIG", "FRAME_TOO_LARGE", "PROFILE_NOT_CONFIGURED", "CONFIG_TIMEOUT",
                    "AUDIO_RUNTIME_UNAVAILABLE", "PROVIDER_UNAVAILABLE", "PROVIDER_TIMEOUT",
                    "PROVIDER_TERMINAL"} :
        m = [kind |-> "Error", code |-> code]

Message(m) == Some([meant |-> m, told |-> serialize_server_message(m)])

\* A client that has said nothing yet has no configuration, one whose provider
\* is being asked has one, and what the provider is asked is made of it.
Fine(place, cf, a, w) ==
    /\ cf = None \/ \E want : cf = Some(want) /\ Admitted(want)
    /\ place \in {"open", "connecting", "ready", "stream"} => cf # None
    /\ place \in {"http", "check", "acquire", "recheck", "upgraded", "frame", "gone"} => cf = None
    /\ a = None \/ (cf # None /\ a = Some(build_url(recognition_request(cf[1]))))
    /\ w = None \/ \E m : w = Message(m) /\ Sound(m, cf)

HandshakeInv ==
    /\ conn = [c \in Clients |-> conn[c]]
    /\ config = [c \in Clients |-> config[c]]
    /\ asked = [c \in Clients |-> asked[c]]
    /\ wire = [c \in Clients |-> wire[c]]
    /\ \A c \in Clients : Fine(conn[c], config[c], asked[c], wire[c])

\* The adapter's own copy of the checks accepts what prepare_session admitted.
LEMMA AdapterAcceptsAdmitted ==
    ASSUME NEW want, Admitted(want)
    PROVE  AdapterAccepts(recognition_request(want))
<1> DEFINE request == recognition_request(want)
<1>1. /\ request.provider = want.identity /\ request.model = identity_wire(want.identity)
      /\ request.language = want.language /\ request.keyterms = want.keyterms
      /\ request.rate \in {16000, 48000} /\ request.channels = 1
  BY DEF recognition_request
<1> HIDE DEF request
<1>2. /\ LanguageHint(want.language, Capabilities(want.identity))
      /\ validate(want.identity, want.language, want.keyterms, input_format(want))
  BY DEF Admitted, validate
<1>3. LanguageSafe(want.identity, want.language)
  BY <1>2 DEF LanguageHint, LanguageSafe, Capabilities
<1>4. RateFormat(request.rate) \in InputFormats
  BY DEF RateFormat, InputFormats
<1>5. validate(want.identity, want.language, want.keyterms, RateFormat(request.rate))
  BY <1>2, <1>4 DEF validate
<1>6. QED
  BY <1>1, <1>3, <1>5 DEF AdapterAccepts, request

\* The sample rate of a format's audio, decoded.
RateOf(format) == IF format = "Opus48Khz" THEN 48000 ELSE 16000

\* The fields of the request that a provider is sent.
LEMMA AskedFields ==
    ASSUME NEW want, NEW url, url = build_url(recognition_request(want))
    PROVE  /\ url.provider = want.identity /\ url.model = identity_wire(want.identity)
           /\ url.rate = RateOf(want.format)
           /\ url.detect \/ url.language = want.language
           /\ url.detect => want.language = Multi
           /\ url.keyterms = canonicalize_keyterms(want.identity, want.keyterms)
<1> DEFINE request == recognition_request(want)
           detects == request.provider = "elevenlabs" /\ request.language = Multi
<1>1. /\ request.provider = want.identity /\ request.model = identity_wire(want.identity)
      /\ request.language = want.language /\ request.keyterms = want.keyterms
      /\ request.rate = RateOf(want.format)
  BY DEF recognition_request, RateOf
<1>2. /\ url.provider = request.provider /\ url.model = request.model /\ url.rate = request.rate
      /\ url.keyterms = canonicalize_keyterms(request.provider, request.keyterms)
  BY DEF build_url
<1>3. url.detect <=> detects
  BY Zenon DEF build_url
<1>4. url.language = IF detects THEN <<>> ELSE request.language
  BY DEF build_url
<1>5. detects => want.language = Multi
  BY <1>1
<1>6. ~detects => url.language = want.language
  BY <1>1, <1>4
<1> HIDE DEF request, detects
<1>7. QED
  BY <1>1, <1>2, <1>3, <1>5, <1>6, Zenon

\* The same terms, but for spaces, their order and repetitions.
SameTerms(terms, sent) ==
    {ProviderTerm(terms[i]) : i \in DOMAIN terms} = {ProviderTerm(sent[i]) : i \in DOMAIN sent}

\* The terms of an admitted configuration, as the provider gets them.
LEMMA TermsForAdmitted ==
    ASSUME NEW want, Admitted(want), NEW terms, terms = want.keyterms,
           NEW sent, sent = canonicalize_keyterms(want.identity, terms)
    PROVE  /\ IF want.identity = "deepgram"
              THEN /\ Len(sent) <= MaxTermCount
                   /\ \A i \in DOMAIN sent : Bytes(sent[i]) <= DeepgramTermBytes
              ELSE /\ Len(sent) <= ElevenLabsTerms
                   /\ IsInjective(sent)
                   /\ \A i \in DOMAIN sent : Len(sent[i]) <= ElevenLabsScalars
           /\ SameTerms(terms, sent)
<1>1. /\ want.identity \in Identities /\ terms \in Seq(Seq(Nat))
      /\ Len(terms) <= Capabilities(want.identity).terms
      /\ \A i \in DOMAIN terms : /\ terms[i] # <<>> /\ trim(terms[i]) = terms[i]
                                 /\ KeyTermFits(want.identity, terms[i])
  BY DEF Admitted, validate
<1>2. ASSUME want.identity = "deepgram"
      PROVE  /\ sent = terms /\ Len(sent) <= MaxTermCount
             /\ \A i \in DOMAIN sent : Bytes(sent[i]) <= DeepgramTermBytes
  <2>1. sent = terms /\ Capabilities(want.identity).terms = MaxTermCount
    BY <1>2 DEF canonicalize_keyterms, Capabilities
  <2>2. QED
    BY <1>1, <1>2, <2>1 DEF KeyTermFits
<1>3. ASSUME want.identity # "deepgram"
      PROVE  /\ Len(sent) <= ElevenLabsTerms /\ IsInjective(sent)
             /\ \A i \in DOMAIN sent : Len(sent[i]) <= ElevenLabsScalars
             /\ SameTerms(terms, sent)
  <2>1. Capabilities(want.identity).terms = ElevenLabsTerms
    BY <1>3 DEF Capabilities
  <2>2. ASSUME NEW i \in DOMAIN terms
        PROVE  terms[i] \in Seq(Nat) /\ Len(ProviderTerm(terms[i])) <= ElevenLabsScalars
    <3>1. terms[i] \in Seq(Nat)
      BY <1>1
    <3>2. Len(ProviderTerm(terms[i])) = NormalizedScalars(terms[i])
      BY <1>1, <3>1, ScalarsAreSent
    <3>3. NormalizedScalars(terms[i]) <= ElevenLabsScalars
      BY <1>1, <1>3 DEF KeyTermFits
    <3>4. QED
      BY <3>1, <3>2, <3>3
  <2>3. /\ Len(sent) <= Len(terms) /\ IsInjective(sent)
        /\ \A n \in DOMAIN sent : \E i \in DOMAIN terms : sent[n] = ProviderTerm(terms[i])
        /\ \A i \in DOMAIN terms : \E n \in DOMAIN sent : sent[n] = ProviderTerm(terms[i])
    BY <1>1, <1>3, EachTermOnce
  <2>4. Len(sent) <= ElevenLabsTerms
    <3>1. ElevenLabsTerms \in Nat /\ Len(terms) \in Nat /\ Len(terms) <= ElevenLabsTerms
      BY <1>1, <2>1, WireAssumption
    <3>2. QED
      BY <2>3, <3>1
  <2>5. \A n \in DOMAIN sent : Len(sent[n]) <= ElevenLabsScalars
    BY <2>2, <2>3
  <2>6. SameTerms(terms, sent)
    <3>1. \A i \in DOMAIN terms : ProviderTerm(ProviderTerm(terms[i])) = ProviderTerm(terms[i])
      BY <2>2, NormalizedOnce
    <3>2. QED
      BY <2>3, <3>1 DEF SameTerms
  <2>7. QED
    BY <2>3, <2>4, <2>5, <2>6
<1>4. want.identity = "deepgram" => SameTerms(terms, sent)
  BY <1>2 DEF SameTerms
<1>5. QED
  BY <1>2, <1>3, <1>4

\* The client's side of the contract reads a message as it was meant.
LEMMA SoundIsUnderstood ==
    ASSUME NEW m, NEW want, Sound(m, want)
    PROVE  LET told == serialize_server_message(m)
               expected == IF want = None THEN "deepgram" ELSE want[1].identity
           IN  /\ CanSerialize(m)
               /\ ServerParses(told, expected, MaxTranscript)
               /\ parse_server_message(told, expected) = m
<1> DEFINE told == serialize_server_message(m)
<1> DEFINE expected == IF want = None THEN "deepgram" ELSE want[1].identity
<1> DEFINE Goal == /\ CanSerialize(m)
                   /\ ServerParses(told, expected, MaxTranscript)
                   /\ parse_server_message(told, expected) = m
<1>1. CASE want # None /\ m = [kind |-> "Ready", session |-> "canonical", identity |-> want[1].identity]
  <2>1. m.kind = "Ready" /\ m.session = "canonical" /\ m.identity = expected
    BY <1>1
  <2>2. told = [type |-> "ready", session |-> m.session, provider |-> m.identity,
                model |-> identity_wire(m.identity)]
    BY <2>1 DEF serialize_server_message
  <2>3. /\ told.type = "ready" /\ told.session = "canonical" /\ told.provider = expected
        /\ told.model = identity_wire(expected)
    BY <2>1, <2>2
  <2> HIDE DEF told, expected
  <2>4. CanSerialize(m)
    BY <2>1 DEF CanSerialize, ValidSession
  <2>5. ServerParses(told, expected, MaxTranscript)
    BY <2>3 DEF ServerParses, ValidSession
  <2>6. parse_server_message(told, expected) =
            [kind |-> "Ready", session |-> "canonical", identity |-> expected]
    BY <2>3 DEF parse_server_message
  <2>7. QED
    BY <1>1, <2>4, <2>5, <2>6 DEF told, expected
<1>2. CASE \E seq \in 1 .. 2 : m = [kind |-> "Ack", seq |-> seq]
  <2>1. PICK seq \in 1 .. 2 : m = [kind |-> "Ack", seq |-> seq]
    BY <1>2
  <2>2. m.kind = "Ack" /\ m.seq = seq
    BY <2>1
  <2>3. told = [type |-> "ack", seq |-> seq]
    BY <2>2 DEF serialize_server_message
  <2>4. told.type = "ack" /\ told.seq = seq
    BY <2>3
  <2> HIDE DEF told
  <2>5. CanSerialize(m)
    BY <2>1, <2>2 DEF CanSerialize
  <2>6. ServerParses(told, expected, MaxTranscript)
    BY <2>1, <2>4 DEF ServerParses
  <2>7. parse_server_message(told, expected) = [kind |-> "Ack", seq |-> seq]
    BY <2>4 DEF parse_server_message
  <2>8. QED
    BY <2>1, <2>5, <2>6, <2>7 DEF told
<1>3. CASE \E kind \in {"Partial", "SegmentFinal", "Final"}, text \in AllTexts, confidence \in {0, 100, 101} :
             m = Segment(kind, text, 1, 2, confidence) /\ SegmentValid(text, confidence, MaxTranscript)
  <2>1. PICK kind \in {"Partial", "SegmentFinal", "Final"}, text \in AllTexts, confidence \in {0, 100, 101} :
             m = Segment(kind, text, 1, 2, confidence) /\ SegmentValid(text, confidence, MaxTranscript)
    BY <1>3
  <2>2. /\ m.kind = kind /\ m.text = text /\ m.start = 1 /\ m.duration = 2 /\ m.confidence = confidence
    BY <2>1 DEF Segment
  <2>3. told = serialize_segment(m)
    BY <2>2 DEF serialize_server_message
  <2>4. /\ told.type = (IF kind = "Final" THEN "final" ELSE "partial")
        /\ told.text = text /\ told.start = 1 /\ told.duration = 2 /\ told.confidence = confidence
        /\ told.is_segment_final = (kind = "SegmentFinal")
    BY <2>2, <2>3 DEF serialize_segment
  <2> HIDE DEF told
  <2>5. CanSerialize(m)
    BY <2>1, <2>2 DEF CanSerialize
  <2>6. ServerParses(told, expected, MaxTranscript)
    BY <2>1, <2>4 DEF ServerParses
  <2>7. parse_server_message(told, expected) = Segment(kind, text, 1, 2, confidence)
    BY <2>1, <2>4 DEF parse_server_message
  <2>8. QED
    BY <2>1, <2>5, <2>6, <2>7 DEF told
<1>4. CASE \E outcome \in Outcomes :
             m = [kind |-> "FinalizeComplete", status |-> outcome[1], saw |-> outcome[2]]
  <2>1. PICK outcome \in Outcomes :
             m = [kind |-> "FinalizeComplete", status |-> outcome[1], saw |-> outcome[2]]
    BY <1>4
  <2>2. m.kind = "FinalizeComplete" /\ m.status = outcome[1] /\ m.saw = outcome[2]
    BY <2>1
  <2>3. told = [type |-> "finalize_complete", status |-> m.status, saw |-> m.saw]
    BY <2>2 DEF serialize_server_message
  <2>4. validate_finalize(outcome[1], outcome[2])
    <3>1. \/ outcome[1] = "flushed" /\ outcome[2] = TRUE
          \/ outcome[1] \in {"timeout", "no_provider"} /\ outcome[2] = FALSE
      <4>1. outcome \in {<<"flushed", TRUE>>, <<"timeout", FALSE>>, <<"no_provider", FALSE>>}
        BY DEF Outcomes
      <4>2. CASE outcome = <<"flushed", TRUE>>
        BY <4>2
      <4>3. CASE outcome = <<"timeout", FALSE>>
        BY <4>3
      <4>4. CASE outcome = <<"no_provider", FALSE>>
        BY <4>4
      <4>5. QED
        BY <4>1, <4>2, <4>3, <4>4
    <3>2. QED
      BY <3>1 DEF validate_finalize
  <2>5. told.type = "finalize_complete" /\ told.status = outcome[1] /\ told.saw = outcome[2]
    BY <2>2, <2>3
  <2> HIDE DEF told
  <2>6. CanSerialize(m)
    BY <2>2, <2>4 DEF CanSerialize
  <2>7. ServerParses(told, expected, MaxTranscript)
    BY <2>4, <2>5 DEF ServerParses
  <2>8. parse_server_message(told, expected) =
            [kind |-> "FinalizeComplete", status |-> outcome[1], saw |-> outcome[2]]
    BY <2>5 DEF parse_server_message
  <2>9. QED
    BY <2>1, <2>6, <2>7, <2>8 DEF told
<1>5. CASE \E code : m = [kind |-> "Error", code |-> code]
  <2>1. PICK code : m = [kind |-> "Error", code |-> code]
    BY <1>5
  <2>2. m.kind = "Error" /\ m.code = code
    BY <2>1
  <2>3. told = [type |-> "error", code |-> code]
    BY <2>2 DEF serialize_server_message
  <2>4. told.type = "error" /\ told.code = code
    BY <2>3
  <2> HIDE DEF told
  <2>5. CanSerialize(m)
    BY <2>2 DEF CanSerialize
  <2>6. ServerParses(told, expected, MaxTranscript)
    BY <2>4 DEF ServerParses
  <2>7. parse_server_message(told, expected) = [kind |-> "Error", code |-> code]
    BY <2>4 DEF parse_server_message
  <2>8. QED
    BY <2>1, <2>5, <2>6, <2>7 DEF told
<1>6. Goal
  <2> HIDE DEF Goal
  <2>1. QED
    BY <1>1, <1>2, <1>3, <1>4, <1>5 DEF Sound, Goal
<1>7. QED
  BY <1>6

\* A configuration that is read back is the one that was written.
LEMMA AdmittedRoundTrips ==
    ASSUME NEW want, Admitted(want)
    PROVE  /\ CanSerializeConfig(want)
           /\ ConfigParses(serialize_client_config(want))
           /\ parse_client_config(serialize_client_config(want)) = want
<1> DEFINE w == serialize_client_config(want)
<1>1. want.session = "canonical"
  BY DEF Admitted
<1>2. /\ w.extra = FALSE /\ w.provider = want.identity /\ w.model = identity_wire(want.identity)
      /\ w.language = want.language /\ w.capabilities = <<"finalize_ack">> /\ w.channels = 1
      /\ w.protocol_v = 2 /\ w.session = "canonical" /\ w.keyterms = want.keyterms
      /\ w.encoding = (IF want.format = "Opus48Khz" THEN "opus" ELSE "pcm_s16le")
      /\ w.rate = (IF want.format = "Opus48Khz" THEN 48000 ELSE 16000)
  BY <1>1 DEF serialize_client_config
<1> HIDE DEF w
<1>3. AudioFormatOf(w.encoding, w.rate) = want.format
  BY <1>2 DEF Admitted, AudioFormatOf
<1>4. CanSerializeConfig(want)
  BY DEF Admitted, CanSerializeConfig
<1>5. ConfigParses(w)
  BY <1>2, <1>3 DEF Admitted, ConfigParses, ValidSession
<1>6. parse_client_config(w) = want
  BY <1>2, <1>3 DEF Admitted, parse_client_config
<1>7. QED
  BY <1>4, <1>5, <1>6 DEF w

LEMMA FormatNames ==
    ASSUME NEW e, NEW r
    PROVE  AudioFormatOf(e, r) \in {"Opus48Khz", "PcmS16le16Khz", "incompatible"}
BY DEF AudioFormatOf

\* A frame that is not refused is a configuration.
LEMMA FrameAdmits ==
    ASSUME NEW frame, receive_config(frame) = "", frame.wire.keyterms \in Seq(Seq(Nat)),
           NEW parsed, parsed = parse_client_config(frame.wire),
           validate(parsed.identity, parsed.language, parsed.keyterms, input_format(parsed))
    PROVE  Admitted(parsed)
<1>1. ConfigParses(frame.wire)
  BY DEF receive_config
<1>2. /\ parsed = [identity |-> parsed.identity, language |-> parsed.language,
                   session |-> parsed.session, format |-> parsed.format,
                   keyterms |-> parsed.keyterms]
      /\ parsed.identity = frame.wire.provider /\ parsed.session = frame.wire.session
      /\ parsed.format = AudioFormatOf(frame.wire.encoding, frame.wire.rate)
      /\ parsed.language = frame.wire.language /\ parsed.keyterms = frame.wire.keyterms
  BY DEF parse_client_config
<1>3. parsed.session = "canonical" /\ parsed.identity \in Identities
      /\ validate_language(parsed.language) /\ validate_keyterms(parsed.keyterms)
  BY <1>1, <1>2 DEF ConfigParses, ValidSession
<1>4. parsed.format \in {"Opus48Khz", "PcmS16le16Khz"}
  <2>1. AudioFormatOf(frame.wire.encoding, frame.wire.rate) # "incompatible"
    BY <1>1 DEF ConfigParses
  <2>2. QED
    BY <1>2, <2>1, FormatNames
<1>5. QED
  BY <1>2, <1>3, <1>4 DEF Admitted

-----------------------------------------------------------------------------
(* The steps of a client *)

\* The client's part of the state after a step.
Becomes(c, place, cf, a, w) ==
    /\ conn' = [conn EXCEPT ![c] = place]
    /\ config' = [config EXCEPT ![c] = cf]
    /\ asked' = [asked EXCEPT ![c] = a]
    /\ wire' = [wire EXCEPT ![c] = w]

LEMMA OneClient ==
    ASSUME HandshakeInv, NEW c \in Clients, NEW place, NEW cf, NEW a, NEW w,
           Becomes(c, place, cf, a, w), Fine(place, cf, a, w)
    PROVE  HandshakeInv'
<1>1. /\ conn' = [d \in Clients |-> conn'[d]] /\ config' = [d \in Clients |-> config'[d]]
      /\ wire' = [d \in Clients |-> wire'[d]] /\ asked' = [d \in Clients |-> asked'[d]]
      /\ conn'[c] = place /\ config'[c] = cf /\ asked'[c] = a /\ wire'[c] = w
      /\ \A d \in Clients \ {c} : /\ conn'[d] = conn[d] /\ config'[d] = config[d]
                                  /\ asked'[d] = asked[d] /\ wire'[d] = wire[d]
  BY DEF HandshakeInv, Becomes
<1>2. \A d \in Clients : Fine(conn'[d], config'[d], asked'[d], wire'[d])
  BY <1>1 DEF HandshakeInv
<1>3. QED
  BY <1>1, <1>2 DEF HandshakeInv

LEMMA SameClient ==
    ASSUME HandshakeInv, NEW c \in Clients
    PROVE  /\ conn = [conn EXCEPT ![c] = conn[c]] /\ config = [config EXCEPT ![c] = config[c]]
           /\ wire = [wire EXCEPT ![c] = wire[c]] /\ asked = [asked EXCEPT ![c] = asked[c]]
           /\ Fine(conn[c], config[c], asked[c], wire[c])
BY DEF HandshakeInv

\* A client moves on without a word.
LEMMA Silent ==
    ASSUME HandshakeInv, NEW c \in Clients, NEW place, Go(c, place),
           UNCHANGED <<config, asked, wire>>,
           place \in {"open", "connecting", "ready", "stream"} => config[c] # None,
           place \in {"http", "check", "acquire", "recheck", "upgraded", "frame", "gone"} => config[c] = None
    PROVE  HandshakeInv'
<1>1. Becomes(c, place, config[c], asked[c], wire[c])
  BY SameClient DEF Becomes, Go
<1>2. Fine(place, config[c], asked[c], wire[c])
  BY SameClient DEF Fine
<1>3. QED
  BY <1>1, <1>2, OneClient

\* A client is told something, and stays where it is or moves on.
LEMMA Spoke ==
    ASSUME HandshakeInv, NEW c \in Clients, NEW place, Go(c, place) \/ (place = conn[c] /\ UNCHANGED conn),
           UNCHANGED <<config, asked>>, NEW m, Tell(c, m), Sound(m, config[c]),
           place \in {"stream", "close_provider", "close_socket"}, place = "stream" => config[c] # None
    PROVE  HandshakeInv'
<1>1. Becomes(c, place, config[c], asked[c], Message(m))
  BY SameClient DEF Becomes, Go, Tell, Message
<1>2. Fine(place, config[c], asked[c], Message(m))
  BY SameClient DEF Fine
<1>3. QED
  BY <1>1, <1>2, OneClient

LEMMA HReceiveConfig ==
    ASSUME HandshakeInv, NEW c \in Clients, ReceiveConfig(c)
    PROVE  HandshakeInv'
<1>0. UNCHANGED asked /\ \A frame \in Frames[c] : frame.wire.keyterms \in Seq(Seq(Nat))
  BY TextsAssumption DEF ReceiveConfig
<1>1. PICK frame \in Frames[c] :
        LET refusal == receive_config(frame)
            parsed == parse_client_config(frame.wire)
            capable == validate(parsed.identity, parsed.language, parsed.keyterms,
                                input_format(parsed))
        IN  \/ refusal # "" /\ Refuse(c, refusal) /\ UNCHANGED config
            \/ /\ refusal = "" /\ parsed.format = "Opus48Khz"
               /\ Refuse(c, "AUDIO_RUNTIME_UNAVAILABLE") /\ UNCHANGED config
            \/ /\ refusal = "" /\ ~capable
               /\ Refuse(c, "INVALID_CONFIG") /\ UNCHANGED config
            \/ /\ refusal = "" /\ capable
               /\ config' = [config EXCEPT ![c] = Some(parsed)]
               /\ Go(c, "open") /\ UNCHANGED wire
  BY DEF ReceiveConfig
<1>2. CASE \E code \in {"INVALID_CONFIG", "FRAME_TOO_LARGE", "PROFILE_NOT_CONFIGURED",
                        "AUDIO_RUNTIME_UNAVAILABLE"} : Refuse(c, code) /\ UNCHANGED config
  <2>1. PICK code \in {"INVALID_CONFIG", "FRAME_TOO_LARGE", "PROFILE_NOT_CONFIGURED",
                       "AUDIO_RUNTIME_UNAVAILABLE"} : Refuse(c, code) /\ UNCHANGED config
    BY <1>2
  <2>2. Sound([kind |-> "Error", code |-> code], config[c])
    BY DEF Sound
  <2>3. QED
    BY <1>0, <2>1, <2>2, Spoke DEF Refuse
<1>3. ASSUME NEW parsed, Admitted(parsed), config' = [config EXCEPT ![c] = Some(parsed)],
             Go(c, "open"), UNCHANGED <<asked, wire>>
      PROVE  HandshakeInv'
  <2>1. Becomes(c, "open", Some(parsed), asked[c], wire[c])
    BY <1>3, SameClient DEF Becomes, Go
  <2>2. config[c] = None /\ asked[c] = None /\ Some(parsed) # None
    <3>1. conn[c] = "frame"
      BY DEF ReceiveConfig
    <3>2. QED
      BY <3>1, SameClient DEF Fine, Some, None
  <2>3. wire[c] = None \/ \E m : wire[c] = Message(m) /\ Sound(m, Some(parsed))
    BY <2>2, SameClient DEF Fine, Sound
  <2>4. Fine("open", Some(parsed), asked[c], wire[c])
    BY <1>3, <2>2, <2>3 DEF Fine
  <2>5. QED
    BY <2>1, <2>4, OneClient
<1>4. receive_config(frame) \in {"INVALID_CONFIG", "FRAME_TOO_LARGE", "PROFILE_NOT_CONFIGURED", ""}
  BY DEF receive_config
<1>5. QED
  BY <1>0, <1>1, <1>2, <1>3, <1>4, FrameAdmits

LEMMA HOpen ==
    ASSUME HandshakeInv, NEW c \in Clients, Open(c)
    PROVE  HandshakeInv'
<1>1. conn[c] = "open"
  BY DEF Open
<1>2. PICK want : config[c] = Some(want) /\ Admitted(want)
  BY <1>1, SameClient DEF Fine
<1>3. config[c][1] = want /\ config[c] # None
  BY <1>2 DEF Some, None
<1>4. AdapterAccepts(recognition_request(config[c][1]))
  BY <1>2, <1>3, AdapterAcceptsAdmitted
<1>5. /\ asked' = [asked EXCEPT ![c] = Some(build_url(recognition_request(config[c][1])))]
      /\ Go(c, "connecting") /\ UNCHANGED <<config, wire>>
  BY <1>4 DEF Open
<1> DEFINE a == Some(build_url(recognition_request(config[c][1])))
<1>6. Becomes(c, "connecting", config[c], a, wire[c])
  BY <1>5, SameClient DEF Becomes, Go
<1>7. Fine("connecting", config[c], a, wire[c])
  BY <1>3, SameClient DEF Fine
<1>8. QED
  BY <1>6, <1>7, OneClient

LEMMA HMessages ==
    ASSUME HandshakeInv, NEW c \in Clients,
           \/ ConfigTimeout(c) \/ ConnectFails(c) \/ SendReady(c) \/ SendAck(c)
           \/ SendTranscript(c) \/ SendFinalizeComplete(c) \/ StreamEnds(c)
    PROVE  HandshakeInv'
<1>0. /\ conn[c] \in {"ready", "stream"} => config[c] # None
      /\ UNCHANGED asked
  BY SameClient DEF Fine, ConfigTimeout, ConnectFails, SendReady, SendAck, SendTranscript,
     SendFinalizeComplete, StreamEnds
<1>1. CASE ConfigTimeout(c) \/ ConnectFails(c)
  <2>1. PICK code \in {"CONFIG_TIMEOUT", "PROVIDER_UNAVAILABLE", "PROVIDER_TIMEOUT"} :
            Refuse(c, code) /\ UNCHANGED config
    BY <1>1 DEF ConfigTimeout, ConnectFails
  <2>2. Sound([kind |-> "Error", code |-> code], config[c])
    BY DEF Sound
  <2>3. QED
    BY <1>0, <2>1, <2>2, Spoke DEF Refuse
<1>2. CASE SendReady(c)
  <2>1. conn[c] = "ready" /\ UNCHANGED config
    BY <1>2 DEF SendReady
  <2>2. CASE Go(c, "close_provider") /\ UNCHANGED wire
    BY <1>0, <2>1, <2>2, Silent
  <2>3. CASE /\ Tell(c, [kind |-> "Ready", session |-> "canonical", identity |-> config[c][1].identity])
             /\ Go(c, "stream")
    <3>1. Sound([kind |-> "Ready", session |-> "canonical", identity |-> config[c][1].identity], config[c])
      BY <1>0, <2>1 DEF Sound
    <3>2. QED
      BY <1>0, <2>1, <2>3, <3>1, Spoke
  <2>4. QED
    BY <1>2, <2>2, <2>3 DEF SendReady
<1>3. CASE SendAck(c)
  <2>1. PICK seq \in 1 .. 2 : Tell(c, [kind |-> "Ack", seq |-> seq]) /\ UNCHANGED <<conn, config>>
                             /\ conn[c] = "stream"
    BY <1>3 DEF SendAck
  <2>2. Sound([kind |-> "Ack", seq |-> seq], config[c])
    BY DEF Sound
  <2>3. QED
    BY <1>0, <2>1, <2>2, Spoke
<1>4. CASE SendTranscript(c)
  <2>1. PICK text \in Texts[c], confidence \in {0, 100, 101}, kind \in {"Partial", "SegmentFinal", "Final"} :
            LET m == Segment(kind, text, 1, 2, confidence)
            IN  /\ AdapterReads(text, confidence)
                /\ IF validate_transcript(text, confidence) /\ CanSerialize(m)
                   THEN Tell(c, m) /\ UNCHANGED conn
                   ELSE /\ Tell(c, [kind |-> "Error", code |-> "INVALID_PROVIDER_EVENT"])
                        /\ Go(c, "close_provider")
    BY <1>4 DEF SendTranscript
  <2>2. conn[c] = "stream" /\ UNCHANGED config
    BY <1>4 DEF SendTranscript
  <2> DEFINE m == Segment(kind, text, 1, 2, confidence)
  <2>3. m.kind = kind /\ m.text = text /\ m.confidence = confidence
    BY DEF Segment
  <2>4. validate_transcript(text, confidence) /\ SegmentValid(text, confidence, MaxTranscript)
    BY <2>1, TextsAssumption, ReadIsDelivered
  <2>5. CanSerialize(m)
    BY <2>3, <2>4 DEF CanSerialize
  <2>6. Tell(c, m) /\ UNCHANGED conn
    BY <2>1, <2>4, <2>5
  <2>7. Sound(m, config[c])
    BY <2>4 DEF Sound, AllTexts
  <2> HIDE DEF m
  <2>8. QED
    BY <1>0, <2>2, <2>6, <2>7, Spoke
<1>5. CASE SendFinalizeComplete(c)
  <2>1. PICK outcome \in Outcomes :
            /\ Tell(c, [kind |-> "FinalizeComplete", status |-> outcome[1], saw |-> outcome[2]])
            /\ Go(c, "close_provider") /\ UNCHANGED config
    BY <1>5 DEF SendFinalizeComplete
  <2>2. Sound([kind |-> "FinalizeComplete", status |-> outcome[1], saw |-> outcome[2]], config[c])
    BY DEF Sound
  <2>3. QED
    BY <1>0, <2>1, <2>2, Spoke
<1>6. CASE StreamEnds(c)
  <2>1. Go(c, "close_provider") /\ UNCHANGED config
    BY <1>6 DEF StreamEnds
  <2>2. CASE UNCHANGED wire
    BY <1>0, <2>1, <2>2, Silent
  <2>3. CASE Tell(c, [kind |-> "Error", code |-> "PROVIDER_TERMINAL"])
    <3>1. Sound([kind |-> "Error", code |-> "PROVIDER_TERMINAL"], config[c])
      BY DEF Sound
    <3>2. QED
      BY <1>0, <2>1, <2>3, <3>1, Spoke
  <2>4. QED
    BY <1>6, <2>2, <2>3 DEF StreamEnds
<1>7. QED
  BY <1>1, <1>2, <1>3, <1>4, <1>5, <1>6

LEMMA HSilent ==
    ASSUME HandshakeInv, NEW c \in Clients,
           \/ Authenticate(c) \/ CheckAccepting(c) \/ AcquireSlot(c) \/ Recheck(c) \/ StartRun(c)
           \/ UpgradeLost(c) \/ ConfigLost(c) \/ Connected(c) \/ CloseProvider(c) \/ CloseSocket(c)
           \/ Reconnect(c)
    PROVE  HandshakeInv'
<1>0. /\ conn[c] \in {"http", "check", "acquire", "recheck", "upgraded", "frame", "gone"} => config[c] = None
      /\ conn[c] = "connecting" => config[c] # None
  BY SameClient DEF Fine
<1>1. UNCHANGED <<config, asked, wire>>
  BY DEF Authenticate, CheckAccepting, AcquireSlot, Recheck, StartRun, UpgradeLost, ConfigLost,
     Connected, CloseProvider, CloseSocket, Reconnect
<1>2. CASE Authenticate(c) \/ CheckAccepting(c) \/ AcquireSlot(c) \/ Recheck(c) \/ StartRun(c)
           \/ UpgradeLost(c) \/ Reconnect(c)
  <2>1. PICK place \in {"http", "check", "acquire", "recheck", "upgraded", "frame", "gone"} :
            Go(c, place) /\ conn[c] \in {"http", "check", "acquire", "recheck", "upgraded", "frame", "gone"}
    BY <1>2 DEF Authenticate, CheckAccepting, AcquireSlot, Recheck, StartRun, UpgradeLost, Reconnect
  <2>2. QED
    BY <1>0, <1>1, <2>1, Silent
<1>3. CASE ConfigLost(c) \/ CloseProvider(c) \/ CloseSocket(c)
  <2>1. PICK place \in {"close_socket", "returned"} : Go(c, place)
    BY <1>3 DEF ConfigLost, CloseProvider, CloseSocket
  <2>2. QED
    BY <1>1, <2>1, Silent
<1>4. CASE Connected(c)
  BY <1>0, <1>1, <1>4, Silent DEF Connected
<1>5. QED
  BY <1>2, <1>3, <1>4

LEMMA HReturn ==
    ASSUME HandshakeInv, NEW c \in Clients, ReturnSlot(c)
    PROVE  HandshakeInv'
<1>1. Becomes(c, "gone", None, None, None)
  BY DEF ReturnSlot, Becomes, Go
<1>2. Fine("gone", None, None, None)
  BY DEF Fine
<1>3. QED
  BY <1>1, <1>2, OneClient

LEMMA HandshakeStep == HandshakeInv /\ [HandshakeNext]_handshakeVars => HandshakeInv'
<1> SUFFICES ASSUME HandshakeInv, [HandshakeNext]_handshakeVars PROVE HandshakeInv'
  OBVIOUS
<1>1. CASE UNCHANGED handshakeVars \/ BeginShutdown
  BY <1>1 DEF HandshakeInv, handshakeVars, BeginShutdown
<1>2. QED
  BY <1>1, HReceiveConfig, HOpen, HMessages, HSilent, HReturn DEF HandshakeNext, Serve

LEMMA HandshakeInvariance == HandshakeSpec => []HandshakeInv
<1>1. HandshakeInit => HandshakeInv
  BY DEF HandshakeInit, HandshakeInv, Fine
<1>2. QED
  BY <1>1, HandshakeStep, PTL DEF HandshakeSpec

\* For every frame, bound and profile: a configuration that prepare_session
\* admits is accepted by the adapter's own copy of the checks, and the client's
\* side of the contract reads it back as itself (open_inner,
\* serialize_client_config).
THEOREM AdmittedIsAccepted == HandshakeSpec => [](AdapterAgrees /\ ConfigRoundTrips)
<1>1. HandshakeInv => AdapterAgrees /\ ConfigRoundTrips
  <2> SUFFICES ASSUME HandshakeInv, NEW c \in Clients
               PROVE  /\ wire[c] # None =>
                            wire[c][1].meant # [kind |-> "Error", code |-> "PROFILE_MISMATCH"]
                      /\ config[c] # None =>
                            /\ CanSerializeConfig(config[c][1])
                            /\ ConfigParses(serialize_client_config(config[c][1]))
                            /\ parse_client_config(serialize_client_config(config[c][1])) = config[c][1]
    BY DEF AdapterAgrees, ConfigRoundTrips
  <2>1. Fine(conn[c], config[c], asked[c], wire[c])
    BY SameClient
  <2>2. ASSUME wire[c] # None
        PROVE  wire[c][1].meant # [kind |-> "Error", code |-> "PROFILE_MISMATCH"]
    <3>1. PICK m : wire[c] = Message(m) /\ Sound(m, config[c])
      BY <2>1, <2>2 DEF Fine
    <3>2. wire[c][1].meant = m
      BY <3>1 DEF Message, Some
    <3>3. m # [kind |-> "Error", code |-> "PROFILE_MISMATCH"]
      BY <3>1 DEF Sound, Segment
    <3>4. QED
      BY <3>2, <3>3
  <2>3. ASSUME config[c] # None
        PROVE  /\ CanSerializeConfig(config[c][1])
               /\ ConfigParses(serialize_client_config(config[c][1]))
               /\ parse_client_config(serialize_client_config(config[c][1])) = config[c][1]
    <3>1. PICK want : config[c] = Some(want) /\ Admitted(want)
      BY <2>1, <2>3 DEF Fine
    <3>2. config[c][1] = want
      BY <3>1 DEF Some
    <3>3. QED
      BY <3>1, <3>2, AdmittedRoundTrips
  <2>4. QED
    BY <2>2, <2>3
<1>2. QED
  BY <1>1, HandshakeInvariance, PTL

\* Every message the gateway sends, whatever the texts and bounds, is read by
\* the client's side of the contract as the message that was meant
\* (serialize_server_message, parse_server_message).
THEOREM MessagesAreUnderstood == HandshakeSpec => []ToldIsUnderstood
<1>1. HandshakeInv => ToldIsUnderstood
  <2> SUFFICES ASSUME HandshakeInv, NEW c \in Clients, wire[c] # None
               PROVE  LET meant == wire[c][1].meant
                          told == wire[c][1].told
                          expected == IF config[c] = None THEN "deepgram" ELSE config[c][1].identity
                      IN  /\ CanSerialize(meant)
                          /\ ServerParses(told, expected, MaxTranscript)
                          /\ parse_server_message(told, expected) = meant
    BY DEF ToldIsUnderstood
  <2>1. PICK m : wire[c] = Message(m) /\ Sound(m, config[c])
    BY SameClient DEF Fine
  <2>2. wire[c][1].meant = m /\ wire[c][1].told = serialize_server_message(m)
    BY <2>1 DEF Message, Some
  <2>3. QED
    BY <2>1, <2>2, SoundIsUnderstood
<1>2. QED
  BY <1>1, HandshakeInvariance, PTL

\* Nothing is lost in translation between client, gateway and provider, for
\* every frame, text and bound: besides the two theorems above, a transcript
\* that an adapter lets through is delivered (a text has no more characters or
\* UTF-16 units than bytes), and what a provider is asked is what the client
\* wanted, within the provider's own limits and without a repeated term
\* (normalizing a term twice is normalizing it once, and the bound in scalar
\* values counts the term that is sent).
THEOREM HandshakeIsFaithful == HandshakeSpec => []HandshakeFaithful
<1>1. HandshakeInv => TranscriptsFit
  <2> SUFFICES ASSUME HandshakeInv, NEW c \in Clients, wire[c] # None
               PROVE  wire[c][1].meant # [kind |-> "Error", code |-> "INVALID_PROVIDER_EVENT"]
    BY DEF TranscriptsFit
  <2>1. PICK m : wire[c] = Message(m) /\ Sound(m, config[c])
    BY SameClient DEF Fine
  <2>2. wire[c][1].meant = m
    BY <2>1 DEF Message, Some
  <2>3. m # [kind |-> "Error", code |-> "INVALID_PROVIDER_EVENT"]
    BY <2>1 DEF Sound, Segment
  <2>4. QED
    BY <2>2, <2>3
<1>2. ASSUME HandshakeInv, NEW c \in Clients, asked[c] # None
      PROVE  /\ asked[c][1] = build_url(recognition_request(config[c][1]))
             /\ Admitted(config[c][1])
  <2>1. /\ asked[c] = Some(build_url(recognition_request(config[c][1])))
        /\ \E w : config[c] = Some(w) /\ Admitted(w)
    BY <1>2, SameClient DEF Fine
  <2>2. QED
    BY <2>1 DEF Some
<1>3. HandshakeInv => AskedWithinLimits
  <2> SUFFICES ASSUME HandshakeInv, NEW c \in Clients, asked[c] # None
               PROVE  LET url == asked[c][1]
                      IN  IF url.provider = "deepgram"
                          THEN /\ Len(url.keyterms) <= MaxTermCount
                               /\ \A i \in DOMAIN url.keyterms : Bytes(url.keyterms[i]) <= DeepgramTermBytes
                          ELSE /\ Len(url.keyterms) <= ElevenLabsTerms
                               /\ IsInjective(url.keyterms)
                               /\ \A i \in DOMAIN url.keyterms : Len(url.keyterms[i]) <= ElevenLabsScalars
    BY DEF AskedWithinLimits
  <2> DEFINE url == asked[c][1]
             want == config[c][1]
  <2>1. Admitted(want)
    BY <1>2
  <2>2. /\ url.provider = want.identity
        /\ url.keyterms = canonicalize_keyterms(want.identity, want.keyterms)
    BY <1>2, AskedFields
  <2> HIDE DEF url, want
  <2>3. IF want.identity = "deepgram"
        THEN /\ Len(url.keyterms) <= MaxTermCount
             /\ \A i \in DOMAIN url.keyterms : Bytes(url.keyterms[i]) <= DeepgramTermBytes
        ELSE /\ Len(url.keyterms) <= ElevenLabsTerms
             /\ IsInjective(url.keyterms)
             /\ \A i \in DOMAIN url.keyterms : Len(url.keyterms[i]) <= ElevenLabsScalars
    BY <2>1, <2>2, TermsForAdmitted
  <2>4. QED
    BY <2>2, <2>3 DEF url
<1>4. HandshakeInv => AskedIsWanted
  <2> SUFFICES ASSUME HandshakeInv, NEW c \in Clients, asked[c] # None
               PROVE  LET url == asked[c][1]
                          want == config[c][1]
                      IN  /\ url.provider = want.identity /\ url.model = identity_wire(want.identity)
                          /\ url.rate = IF want.format = "Opus48Khz" THEN 48000 ELSE 16000
                          /\ url.detect \/ url.language = want.language
                          /\ url.detect => want.language = Multi
                          /\ {ProviderTerm(want.keyterms[i]) : i \in DOMAIN want.keyterms}
                                = {ProviderTerm(url.keyterms[i]) : i \in DOMAIN url.keyterms}
    BY DEF AskedIsWanted
  <2> DEFINE url == asked[c][1]
             want == config[c][1]
  <2>1. Admitted(want)
    BY <1>2
  <2>2. /\ url.provider = want.identity /\ url.model = identity_wire(want.identity)
        /\ url.rate = RateOf(want.format)
        /\ url.detect \/ url.language = want.language
        /\ url.detect => want.language = Multi
    BY <1>2, AskedFields
  <2>3. url.keyterms = canonicalize_keyterms(want.identity, want.keyterms)
    BY <1>2, AskedFields
  <2> HIDE DEF url, want
  <2>4. SameTerms(want.keyterms, url.keyterms)
    BY <2>1, <2>3, TermsForAdmitted
  <2>5. QED
    BY <2>2, <2>4 DEF url, want, RateOf, SameTerms
<1>5. QED
  BY <1>1, <1>3, <1>4, HandshakeInvariance, AdmittedIsAccepted, MessagesAreUnderstood, PTL
     DEF HandshakeFaithful
=============================================================================
