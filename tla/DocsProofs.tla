----------------------------- MODULE DocsProofs -----------------------------
(***************************************************************************)
(* Theorems about the docs: about DocsQueue, for any directories, chunk    *)
(* size, clients and bounds, and about DocsCage, for any covered           *)
(* directories, any tree of them and any number of events. The two share   *)
(* no variable.                                                            *)
(*                                                                         *)
(* In DocsCage the order of the directories plays no part: the proofs turn *)
(* on what a snapshot holds and whom it belongs to.                        *)
(***************************************************************************)
EXTENDS DocsQueue, DocsCage, FiniteSetTheorems, WellFoundedInduction, TLAPS

-----------------------------------------------------------------------------
(* DocsQueue                                                               *)

-----------------------------------------------------------------------------
(* Chunks                                                                  *)

LEMMA Division ==
  ASSUME NEW n \in Nat, NEW m \in Nat \ {0}
  PROVE  /\ n \div m \in Nat
         /\ (n \div m) * m <= n /\ n < (n \div m) * m + m
OBVIOUS

(* The quotient of a smaller number is no larger. *)
LEMMA DivisionMonotone ==
  ASSUME NEW a \in Nat, NEW b \in Nat, a <= b, NEW m \in Nat \ {0}
  PROVE  a \div m <= b \div m
<1> DEFINE p == a \div m
           q == b \div m
<1>1. p \in Nat /\ q \in Nat /\ p * m <= a /\ b < q * m + m
  BY Division
<1>2. SUFFICES ASSUME q + 1 <= p PROVE FALSE
  BY <1>1
<1>3. (q + 1) * m <= p * m
  BY <1>1, <1>2
<1>4. (q + 1) * m = q * m + m
  BY <1>1
<1> QED
  BY <1>1, <1>3, <1>4

LEMMA FiniteDirs ==
  ASSUME NEW S \in SUBSET Dirs
  PROVE  IsFiniteSet(S) /\ Cardinality(S) \in Nat /\ S \subseteq Nat
BY QueueAssumption, FS_Subset, FS_CardinalityType

LEMMA RankBounds ==
  ASSUME NEW S \in SUBSET Dirs, NEW d \in S
  PROVE  Rank(S, d) \in 1..Cardinality(S)
<1> DEFINE T == {e \in S : e <= d}
<1>1. IsFiniteSet(S) /\ d \in Nat
  BY FiniteDirs
<1>2. IsFiniteSet(T) /\ Cardinality(T) <= Cardinality(S)
  BY <1>1, FS_Subset
<1>3. T # {}
  BY <1>1
<1>4. Cardinality(T) \in Nat /\ Cardinality(T) # 0
  BY <1>2, <1>3, FS_EmptySet, FS_CardinalityType
<1> QED
  BY <1>1, <1>2, <1>4, FS_CardinalityType DEF Rank

LEMMA NumChunksType ==
  ASSUME NEW S \in SUBSET Dirs
  PROVE  NumChunks(S) \in Nat /\ (S # {} => NumChunks(S) # 0)
<1>1. Cardinality(S) \in Nat /\ MaxDirs \in Nat \ {0}
  BY FiniteDirs, QueueAssumption
<1>2. NumChunks(S) \in Nat
  BY <1>1, Division DEF NumChunks
<1>3. ASSUME S # {} PROVE NumChunks(S) # 0
  <2>1. Cardinality(S) # 0
    BY <1>3, FiniteDirs, FS_EmptySet
  <2>2. MaxDirs <= Cardinality(S) + MaxDirs - 1
    BY <1>1, <2>1
  <2>3. MaxDirs \div MaxDirs = 1
    BY <1>1
  <2> QED
    BY <1>1, <2>2, <2>3, DivisionMonotone DEF NumChunks
<1> QED
  BY <1>2, <1>3

(* A directory's chunk. *)
Place(S, d) == ((Rank(S, d) - 1) \div MaxDirs) + 1

LEMMA ChunkOf ==
  ASSUME NEW S \in SUBSET Dirs, NEW d \in S
  PROVE  /\ Place(S, d) \in 1..NumChunks(S)
         /\ \A k \in 1..NumChunks(S) : d \in Chunk(S, k) <=> k = Place(S, d)
<1> DEFINE n == Cardinality(S)
           r == Rank(S, d) - 1
           q == r \div MaxDirs
<1>1. n \in Nat /\ r \in 0..(n - 1) /\ MaxDirs \in Nat \ {0}
  BY FiniteDirs, RankBounds, QueueAssumption
<1>2. q \in Nat
  BY <1>1, Division
<1>3. (r + MaxDirs) \div MaxDirs = q + 1
  BY <1>1
<1>4. (r + MaxDirs) \div MaxDirs <= (n + MaxDirs - 1) \div MaxDirs
  <2>1. r + MaxDirs \in Nat /\ n + MaxDirs - 1 \in Nat /\ r + MaxDirs <= n + MaxDirs - 1
    BY <1>1
  <2> QED
    BY <1>1, <2>1, DivisionMonotone
<1>5. q + 1 \in 1..NumChunks(S)
  BY <1>2, <1>3, <1>4, NumChunksType DEF NumChunks
<1>6. ASSUME NEW k \in 1..NumChunks(S) PROVE d \in Chunk(S, k) <=> k = q + 1
  BY <1>2, NumChunksType DEF Chunk
<1> QED
  BY <1>5, <1>6 DEF Place

LEMMA AncestorsOfChunks ==
  ASSUME NEW S \in SUBSET Dirs, NEW d
  PROVE  d \in Ancestors(S) <=> \E k \in 1..NumChunks(S) : d \in Ancestors(Chunk(S, k))
<1>1. ASSUME d \in Ancestors(S)
      PROVE  \E k \in 1..NumChunks(S) : d \in Ancestors(Chunk(S, k))
  <2>1. PICK e \in S : d \in Above[e]
    BY <1>1 DEF Ancestors
  <2>2. Place(S, e) \in 1..NumChunks(S) /\ e \in Chunk(S, Place(S, e))
    BY ChunkOf
  <2> QED
    BY <2>1, <2>2 DEF Ancestors
<1>2. \A k : Chunk(S, k) \subseteq S
  BY DEF Chunk
<1> QED
  BY <1>1, <1>2 DEF Ancestors

(* Every nonempty set of naturals below a bound has a least element. *)
LEMMA Least ==
  ASSUME NEW n \in Nat, NEW K \in SUBSET (1..n), K # {}
  PROVE  \E k \in K : \A j \in K : k <= j
<1> DEFINE Upto(k) == {j \in K : j <= k}
           T == {Upto(k) : k \in K}
           R == StrictSubsetOrdering(K)
<1>1. IsFiniteSet(K) /\ K \subseteq Nat
  <2>1. IsFiniteSet(1..n)
    BY FS_Interval
  <2>2. IsFiniteSet(K)
    BY <2>1, FS_Subset, Zenon
  <2> QED
    BY <2>2
<1>2. IsWellFoundedOn(R, SUBSET K)
  BY <1>1, FS_StrictSubsetOrderingWellFounded, FS_FiniteSubsetsOfFinite
<1>3. T \subseteq SUBSET K /\ T # {}
  OBVIOUS
<1>4. PICK x \in T : \A y \in T : ~(<<y, x>> \in R)
  <2> HIDE DEF T, R
  <2> QED
    BY <1>2, <1>3, WFMin
<1>5. PICK k \in K : x = Upto(k)
  BY <1>4
<1>6. SUFFICES ASSUME NEW j \in K, j < k PROVE FALSE
  BY <1>1, <1>5
<1>7. Upto(j) \in T /\ Upto(j) \subseteq x /\ Upto(j) # x
  <2>1. k \in Upto(k) /\ k \notin Upto(j)
    BY <1>1, <1>6
  <2>2. Upto(j) \subseteq Upto(k)
    <3>1. ASSUME NEW i \in K, i <= j PROVE i <= k
      <4>1. i \in Nat /\ j \in Nat /\ k \in Nat
        BY <1>1
      <4> QED
        BY <1>6, <3>1, <4>1
    <3> QED
      BY <3>1
  <2>3. Upto(j) \in T
    OBVIOUS
  <2> HIDE DEF Upto, T
  <2> QED
    BY <1>5, <2>1, <2>2, <2>3
<1>8. <<Upto(j), x>> \in R
  BY <1>3, <1>4, <1>7 DEF StrictSubsetOrdering
<1> HIDE DEF Upto, T, R
<1> QED
  BY <1>4, <1>7, <1>8

LEMMA ClaimedOnce ==
  ASSUME NEW S \in SUBSET Dirs, NEW d \in Ancestors(S) \ S
  PROVE  \E k \in 1..NumChunks(S) :
           \A j \in 1..NumChunks(S) : d \in Claimed(S, j) <=> j = k
<1> DEFINE K == {k \in 1..NumChunks(S) : d \in Ancestors(Chunk(S, k))}
<1>1. NumChunks(S) \in Nat
  BY NumChunksType
<1>2. K # {}
  BY AncestorsOfChunks
<1>3. PICK k \in K : \A j \in K : k <= j
  BY <1>1, <1>2, Least
<1>4. ASSUME NEW j \in 1..NumChunks(S)
      PROVE  d \in Claimed(S, j) <=> j = k
  <2>1. d \in Claimed(S, j) <=> j \in K /\ \A i \in 1..(j - 1) : d \notin Ancestors(Chunk(S, i))
    BY DEF Claimed
  <2>2. ASSUME NEW i \in 1..(j - 1) PROVE i \in 1..NumChunks(S)
    BY <1>1
  <2>3. CASE j = k
    BY <1>1, <1>3, <2>1, <2>2, <2>3
  <2>4. CASE j # k
    <3>1. SUFFICES ASSUME j \in K PROVE \E i \in 1..(j - 1) : d \in Ancestors(Chunk(S, i))
      BY <2>1, <2>4
    <3>2. k \in 1..(j - 1)
      BY <1>1, <1>3, <2>4, <3>1
    <3> QED
      BY <1>3, <3>2
  <2> QED
    BY <2>3, <2>4
<1> QED
  BY <1>3, <1>4

(* A directory that is claimed is not one the change touched.              *)
LEMMA ClaimedApart ==
  ASSUME NEW S \in SUBSET Dirs, NEW k
  PROVE  Chunk(S, k) \subseteq S /\ Claimed(S, k) \cap S = {} /\ Claimed(S, k) \subseteq Ancestors(S)
<1>1. \A i : Chunk(S, i) \subseteq S
  BY DEF Chunk
<1> QED
  BY <1>1 DEF Claimed, Ancestors

LEMMA CloseCovers ==
  ASSUME NEW S \in SUBSET Dirs
  PROVE  AllCovered(CloseJobs(S)) = S \cup Ancestors(S)
<1> DEFINE N == 1..NumChunks(S)
<1>1. DOMAIN CloseJobs(S) = N /\ \A k \in N : Covers(CloseJobs(S)[k]) = Chunk(S, k) \cup Claimed(S, k)
  BY DEF CloseJobs, Covers
<1>2. AllCovered(CloseJobs(S)) = UNION {Chunk(S, k) \cup Claimed(S, k) : k \in N}
  BY <1>1 DEF AllCovered
<1>3. ASSUME NEW d \in S PROVE \E k \in N : d \in Chunk(S, k)
  BY ChunkOf
<1>4. ASSUME NEW d \in Ancestors(S) \ S PROVE \E k \in N : d \in Claimed(S, k)
  BY ClaimedOnce
<1>5. \A k \in N : Chunk(S, k) \subseteq S /\ Claimed(S, k) \subseteq Ancestors(S)
  BY ClaimedApart
<1> QED
  BY <1>2, <1>3, <1>4, <1>5

LEMMA CloseDisjoint ==
  ASSUME NEW S \in SUBSET Dirs
  PROVE  Disjoint(CloseJobs(S)) /\ Disjoint(ManualJobs(S))
<1> DEFINE N == 1..NumChunks(S)
<1>1. \A k : Chunk(S, k) \subseteq S /\ Claimed(S, k) \cap S = {} /\ Claimed(S, k) \subseteq Ancestors(S)
  BY ClaimedApart
<1>2. ASSUME NEW i \in N, NEW j \in N \ {i} PROVE Chunk(S, i) \cap Chunk(S, j) = {}
  BY <1>1, ChunkOf
<1>3. ASSUME NEW i \in N, NEW j \in N \ {i} PROVE Claimed(S, i) \cap Claimed(S, j) = {}
  BY <1>1, ClaimedOnce
<1>4. Disjoint(CloseJobs(S))
  BY <1>1, <1>2, <1>3 DEF Disjoint, CloseJobs, Covers
<1>5. Disjoint(ManualJobs(S))
  BY <1>2 DEF Disjoint, ManualJobs, Covers
<1> QED
  BY <1>4, <1>5

-----------------------------------------------------------------------------
(* Type correctness                                                        *)

LEMMA JobsOfRequests ==
  ASSUME NEW S \in SUBSET Dirs
  PROVE  /\ CloseJobs(S) \in Seq(Jobs) /\ ManualJobs(S) \in Seq(Jobs)
         /\ S # {} => CloseJobs(S) # <<>> /\ ManualJobs(S) # <<>>
<1>1. NumChunks(S) \in Nat /\ (S # {} => NumChunks(S) # 0)
  BY NumChunksType
<1>2. \A k : Chunk(S, k) \in SUBSET Dirs
  BY DEF Chunk
<1>3. \A k : Claimed(S, k) \in SUBSET Dirs
  <2>1. ASSUME NEW T \in SUBSET Dirs PROVE Ancestors(T) \in SUBSET Dirs
    BY QueueAssumption DEF Ancestors
  <2> QED
    BY <1>2, <2>1 DEF Claimed
<1>4. \A k : /\ [dirs |-> Chunk(S, k), ancestors |-> Claimed(S, k)] \in Jobs
             /\ [dirs |-> Chunk(S, k), ancestors |-> {}] \in Jobs
  BY <1>2, <1>3 DEF Jobs
<1>5. CloseJobs(S) \in [1..NumChunks(S) -> Jobs] /\ ManualJobs(S) \in [1..NumChunks(S) -> Jobs]
  BY <1>4 DEF CloseJobs, ManualJobs
<1>6. CloseJobs(S) \in Seq(Jobs) /\ ManualJobs(S) \in Seq(Jobs)
  BY <1>1, <1>5
<1>7. ASSUME S # {} PROVE CloseJobs(S) # <<>> /\ ManualJobs(S) # <<>>
  <2>1. 1 \in 1..NumChunks(S)
    BY <1>1, <1>7
  <2>2. 1 \in DOMAIN CloseJobs(S) /\ 1 \in DOMAIN ManualJobs(S)
    BY <2>1 DEF CloseJobs, ManualJobs
  <2> QED
    BY <2>2
<1> QED
  BY <1>6, <1>7

QueueOK == pending \in Seq(Jobs) /\ stale \subseteq Dirs

(* What is written is what is in memory. *)
LEMMA PersistType ==
  ASSUME TypeOK, QueueOK', Persist
  PROVE  disk' \in [pending : Seq(Jobs), stale : SUBSET Dirs]
BY DEF TypeOK, QueueOK, Persist

FlagsOK == wake \in BOOLEAN /\ runner \in BOOLEAN /\ stopping \in BOOLEAN
WorkerOK ==
  /\ pc \in Labels /\ job \in Jobs \cup {None}
  /\ (job = None) = (pc \in {"pop", "empty", "wait", "off"})
RequestsOK ==
  /\ ask \in [Clients -> {"idle", "enqueue", "signal"}]
  /\ batch \in [Clients -> Seq(Jobs)]
  /\ \A p \in Clients : ask[p] = "enqueue" => batch[p] # <<>>
DiskOK == disk \in [pending : Seq(Jobs), stale : SUBSET Dirs]

LEMMA TypeParts == TypeOK <=> QueueOK /\ DiskOK /\ FlagsOK /\ WorkerOK /\ RequestsOK
BY DEF TypeOK, QueueOK, DiskOK, FlagsOK, WorkerOK, RequestsOK

LEMMA InitType == Init => TypeOK
<1> SUFFICES ASSUME Init PROVE QueueOK /\ DiskOK /\ FlagsOK /\ WorkerOK /\ RequestsOK
  BY TypeParts
<1>1. <<>> \in Seq(Jobs)
  OBVIOUS
<1>2. QueueOK /\ DiskOK
  BY <1>1 DEF Init, QueueOK, DiskOK
<1>3. FlagsOK /\ WorkerOK
  BY DEF Init, FlagsOK, WorkerOK, Labels
<1>4. RequestsOK
  BY <1>1 DEF Init, RequestsOK
<1> QED
  BY <1>2, <1>3, <1>4

LEMMA RequestsType ==
  ASSUME TypeOK, NEW p \in Clients, NEW js \in Seq(Jobs), NEW a \in {"idle", "enqueue", "signal"},
         a = "enqueue" => js # <<>>,
         batch' = [batch EXCEPT ![p] = js], ask' = [ask EXCEPT ![p] = a]
  PROVE  RequestsOK'
BY DEF TypeOK, RequestsOK

LEMMA TypeStep == TypeOK /\ [Next]_vars => TypeOK'
<1> SUFFICES ASSUME TypeOK, [Next]_vars PROVE TypeOK'
  OBVIOUS
<1>0. QueueOK /\ DiskOK /\ FlagsOK /\ WorkerOK /\ RequestsOK
  BY TypeParts
<1> SUFFICES QueueOK' /\ DiskOK' /\ FlagsOK' /\ WorkerOK' /\ RequestsOK'
  BY DEF TypeOK, QueueOK, DiskOK, FlagsOK, WorkerOK, RequestsOK
<1>1. ASSUME NEW p \in Clients, NEW S \in Touched, Close(p, S)
      PROVE  QueueOK' /\ DiskOK' /\ FlagsOK' /\ WorkerOK' /\ RequestsOK'
  <2>1. RequestsOK'
    BY <1>1, JobsOfRequests, RequestsType, QueueAssumption DEF Close
  <2> QED
    BY <1>0, <1>1, <2>1 DEF Close, memory, QueueOK, DiskOK, FlagsOK, WorkerOK
<1>2. ASSUME NEW p \in Clients, NEW found \in Found, Refresh(p, found)
      PROVE  QueueOK' /\ DiskOK' /\ FlagsOK' /\ WorkerOK' /\ RequestsOK'
  <2>1. stale \cup found \in SUBSET Dirs
    BY <1>0, QueueAssumption DEF QueueOK
  <2>2. RequestsOK'
    BY <1>2, <2>1, JobsOfRequests, RequestsType DEF Refresh
  <2> QED
    BY <1>0, <1>2, <2>2 DEF Refresh, memory, QueueOK, DiskOK, FlagsOK, WorkerOK
<1>3. ASSUME NEW p \in Clients, Enqueue(p)
      PROVE  QueueOK' /\ DiskOK' /\ FlagsOK' /\ WorkerOK' /\ RequestsOK'
  <2>1. batch[p] \in Seq(Jobs) /\ batch[p] # <<>>
    BY <1>0, <1>3 DEF Enqueue, RequestsOK
  <2>2. Head(batch[p]) \in Jobs /\ Tail(batch[p]) \in Seq(Jobs)
    BY <2>1
  <2>3. RequestsOK'
    BY <1>3, <2>2, RequestsType DEF Enqueue
  <2>4. QueueOK'
    BY <1>0, <1>3, <2>2 DEF Enqueue, QueueOK
  <2>5. DiskOK'
    BY <1>3, <2>4, PersistType DEF Enqueue, DiskOK
  <2> QED
    BY <1>0, <1>3, <2>3, <2>4, <2>5 DEF Enqueue, FlagsOK, WorkerOK
<1>4. ASSUME NEW p \in Clients, Signal(p)
      PROVE  QueueOK' /\ DiskOK' /\ FlagsOK' /\ WorkerOK' /\ RequestsOK'
  <2>1. RequestsOK'
    BY <1>0, <1>4 DEF Signal, RequestsOK
  <2> QED
    BY <1>0, <1>4, <2>1 DEF Signal, memory, QueueOK, DiskOK, FlagsOK, WorkerOK
<1>5. CASE SetRunner
  BY <1>0, <1>5 DEF SetRunner, memory, QueueOK, DiskOK, FlagsOK, WorkerOK, RequestsOK
<1>6. CASE Pop
  <2>1. job' \in Jobs /\ pending' \in Seq(Jobs)
    BY <1>0, <1>6 DEF Pop, QueueOK
  <2>2. QueueOK'
    BY <1>0, <1>6, <2>1 DEF Pop, QueueOK
  <2>3. DiskOK'
    BY <1>6, <2>2, PersistType DEF Pop, DiskOK
  <2>4. WorkerOK'
    BY <1>6, <2>1, QueueAssumption DEF Pop, WorkerOK, Labels
  <2> QED
    BY <1>0, <1>6, <2>2, <2>3, <2>4 DEF Pop, FlagsOK, RequestsOK
<1>7. CASE FindEmpty \/ Wait
  BY <1>0, <1>7 DEF FindEmpty, Wait, Goto, memory, QueueOK, DiskOK, FlagsOK, WorkerOK, RequestsOK, Labels
<1>8. CASE WakeUp
  BY <1>0, <1>8 DEF WakeUp, memory, QueueOK, DiskOK, FlagsOK, WorkerOK, RequestsOK, Labels
<1>9. CASE End
  BY <1>0, <1>9 DEF End, Goto, memory, QueueOK, DiskOK, FlagsOK, WorkerOK, RequestsOK, Labels
<1>10. CASE Fetch
  BY <1>0, <1>10 DEF Fetch, Goto, memory, QueueOK, DiskOK, FlagsOK, WorkerOK, RequestsOK, Labels
<1>11. CASE Garden
  BY <1>0, <1>11 DEF Garden, Goto, memory, QueueOK, DiskOK, FlagsOK, WorkerOK, RequestsOK, Labels
<1>12. CASE Clear
  <2>1. QueueOK'
    BY <1>0, <1>12 DEF Clear, QueueOK
  <2>2. DiskOK'
    BY <1>12, <2>1, PersistType DEF Clear, DiskOK
  <2> QED
    BY <1>0, <1>12, <2>1, <2>2 DEF Clear, FlagsOK, WorkerOK, RequestsOK, Labels
<1>13. CASE Fail
  <2>1. job \in Jobs
    BY <1>0, <1>13 DEF Fail, WorkerOK
  <2>2. QueueOK'
    BY <1>0, <1>13, <2>1 DEF Fail, QueueOK, Covers, Jobs
  <2>3. DiskOK'
    BY <1>13, <2>2, PersistType DEF Fail, DiskOK
  <2> QED
    BY <1>0, <1>13, <2>2, <2>3 DEF Fail, FlagsOK, WorkerOK, RequestsOK, Labels
<1>14. CASE Stop
  BY <1>0, <1>14 DEF Stop, memory, QueueOK, DiskOK, FlagsOK, WorkerOK, RequestsOK
<1>15. CASE Restart
  <2>1. QueueOK' /\ DiskOK' /\ FlagsOK' /\ WorkerOK'
    BY <1>0, <1>15 DEF Restart, QueueOK, DiskOK, FlagsOK, WorkerOK, Labels
  <2>2. <<>> \in Seq(Jobs)
    OBVIOUS
  <2>3. RequestsOK'
    BY <1>15, <2>2 DEF Restart, RequestsOK
  <2> QED
    BY <2>1, <2>3
<1>16. CASE UNCHANGED vars
  BY <1>0, <1>16 DEF vars, memory, QueueOK, DiskOK, FlagsOK, WorkerOK, RequestsOK
<1> QED
  BY <1>1, <1>2, <1>3, <1>4, <1>5, <1>6, <1>7, <1>8, <1>9, <1>10, <1>11, <1>12, <1>13,
     <1>14, <1>15, <1>16 DEF Next, Worker, Request

(* Every variable of the queue has its type: in particular the file always *)
(* holds a whole queue, the worker has a job exactly while it runs one,    *)
(* and no request enqueues beyond its last chunk (docsQueueState, run,     *)
(* enqueueDocsRefresh).                                                    *)
THEOREM QueueTypeCorrect == Spec => []TypeOK
BY InitType, TypeStep, PTL DEF Spec

-----------------------------------------------------------------------------
(* The worker is woken                                                     *)

(* A worker that waits while a job is queued has a token, or is about to   *)
(* be sent one; the property is its own inductive invariant (start,        *)
(* enqueue, setRunner).                                                    *)
THEOREM WorkerIsWoken == Spec => []NoLostWakeup
<1>1. Init => NoLostWakeup
  BY DEF Init, NoLostWakeup
<1>2. TypeOK /\ NoLostWakeup /\ [Next]_vars => NoLostWakeup'
  <2> SUFFICES ASSUME TypeOK, NoLostWakeup, [Next]_vars PROVE NoLostWakeup'
    OBVIOUS
  <2> USE DEF NoLostWakeup
  <2>1. ASSUME NEW p \in Clients, \/ \E S \in Touched : Close(p, S)
                                  \/ \E found \in Found : Refresh(p, found)
        PROVE  NoLostWakeup'
    <3>1. ask[p] = "idle" /\ ask' = [ask EXCEPT ![p] = "enqueue"] /\ UNCHANGED <<pending, pc, wake>>
      BY <2>1 DEF Close, Refresh, memory
    <3> QED
      BY <3>1 DEF TypeOK
  <2>2. ASSUME NEW p \in Clients, Enqueue(p) PROVE NoLostWakeup'
    BY <2>2 DEF Enqueue, TypeOK
  <2>3. ASSUME NEW p \in Clients, Signal(p) PROVE NoLostWakeup'
    BY <2>3 DEF Signal
  <2>4. CASE SetRunner
    BY <2>4 DEF SetRunner
  <2>5. CASE Pop \/ WakeUp \/ Clear \/ Fail \/ Restart
    BY <2>5 DEF Pop, WakeUp, Clear, Fail, Restart
  <2>6. CASE FindEmpty \/ Wait
    BY <2>6 DEF FindEmpty, Wait, Goto, memory
  <2>7. CASE End \/ Fetch \/ Garden
    BY <2>7 DEF End, Fetch, Garden, Goto
  <2>8. CASE Stop
    BY <2>8 DEF Stop, memory
  <2>9. CASE UNCHANGED vars
    BY <2>9 DEF vars, memory
  <2> QED
    BY <2>1, <2>2, <2>3, <2>4, <2>5, <2>6, <2>7, <2>8, <2>9 DEF Next, Worker, Request
<1> QED
  BY <1>1, <1>2, QueueTypeCorrect, PTL DEF Spec

-----------------------------------------------------------------------------
(* Outdated docs are accounted for                                         *)

LEMMA CoveredAppend ==
  ASSUME NEW s \in Seq(Jobs), NEW j \in Jobs
  PROVE  AllCovered(Append(s, j)) = AllCovered(s) \cup Covers(j)
<1>1. DOMAIN s = 1..Len(s) /\ DOMAIN Append(s, j) = 1..(Len(s) + 1) /\ Len(s) \in Nat
  OBVIOUS
<1>2. \A i \in 1..Len(s) : Append(s, j)[i] = s[i]
  OBVIOUS
<1>3. Append(s, j)[Len(s) + 1] = j
  OBVIOUS
<1>4. ASSUME NEW d \in AllCovered(Append(s, j)) PROVE d \in AllCovered(s) \cup Covers(j)
  <2>1. PICK i \in 1..(Len(s) + 1) : d \in Covers(Append(s, j)[i])
    BY <1>1, <1>4 DEF AllCovered
  <2>2. CASE i = Len(s) + 1
    BY <1>3, <2>1, <2>2
  <2>3. CASE i \in 1..Len(s)
    BY <1>1, <1>2, <2>1, <2>3 DEF AllCovered
  <2> QED
    BY <1>1, <2>2, <2>3
<1>5. ASSUME NEW d \in AllCovered(s) PROVE d \in AllCovered(Append(s, j))
  <2>1. PICK i \in 1..Len(s) : d \in Covers(s[i])
    BY <1>1, <1>5 DEF AllCovered
  <2> QED
    BY <1>1, <1>2, <2>1 DEF AllCovered
<1>6. Covers(j) \subseteq AllCovered(Append(s, j))
  <2>1. Len(s) + 1 \in DOMAIN Append(s, j)
    BY <1>1
  <2> QED
    BY <1>3, <2>1 DEF AllCovered
<1> QED
  BY <1>4, <1>5, <1>6

LEMMA CoveredHeadTail ==
  ASSUME NEW s \in Seq(Jobs), s # <<>>
  PROVE  AllCovered(s) = Covers(Head(s)) \cup AllCovered(Tail(s))
<1>1. DOMAIN s = 1..Len(s) /\ DOMAIN Tail(s) = 1..(Len(s) - 1) /\ Len(s) \in Nat \ {0}
  OBVIOUS
<1>2. \A i \in 1..(Len(s) - 1) : Tail(s)[i] = s[i + 1]
  OBVIOUS
<1>3. Head(s) = s[1] /\ 1 \in DOMAIN s
  BY <1>1
<1>4. ASSUME NEW d \in AllCovered(s) PROVE d \in Covers(Head(s)) \cup AllCovered(Tail(s))
  <2>1. PICK i \in 1..Len(s) : d \in Covers(s[i])
    BY <1>1, <1>4 DEF AllCovered
  <2>2. CASE i = 1
    BY <1>3, <2>1, <2>2
  <2>3. CASE i # 1
    <3>1. i - 1 \in 1..(Len(s) - 1) /\ (i - 1) + 1 = i
      BY <1>1, <2>3
    <3> QED
      BY <1>1, <1>2, <2>1, <3>1 DEF AllCovered
  <2> QED
    BY <2>2, <2>3
<1>5. ASSUME NEW d \in AllCovered(Tail(s)) PROVE d \in AllCovered(s)
  <2>1. PICK i \in 1..(Len(s) - 1) : d \in Covers(Tail(s)[i])
    BY <1>1, <1>5 DEF AllCovered
  <2>2. i + 1 \in DOMAIN s
    BY <1>1
  <2> QED
    BY <1>2, <2>1, <2>2 DEF AllCovered
<1>6. Covers(Head(s)) \subseteq AllCovered(s)
  BY <1>3 DEF AllCovered
<1> QED
  BY <1>4, <1>5, <1>6

LEMMA CoveredEmpty == AllCovered(<<>>) = {}
BY DEF AllCovered

(* The file is what is in memory. *)
SavedIsMemory == unsaved \/ disk = [pending |-> pending, stale |-> stale]

(* What no request is about, no request carries. *)
IdleCarriesNothing == \A p \in Clients : ask[p] = "idle" => batch[p] = <<>>

(* What was outdated after the running job began waits for a later one. *)
LaterIsQueued == unsaved \/ job = None \/ again \subseteq Queued \cup lost

Accounted == SavedIsMemory /\ IdleCarriesNothing /\ LaterIsQueued /\ OutdatedIsAccounted

BatchCover == UNION {Asked(p) : p \in Clients}

LEMMA InitAccounted == Init => Accounted
BY DEF Init, Accounted, SavedIsMemory, IdleCarriesNothing, LaterIsQueued, OutdatedIsAccounted

LEMMA PersistSaves ==
  ASSUME Persist, SavedIsMemory
  PROVE  SavedIsMemory' /\ (unsaved => unsaved')
BY DEF Persist, SavedIsMemory

(* A new batch covers what the others did and what it asks for. *)
LEMMA NewBatch ==
  ASSUME TypeOK, IdleCarriesNothing, NEW p \in Clients, ask[p] = "idle",
         NEW js \in Seq(Jobs), batch' = [batch EXCEPT ![p] = js]
  PROVE  BatchCover' = BatchCover \cup AllCovered(js)
<1>1. batch \in [Clients -> Seq(Jobs)]
  BY DEF TypeOK
<1>2. \A q \in Clients : Asked(q)' = IF q = p THEN AllCovered(js) ELSE Asked(q)
  BY <1>1 DEF Asked
<1>3. Asked(p) = {}
  BY CoveredEmpty DEF IdleCarriesNothing, Asked
<1> QED
  BY <1>2, <1>3 DEF BatchCover

-----------------------------------------------------------------------------
(* Each directory once                                                     *)

LEMMA DisjointTail ==
  ASSUME NEW s \in Seq(Jobs), s # <<>>, Disjoint(s)
  PROVE  Disjoint(Tail(s))
<1>1. DOMAIN s = 1..Len(s) /\ DOMAIN Tail(s) = 1..(Len(s) - 1) /\ Len(s) \in Nat \ {0}
  OBVIOUS
<1>2. \A i \in 1..(Len(s) - 1) : Tail(s)[i] = s[i + 1]
  OBVIOUS
<1>3. \A i \in 1..(Len(s) - 1) : i + 1 \in DOMAIN s
  BY <1>1
<1>4. \A i, j \in 1..(Len(s) - 1) : i # j => i + 1 # j + 1
  BY <1>1
<1> QED
  BY <1>1, <1>2, <1>3, <1>4 DEF Disjoint

LEMMA HandledStep == TypeOK /\ HandledOnce /\ [Next]_vars => HandledOnce'
<1> SUFFICES ASSUME TypeOK, HandledOnce, [Next]_vars PROVE HandledOnce'
  OBVIOUS
<1>0. batch \in [Clients -> Seq(Jobs)] /\ \A p \in Clients : Disjoint(batch[p])
  BY DEF TypeOK, HandledOnce
<1>1. ASSUME NEW p \in Clients, NEW js, Disjoint(js), batch' = [batch EXCEPT ![p] = js]
      PROVE  HandledOnce'
  BY <1>0, <1>1 DEF HandledOnce
<1>2. ASSUME NEW p \in Clients, NEW S \in Touched, Close(p, S) PROVE HandledOnce'
  BY <1>1, <1>2, CloseDisjoint, QueueAssumption DEF Close
<1>3. ASSUME NEW p \in Clients, NEW found \in Found, Refresh(p, found) PROVE HandledOnce'
  <2>1. stale \cup found \in SUBSET Dirs
    BY QueueAssumption DEF TypeOK
  <2> QED
    BY <1>1, <1>3, <2>1, CloseDisjoint DEF Refresh
<1>4. ASSUME NEW p \in Clients, Enqueue(p) PROVE HandledOnce'
  <2>1. batch[p] # <<>>
    BY <1>4 DEF Enqueue, TypeOK
  <2>2. Disjoint(Tail(batch[p]))
    BY <1>0, <2>1, DisjointTail
  <2> QED
    BY <1>1, <1>4, <2>2 DEF Enqueue
<1>5. CASE UNCHANGED batch
  BY <1>5 DEF HandledOnce
<1>6. ASSUME NEW p \in Clients, Signal(p) PROVE UNCHANGED batch
  BY <1>6 DEF Signal
<1>7. CASE Restart
  <2>1. Disjoint(<<>>)
    BY DEF Disjoint
  <2> QED
    BY <1>7, <2>1 DEF Restart, HandledOnce
<1>8. ASSUME Worker \/ SetRunner \/ Stop \/ UNCHANGED vars PROVE UNCHANGED batch
  BY <1>8 DEF Worker, Pop, FindEmpty, Wait, WakeUp, End, Fetch, Garden, Clear, Fail, Goto, SetRunner, Stop, vars
<1> QED
  BY <1>2, <1>3, <1>4, <1>5, <1>6, <1>7, <1>8 DEF Next, Request

(* Whatever directories a change touched and wherever the chunks fall, no  *)
(* directory is in two jobs of one request, nor to be both updated and     *)
(* reviewed (enqueueDocsRefresh, chunkDirs).                               *)
THEOREM EachDirectoryOnce == Spec => []HandledOnce
<1>1. Init => HandledOnce
  BY DEF Init, HandledOnce, Disjoint
<1> QED
  BY <1>1, HandledStep, QueueTypeCorrect, PTL DEF Spec

-----------------------------------------------------------------------------
(* Outdated docs stay accounted for                                        *)

LEMMA QueuedIs == Queued = AllCovered(pending) \cup BatchCover
BY DEF Queued, BatchCover

(* A step of a request that starts. *)
LEMMA StartAccounted ==
  ASSUME TypeOK, Accounted, NEW p \in Clients, ask[p] = "idle", NEW js \in Seq(Jobs),
         NEW T \in SUBSET AllCovered(js),
         batch' = [batch EXCEPT ![p] = js], ask' = [ask EXCEPT ![p] = "enqueue"],
         owed' = owed \cup T, again' = again \cup T,
         UNCHANGED <<pending, stale, disk, job, lost, unsaved>>
  PROVE  Accounted'
<1>1. BatchCover' = BatchCover \cup AllCovered(js)
  BY NewBatch DEF Accounted
<1>2. Queued' = Queued \cup AllCovered(js)
  BY <1>1, QueuedIs DEF AllCovered, Queued, BatchCover
<1>3. Running' = Running
  BY DEF Running
<1>4. SavedIsMemory'
  BY DEF Accounted, SavedIsMemory
<1>5. IdleCarriesNothing'
  BY DEF Accounted, IdleCarriesNothing, TypeOK
<1>6. LaterIsQueued'
  BY <1>2 DEF Accounted, LaterIsQueued
<1>7. OutdatedIsAccounted'
  BY <1>2, <1>3 DEF Accounted, OutdatedIsAccounted
<1> QED
  BY <1>4, <1>5, <1>6, <1>7 DEF Accounted

LEMMA EnqueueAccounted ==
  ASSUME TypeOK, Accounted, NEW p \in Clients, Enqueue(p)
  PROVE  Accounted'
<1>0. pending \in Seq(Jobs) /\ batch \in [Clients -> Seq(Jobs)] /\ batch[p] # <<>>
  BY DEF TypeOK, Enqueue
<1> DEFINE j == Head(batch[p])
<1>1. j \in Jobs /\ AllCovered(batch[p]) = Covers(j) \cup AllCovered(Tail(batch[p]))
  BY <1>0, CoveredHeadTail
<1>2. AllCovered(pending') = AllCovered(pending) \cup Covers(j)
  BY <1>0, <1>1, CoveredAppend DEF Enqueue
<1>3. \A q \in Clients : AllCovered(batch'[q]) = IF q = p THEN AllCovered(Tail(batch[p])) ELSE AllCovered(batch[q])
  BY <1>0 DEF Enqueue
<1>4. BatchCover' \cup Covers(j) = BatchCover \cup Covers(j)
  BY <1>1, <1>3 DEF BatchCover, Asked
<1>5. Queued' = AllCovered(pending') \cup BatchCover'
  BY DEF Queued, BatchCover
<1>6. Queued \subseteq Queued'
  BY <1>2, <1>4, <1>5, QueuedIs
<1>7. UNCHANGED <<stale, job, owed, again, lost>> /\ Running' = Running /\ Persist
  BY DEF Enqueue, Running, duties
<1>8. SavedIsMemory' /\ (unsaved => unsaved')
  BY <1>7, PersistSaves DEF Accounted
<1>9. IdleCarriesNothing'
  BY <1>0 DEF Accounted, IdleCarriesNothing, Enqueue, TypeOK
<1>10. LaterIsQueued'
  BY <1>6, <1>7, <1>8 DEF Accounted, LaterIsQueued
<1>11. OutdatedIsAccounted'
  BY <1>6, <1>7, <1>8 DEF Accounted, OutdatedIsAccounted
<1> QED
  BY <1>8, <1>9, <1>10, <1>11 DEF Accounted

LEMMA SignalAccounted ==
  ASSUME TypeOK, Accounted, NEW p \in Clients, Signal(p)
  PROVE  Accounted'
<1>1. UNCHANGED <<pending, stale, disk, job, batch, owed, again, lost, unsaved>>
  BY DEF Signal, memory, duties
<1>2. Queued' = Queued /\ Running' = Running
  BY <1>1 DEF Queued, Asked, Running
<1>3. IdleCarriesNothing'
  BY <1>1 DEF Accounted, IdleCarriesNothing, Signal, TypeOK
<1> QED
  BY <1>1, <1>2, <1>3 DEF Accounted, SavedIsMemory, LaterIsQueued, OutdatedIsAccounted

LEMMA PopAccounted ==
  ASSUME TypeOK, Accounted, Pop
  PROVE  Accounted'
<1>0. pending \in Seq(Jobs) /\ pending # <<>> /\ job = None
  BY DEF TypeOK, Pop
<1>1. job' = Head(pending) /\ job' \in Jobs /\ job' # None
  BY <1>0, QueueAssumption DEF Pop
<1>2. AllCovered(pending) = Covers(job') \cup AllCovered(pending')
  BY <1>0, <1>1, CoveredHeadTail DEF Pop
<1>3. UNCHANGED <<stale, owed, lost, batch, ask>> /\ again' = {} /\ Persist
  BY DEF Pop
<1>4. SavedIsMemory' /\ (unsaved => unsaved')
  BY <1>3, PersistSaves DEF Accounted
<1>5. BatchCover' = BatchCover /\ Queued' = AllCovered(pending') \cup BatchCover'
  BY <1>3 DEF BatchCover, Asked, Queued
<1>6. Running = {} /\ Running' = Covers(job')
  BY <1>0, <1>1 DEF Running
<1>7. IdleCarriesNothing' /\ LaterIsQueued'
  BY <1>3 DEF Accounted, IdleCarriesNothing, LaterIsQueued
<1>8. OutdatedIsAccounted'
  BY <1>2, <1>3, <1>4, <1>5, <1>6, QueuedIs DEF Accounted, OutdatedIsAccounted
<1> QED
  BY <1>4, <1>7, <1>8 DEF Accounted

LEMMA EndOfJobAccounted ==
  ASSUME TypeOK, Accounted, Clear \/ Fail
  PROVE  Accounted'
<1>1. job # None /\ job' = None /\ UNCHANGED <<pending, batch, ask, again, lost>> /\ Persist
  BY DEF TypeOK, Clear, Fail, duties
<1>2. SavedIsMemory' /\ (unsaved => unsaved')
  BY <1>1, PersistSaves DEF Accounted
<1>3. Queued' = Queued /\ Running = Covers(job)
  BY <1>1 DEF Queued, Asked, Running
<1>4. IdleCarriesNothing' /\ LaterIsQueued'
  BY <1>1 DEF Accounted, IdleCarriesNothing, LaterIsQueued
<1>5. CASE Clear
  <2>1. stale' = stale \ Covers(job) /\ owed' = owed \ (Covers(job) \ again)
    BY <1>5 DEF Clear
  <2>2. unsaved \/ again \subseteq Queued \cup lost
    BY <1>1 DEF Accounted, LaterIsQueued
  <2>3. OutdatedIsAccounted'
    BY <1>1, <1>2, <1>3, <2>1, <2>2 DEF Accounted, OutdatedIsAccounted
  <2> QED
    BY <1>2, <1>4, <2>3 DEF Accounted
<1>6. CASE Fail
  <2>1. stale' = stale \cup Covers(job) /\ owed' = owed
    BY <1>6 DEF Fail, duties
  <2>2. OutdatedIsAccounted'
    BY <1>1, <1>2, <1>3, <2>1 DEF Accounted, OutdatedIsAccounted
  <2> QED
    BY <1>2, <1>4, <2>2 DEF Accounted
<1> QED
  BY <1>5, <1>6

LEMMA RestartAccounted ==
  ASSUME TypeOK, Accounted, Restart
  PROVE  Accounted'
<1>1. /\ job' = None /\ UNCHANGED <<disk, owed, again, unsaved>>
      /\ pending' = disk.pending /\ stale' = disk.stale
      /\ lost' = lost \cup Running \cup BatchCover
      /\ batch' = [p \in Clients |-> <<>>]
  BY DEF Restart, BatchCover
<1>2. unsaved \/ (pending' = pending /\ stale' = stale)
  BY <1>1 DEF Accounted, SavedIsMemory
<1>3. AllCovered(pending') \subseteq Queued'
  BY DEF Queued
<1>4. SavedIsMemory'
  BY <1>1, <1>2 DEF Accounted, SavedIsMemory
<1>5. IdleCarriesNothing' /\ LaterIsQueued'
  BY <1>1 DEF IdleCarriesNothing, LaterIsQueued
<1>6. OutdatedIsAccounted'
  <2>1. SUFFICES ASSUME ~unsaved PROVE owed \subseteq Queued' \cup stale' \cup lost'
    BY <1>1 DEF OutdatedIsAccounted
  <2>2. owed \subseteq AllCovered(pending) \cup BatchCover \cup Running \cup stale \cup lost
    BY <2>1, QueuedIs DEF Accounted, OutdatedIsAccounted
  <2>3. AllCovered(pending) \subseteq Queued'
    BY <1>2, <1>3, <2>1
  <2> QED
    BY <1>1, <1>2, <2>1, <2>2, <2>3
<1> QED
  BY <1>4, <1>5, <1>6 DEF Accounted

LEMMA AccountedStep == TypeOK /\ Accounted /\ [Next]_vars => Accounted'
<1> SUFFICES ASSUME TypeOK, Accounted, [Next]_vars PROVE Accounted'
  OBVIOUS
<1>1. ASSUME NEW p \in Clients, NEW S \in Touched, Close(p, S) PROVE Accounted'
  <2>1. S \in SUBSET Dirs
    BY QueueAssumption
  <2>2. CloseJobs(S) \in Seq(Jobs) /\ S \cup Ancestors(S) \in SUBSET AllCovered(CloseJobs(S))
    BY <2>1, JobsOfRequests, CloseCovers
  <2>3. /\ ask[p] = "idle" /\ batch' = [batch EXCEPT ![p] = CloseJobs(S)]
        /\ ask' = [ask EXCEPT ![p] = "enqueue"]
        /\ owed' = owed \cup (S \cup Ancestors(S)) /\ again' = again \cup (S \cup Ancestors(S))
        /\ UNCHANGED <<pending, stale, disk, job, lost, unsaved>>
    BY <1>1 DEF Close, memory
  <2> QED
    BY <2>2, <2>3, StartAccounted
<1>2. ASSUME NEW p \in Clients, NEW found \in Found, Refresh(p, found) PROVE Accounted'
  <2>1. stale \cup found \in SUBSET Dirs
    BY QueueAssumption DEF TypeOK
  <2>2. ManualJobs(stale \cup found) \in Seq(Jobs) /\ {} \in SUBSET AllCovered(ManualJobs(stale \cup found))
    BY <2>1, JobsOfRequests
  <2>3. /\ ask[p] = "idle" /\ batch' = [batch EXCEPT ![p] = ManualJobs(stale \cup found)]
        /\ ask' = [ask EXCEPT ![p] = "enqueue"]
        /\ owed' = owed \cup {} /\ again' = again \cup {}
        /\ UNCHANGED <<pending, stale, disk, job, lost, unsaved>>
    BY <1>2 DEF Refresh, memory, duties
  <2> QED
    BY <2>2, <2>3, StartAccounted
<1>3. ASSUME NEW p \in Clients, Request(p) PROVE Accounted'
  BY <1>3, EnqueueAccounted, SignalAccounted DEF Request
<1>4. CASE Pop
  BY <1>4, PopAccounted
<1>5. CASE Clear \/ Fail
  BY <1>5, EndOfJobAccounted
<1>6. CASE Restart
  BY <1>6, RestartAccounted
<1>7. CASE \/ FindEmpty \/ Wait \/ WakeUp \/ End \/ Fetch \/ Garden
           \/ SetRunner \/ Stop \/ UNCHANGED vars
  <2>1. UNCHANGED <<pending, stale, disk, job, ask, batch, owed, again, lost, unsaved>>
    BY <1>7 DEF FindEmpty, Wait, WakeUp, End, Fetch, Garden, Goto, SetRunner, Stop, vars, memory, duties
  <2>2. Queued' = Queued /\ Running' = Running
    BY <2>1 DEF Queued, Asked, Running
  <2> QED
    BY <2>1, <2>2 DEF Accounted, SavedIsMemory, IdleCarriesNothing, LaterIsQueued, OutdatedIsAccounted
<1> QED
  BY <1>1, <1>2, <1>3, <1>4, <1>5, <1>6, <1>7 DEF Next, Worker

(* A directory that a closed change has outdated stays queued, worked on   *)
(* or flagged until a job that began after the close has refreshed it,     *)
(* whatever fails and wherever the server stops; only what a stop cut      *)
(* short, and what a failed write left out of the file, is lost (enqueue,  *)
(* pop, run, failStale, load).                                             *)
THEOREM OutdatedStaysAccounted == Spec => []OutdatedIsAccounted
<1>1. Accounted => OutdatedIsAccounted
  BY DEF Accounted
<1> QED
  BY <1>1, InitAccounted, AccountedStep, QueueTypeCorrect, PTL DEF Spec

-----------------------------------------------------------------------------
(* DocsCage                                                                *)

-----------------------------------------------------------------------------
(* The invariant                                                           *)

(* A file that is not there has no content.                                *)
Gone(file) == ~file.there => file = Absent
GoneFiles(fs) == \A d \in Library, n \in Names : Gone(fs[d][n])
GoneIsAbsent == GoneFiles(files) /\ GoneFiles(left) /\ \A r \in Runners : GoneFiles(pass[r].snap)

(* A directory whose skeleton was built once has a STRUCTURE.md for good,  *)
(* so that another refresh of it changes nothing that is accounted for.    *)
Covered(d) == left[d]["STRUCTURE"].there /\ left[d]["STRUCTURE"].marked

(* A session's directories are its own, and its snapshot of them is what   *)
(* they will be held to have, whatever else happens until it ends.         *)
SnapshotsHold == \A r \in Runners : \A d \in pass[r].at \ raced :
  /\ \A q \in Runners : d \in pass[q].at => q = r
  /\ \A n \in Names : Agrees(departed, d, pass[r].snap[d][n], left[d][n])
  /\ Covered(d)
(* The gardener's jobs begin with all skeletons built.                     *)
SnapshotsHave == \A d \in pass["gardener"].at : pass["gardener"].snap[d]["STRUCTURE"].there
(* No tree that a refresh will use misses a file that is not accounted as  *)
(* departed.                                                               *)
Known(trees, gone) == \A d \in Library : ~trees[d].file => d \in gone
TreesKnown == Known(tree, departed) /\ (seed.pc # "idle" => Known(seed.tree, departed))
SeedKeepsTo ==
  /\ pass["seed"].at # {} => seed.pc = "summarize"
  /\ pass["seed"].at \subseteq seed.built
  /\ \A d \in seed.built \ raced : Covered(d)

(* What the seed has tried was accepted, and so was what the cursor marks. *)
SeedProgress ==
  /\ cursor \subseteq passed /\ seed.passed \subseteq passed
  /\ ~seed.failed /\ seed.pc # "idle" =>
       seed.built = Library /\ seed.tried \subseteq seed.passed \cup pass["seed"].at
  /\ seed.pc = "settle" => pass["seed"].at = {} /\ \A d \in Library : ~Wanted(d)

CageInv ==
  /\ CageTypeOK /\ GoneIsAbsent /\ SnapshotsHave /\ TreesKnown
  /\ SnapshotsHold /\ SeedKeepsTo /\ KeptAsAccepted /\ SeedProgress

-----------------------------------------------------------------------------
(* Files                                                                   *)

FilePairs == [Library -> [Names -> Files]]
Hashes == [Library -> Nat]
Versions == [hash : Nat, file : BOOLEAN]
Passes == [at : SUBSET Library, snap : FilePairs, tree : Hashes]

(* What is left of a file when somebody has built its skeleton.            *)
Created(file) == [file EXCEPT !.there = TRUE, !.marked = TRUE]

LEMMA AbsentFile == Absent \in Files /\ Left(Absent) = Absent /\ Gone(Absent)
<1>1. Absent \in Files /\ Absent.tree = 0 /\ Absent.rest = FALSE
  BY DEF Absent, Files
<1>2. Left(Absent) = Absent
  BY <1>1 DEF Files, Left
<1> QED BY <1>1, <1>2 DEF Gone

LEMMA SkeletonFile ==
  ASSUME NEW file \in Files, NEW version \in Versions
  PROVE  Skeleton(file, version) \in Files /\ Gone(Skeleton(file, version))
<1>1. version.hash \in Nat /\ (IF version.file THEN file.blurb ELSE 0) \in Nat
  BY DEF Versions, Files
<1> DEFINE blurb == IF version.file THEN file.blurb ELSE 0
<1>2. Skeleton(file, version) =
        [file EXCEPT !.there = TRUE, !.marked = TRUE, !.tree = version.hash, !.blurb = blurb, !.rest = FALSE]
  BY DEF Skeleton
<1> HIDE DEF blurb
<1> QED BY <1>1, <1>2 DEF Files, Gone, blurb

LEMMA LeftFile ==
  ASSUME NEW file \in Files
  PROVE  /\ Left(file) \in Files /\ Left(file).there = file.there /\ Left(file).marked = file.marked
         /\ Left(file).rest = FALSE /\ Left(file).tree = 0
         /\ Gone(file) => Gone(Left(file))
BY AbsentFile DEF Files, Left, Gone, Absent

(* What it is to agree, field by field.                                    *)
LEMMA AgreesFields ==
  ASSUME NEW gone, NEW d, NEW file \in Files, NEW accepted \in Files
  PROVE  Agrees(gone, d, file, accepted) <=>
           /\ file.there = accepted.there /\ file.sound = accepted.sound /\ file.marked = accepted.marked
           /\ file.outside = accepted.outside /\ file.text = accepted.text
           /\ d \in gone \/ file.blurb = accepted.blurb
           /\ accepted.rest = FALSE /\ accepted.tree = 0
<1> DEFINE blurb == IF d \in gone THEN file.blurb ELSE accepted.blurb
           mine == Left(file)
           its == [accepted EXCEPT !.blurb = blurb]
<1>1. blurb \in Nat
  BY DEF Files
<1>2. Agrees(gone, d, file, accepted) <=> mine = its
  BY DEF Agrees
<1>3. /\ mine \in Files /\ mine.there = file.there /\ mine.sound = file.sound /\ mine.marked = file.marked
      /\ mine.outside = file.outside /\ mine.text = file.text /\ mine.blurb = file.blurb
      /\ mine.rest = FALSE /\ mine.tree = 0
  BY DEF Files, Left
<1>4. blurb = file.blurb <=> d \in gone \/ file.blurb = accepted.blurb
  OBVIOUS
<1> HIDE DEF blurb, mine
<1>5. /\ its \in Files /\ its.there = accepted.there /\ its.sound = accepted.sound
      /\ its.marked = accepted.marked /\ its.outside = accepted.outside /\ its.text = accepted.text
      /\ its.blurb = blurb /\ its.rest = accepted.rest /\ its.tree = accepted.tree
  BY <1>1 DEF Files
<1> HIDE DEF its
<1>6. mine = its <=>
        /\ mine.there = its.there /\ mine.sound = its.sound /\ mine.marked = its.marked
        /\ mine.outside = its.outside /\ mine.text = its.text /\ mine.blurb = its.blurb
        /\ mine.rest = its.rest /\ mine.tree = its.tree
  BY <1>3, <1>5 DEF Files
<1> QED BY <1>2, <1>3, <1>4, <1>5, <1>6

LEMMA AgreesThere ==
  ASSUME NEW gone, NEW d, NEW file \in Files, NEW accepted \in Files, Agrees(gone, d, file, accepted)
  PROVE  (file.there <=> accepted.there) /\ (file.marked <=> accepted.marked)
<1>1. file.there = accepted.there /\ file.marked = accepted.marked
  BY AgreesFields
<1> QED BY <1>1

LEMMA AgreesLeft ==
  ASSUME NEW gone, NEW d, NEW file \in Files
  PROVE  Agrees(gone, d, file, Left(file))
<1>1. Left(file) \in Files /\ Left(file).there = file.there /\ Left(file).sound = file.sound
  BY DEF Files, Left
<1>2. /\ Left(file).marked = file.marked /\ Left(file).outside = file.outside /\ Left(file).text = file.text
      /\ Left(file).blurb = file.blurb /\ Left(file).rest = FALSE /\ Left(file).tree = 0
  BY DEF Files, Left
<1> QED BY <1>1, <1>2, AgreesFields

(* A directory more or fewer that is gone matters to its own files alone.  *)
LEMMA AgreesMore ==
  ASSUME NEW gone, NEW more, NEW d, NEW file \in Files, NEW accepted \in Files,
         Agrees(gone, d, file, accepted), d \in gone => d \in more
  PROVE  Agrees(more, d, file, accepted)
<1>1. /\ file.there = accepted.there /\ file.sound = accepted.sound /\ file.marked = accepted.marked
      /\ file.outside = accepted.outside /\ file.text = accepted.text
      /\ d \in gone \/ file.blurb = accepted.blurb
      /\ accepted.rest = FALSE /\ accepted.tree = 0
  BY AgreesFields
<1>2. d \in more \/ file.blurb = accepted.blurb
  BY <1>1
<1> QED BY <1>1, <1>2, AgreesFields

LEMMA SkeletonAgrees ==
  ASSUME NEW gone, NEW d, NEW file \in Files, NEW accepted \in Files, NEW version \in Versions,
         Agrees(gone, d, file, accepted), ~version.file => d \in gone
  PROVE  Agrees(gone, d, Skeleton(file, version), Created(accepted))
<1> DEFINE blurb == IF version.file THEN file.blurb ELSE 0
           new == Skeleton(file, version)
           its == Created(accepted)
<1>1. version.hash \in Nat /\ blurb \in Nat
  BY DEF Versions, Files
<1>2. new = [file EXCEPT !.there = TRUE, !.marked = TRUE, !.tree = version.hash, !.blurb = blurb, !.rest = FALSE]
  BY DEF Skeleton
<1>3. d \in gone \/ blurb = file.blurb
  OBVIOUS
<1> HIDE DEF blurb, new
<1>4. /\ new \in Files /\ new.there = TRUE /\ new.sound = file.sound /\ new.marked = TRUE
      /\ new.outside = file.outside /\ new.text = file.text /\ new.blurb = blurb
  BY <1>1, <1>2 DEF Files
<1>5. /\ its \in Files /\ its.there = TRUE /\ its.sound = accepted.sound /\ its.marked = TRUE
      /\ its.outside = accepted.outside /\ its.text = accepted.text /\ its.blurb = accepted.blurb
      /\ its.rest = accepted.rest /\ its.tree = accepted.tree
  BY DEF Files, Created
<1> HIDE DEF its
<1>6. /\ file.there = accepted.there /\ file.sound = accepted.sound /\ file.marked = accepted.marked
      /\ file.outside = accepted.outside /\ file.text = accepted.text
      /\ d \in gone \/ file.blurb = accepted.blurb
      /\ accepted.rest = FALSE /\ accepted.tree = 0
  BY AgreesFields
<1>7. /\ new.there = its.there /\ new.sound = its.sound /\ new.marked = its.marked
      /\ new.outside = its.outside /\ new.text = its.text
      /\ d \in gone \/ new.blurb = its.blurb
      /\ its.rest = FALSE /\ its.tree = 0
  BY <1>3, <1>4, <1>5, <1>6
<1>8. Agrees(gone, d, new, its)
  BY <1>4, <1>5, <1>7, AgreesFields
<1> QED BY <1>8 DEF new, its

LEMMA CreatedFile ==
  ASSUME NEW file \in Files
  PROVE  /\ Created(file) \in Files /\ Gone(Created(file))
         /\ Created(file).there /\ Created(file).marked
         /\ file.there /\ file.marked => Created(file) = file
BY DEF Files, Created, Gone

(* What a refresh of the skeletons of ds makes of the files.               *)
LEMMA SkeletonsWritten ==
  ASSUME NEW fs \in FilePairs, NEW ds \in SUBSET Library, NEW versions \in Trees
  PROVE  /\ WithSkeletons(fs, ds, versions) \in FilePairs
         /\ \A d \in Library \ ds : WithSkeletons(fs, ds, versions)[d] = fs[d]
         /\ \A d \in Library : WithSkeletons(fs, ds, versions)[d]["AGENTS"] = fs[d]["AGENTS"]
         /\ \A d \in ds : WithSkeletons(fs, ds, versions)[d]["STRUCTURE"] =
              Skeleton(fs[d]["STRUCTURE"], versions[d])
<1>1. \A d \in Library : fs[d] \in [Names -> Files] /\ versions[d] \in Versions
  BY DEF FilePairs, Trees, Versions
<1>2. \A d \in Library : Skeleton(fs[d]["STRUCTURE"], versions[d]) \in Files
  BY <1>1, SkeletonFile DEF Names
<1> QED BY <1>1, <1>2 DEF WithSkeletons, FilePairs, Names

LEMMA CreatedWritten ==
  ASSUME NEW lf \in FilePairs, NEW ds \in SUBSET Library
  PROVE  /\ WithCreated(lf, ds) \in FilePairs
         /\ \A d \in Library \ ds : WithCreated(lf, ds)[d] = lf[d]
         /\ \A d \in Library : WithCreated(lf, ds)[d]["AGENTS"] = lf[d]["AGENTS"]
         /\ \A d \in ds : WithCreated(lf, ds)[d]["STRUCTURE"] = Created(lf[d]["STRUCTURE"])
<1>1. \A d \in Library : lf[d] \in [Names -> Files]
  BY DEF FilePairs
<1>2. \A d \in Library : Created(lf[d]["STRUCTURE"]) \in Files
  BY <1>1, CreatedFile DEF Names
<1> QED BY <1>1, <1>2 DEF WithCreated, FilePairs, Names, Created

LEMMA ReachedDirs == Reached \subseteq Library
BY DEF Reached

(* A refresh does to a file and to what is left of it the same, unless it  *)
(* drops the blurb of a file that is gone.                                 *)
LEMMA RefreshAgrees ==
  ASSUME NEW fs \in FilePairs, NEW lf \in FilePairs, NEW ds \in SUBSET Library, NEW versions \in Trees,
         NEW gone, Known(versions, gone),
         NEW d \in Library, \A n \in Names : Agrees(gone, d, fs[d][n], lf[d][n])
  PROVE  \A n \in Names : Agrees(gone, d, WithSkeletons(fs, ds, versions)[d][n], WithCreated(lf, ds)[d][n])
<1>1. Agrees(gone, d, WithSkeletons(fs, ds, versions)[d]["AGENTS"], WithCreated(lf, ds)[d]["AGENTS"])
  BY SkeletonsWritten, CreatedWritten DEF Names
<1>2. Agrees(gone, d, WithSkeletons(fs, ds, versions)[d]["STRUCTURE"], WithCreated(lf, ds)[d]["STRUCTURE"])
  <2>0. Agrees(gone, d, fs[d]["STRUCTURE"], lf[d]["STRUCTURE"])
    BY DEF Names
  <2>1. CASE d \in ds
    <3>1. fs[d]["STRUCTURE"] \in Files /\ lf[d]["STRUCTURE"] \in Files /\ versions[d] \in Versions
      BY DEF FilePairs, Trees, Versions, Names
    <3>2. /\ WithSkeletons(fs, ds, versions)[d]["STRUCTURE"] = Skeleton(fs[d]["STRUCTURE"], versions[d])
          /\ WithCreated(lf, ds)[d]["STRUCTURE"] = Created(lf[d]["STRUCTURE"])
      BY <2>1, SkeletonsWritten, CreatedWritten
    <3>3. ~versions[d].file => d \in gone
      BY DEF Known
    <3>4. Agrees(gone, d, Skeleton(fs[d]["STRUCTURE"], versions[d]), Created(lf[d]["STRUCTURE"]))
      BY <2>0, <3>1, <3>3, SkeletonAgrees
    <3> QED BY <3>2, <3>4
  <2>2. CASE d \notin ds
    <3>1. WithSkeletons(fs, ds, versions)[d] = fs[d]
      BY <2>2 DEF WithSkeletons
    <3>2. WithCreated(lf, ds)[d] = lf[d]
      BY <2>2, CreatedWritten
    <3> QED BY <2>0, <3>1, <3>2
  <2> QED BY <2>1, <2>2
<1> QED BY <1>1, <1>2 DEF Names

(* ... and nothing to what is left of a directory that is covered.         *)
LEMMA RefreshOfCovered ==
  ASSUME NEW lf \in FilePairs, NEW ds \in SUBSET Library, NEW d \in Library,
         lf[d]["STRUCTURE"].there, lf[d]["STRUCTURE"].marked
  PROVE  \A n \in Names : WithCreated(lf, ds)[d][n] = lf[d][n]
<1>1. lf[d]["STRUCTURE"] \in Files
  BY DEF FilePairs, Names
<1> QED BY <1>1, CreatedWritten, CreatedFile DEF Names

(* What a refresh covers stays covered.                                    *)
LEMMA RefreshCovers ==
  ASSUME NEW lf \in FilePairs, NEW ds \in SUBSET Library, NEW d \in Library,
         d \in ds \/ (lf[d]["STRUCTURE"].there /\ lf[d]["STRUCTURE"].marked)
  PROVE  WithCreated(lf, ds)[d]["STRUCTURE"].there /\ WithCreated(lf, ds)[d]["STRUCTURE"].marked
<1>1. lf[d]["STRUCTURE"] \in Files
  BY DEF FilePairs, Names
<1> QED BY <1>1, CreatedWritten, CreatedFile DEF Names

(* No refresh leaves a file with content that is not there.                *)
LEMMA RefreshGone ==
  ASSUME NEW fs \in FilePairs, NEW lf \in FilePairs, NEW ds \in SUBSET Library, NEW versions \in Trees,
         GoneFiles(fs), GoneFiles(lf)
  PROVE  GoneFiles(WithSkeletons(fs, ds, versions)) /\ GoneFiles(WithCreated(lf, ds))
<1>0. \A d \in Library, n \in Names : Gone(fs[d][n]) /\ Gone(lf[d][n])
  BY DEF GoneFiles
<1>1. \A d \in Library : fs[d]["STRUCTURE"] \in Files /\ lf[d]["STRUCTURE"] \in Files /\ versions[d] \in Versions
  BY DEF FilePairs, Trees, Versions, Names
<1>2. ASSUME NEW d \in Library
      PROVE  /\ Gone(WithSkeletons(fs, ds, versions)[d]["AGENTS"])
             /\ Gone(WithCreated(lf, ds)[d]["AGENTS"])
  BY <1>0, SkeletonsWritten, CreatedWritten DEF Names
<1>3. ASSUME NEW d \in Library
      PROVE  /\ Gone(WithSkeletons(fs, ds, versions)[d]["STRUCTURE"])
             /\ Gone(WithCreated(lf, ds)[d]["STRUCTURE"])
  <2>1. CASE d \in ds
    <3>1. WithSkeletons(fs, ds, versions)[d]["STRUCTURE"] = Skeleton(fs[d]["STRUCTURE"], versions[d])
      BY <2>1, SkeletonsWritten
    <3>2. WithCreated(lf, ds)[d]["STRUCTURE"] = Created(lf[d]["STRUCTURE"])
      BY <2>1, CreatedWritten
    <3> QED BY <1>1, <3>1, <3>2, SkeletonFile, CreatedFile
  <2>2. CASE d \notin ds
    <3>1. WithSkeletons(fs, ds, versions)[d] = fs[d]
      BY <2>2 DEF WithSkeletons
    <3>2. WithCreated(lf, ds)[d] = lf[d]
      BY <2>2, CreatedWritten
    <3> QED BY <1>0, <3>1, <3>2 DEF Names
  <2> QED BY <2>1, <2>2
<1> QED BY <1>2, <1>3 DEF GoneFiles, Names

-----------------------------------------------------------------------------
(* Sessions                                                                *)

LEMMA NoPassType == NoPass \in Passes /\ NoPass.at = {} /\ \A d \in Library, n \in Names : NoPass.snap[d][n] = Absent
BY AbsentFile DEF NoPass, Passes, FilePairs, Hashes

LEMMA Counted ==
  ASSUME CageTypeOK, Happens
  PROVE  events' \in 0 .. MaxEvents
<1>1. events \in Nat /\ MaxEvents \in Nat
  BY CageAssumption DEF CageTypeOK
<1> QED BY <1>1 DEF Happens

(* The pass that begins on ds with a snapshot of the files fs.             *)
Begins(ds, fs, versions) ==
  [NoPass EXCEPT !.at = ds,
     !.snap = [d \in Library |-> IF d \in ds THEN fs[d] ELSE NoPass.snap[d]],
     !.tree = [d \in Library |-> IF d \in ds THEN versions[d].hash ELSE NoPass.tree[d]]]

LEMMA BeginsType ==
  ASSUME NEW ds \in SUBSET Library, NEW fs \in FilePairs, NEW versions \in Trees
  PROVE  Begins(ds, fs, versions) \in Passes /\ Begins(ds, fs, versions).at = ds
<1> DEFINE snap == [d \in Library |-> IF d \in ds THEN fs[d] ELSE NoPass.snap[d]]
           old == [d \in Library |-> IF d \in ds THEN versions[d].hash ELSE NoPass.tree[d]]
           new == [NoPass EXCEPT !.at = ds, !.snap = snap, !.tree = old]
<1>1. snap \in FilePairs /\ old \in Hashes
  BY NoPassType DEF FilePairs, Trees, Hashes, Passes
<1> HIDE DEF snap, old
<1>2. new \in Passes /\ new.at = ds /\ new.snap = snap
  BY <1>1 DEF Passes, NoPass
<1>3. new = Begins(ds, fs, versions)
  BY DEF Begins, snap, old
<1> QED BY <1>2, <1>3

LEMMA Begun ==
  ASSUME CageTypeOK, NEW r \in Runners, NEW ds \in SUBSET Library, NEW fs \in FilePairs,
         NEW versions \in Trees, Begin(r, ds, fs, versions)
  PROVE  /\ pass' \in [Runners -> Passes] /\ raced' = raced \cup {d \in ds : InPass(d)}
         /\ pass'[r].at = ds /\ \A q \in Runners \ {r} : pass'[q] = pass[q]
         /\ pass'[r] = Begins(ds, fs, versions)
<1>1. pass' = [pass EXCEPT ![r] = Begins(ds, fs, versions)] /\ raced' = raced \cup {d \in ds : InPass(d)}
  BY DEF Begin, Begins
<1>2. pass \in [Runners -> Passes]
  BY DEF CageTypeOK, Passes, FilePairs, Hashes
<1> QED BY <1>1, <1>2, BeginsType

LEMMA Ended ==
  ASSUME CageTypeOK, NEW r \in Runners, EndPass(r)
  PROVE  /\ pass' \in [Runners -> Passes] /\ pass'[r] = NoPass
         /\ \A q \in Runners \ {r} : pass'[q] = pass[q]
<1>1. pass \in [Runners -> Passes]
  BY DEF CageTypeOK, Passes, FilePairs, Hashes
<1> QED BY <1>1, NoPassType DEF EndPass

LEMMA RestoredFiles ==
  ASSUME CageTypeOK, NEW r \in Runners
  PROVE  /\ Restored(r) \in FilePairs
         /\ \A d \in Library \ pass[r].at : Restored(r)[d] = files[d]
         /\ \A d \in pass[r].at, n \in Names : Restored(r)[d][n] = Back(r, d, n)
<1>1. /\ files \in FilePairs /\ pass[r].snap \in FilePairs /\ pass[r].at \subseteq Library
  BY DEF CageTypeOK, FilePairs
<1>2. \A d \in Library, n \in Names : Back(r, d, n) \in Files
  BY <1>1, AbsentFile DEF Back, FilePairs
<1> QED BY <1>1, <1>2 DEF Restored, FilePairs

LEMMA AcceptedFiles ==
  ASSUME CageTypeOK, NEW r \in Runners
  PROVE  /\ Accepted(r) \in FilePairs
         /\ \A d \in Library \ pass[r].at : Accepted(r)[d] = left[d]
         /\ \A d \in pass[r].at, n \in Names : Accepted(r)[d][n] = Left(files[d][n])
<1>1. /\ files \in FilePairs /\ left \in FilePairs /\ pass[r].at \subseteq Library
  BY DEF CageTypeOK, FilePairs
<1>2. \A d \in Library, n \in Names : Left(files[d][n]) \in Files
  BY <1>1, LeftFile DEF FilePairs
<1> QED BY <1>1, <1>2 DEF Accepted, FilePairs

LEMMA EditedFile ==
  ASSUME NEW n \in Names, NEW file \in Files, NEW new \in Edited(n, file)
  PROVE  new \in Files /\ Gone(new)
<1>1. Wrong \in Nat
  BY CageAssumption DEF Wrong
<1> DEFINE present == [file EXCEPT !.there = TRUE]
<1>2. present \in Files /\ present.there
  BY DEF Files
<1>3. \/ new = [present EXCEPT !.marked = TRUE, !.text = @ + 1]
      \/ new = [present EXCEPT !.marked = TRUE, !.blurb = @ + 1]
      \/ new = [present EXCEPT !.marked = TRUE, !.rest = TRUE]
      \/ new = [present EXCEPT !.outside = "agent"]
      \/ new = [present EXCEPT !.sound = FALSE]
      \/ new = Absent
      \/ file.there /\ new = [file EXCEPT !.tree = Wrong]
  BY DEF Edited
<1> HIDE DEF present
<1>4. present.text + 1 \in Nat /\ present.blurb + 1 \in Nat
  BY <1>2 DEF Files
<1>5. CASE \/ new = [present EXCEPT !.marked = TRUE, !.text = @ + 1]
           \/ new = [present EXCEPT !.marked = TRUE, !.blurb = @ + 1]
  BY <1>2, <1>4, <1>5 DEF Files, Gone
<1>6. CASE \/ new = [present EXCEPT !.marked = TRUE, !.rest = TRUE]
           \/ new = [present EXCEPT !.outside = "agent"] \/ new = [present EXCEPT !.sound = FALSE]
  BY <1>2, <1>6 DEF Files, Gone
<1>7. CASE new = Absent
  BY <1>7, AbsentFile
<1>8. CASE file.there /\ new = [file EXCEPT !.tree = Wrong]
  BY <1>1, <1>8 DEF Files, Gone
<1> QED BY <1>3, <1>5, <1>6, <1>7, <1>8

-----------------------------------------------------------------------------
(* Types                                                                   *)

Seeds == [pc : {"idle", "summarize", "settle"}, dirs : SUBSET Library, force : BOOLEAN, budget : Nat,
          offline : BOOLEAN, used : Nat, tree : Trees, built : SUBSET Library, tried : SUBSET Library,
          passed : SUBSET Library, failed : BOOLEAN]
Types ==
  /\ tree \in Trees /\ files \in FilePairs /\ left \in FilePairs
  /\ cursor \subseteq Library /\ raced \subseteq Library /\ departed \subseteq Library /\ passed \subseteq Library
  /\ pass \in [Runners -> Passes] /\ seed \in Seeds /\ events \in 0 .. MaxEvents

LEMMA TypesAre == CageTypeOK <=> Types
BY DEF CageTypeOK, Types, Hashes, FilePairs, Passes, Seeds

LEMMA Typed ==
  ASSUME CageTypeOK
  PROVE  /\ files \in FilePairs /\ left \in FilePairs /\ tree \in Trees
         /\ seed \in Seeds /\ seed.tree \in Trees /\ seed.built \in SUBSET Library
         /\ \A r \in Runners : pass[r] \in Passes /\ pass[r].at \in SUBSET Library /\ pass[r].snap \in FilePairs
BY DEF CageTypeOK, Hashes, FilePairs, Passes, Seeds

LEMMA TheRunners == "gardener" \in Runners /\ "seed" \in Runners /\ \A r \in Runners : r = "gardener" \/ r = "seed"
BY DEF Runners

LEMMA NoSeedType == NoSeed \in Seeds /\ NoSeed.pc = "idle" /\ NoSeed.built = {} /\ NoSeed.passed = {}
BY DEF NoSeed, Seeds, Trees, Unseen

LEMMA KeepsTypes ==
  ASSUME CageTypeOK, [CageNext]_cageVars
  PROVE  CageTypeOK'
<1>0. Types /\ files \in FilePairs /\ left \in FilePairs /\ tree \in Trees /\ seed \in Seeds
  BY Typed, TypesAre
<1>1. SUFFICES Types'
  BY TypesAre DEF Types, CageTypeOK, Hashes, FilePairs, Passes, Seeds
<1>2. CASE UNCHANGED cageVars
  BY <1>0, <1>2 DEF Types, cageVars
<1>3. CASE GardenBegins
  <2>1. files' \in FilePairs /\ left' \in FilePairs
    BY <1>0, <1>3, ReachedDirs, SkeletonsWritten, CreatedWritten DEF GardenBegins
  <2>2. pass' \in [Runners -> Passes] /\ raced' \subseteq Library
    <3>1. CASE \E ds \in SUBSET Library \ {{}} : Begin("gardener", ds, files', tree)
      <4>1. PICK ds \in SUBSET Library : Begin("gardener", ds, files', tree)
        BY <3>1
      <4>2. pass' \in [Runners -> Passes] /\ raced' = raced \cup {d \in ds : InPass(d)}
        BY <1>0, <2>1, <4>1, Begun, TheRunners
      <4> QED BY <1>0, <4>2 DEF Types
    <3>2. CASE UNCHANGED <<pass, raced>>
      BY <1>0, <3>2 DEF Types
    <3> QED BY <1>3, <3>1, <3>2 DEF GardenBegins
  <2>3. events' \in 0 .. MaxEvents /\ UNCHANGED <<tree, cursor, seed, departed, passed>>
    BY <1>3, Counted DEF GardenBegins
  <2> QED BY <1>0, <2>1, <2>2, <2>3 DEF Types
<1>4. CASE GardenVerified
  <2>1. files' \in FilePairs
    BY <1>0, <1>4, ReachedDirs, SkeletonsWritten DEF GardenVerified
  <2>2. left' \in FilePairs
    BY <1>4, ReachedDirs, AcceptedFiles, CreatedWritten, TheRunners DEF GardenVerified
  <2>3. pass' \in [Runners -> Passes] /\ UNCHANGED <<tree, cursor, seed, passed, events>>
    BY <1>4, Ended, TheRunners DEF GardenVerified
  <2>4. raced' \subseteq raced /\ departed' \subseteq departed
    BY <1>4 DEF GardenVerified, Settled
  <2> QED BY <1>0, <2>1, <2>2, <2>3, <2>4 DEF Types
<1>5. CASE GardenUndone
  <2>1. files' \in FilePairs
    BY <1>5, RestoredFiles, TheRunners DEF GardenUndone
  <2>2. events' \in 0 .. MaxEvents
    BY <1>0, <1>5, Counted DEF GardenUndone, Types
  <2>3. pass' \in [Runners -> Passes] /\ UNCHANGED <<tree, cursor, seed, left, raced, departed, passed>>
    BY <1>5, Ended, TheRunners DEF GardenUndone, excused
  <2> QED BY <1>0, <2>1, <2>2, <2>3 DEF Types
<1>6. CASE SeedBegins
  <2> DEFINE built == {d \in Library : ~Unsound(d)}
  <2>1. files' \in FilePairs /\ left' \in FilePairs
    <3>1. built \in SUBSET Library /\ files' = WithSkeletons(files, built, tree) /\ left' = WithCreated(left, built)
      BY <1>6 DEF SeedBegins
    <3> HIDE DEF built
    <3> QED BY <1>0, <3>1, SkeletonsWritten, CreatedWritten
  <2>2. PICK req \in Requests : seed' =
          [NoSeed EXCEPT !.pc = "summarize", !.dirs = req.dirs, !.force = req.force,
             !.budget = req.budget, !.offline = req.offline, !.tree = tree, !.built = built,
             !.failed = built # Library]
    BY <1>6 DEF SeedBegins
  <2>3. req \in [dirs : SUBSET Library, force : BOOLEAN, budget : Nat, offline : BOOLEAN]
    <3>1. All = [dirs |-> {}, force |-> FALSE, budget |-> 0, offline |-> FALSE]
      BY DEF All
    <3>2. Missing \in SUBSET Library
      BY DEF Missing
    <3>3. \/ req = All \/ req = [All EXCEPT !.force = TRUE] \/ req = [All EXCEPT !.budget = 1]
          \/ req = [All EXCEPT !.offline = TRUE] \/ req = [All EXCEPT !.dirs = Missing]
      <4>1. req \in {All, [All EXCEPT !.force = TRUE], [All EXCEPT !.budget = 1], [All EXCEPT !.offline = TRUE]}
            \/ \E ds \in {Missing} : req = [All EXCEPT !.dirs = ds]
        BY <2>2 DEF Requests
      <4> QED BY <4>1
    <3>4. CASE req = All
      BY <3>1, <3>4
    <3>5. CASE req = [All EXCEPT !.force = TRUE]
      BY <3>1, <3>5
    <3>6. CASE req = [All EXCEPT !.budget = 1]
      BY <3>1, <3>6
    <3>7. CASE req = [All EXCEPT !.offline = TRUE]
      BY <3>1, <3>7
    <3>8. CASE req = [All EXCEPT !.dirs = Missing]
      BY <3>1, <3>2, <3>8
    <3> QED BY <3>3, <3>4, <3>5, <3>6, <3>7, <3>8
  <2>4. built \in SUBSET Library /\ (built # Library) \in BOOLEAN
    OBVIOUS
  <2>5. seed' \in Seeds
    <3> HIDE DEF built
    <3> QED BY <1>0, <2>2, <2>3, <2>4 DEF NoSeed, Seeds
  <2>6. events' \in 0 .. MaxEvents /\ UNCHANGED <<tree, cursor, pass, raced, departed, passed>>
    BY <1>6, Counted DEF SeedBegins, excused
  <2> QED BY <1>0, <2>1, <2>5, <2>6 DEF Types
<1>7. CASE SeedSession
  <2>1. PICK d \in Library : Begin("seed", {d}, files, seed.tree) /\ seed' = [seed EXCEPT !.tried = @ \cup {d}]
    BY <1>7 DEF SeedSession
  <2>2. pass' \in [Runners -> Passes] /\ raced' = raced \cup {e \in {d} : InPass(e)}
    <3>1. {d} \in SUBSET Library /\ seed.tree \in Trees
      BY Typed
    <3> QED BY <1>0, <2>1, <3>1, Begun, TheRunners
  <2>3. seed' \in Seeds
    BY <1>0, <2>1 DEF Seeds
  <2>4. UNCHANGED <<tree, files, cursor, left, departed, passed, events>>
    BY <1>7 DEF SeedSession
  <2> QED BY <1>0, <2>2, <2>3, <2>4 DEF Types
<1>8. CASE SeedVerified
  <2>1. pass["seed"].at \subseteq Library
    BY Typed, TheRunners
  <2>2. left' \in FilePairs /\ passed' \subseteq Library /\ cursor' \subseteq Library
    BY <1>0, <1>8, <2>1, AcceptedFiles, TheRunners DEF SeedVerified, Types
  <2>3. seed' \in Seeds
    <3>1. seed' = [seed EXCEPT !.used = @ + 1, !.passed = @ \cup pass["seed"].at] \/ seed' = NoSeed
      BY <1>8 DEF SeedVerified
    <3>2. seed.used + 1 \in Nat /\ seed.passed \cup pass["seed"].at \in SUBSET Library
      BY <1>0, <2>1 DEF Seeds
    <3>3. CASE seed' = [seed EXCEPT !.used = @ + 1, !.passed = @ \cup pass["seed"].at]
      BY <1>0, <3>2, <3>3 DEF Seeds
    <3> QED BY <3>1, <3>3, NoSeedType
  <2>4. events' \in 0 .. MaxEvents
    BY <1>0, <1>8, Counted DEF SeedVerified, Types
  <2>5. pass' \in [Runners -> Passes] /\ UNCHANGED <<tree, files>>
    BY <1>8, Ended, TheRunners DEF SeedVerified
  <2>6. raced' \subseteq raced /\ departed' \subseteq departed
    BY <1>8 DEF SeedVerified, Settled
  <2> QED BY <1>0, <2>2, <2>3, <2>4, <2>5, <2>6 DEF Types
<1>9. CASE SeedUndone
  <2>1. files' \in FilePairs
    BY <1>9, RestoredFiles, TheRunners DEF SeedUndone
  <2>2. events' \in 0 .. MaxEvents
    BY <1>0, <1>9, Counted DEF SeedUndone, Types
  <2>3. seed' \in Seeds
    BY <1>0, <1>9 DEF SeedUndone, Seeds
  <2>4. pass' \in [Runners -> Passes] /\ UNCHANGED <<tree, cursor, left, raced, departed, passed>>
    BY <1>9, Ended, TheRunners DEF SeedUndone, excused
  <2> QED BY <1>0, <2>1, <2>2, <2>3, <2>4 DEF Types
<1>10. CASE SeedSummarized
  <2>1. seed' \in Seeds
    BY <1>0, <1>10 DEF SeedSummarized, Seeds
  <2> QED BY <1>0, <1>10, <2>1 DEF SeedSummarized, Types, excused
<1>11. CASE SeedSettles
  <2> DEFINE built == {d \in seed.built : ~Unsound(d)}
  <2>1. files' \in FilePairs /\ left' \in FilePairs
    <3>1. built \in SUBSET Library /\ seed.tree \in Trees
      BY Typed
    <3>2. files' = WithSkeletons(files, built, seed.tree) /\ left' = WithCreated(left, built)
      BY <1>11 DEF SeedSettles
    <3> HIDE DEF built
    <3> QED BY <1>0, <3>1, <3>2, SkeletonsWritten, CreatedWritten
  <2> QED BY <1>0, <1>11, <2>1, NoSeedType DEF SeedSettles, Types, excused
<1>12. ASSUME NEW r \in Runners, Edit(r) PROVE Types'
  <2>1. PICK d \in pass[r].at, n \in Names :
          \E file \in Edited(n, files[d][n]) \ {files[d][n]} : files' = [files EXCEPT ![d][n] = file]
    BY <1>12 DEF Edit
  <2>2. PICK file \in Edited(n, files[d][n]) : files' = [files EXCEPT ![d][n] = file]
    BY <2>1
  <2>3. d \in Library
    BY Typed
  <2>4. file \in Files
    <3>1. files[d][n] \in Files
      BY <1>0, <2>3 DEF FilePairs
    <3> QED BY <3>1, EditedFile
  <2>5. files' \in FilePairs
    BY <1>0, <2>2, <2>3, <2>4 DEF FilePairs
  <2>6. events' \in 0 .. MaxEvents /\ UNCHANGED <<tree, cursor, pass, seed, left, raced, departed, passed>>
    BY <1>12, Counted DEF Edit, excused
  <2> QED BY <1>0, <2>5, <2>6 DEF Types
<1>13. CASE HumanEdit
  <2>1. PICK d \in Library, n \in Names :
          /\ \E file \in {[files[d][n] EXCEPT !.there = TRUE, !.outside = "people"],
                          [files[d][n] EXCEPT !.sound = ~(@ /\ files[d][n].marked)]} :
               files' = [files EXCEPT ![d][n] = file] /\ left' = [left EXCEPT ![d][n] = Left(file)]
          /\ raced' = IF InPass(d) THEN raced \cup {d} ELSE raced
    BY <1>13 DEF HumanEdit
  <2>2. PICK file \in {[files[d][n] EXCEPT !.there = TRUE, !.outside = "people"],
                       [files[d][n] EXCEPT !.sound = ~(@ /\ files[d][n].marked)]} :
          files' = [files EXCEPT ![d][n] = file] /\ left' = [left EXCEPT ![d][n] = Left(file)]
    BY <2>1
  <2>3. file \in Files
    <3>1. files[d][n] \in Files
      BY <1>0 DEF FilePairs
    <3> QED BY <3>1 DEF Files
  <2>4. files' \in FilePairs /\ left' \in FilePairs
    BY <1>0, <2>2, <2>3, LeftFile DEF FilePairs
  <2>5. raced' \subseteq Library
    BY <1>0, <2>1 DEF Types
  <2>6. events' \in 0 .. MaxEvents /\ UNCHANGED <<tree, cursor, pass, seed, departed, passed>>
    BY <1>13, Counted DEF HumanEdit
  <2> QED BY <1>0, <2>4, <2>5, <2>6 DEF Types
<1>14. CASE TreeChanges
  <2>1. PICK d \in Library, file \in BOOLEAN :
          /\ tree' = [e \in Library |-> [hash |-> tree[e].hash + IF e \in Upward(d) THEN 1 ELSE 0,
                                         file |-> IF e = d THEN file ELSE tree[e].file]]
          /\ departed' = IF file THEN departed ELSE departed \cup {d}
    BY <1>14 DEF TreeChanges
  <2>2. tree' \in Trees
    <3>1. ASSUME NEW e \in Library
          PROVE  /\ tree[e].hash + (IF e \in Upward(d) THEN 1 ELSE 0) \in Nat
                 /\ (IF e = d THEN file ELSE tree[e].file) \in BOOLEAN
      BY <1>0 DEF Trees
    <3> QED BY <2>1, <3>1 DEF Trees
  <2>3. departed' \subseteq Library
    BY <1>0, <2>1 DEF Types
  <2>4. events' \in 0 .. MaxEvents /\ UNCHANGED <<docs, cursor, pass, seed, raced, passed>>
    BY <1>14, Counted DEF TreeChanges
  <2> QED BY <1>0, <2>2, <2>3, <2>4 DEF Types, docs
<1>15. CASE Crash
  <2>1. pass' \in [Runners -> Passes] /\ seed' \in Seeds
    BY <1>15, NoPassType, NoSeedType DEF Crash
  <2>2. raced' \subseteq Library
    <3>1. \A r \in Runners : pass[r].at \subseteq Library
      BY Typed
    <3>2. raced' = raced \cup UNION {pass[r].at : r \in Runners}
      BY <1>15 DEF Crash
    <3> QED BY <1>0, <3>1, <3>2 DEF Types
  <2>3. events' \in 0 .. MaxEvents /\ UNCHANGED <<tree, docs, cursor, departed, passed>>
    BY <1>15, Counted DEF Crash
  <2> QED BY <1>0, <2>1, <2>2, <2>3 DEF Types, docs
<1> QED BY <1>2, <1>3, <1>4, <1>5, <1>6, <1>7, <1>8, <1>9, <1>10, <1>11, <1>12, <1>13, <1>14, <1>15 DEF CageNext

-----------------------------------------------------------------------------
(* Files that are not there                                                *)

LEMMA KeepsGone ==
  ASSUME CageTypeOK, GoneIsAbsent, [CageNext]_cageVars
  PROVE  GoneIsAbsent'
<1>0. /\ files \in FilePairs /\ left \in FilePairs /\ tree \in Trees /\ seed.tree \in Trees
      /\ GoneFiles(files) /\ GoneFiles(left) /\ \A r \in Runners : GoneFiles(pass[r].snap)
  BY Typed DEF GoneIsAbsent
<1>1. SUFFICES GoneFiles(files') /\ GoneFiles(left') /\ \A r \in Runners : GoneFiles(pass'[r].snap)
  BY DEF GoneIsAbsent, GoneFiles
<1>2. ASSUME NEW r \in Runners, EndPass(r)
      PROVE  \A q \in Runners : GoneFiles(pass'[q].snap)
  <2>1. GoneFiles(NoPass.snap)
    BY NoPassType, AbsentFile DEF GoneFiles
  <2>2. pass'[r] = NoPass /\ \A q \in Runners \ {r} : pass'[q] = pass[q]
    BY <1>2, Ended
  <2> QED BY <1>0, <2>1, <2>2
<1>3. ASSUME NEW r \in Runners, NEW ds \in SUBSET Library, NEW fs \in FilePairs, NEW versions \in Trees,
             Begin(r, ds, fs, versions), GoneFiles(fs)
      PROVE  \A q \in Runners : GoneFiles(pass'[q].snap)
  <2>1. \A q \in Runners \ {r} : pass'[q] = pass[q]
    BY <1>3, Begun
  <2>2. GoneFiles(pass'[r].snap)
    <3>1. pass'[r] = Begins(ds, fs, versions)
      BY <1>3, Begun
    <3>2. /\ \A d \in ds : Begins(ds, fs, versions).snap[d] = fs[d]
          /\ \A d \in Library \ ds, n \in Names : Begins(ds, fs, versions).snap[d][n] = Absent
      BY DEF Begins, NoPass
    <3> QED BY <1>3, <3>1, <3>2, AbsentFile DEF GoneFiles
  <2> QED BY <1>0, <2>1, <2>2
<1>4. ASSUME NEW r \in Runners
      PROVE  GoneFiles(Restored(r)) /\ GoneFiles(Accepted(r))
  <2>1. ASSUME NEW d \in Library, NEW n \in Names PROVE Gone(Restored(r)[d][n]) /\ Gone(Accepted(r)[d][n])
    <3>1. CASE d \in pass[r].at
      <4>1. Restored(r)[d][n] = Back(r, d, n) /\ Accepted(r)[d][n] = Left(files[d][n])
        BY <3>1, RestoredFiles, AcceptedFiles
      <4>2. files[d][n] \in Files /\ Gone(files[d][n]) /\ Gone(pass[r].snap[d][n])
        BY <1>0 DEF GoneFiles, FilePairs
      <4> QED BY <4>1, <4>2, AbsentFile, LeftFile DEF Back
    <3>2. CASE d \notin pass[r].at
      <4>1. Restored(r)[d] = files[d] /\ Accepted(r)[d] = left[d]
        BY <3>2, RestoredFiles, AcceptedFiles
      <4> QED BY <1>0, <4>1 DEF GoneFiles
    <3> QED BY <3>1, <3>2
  <2> QED BY <2>1 DEF GoneFiles
<1>5. CASE UNCHANGED cageVars
  BY <1>0, <1>5 DEF cageVars, docs
<1>6. CASE GardenBegins
  <2>1. files' = WithSkeletons(files, Reached, tree) /\ left' = WithCreated(left, Reached)
    BY <1>6 DEF GardenBegins
  <2>2. GoneFiles(files') /\ GoneFiles(left') /\ files' \in FilePairs
    BY <1>0, <2>1, ReachedDirs, RefreshGone, SkeletonsWritten
  <2>3. CASE \E ds \in SUBSET Library : Begin("gardener", ds, files', tree)
    BY <1>0, <1>3, <2>2, <2>3, TheRunners
  <2>4. CASE UNCHANGED pass
    BY <1>0, <2>2, <2>4
  <2> QED BY <1>6, <2>3, <2>4 DEF GardenBegins
<1>7. CASE GardenVerified
  <2>1. /\ files' = WithSkeletons(files, Reached, tree) /\ EndPass("gardener")
        /\ left' = WithCreated(Accepted("gardener"), Reached)
    BY <1>7 DEF GardenVerified
  <2>2. GoneFiles(Accepted("gardener")) /\ Accepted("gardener") \in FilePairs
    BY <1>4, AcceptedFiles, TheRunners
  <2>3. GoneFiles(files') /\ GoneFiles(left')
    BY <1>0, <2>1, <2>2, ReachedDirs, RefreshGone
  <2> QED BY <1>2, <2>1, <2>3, TheRunners
<1>8. CASE GardenUndone
  BY <1>0, <1>2, <1>4, <1>8, TheRunners DEF GardenUndone
<1>9. ASSUME NEW ds \in SUBSET Library, NEW versions \in Trees, UNCHANGED pass,
             files' = WithSkeletons(files, ds, versions), left' = WithCreated(left, ds)
      PROVE  GoneFiles(files') /\ GoneFiles(left') /\ \A r \in Runners : GoneFiles(pass'[r].snap)
  BY <1>0, <1>9, RefreshGone
<1>10. CASE SeedBegins
  BY <1>0, <1>9, <1>10 DEF SeedBegins
<1>11. CASE SeedSession
  <2>1. PICK d \in Library : Begin("seed", {d}, files, seed.tree)
    BY <1>11 DEF SeedSession
  <2>2. {d} \in SUBSET Library /\ UNCHANGED <<files, left>>
    BY <1>11 DEF SeedSession
  <2> QED BY <1>0, <1>3, <2>1, <2>2, TheRunners
<1>12. CASE SeedVerified
  BY <1>0, <1>2, <1>4, <1>12, TheRunners DEF SeedVerified
<1>13. CASE SeedUndone
  BY <1>0, <1>2, <1>4, <1>13, TheRunners DEF SeedUndone
<1>14. CASE SeedSummarized
  BY <1>0, <1>14 DEF SeedSummarized
<1>15. CASE SeedSettles
  <2>1. seed.built \in SUBSET Library
    BY Typed
  <2> QED BY <1>0, <1>9, <1>15, <2>1 DEF SeedSettles
<1>16. ASSUME NEW r \in Runners, Edit(r)
       PROVE  GoneFiles(files') /\ GoneFiles(left') /\ \A q \in Runners : GoneFiles(pass'[q].snap)
  <2>1. PICK d \in pass[r].at, n \in Names :
          \E file \in Edited(n, files[d][n]) \ {files[d][n]} : files' = [files EXCEPT ![d][n] = file]
    BY <1>16 DEF Edit
  <2>2. PICK file \in Edited(n, files[d][n]) : files' = [files EXCEPT ![d][n] = file]
    BY <2>1
  <2>3. files[d][n] \in Files
    <3>1. d \in Library
      BY Typed
    <3> QED BY <1>0, <3>1 DEF FilePairs
  <2>4. Gone(file)
    BY <2>3, EditedFile
  <2>5. GoneFiles(files')
    BY <1>0, <2>2, <2>4 DEF GoneFiles, FilePairs
  <2> QED BY <1>0, <1>16, <2>5 DEF Edit
<1>17. CASE HumanEdit
  <2>1. PICK d \in Library, n \in Names :
          \E file \in {[files[d][n] EXCEPT !.there = TRUE, !.outside = "people"],
                       [files[d][n] EXCEPT !.sound = ~(@ /\ files[d][n].marked)]} :
               files' = [files EXCEPT ![d][n] = file] /\ left' = [left EXCEPT ![d][n] = Left(file)]
    BY <1>17 DEF HumanEdit
  <2>2. PICK file \in {[files[d][n] EXCEPT !.there = TRUE, !.outside = "people"],
                       [files[d][n] EXCEPT !.sound = ~(@ /\ files[d][n].marked)]} :
          files' = [files EXCEPT ![d][n] = file] /\ left' = [left EXCEPT ![d][n] = Left(file)]
    BY <2>1
  <2>3. files[d][n] \in Files /\ Gone(files[d][n])
    BY <1>0 DEF FilePairs, GoneFiles
  <2>4. file \in Files /\ Gone(file)
    <3>1. CASE files[d][n].there \/ file.there
      BY <2>3, <3>1 DEF Files, Gone
    <3>2. CASE files[d][n] = Absent /\ ~file.there
      <4>1. file = [files[d][n] EXCEPT !.sound = ~(@ /\ files[d][n].marked)]
        BY <2>3, <3>2 DEF Files
      <4>2. /\ files[d][n].there = FALSE /\ files[d][n].sound = TRUE /\ files[d][n].marked = FALSE
            /\ files[d][n].outside = "none" /\ files[d][n].text = 0 /\ files[d][n].tree = 0
            /\ files[d][n].blurb = 0 /\ files[d][n].rest = FALSE
        BY <3>2 DEF Absent
      <4>3. /\ file.there = FALSE /\ file.marked = FALSE
            /\ file.outside = "none" /\ file.text = 0 /\ file.tree = 0 /\ file.blurb = 0 /\ file.rest = FALSE
        BY <2>3, <4>1, <4>2 DEF Files
      <4>4. file.sound = TRUE
        BY <2>3, <4>1, <4>2 DEF Files
      <4>5. file \in Files
        BY <2>3, <4>1 DEF Files
      <4>6. file = Absent
        BY <4>3, <4>4, <4>5 DEF Files, Absent
      <4> QED BY <4>6, AbsentFile
    <3> QED BY <2>3, <3>1, <3>2 DEF Gone
  <2>5. Gone(Left(file))
    BY <2>4, LeftFile
  <2>6. GoneFiles(files') /\ GoneFiles(left')
    BY <1>0, <2>2, <2>4, <2>5 DEF GoneFiles, FilePairs
  <2> QED BY <1>0, <1>17, <2>6 DEF HumanEdit
<1>18. CASE TreeChanges
  BY <1>0, <1>18 DEF TreeChanges, docs
<1>19. CASE Crash
  <2>1. GoneFiles(NoPass.snap)
    BY NoPassType, AbsentFile DEF GoneFiles
  <2> QED BY <1>0, <1>19, <2>1 DEF Crash, docs
<1> QED BY <1>5, <1>6, <1>7, <1>8, <1>10, <1>11, <1>12, <1>13, <1>14, <1>15, <1>16, <1>17, <1>18, <1>19 DEF CageNext

-----------------------------------------------------------------------------
(* Trees, and the snapshots of the gardener                                *)

(* What an accepted session settles are its own directories.               *)
LEMMA SettledDirs ==
  ASSUME CageTypeOK, NEW r \in Runners, Settled(r)
  PROVE  /\ \A d : d \in departed' => d \in departed
         /\ \A d : d \notin pass[r].at => (d \in raced <=> d \in raced') /\ (d \in departed <=> d \in departed')
         /\ \A q \in Runners \ {r} : \A d \in pass[q].at : d \in raced => d \in raced'
         /\ Known(tree, departed) => Known(tree, departed')
         /\ seed.pc # "idle" /\ Known(seed.tree, departed) => Known(seed.tree, departed')
BY DEF Settled, Known

LEMMA KeepsTrees ==
  ASSUME CageTypeOK, TreesKnown, [CageNext]_cageVars
  PROVE  TreesKnown'
<1>0. seed \in Seeds /\ tree \in Trees /\ "gardener" \in Runners /\ "seed" \in Runners
  BY Typed, TheRunners
<1>1. CASE UNCHANGED <<tree, departed>> /\ (UNCHANGED <<seed.pc, seed.tree>> \/ seed' = NoSeed)
  BY <1>1, NoSeedType DEF TreesKnown, Known
<1>2. CASE GardenBegins \/ GardenUndone \/ (\E r \in Runners : Edit(r)) \/ HumanEdit \/ UNCHANGED cageVars
  <2>1. UNCHANGED <<tree, departed, seed>>
    BY <1>2 DEF GardenBegins, GardenUndone, Edit, HumanEdit, cageVars, excused
  <2> QED BY <1>1, <2>1
<1>3. CASE SeedSession \/ SeedUndone \/ SeedSummarized
  <2>1. UNCHANGED <<tree, departed>>
    BY <1>3 DEF SeedSession, SeedUndone, SeedSummarized, excused
  <2>2. \/ \E d \in Library : seed' = [seed EXCEPT !.tried = @ \cup {d}]
        \/ seed' = [seed EXCEPT !.failed = TRUE]
        \/ seed.pc = "summarize" /\ seed' = [seed EXCEPT !.pc = "settle"]
    BY <1>3 DEF SeedSession, SeedUndone, SeedSummarized
  <2>3. seed'.tree = seed.tree /\ (seed'.pc = seed.pc \/ seed.pc = "summarize")
    BY <1>0, <2>2 DEF Seeds
  <2> QED BY <2>1, <2>3 DEF TreesKnown, Known
<1>4. CASE SeedSettles \/ Crash
  <2>1. UNCHANGED <<tree, departed>> /\ seed' = NoSeed
    BY <1>4 DEF SeedSettles, Crash, excused
  <2> QED BY <1>1, <2>1
<1>5. CASE SeedBegins
  <2>1. UNCHANGED <<tree, departed>> /\ seed'.tree = tree
    BY <1>5, NoSeedType DEF SeedBegins, Seeds, excused
  <2> QED BY <2>1 DEF TreesKnown, Known
<1>6. CASE GardenVerified
  <2>1. UNCHANGED <<tree, seed>> /\ Settled("gardener")
    BY <1>6 DEF GardenVerified
  <2> QED BY <1>0, <2>1, SettledDirs DEF TreesKnown, Known
<1>7. CASE SeedVerified
  <2>1. /\ UNCHANGED tree /\ Settled("seed")
        /\ seed' = [seed EXCEPT !.used = @ + 1, !.passed = @ \cup pass["seed"].at] \/ seed' = NoSeed
    BY <1>7 DEF SeedVerified
  <2>2. seed'.pc # "idle" => seed'.pc = seed.pc /\ seed'.tree = seed.tree
    BY <1>0, <2>1, NoSeedType DEF Seeds
  <2> QED BY <1>0, <2>1, <2>2, SettledDirs DEF TreesKnown, Known
<1>8. CASE TreeChanges
  <2>1. PICK d \in Library, file \in BOOLEAN :
          /\ tree' = [e \in Library |-> [hash |-> tree[e].hash + IF e \in Upward(d) THEN 1 ELSE 0,
                                         file |-> IF e = d THEN file ELSE tree[e].file]]
          /\ departed' = IF file THEN departed ELSE departed \cup {d}
    BY <1>8 DEF TreeChanges
  <2>2. UNCHANGED seed /\ \A e : e \in departed => e \in departed'
    BY <1>8, <2>1 DEF TreeChanges
  <2>3. \A e \in Library : ~tree'[e].file => e \in departed'
    BY <2>1 DEF TreesKnown, Known
  <2> QED BY <2>2, <2>3 DEF TreesKnown, Known
<1> QED BY <1>2, <1>3, <1>4, <1>5, <1>6, <1>7, <1>8 DEF CageNext

LEMMA KeepsHave ==
  ASSUME CageTypeOK, SnapshotsHave, [CageNext]_cageVars
  PROVE  SnapshotsHave'
<1>0. /\ files \in FilePairs /\ tree \in Trees /\ seed.tree \in Trees
      /\ "gardener" \in Runners \ {"seed"} /\ "seed" \in Runners
  BY Typed, TheRunners
<1>1. CASE pass'["gardener"] = pass["gardener"]
  BY <1>1 DEF SnapshotsHave
<1>2. CASE pass'["gardener"].at = {}
  BY <1>2 DEF SnapshotsHave
<1>3. CASE GardenBegins
  <2>1. CASE UNCHANGED <<pass, raced>>
    BY <1>1, <2>1
  <2>2. CASE Reached = Library /\ \E ds \in SUBSET Library \ {{}} : Begin("gardener", ds, files', tree)
    <3>1. PICK ds \in SUBSET Library : Begin("gardener", ds, files', tree)
      BY <2>2
    <3>2. PICK fs : fs = files'
      OBVIOUS
    <3>3. fs = WithSkeletons(files, Library, tree)
      BY <1>3, <2>2, <3>2 DEF GardenBegins
    <3>4. fs \in FilePairs /\ \A d \in Library : fs[d]["STRUCTURE"] = Skeleton(files[d]["STRUCTURE"], tree[d])
      <4>1. Library \in SUBSET Library
        OBVIOUS
      <4> QED BY <1>0, <3>3, <4>1, SkeletonsWritten
    <3>5. pass'["gardener"] = Begins(ds, fs, tree) /\ pass'["gardener"].at = ds
      BY <1>0, <3>1, <3>2, <3>4, Begun
    <3>6. \A d \in ds : Begins(ds, fs, tree).snap[d] = fs[d]
      BY DEF Begins, NoPass
    <3>7. \A d \in Library : Skeleton(files[d]["STRUCTURE"], tree[d]).there
      <4>1. ASSUME NEW d \in Library PROVE Skeleton(files[d]["STRUCTURE"], tree[d]).there
        <5>1. files[d]["STRUCTURE"] \in Files
          BY <1>0 DEF FilePairs, Names
        <5> QED BY <5>1 DEF Skeleton, Files
      <4> QED BY <4>1
    <3> QED BY <3>4, <3>5, <3>6, <3>7 DEF SnapshotsHave
  <2> QED BY <1>3, <2>1, <2>2 DEF GardenBegins
<1>4. CASE GardenVerified \/ GardenUndone
  <2>1. EndPass("gardener")
    BY <1>4 DEF GardenVerified, GardenUndone
  <2> QED BY <1>0, <1>2, <2>1, Ended, NoPassType
<1>5. CASE SeedSession
  <2>1. PICK d \in Library : Begin("seed", {d}, files, seed.tree)
    BY <1>5 DEF SeedSession
  <2>2. {d} \in SUBSET Library
    OBVIOUS
  <2> QED BY <1>0, <1>1, <2>1, <2>2, Begun
<1>6. CASE SeedVerified \/ SeedUndone
  <2>1. EndPass("seed")
    BY <1>6 DEF SeedVerified, SeedUndone
  <2> QED BY <1>0, <1>1, <2>1, Ended
<1>7. CASE Crash
  <2>1. pass'["gardener"] = NoPass
    BY <1>0, <1>7 DEF Crash
  <2> QED BY <1>2, <2>1, NoPassType
<1>8. CASE \/ SeedBegins \/ SeedSummarized \/ SeedSettles
           \/ (\E r \in Runners : Edit(r)) \/ HumanEdit \/ TreeChanges \/ UNCHANGED cageVars
  <2>1. UNCHANGED pass
    BY <1>8 DEF SeedBegins, SeedSummarized, SeedSettles, Edit, HumanEdit, TreeChanges, cageVars
  <2> QED BY <1>1, <2>1
<1> QED BY <1>3, <1>4, <1>5, <1>6, <1>7, <1>8 DEF CageNext

-----------------------------------------------------------------------------
(* What snapshots and files are accounted for                              *)

Kept(d) == \A n \in Names : Agrees(departed, d, files[d][n], left[d][n])
Snapped(r, d) == \A n \in Names : Agrees(departed, d, pass[r].snap[d][n], left[d][n])
(* The same of a snapshot from before a step and what is left after it.    *)
SnappedStill(r, d) == \A n \in Names : Agrees(departed', d, pass[r].snap[d][n], left'[d][n])

AccountInv == SnapshotsHold /\ SeedKeepsTo /\ KeptAsAccepted

LEMMA TheAccounts ==
  ASSUME CageTypeOK, AccountInv
  PROVE  /\ \A r \in Runners : \A d \in pass[r].at \ raced :
              Snapped(r, d) /\ Covered(d) /\ \A q \in Runners : d \in pass[q].at => q = r
         /\ \A d \in Library \ raced : (\A r \in Runners : d \notin pass[r].at) => Kept(d)
BY DEF AccountInv, SnapshotsHold, KeptAsAccepted, Kept, Snapped, InPass

LEMMA FilesTyped ==
  ASSUME CageTypeOK, NEW d \in Library, NEW n \in Names
  PROVE  files[d][n] \in Files /\ left[d][n] \in Files /\ \A r \in Runners : pass[r].snap[d][n] \in Files
BY Typed DEF FilePairs

(* A refresh disturbs no account.                                          *)
LEMMA RefreshKeeps ==
  ASSUME CageTypeOK, AccountInv, NEW ds \in SUBSET Library, NEW versions \in Trees, Known(versions, departed),
         files' = WithSkeletons(files, ds, versions), left' = WithCreated(left, ds), UNCHANGED departed
  PROVE  /\ \A r \in Runners : \A d \in pass[r].at \ raced : Covered(d)' /\ SnappedStill(r, d)
         /\ \A d \in Library \ raced : (\A r \in Runners : d \notin pass[r].at) => Kept(d)'
         /\ \A d \in Library : d \in ds \/ Covered(d) => Covered(d)'
<1>0. files \in FilePairs /\ left \in FilePairs /\ \A r \in Runners : pass[r].at \subseteq Library
  BY Typed
<1>1. ASSUME NEW d \in Library, d \in ds \/ Covered(d) PROVE Covered(d)'
  BY <1>0, <1>1, RefreshCovers DEF Covered
<1>2. ASSUME NEW d \in Library, Covered(d) PROVE \A n \in Names : left'[d][n] = left[d][n]
  BY <1>0, <1>2, RefreshOfCovered DEF Covered
<1>3. ASSUME NEW d \in Library, Kept(d) PROVE Kept(d)'
  <2>1. \A n \in Names : Agrees(departed, d, WithSkeletons(files, ds, versions)[d][n], WithCreated(left, ds)[d][n])
    BY <1>0, <1>3, RefreshAgrees DEF Kept
  <2> QED BY <2>1 DEF Kept
<1>4. ASSUME NEW r \in Runners, NEW d \in pass[r].at \ raced
      PROVE  Covered(d)' /\ SnappedStill(r, d)
  <2>1. d \in Library /\ Snapped(r, d) /\ Covered(d)
    BY <1>0, TheAccounts
  <2> QED BY <1>1, <1>2, <2>1 DEF Snapped, SnappedStill
<1> QED BY <1>1, <1>3, <1>4, TheAccounts

(* A session begins, on files that are accounted for.                      *)
LEMMA BeginKeeps ==
  ASSUME CageTypeOK, AccountInv, NEW r \in Runners, NEW ds \in SUBSET Library, NEW versions \in Trees,
         files' \in FilePairs, Begin(r, ds, files', versions), pass[r].at = {},
         \A q \in Runners : \A d \in pass[q].at \ raced : Covered(d)' /\ SnappedStill(q, d),
         \A d \in Library \ raced : (\A q \in Runners : d \notin pass[q].at) => Kept(d)',
         \A d \in ds \ raced : Covered(d)'
  PROVE  SnapshotsHold' /\ KeptAsAccepted'
<1>1. /\ raced' = raced \cup {d \in ds : InPass(d)} /\ pass'[r].at = ds
      /\ \A q \in Runners \ {r} : pass'[q] = pass[q]
  BY Begun
<1>2. \A d \in ds : pass'[r].snap[d] = files'[d]
  <2>1. PICK fs \in FilePairs : fs = files'
    OBVIOUS
  <2>2. Begin(r, ds, fs, versions)
    BY <2>1
  <2>3. pass'[r] = Begins(ds, fs, versions)
    BY <2>2, Begun
  <2>4. \A d \in ds : Begins(ds, fs, versions).snap[d] = fs[d]
    BY DEF Begins, NoPass
  <2> QED BY <2>1, <2>3, <2>4
<1>3. \A d \in ds \ raced' : d \notin raced /\ \A q \in Runners : d \notin pass[q].at
  BY <1>1 DEF InPass
<1>4. ASSUME NEW q \in Runners, NEW d \in pass'[q].at \ raced'
      PROVE  /\ \A p \in Runners : d \in pass'[p].at => p = q
             /\ Snapped(q, d)' /\ Covered(d)'
  <2>1. CASE q = r
    <3>1. d \in ds /\ d \notin raced /\ \A p \in Runners : d \notin pass[p].at
      BY <1>1, <1>3, <2>1
    <3>2. Kept(d)' /\ pass'[q].snap[d] = files'[d]
      BY <1>2, <2>1, <3>1
    <3> QED BY <1>1, <2>1, <3>1, <3>2 DEF Kept, Snapped
  <2>2. CASE q # r
    <3>1. pass'[q] = pass[q] /\ d \in pass[q].at /\ d \notin raced /\ d \notin ds
      BY <1>1, <1>3, <2>2
    <3>2. \A p \in Runners : d \in pass[p].at => p = q
      BY <3>1, TheAccounts
    <3> QED BY <1>1, <3>1, <3>2 DEF Snapped, SnappedStill
  <2> QED BY <2>1, <2>2
<1>5. ASSUME NEW d \in Library \ raced', \A q \in Runners : d \notin pass'[q].at
      PROVE  Kept(d)'
  <2>1. d \notin raced /\ \A q \in Runners : d \notin pass[q].at
    BY <1>1, <1>5
  <2> QED BY <2>1
<1>6. SnapshotsHold'
  BY <1>4 DEF SnapshotsHold, Snapped
<1>7. KeptAsAccepted'
  BY <1>5 DEF KeptAsAccepted, InPass, Kept
<1> QED BY <1>6, <1>7

(* A session ends, and its files are accounted for.                        *)
LEMMA EndKeeps ==
  ASSUME CageTypeOK, AccountInv, NEW r \in Runners, EndPass(r),
         \A q \in Runners \ {r} : \A d \in pass[q].at \ raced' : d \notin raced /\ Covered(d)' /\ SnappedStill(q, d),
         \A d \in Library \ raced' : (\A q \in Runners \ {r} : d \notin pass[q].at) => Kept(d)'
  PROVE  SnapshotsHold' /\ KeptAsAccepted'
<1>1. pass'[r].at = {} /\ \A q \in Runners \ {r} : pass'[q] = pass[q]
  BY Ended, NoPassType
<1>2. ASSUME NEW q \in Runners, NEW d \in pass'[q].at \ raced'
      PROVE  /\ \A p \in Runners : d \in pass'[p].at => p = q
             /\ Snapped(q, d)' /\ Covered(d)'
  <2>1. q # r /\ pass'[q] = pass[q] /\ d \in pass[q].at \ raced'
    BY <1>1
  <2>2. d \notin raced /\ Covered(d)' /\ SnappedStill(q, d)
    BY <2>1
  <2>3. \A p \in Runners : d \in pass[p].at => p = q
    BY <2>1, <2>2, TheAccounts
  <2>4. \A p \in Runners : d \in pass'[p].at => p = q
    BY <1>1, <2>3
  <2> QED BY <2>1, <2>2, <2>4 DEF Snapped, SnappedStill
<1>3. SnapshotsHold'
  BY <1>2 DEF SnapshotsHold, Snapped
<1>4. KeptAsAccepted'
  BY <1>1 DEF KeptAsAccepted, InPass, Kept
<1> QED BY <1>3, <1>4

(* What a session has been accepted with is covered: no check lets a       *)
(* STRUCTURE.md go, and each session begins with one.                      *)
LEMMA AcceptedCovered ==
  ASSUME CageTypeOK, SnapshotsHave, NEW r \in Runners, Verifies(r), NEW d \in pass[r].at
  PROVE  Accepted(r)[d]["STRUCTURE"].there /\ Accepted(r)[d]["STRUCTURE"].marked
<1> DEFINE before == pass[r].snap[d]["STRUCTURE"]
           after == files[d]["STRUCTURE"]
<1>1. "STRUCTURE" \in Names /\ d \in Library
  BY Typed DEF Names
<1>2. after \in Files
  BY <1>1, FilesTyped
<1>3. before.there \/ r = "seed"
  BY TheRunners DEF SnapshotsHave
<1>4. FileVerifies(r, "STRUCTURE", before, after, pass[r].tree[d])
  BY <1>1 DEF Verifies, DirVerifies
<1>5. after.there /\ after.marked
  BY <1>3, <1>4 DEF FileVerifies
<1>6. Accepted(r)[d]["STRUCTURE"] = Left(after)
  BY <1>1, AcceptedFiles
<1> QED BY <1>2, <1>5, <1>6, LeftFile

(* What is put back is what is accounted for.                              *)
LEMMA RestoredAgrees ==
  ASSUME CageTypeOK, GoneIsAbsent, AccountInv, NEW r \in Runners, NEW d \in pass[r].at \ raced
  PROVE  \A n \in Names : Agrees(departed, d, Restored(r)[d][n], left[d][n])
<1> SUFFICES ASSUME NEW n \in Names PROVE Agrees(departed, d, Restored(r)[d][n], left[d][n])
  OBVIOUS
<1> DEFINE before == pass[r].snap[d][n]
<1>0. d \in Library
  BY Typed
<1>1. before \in Files /\ left[d][n] \in Files /\ Gone(before)
  BY <1>0, FilesTyped DEF GoneIsAbsent, GoneFiles
<1>2. Agrees(departed, d, before, left[d][n]) /\ Covered(d)
  BY TheAccounts DEF Snapped
<1>3. Restored(r)[d][n] = Back(r, d, n)
  BY RestoredFiles
<1>4. CASE before.there
  BY <1>2, <1>3, <1>4 DEF Back
<1>5. CASE ~before.there
  <2>1. n # "STRUCTURE"
    <3>1. before.there = left[d][n].there
      BY <1>1, <1>2, AgreesFields
    <3> QED BY <1>2, <1>5, <3>1 DEF Covered
  <2>2. Back(r, d, n) = Absent
    BY <1>5, <2>1 DEF Back
  <2>3. before = Absent
    BY <1>1, <1>5 DEF Gone
  <2> QED BY <1>2, <1>3, <2>2, <2>3
<1> QED BY <1>4, <1>5

(* The accounts of accepted files, before the skeletons are settled.       *)
LEMMA AcceptedAgrees ==
  ASSUME CageTypeOK, AccountInv, NEW r \in Runners, Settled(r), NEW d \in Library \ raced',
         \A q \in Runners \ {r} : d \notin pass[q].at
  PROVE  \A n \in Names : Agrees(departed', d, files[d][n], Accepted(r)[d][n])
<1> SUFFICES ASSUME NEW n \in Names PROVE Agrees(departed', d, files[d][n], Accepted(r)[d][n])
  OBVIOUS
<1>1. files[d][n] \in Files /\ left[d][n] \in Files
  BY FilesTyped
<1>2. CASE d \in pass[r].at
  <2>1. Accepted(r)[d][n] = Left(files[d][n])
    BY <1>2, AcceptedFiles
  <2> QED BY <1>1, <2>1, AgreesLeft
<1>3. CASE d \notin pass[r].at
  <2>1. d \notin raced /\ \A q \in Runners : d \notin pass[q].at
    BY <1>3, SettledDirs
  <2>2. Agrees(departed, d, files[d][n], left[d][n])
    BY <2>1, TheAccounts DEF Kept
  <2>3. Accepted(r)[d] = left[d] /\ (d \in departed <=> d \in departed')
    BY <1>3, AcceptedFiles, SettledDirs
  <2> QED BY <1>1, <2>2, <2>3, AgreesMore
<1> QED BY <1>2, <1>3

(* ... and of the other's snapshots.                                       *)
LEMMA OthersSnapped ==
  ASSUME CageTypeOK, AccountInv, NEW r \in Runners, Settled(r),
         NEW q \in Runners \ {r}, NEW d \in pass[q].at \ raced'
  PROVE  /\ d \in Library /\ d \notin raced /\ d \notin pass[r].at /\ Covered(d)
         /\ \A n \in Names : Agrees(departed', d, pass[q].snap[d][n], left[d][n])
<1>1. d \in Library /\ d \notin raced
  BY Typed, SettledDirs
<1>2. Snapped(q, d) /\ Covered(d) /\ d \notin pass[r].at
  BY <1>1, TheAccounts
<1>3. d \in departed <=> d \in departed'
  BY <1>2, SettledDirs
<1>4. ASSUME NEW n \in Names PROVE Agrees(departed', d, pass[q].snap[d][n], left[d][n])
  <2>1. pass[q].snap[d][n] \in Files /\ left[d][n] \in Files
    BY <1>1, FilesTyped
  <2>2. Agrees(departed, d, pass[q].snap[d][n], left[d][n])
    BY <1>2 DEF Snapped
  <2> QED BY <1>3, <2>1, <2>2, AgreesMore
<1> QED BY <1>1, <1>2, <1>4

LEMMA SeedTyped ==
  ASSUME CageTypeOK
  PROVE  seed.built \in SUBSET Library /\ seed.tree \in Trees /\ pass["seed"].at \in SUBSET Library
BY Typed, TheRunners

(* A session's edits are undone: nothing of them is left.                  *)
LEMMA UndoneKeeps ==
  ASSUME CageTypeOK, GoneIsAbsent, AccountInv, NEW r \in Runners, EndPass(r),
         files' = Restored(r), UNCHANGED <<left, raced, departed>>
  PROVE  SnapshotsHold' /\ KeptAsAccepted'
<1>1. ASSUME NEW q \in Runners \ {r}, NEW d \in pass[q].at \ raced'
      PROVE  d \notin raced /\ Covered(d)' /\ SnappedStill(q, d)
  BY TheAccounts DEF Covered, Snapped, SnappedStill
<1>2. ASSUME NEW d \in Library \ raced', \A q \in Runners \ {r} : d \notin pass[q].at
      PROVE  Kept(d)'
  <2>1. CASE d \in pass[r].at
    BY <2>1, RestoredAgrees DEF Kept
  <2>2. CASE d \notin pass[r].at
    <3>1. \A q \in Runners : d \notin pass[q].at
      BY <1>2, <2>2
    <3>2. Kept(d) /\ Restored(r)[d] = files[d]
      BY <2>2, <3>1, TheAccounts, RestoredFiles
    <3> QED BY <3>2 DEF Kept
  <2> QED BY <2>1, <2>2
<1> QED BY <1>1, <1>2, EndKeeps

LEMMA GardenKeeps ==
  ASSUME CageTypeOK, GoneIsAbsent, SnapshotsHave, TreesKnown, AccountInv,
         GardenBegins \/ GardenVerified \/ GardenUndone
  PROVE  AccountInv'
<1>0. /\ files \in FilePairs /\ left \in FilePairs /\ tree \in Trees /\ Reached \in SUBSET Library
      /\ "gardener" \in Runners /\ "seed" \in Runners
  BY Typed, ReachedDirs, TheRunners
<1>1. CASE GardenBegins
  <2>1. files' = WithSkeletons(files, Reached, tree) /\ left' = WithCreated(left, Reached) /\ UNCHANGED departed
    BY <1>1 DEF GardenBegins
  <2>2. files' \in FilePairs
    BY <1>0, <2>1, SkeletonsWritten
  <2>3. /\ \A r \in Runners : \A d \in pass[r].at \ raced : Covered(d)' /\ SnappedStill(r, d)
        /\ \A d \in Library \ raced : (\A r \in Runners : d \notin pass[r].at) => Kept(d)'
        /\ \A d \in Library : d \in Reached \/ Covered(d) => Covered(d)'
    BY <1>0, <2>1, RefreshKeeps DEF TreesKnown
  <2>4. CASE Reached = Library /\ \E ds \in SUBSET Library : Begin("gardener", ds, files', tree)
    <3>1. PICK ds \in SUBSET Library : Begin("gardener", ds, files', tree)
      BY <2>4
    <3>2. pass["gardener"].at = {}
      BY <1>1 DEF GardenBegins
    <3>3. \A d \in ds \ raced : Covered(d)'
      BY <2>3, <2>4
    <3>4. SnapshotsHold' /\ KeptAsAccepted'
      BY <1>0, <2>2, <2>3, <3>1, <3>2, <3>3, BeginKeeps
    <3>5. pass'["seed"] = pass["seed"] /\ raced \subseteq raced'
      <4>1. PICK fs \in FilePairs : fs = files'
        BY <2>2
      <4>2. Begin("gardener", ds, fs, tree)
        BY <3>1, <4>1
      <4> QED BY <1>0, <4>2, Begun
    <3>6. UNCHANGED seed
      BY <1>1 DEF GardenBegins
    <3>7. SeedKeepsTo'
      BY <2>3, <3>5, <3>6, SeedTyped DEF AccountInv, SeedKeepsTo
    <3> QED BY <3>4, <3>7 DEF AccountInv
  <2>5. CASE UNCHANGED <<pass, raced>>
    <3>1. UNCHANGED seed
      BY <1>1 DEF GardenBegins
    <3>2. SnapshotsHold'
      BY <2>3, <2>5 DEF AccountInv, SnapshotsHold, SnappedStill
    <3>3. KeptAsAccepted'
      BY <2>3, <2>5 DEF KeptAsAccepted, InPass, Kept
    <3>4. SeedKeepsTo'
      BY <2>3, <2>5, <3>1, SeedTyped DEF AccountInv, SeedKeepsTo
    <3> QED BY <3>2, <3>3, <3>4 DEF AccountInv
  <2> QED BY <1>1, <2>4, <2>5 DEF GardenBegins
<1>2. CASE GardenVerified
  <2> DEFINE lf == Accepted("gardener")
  <2>1. /\ files' = WithSkeletons(files, Reached, tree) /\ left' = WithCreated(lf, Reached)
        /\ EndPass("gardener") /\ Verifies("gardener") /\ Settled("gardener") /\ UNCHANGED seed
    BY <1>2 DEF GardenVerified
  <2>2. /\ lf \in FilePairs
        /\ \A d \in Library \ pass["gardener"].at : lf[d] = left[d]
    BY <1>0, AcceptedFiles
  <2>3. \A d \in pass["gardener"].at : lf[d]["STRUCTURE"].there /\ lf[d]["STRUCTURE"].marked
    BY <1>0, <2>1, AcceptedCovered
  <2>4. \A d \in Library \ raced' : (\A q \in Runners \ {"gardener"} : d \notin pass[q].at)
          => \A n \in Names : Agrees(departed', d, files[d][n], lf[d][n])
    BY <1>0, <2>1, AcceptedAgrees
  <2> HIDE DEF lf
  <2>5. ASSUME NEW d \in Library, d \in pass["gardener"].at \/ Covered(d) PROVE Covered(d)'
    BY <1>0, <2>1, <2>2, <2>3, <2>5, RefreshCovers DEF Covered
  <2>6. ASSUME NEW q \in Runners \ {"gardener"}, NEW d \in pass[q].at \ raced'
        PROVE  d \notin raced /\ Covered(d)' /\ SnappedStill(q, d)
    <3>1. /\ d \in Library /\ d \notin raced /\ d \notin pass["gardener"].at /\ Covered(d)
          /\ \A n \in Names : Agrees(departed', d, pass[q].snap[d][n], left[d][n])
      BY <1>0, <2>1, OthersSnapped
    <3>2. lf[d] = left[d]
      BY <2>2, <3>1
    <3>3. \A n \in Names : left'[d][n] = lf[d][n]
      BY <1>0, <2>1, <2>2, <3>1, <3>2, RefreshOfCovered DEF Covered
    <3> QED BY <2>5, <3>1, <3>2, <3>3 DEF SnappedStill
  <2>7. ASSUME NEW d \in Library \ raced', \A q \in Runners \ {"gardener"} : d \notin pass[q].at
        PROVE  Kept(d)'
    <3>1. Known(tree, departed')
      BY <1>0, <2>1, SettledDirs DEF TreesKnown
    <3>2. \A n \in Names : Agrees(departed', d, files[d][n], lf[d][n])
      BY <2>4, <2>7
    <3>3. \A n \in Names :
            Agrees(departed', d, WithSkeletons(files, Reached, tree)[d][n], WithCreated(lf, Reached)[d][n])
      <4>1. PICK gone : gone = departed'
        OBVIOUS
      <4>2. Known(tree, gone) /\ \A n \in Names : Agrees(gone, d, files[d][n], lf[d][n])
        BY <3>1, <3>2, <4>1
      <4> QED BY <1>0, <2>2, <4>1, <4>2, RefreshAgrees
    <3> QED BY <2>1, <3>3 DEF Kept
  <2>8. SnapshotsHold' /\ KeptAsAccepted'
    BY <1>0, <2>1, <2>6, <2>7, EndKeeps
  <2>9. pass'["seed"] = pass["seed"]
    BY <1>0, <2>1, Ended
  <2>10. \A d \in seed.built \ raced' : Covered(d)'
    <3>1. ASSUME NEW d \in seed.built \ raced', d \notin pass["gardener"].at PROVE Covered(d)
      BY <1>0, <2>1, <3>1, SettledDirs DEF AccountInv, SeedKeepsTo
    <3> QED BY <2>5, <3>1, SeedTyped
  <2>11. SeedKeepsTo'
    BY <2>1, <2>9, <2>10 DEF AccountInv, SeedKeepsTo
  <2> QED BY <2>8, <2>11 DEF AccountInv
<1>3. CASE GardenUndone
  <2>1. /\ files' = Restored("gardener") /\ EndPass("gardener")
        /\ UNCHANGED <<left, raced, departed, seed>>
    BY <1>3 DEF GardenUndone, excused
  <2>2. SnapshotsHold' /\ KeptAsAccepted'
    BY <1>0, <2>1, UndoneKeeps
  <2>3. pass'["seed"] = pass["seed"]
    BY <1>0, <2>1, Ended
  <2>4. SeedKeepsTo'
    BY <2>1, <2>3 DEF AccountInv, SeedKeepsTo, Covered
  <2> QED BY <2>2, <2>4 DEF AccountInv
<1> QED BY <1>1, <1>2, <1>3

LEMMA SeedKeeps ==
  ASSUME CageTypeOK, GoneIsAbsent, SnapshotsHave, TreesKnown, AccountInv,
         SeedBegins \/ SeedSession \/ SeedVerified \/ SeedUndone \/ SeedSummarized \/ SeedSettles
  PROVE  AccountInv'
<1>0. /\ files \in FilePairs /\ left \in FilePairs /\ tree \in Trees
      /\ "gardener" \in Runners /\ "seed" \in Runners
  BY Typed, TheRunners
<1>1. ASSUME NEW ds \in SUBSET Library, NEW versions \in Trees, UNCHANGED <<pass, raced, departed>>,
             Known(versions, departed),
             files' = WithSkeletons(files, ds, versions), left' = WithCreated(left, ds)
      PROVE  SnapshotsHold' /\ KeptAsAccepted' /\ \A d \in ds : Covered(d)'
  <2>1. /\ \A r \in Runners : \A d \in pass[r].at \ raced : Covered(d)' /\ SnappedStill(r, d)
        /\ \A d \in Library \ raced : (\A r \in Runners : d \notin pass[r].at) => Kept(d)'
        /\ \A d \in Library : d \in ds \/ Covered(d) => Covered(d)'
    BY <1>1, RefreshKeeps
  <2>2. SnapshotsHold'
    BY <1>1, <2>1 DEF AccountInv, SnapshotsHold, SnappedStill
  <2>3. KeptAsAccepted'
    BY <1>1, <2>1 DEF KeptAsAccepted, InPass, Kept
  <2> QED BY <2>1, <2>2, <2>3
<1>2. CASE SeedBegins
  <2> DEFINE built == {d \in Library : ~Unsound(d)}
  <2>1. /\ files' = WithSkeletons(files, built, tree) /\ left' = WithCreated(left, built)
        /\ UNCHANGED <<pass, raced, departed>> /\ seed.pc = "idle"
        /\ seed'.built = built /\ seed'.pc = "summarize"
    BY <1>2 DEF SeedBegins, NoSeed, excused
  <2>2. built \in SUBSET Library
    OBVIOUS
  <2> HIDE DEF built
  <2>3. SnapshotsHold' /\ KeptAsAccepted' /\ \A d \in built : Covered(d)'
    BY <1>0, <1>1, <2>1, <2>2 DEF TreesKnown
  <2>4. pass["seed"].at = {}
    BY <2>1 DEF AccountInv, SeedKeepsTo
  <2> QED BY <2>1, <2>3, <2>4 DEF AccountInv, SeedKeepsTo
<1>3. CASE SeedSession
  <2>1. PICK d \in Library :
          /\ Begin("seed", {d}, files, seed.tree) /\ seed' = [seed EXCEPT !.tried = @ \cup {d}]
          /\ seed.pc = "summarize" /\ pass["seed"].at = {} /\ NextDir(d)
    BY <1>3 DEF SeedSession
  <2>2. d \in seed.built /\ {d} \in SUBSET Library /\ seed.tree \in Trees
    BY <2>1, SeedTyped DEF NextDir, Wanted
  <2>3. UNCHANGED <<files, left, departed>>
    BY <1>3 DEF SeedSession
  <2>4. /\ \A q \in Runners : \A e \in pass[q].at \ raced : Covered(e)' /\ SnappedStill(q, e)
        /\ \A e \in Library \ raced : (\A q \in Runners : e \notin pass[q].at) => Kept(e)'
    BY <2>3, TheAccounts DEF Covered, Snapped, SnappedStill, Kept
  <2>5. \A e \in {d} \ raced : Covered(e)'
    BY <2>2, <2>3 DEF AccountInv, SeedKeepsTo, Covered
  <2>6. files' \in FilePairs /\ Begin("seed", {d}, files', seed.tree)
    BY <1>0, <2>1, <2>3
  <2>7. SnapshotsHold' /\ KeptAsAccepted'
    BY <1>0, <2>1, <2>2, <2>4, <2>5, <2>6, BeginKeeps
  <2>8. pass'["seed"].at = {d} /\ raced \subseteq raced'
    <3>1. {d} \in SUBSET Library /\ "seed" \in Runners /\ files \in FilePairs
      BY <1>0
    <3>2. Begin("seed", {d}, files, seed.tree) /\ seed.tree \in Trees
      BY <2>1, <2>2
    <3>3. pass'["seed"].at = {d} /\ raced' = raced \cup {e \in {d} : InPass(e)}
      BY ONLY CageTypeOK, <3>1, <3>2, Begun
    <3> QED BY <3>3
  <2>9. seed'.pc = seed.pc /\ seed'.built = seed.built
    <3>1. seed \in Seeds
      BY Typed
    <3>2. seed' = [seed EXCEPT !.tried = @ \cup {d}]
      BY <2>1
    <3> QED BY ONLY <3>1, <3>2 DEF Seeds
  <2>10. SeedKeepsTo'
    BY <2>1, <2>2, <2>3, <2>8, <2>9 DEF AccountInv, SeedKeepsTo, Covered
  <2> QED BY <2>7, <2>10 DEF AccountInv
<1>4. CASE SeedVerified
  <2>1. /\ UNCHANGED files /\ left' = Accepted("seed")
        /\ EndPass("seed") /\ Verifies("seed") /\ Settled("seed")
        /\ seed' = [seed EXCEPT !.used = @ + 1, !.passed = @ \cup pass["seed"].at] \/ seed' = NoSeed
    BY <1>4 DEF SeedVerified
  <2>2. \A d \in Library \ pass["seed"].at : left'[d] = left[d]
    BY <1>0, <2>1, AcceptedFiles
  <2>3. ASSUME NEW d \in Library, d \in pass["seed"].at \/ Covered(d) PROVE Covered(d)'
    BY <1>0, <2>1, <2>2, <2>3, AcceptedCovered DEF Covered
  <2>4. ASSUME NEW q \in Runners \ {"seed"}, NEW d \in pass[q].at \ raced'
        PROVE  d \notin raced /\ Covered(d)' /\ SnappedStill(q, d)
    <3>1. /\ d \in Library /\ d \notin raced /\ d \notin pass["seed"].at /\ Covered(d)
          /\ \A n \in Names : Agrees(departed', d, pass[q].snap[d][n], left[d][n])
      BY <1>0, <2>1, OthersSnapped
    <3> QED BY <2>2, <2>3, <3>1 DEF SnappedStill
  <2>5. ASSUME NEW d \in Library \ raced', \A q \in Runners \ {"seed"} : d \notin pass[q].at
        PROVE  Kept(d)'
    BY <1>0, <2>1, <2>5, AcceptedAgrees DEF Kept
  <2>6. SnapshotsHold' /\ KeptAsAccepted'
    BY <1>0, <2>1, <2>4, <2>5, EndKeeps
  <2>7. pass'["seed"].at = {}
    BY <1>0, <2>1, Ended, NoPassType
  <2>8. seed'.built \subseteq seed.built
    BY <2>1, NoSeedType, Typed DEF Seeds
  <2>9. \A d \in seed.built \ raced' : Covered(d)'
    <3>1. ASSUME NEW d \in seed.built \ raced', d \notin pass["seed"].at PROVE Covered(d)
      BY <1>0, <2>1, <3>1, SettledDirs DEF AccountInv, SeedKeepsTo
    <3> QED BY <2>3, <3>1, SeedTyped
  <2>10. SeedKeepsTo'
    BY <2>7, <2>8, <2>9 DEF SeedKeepsTo
  <2> QED BY <2>6, <2>10 DEF AccountInv
<1>5. CASE SeedUndone
  <2>1. /\ files' = Restored("seed") /\ EndPass("seed") /\ UNCHANGED <<left, raced, departed>>
        /\ seed' = [seed EXCEPT !.failed = TRUE]
    BY <1>5 DEF SeedUndone, excused
  <2>2. SnapshotsHold' /\ KeptAsAccepted'
    BY <1>0, <2>1, UndoneKeeps
  <2>3. pass'["seed"].at = {} /\ seed'.built = seed.built
    BY <1>0, <2>1, Ended, NoPassType, Typed DEF Seeds
  <2>4. SeedKeepsTo'
    BY <2>1, <2>3 DEF AccountInv, SeedKeepsTo, Covered
  <2> QED BY <2>2, <2>4 DEF AccountInv
<1>6. CASE SeedSummarized
  <2>1. /\ UNCHANGED <<files, left, pass, raced, departed>> /\ pass["seed"].at = {}
        /\ seed'.built = seed.built
    BY <1>6, Typed DEF SeedSummarized, Seeds, excused
  <2> QED BY <2>1 DEF AccountInv, SnapshotsHold, SeedKeepsTo, KeptAsAccepted, InPass, Covered
<1>7. CASE SeedSettles
  <2> DEFINE built == {d \in seed.built : ~Unsound(d)}
  <2>1. /\ files' = WithSkeletons(files, built, seed.tree) /\ left' = WithCreated(left, built)
        /\ UNCHANGED <<pass, raced, departed>> /\ seed.pc = "settle" /\ seed' = NoSeed
    BY <1>7 DEF SeedSettles, excused
  <2>2. built \in SUBSET Library /\ seed.tree \in Trees
    BY SeedTyped
  <2> HIDE DEF built
  <2>3. SnapshotsHold' /\ KeptAsAccepted'
    BY <1>1, <2>1, <2>2 DEF TreesKnown
  <2>4. pass["seed"].at = {}
    BY <2>1 DEF AccountInv, SeedKeepsTo
  <2> QED BY <2>1, <2>3, <2>4, NoSeedType DEF AccountInv, SeedKeepsTo
<1> QED BY <1>2, <1>3, <1>4, <1>5, <1>6, <1>7

LEMMA OthersKeep ==
  ASSUME CageTypeOK, AccountInv, (\E r \in Runners : Edit(r)) \/ HumanEdit \/ TreeChanges \/ Crash \/ UNCHANGED cageVars
  PROVE  AccountInv'
<1>0. files \in FilePairs /\ left \in FilePairs
  BY Typed
<1>1. ASSUME NEW r \in Runners, Edit(r) PROVE AccountInv'
  <2>1. PICK d \in pass[r].at, n \in Names :
          \E file \in Edited(n, files[d][n]) \ {files[d][n]} : files' = [files EXCEPT ![d][n] = file]
    BY <1>1 DEF Edit
  <2>2. \A e \in Library \ {d} : files'[e] = files[e]
    BY <1>0, <2>1 DEF FilePairs
  <2>3. UNCHANGED <<pass, seed, left, raced, departed>>
    BY <1>1 DEF Edit, excused
  <2>4. KeptAsAccepted'
    BY <2>1, <2>2, <2>3 DEF AccountInv, KeptAsAccepted, InPass
  <2> QED BY <2>3, <2>4 DEF AccountInv, SnapshotsHold, SeedKeepsTo, Covered
<1>2. CASE HumanEdit
  <2>1. PICK d \in Library, n \in Names :
          /\ \E file \in {[files[d][n] EXCEPT !.there = TRUE, !.outside = "people"],
                          [files[d][n] EXCEPT !.sound = ~(@ /\ files[d][n].marked)]} :
               files' = [files EXCEPT ![d][n] = file] /\ left' = [left EXCEPT ![d][n] = Left(file)]
          /\ raced' = IF InPass(d) THEN raced \cup {d} ELSE raced
    BY <1>2 DEF HumanEdit
  <2>2. PICK file \in {[files[d][n] EXCEPT !.there = TRUE, !.outside = "people"],
                       [files[d][n] EXCEPT !.sound = ~(@ /\ files[d][n].marked)]} :
          files' = [files EXCEPT ![d][n] = file] /\ left' = [left EXCEPT ![d][n] = Left(file)]
    BY <2>1
  <2>3. UNCHANGED <<pass, seed, departed>>
    BY <1>2 DEF HumanEdit
  <2>4. \A e \in Library \ {d} : files'[e] = files[e] /\ left'[e] = left[e]
    BY <1>0, <2>2 DEF FilePairs
  <2>5. /\ files'[d][n] = file /\ left'[d][n] = Left(file)
        /\ \A m \in Names \ {n} : files'[d][m] = files[d][m] /\ left'[d][m] = left[d][m]
    BY <1>0, <2>2 DEF FilePairs
  <2>6. raced \subseteq raced' /\ (InPass(d) => d \in raced')
    BY <2>1
  <2>7. Kept(d) => Kept(d)'
    <3>1. file \in Files
      <4>1. files[d][n] \in Files
        BY FilesTyped
      <4> QED BY <2>2, <4>1 DEF Files
    <3>2. Agrees(departed, d, file, Left(file))
      BY <3>1, AgreesLeft
    <3> QED BY <2>3, <2>5, <3>2 DEF Kept
  <2>8. Kept(d) /\ Covered(d) => Covered(d)'
    <3> SUFFICES ASSUME Kept(d), Covered(d) PROVE Covered(d)'
      OBVIOUS
    <3>1. CASE n # "STRUCTURE"
      BY <2>5, <3>1 DEF Covered, Names
    <3>2. CASE n = "STRUCTURE"
      <4>1. files[d][n] \in Files /\ left[d][n] \in Files /\ Agrees(departed, d, files[d][n], left[d][n])
        BY FilesTyped DEF Kept
      <4>2. files[d][n].there /\ files[d][n].marked
        <5>1. (files[d][n].there <=> left[d][n].there) /\ (files[d][n].marked <=> left[d][n].marked)
          BY ONLY <4>1, AgreesThere
        <5> QED BY <3>2, <5>1 DEF Covered
      <4>3. file \in Files /\ file.there /\ file.marked
        BY <2>2, <4>1, <4>2 DEF Files
      <4> QED BY <2>5, <3>2, <4>3, LeftFile DEF Covered
    <3> QED BY <3>1, <3>2
  <2>9. SnapshotsHold'
    <3>1. ASSUME NEW r \in Runners, NEW e \in pass[r].at \ raced'
          PROVE  e \in Library \ {d} /\ e \notin raced
      BY <2>6, Typed DEF InPass
    <3> QED BY <2>3, <2>4, <3>1 DEF AccountInv, SnapshotsHold, Covered
  <2>10. ASSUME NEW e \in Library \ raced', \A r \in Runners : e \notin pass[r].at
         PROVE  Kept(e)'
    <3>1. Kept(e)
      BY <2>6, <2>10, TheAccounts
    <3> QED BY <2>3, <2>4, <2>7, <3>1 DEF Kept
  <2>11. KeptAsAccepted'
    BY <2>3, <2>10 DEF KeptAsAccepted, InPass, Kept
  <2>12. ASSUME NEW e \in seed.built \ raced' PROVE Covered(e)'
    <3>1. e \in Library /\ e \notin raced /\ Covered(e)
      BY <2>6, SeedTyped DEF AccountInv, SeedKeepsTo
    <3>2. CASE e # d
      BY <2>4, <3>1, <3>2 DEF Covered
    <3>3. CASE e = d
      <4>1. Kept(d)
        BY <2>6, <3>1, <3>3, TheAccounts DEF InPass
      <4> QED BY <2>8, <3>1, <3>3, <4>1
    <3> QED BY <3>2, <3>3
  <2>13. SeedKeepsTo'
    BY <2>3, <2>12 DEF AccountInv, SeedKeepsTo
  <2> QED BY <2>9, <2>11, <2>13 DEF AccountInv
<1>3. CASE TreeChanges \/ UNCHANGED cageVars
  <2>1. UNCHANGED <<files, left, pass, seed, raced>> /\ \A d : d \in departed => d \in departed'
    BY <1>3 DEF TreeChanges, cageVars, docs
  <2>2. ASSUME NEW r \in Runners, NEW d \in pass[r].at \ raced PROVE Snapped(r, d)'
    <3>1. d \in Library /\ Snapped(r, d)
      BY Typed, TheAccounts
    <3>2. ASSUME NEW n \in Names PROVE Agrees(departed', d, pass[r].snap[d][n], left[d][n])
      BY <2>1, <3>1, FilesTyped, AgreesMore DEF Snapped
    <3> QED BY <2>1, <3>2 DEF Snapped
  <2>3. ASSUME NEW d \in Library \ raced, \A r \in Runners : d \notin pass[r].at PROVE Kept(d)'
    <3>1. Kept(d)
      BY <2>3, TheAccounts
    <3>2. ASSUME NEW n \in Names PROVE Agrees(departed', d, files[d][n], left[d][n])
      BY <2>1, <3>1, FilesTyped, AgreesMore DEF Kept
    <3> QED BY <2>1, <3>2 DEF Kept
  <2>4. SnapshotsHold'
    BY <2>1, <2>2 DEF AccountInv, SnapshotsHold, Snapped, Covered
  <2>5. KeptAsAccepted'
    BY <2>1, <2>3 DEF KeptAsAccepted, InPass, Kept
  <2>6. SeedKeepsTo'
    BY <2>1 DEF AccountInv, SeedKeepsTo, Covered
  <2> QED BY <2>4, <2>5, <2>6 DEF AccountInv
<1>4. CASE Crash
  <2>1. /\ UNCHANGED <<files, left, departed>> /\ raced' = raced \cup UNION {pass[r].at : r \in Runners}
        /\ pass' = [r \in Runners |-> NoPass] /\ seed' = NoSeed
    BY <1>4 DEF Crash, docs
  <2>2. \A r \in Runners : pass'[r].at = {} /\ pass[r].at \subseteq raced'
    BY <2>1, NoPassType
  <2>3. KeptAsAccepted'
    BY <2>1, <2>2 DEF AccountInv, KeptAsAccepted, InPass
  <2>4. SnapshotsHold' /\ SeedKeepsTo'
    BY <2>1, <2>2, NoSeedType, TheRunners DEF SnapshotsHold, SeedKeepsTo
  <2> QED BY <2>3, <2>4 DEF AccountInv
<1> QED BY <1>1, <1>2, <1>3, <1>4
-----------------------------------------------------------------------------
(* What the seed has done                                                  *)

(* A gardener's session is none of the seed's.                             *)
LEMMA GardenersOwn ==
  ASSUME CageTypeOK, GardenBegins \/ GardenVerified \/ GardenUndone
  PROVE  pass'["seed"] = pass["seed"] /\ UNCHANGED <<seed, cursor, passed>>
<1>0. /\ files \in FilePairs /\ tree \in Trees /\ Reached \in SUBSET Library
      /\ "gardener" \in Runners /\ "seed" \in Runners \ {"gardener"}
  BY Typed, ReachedDirs, TheRunners
<1>1. CASE GardenBegins
  <2>1. UNCHANGED <<seed, cursor, passed>>
    BY <1>1 DEF GardenBegins
  <2>2. CASE \E ds \in SUBSET Library \ {{}} : Begin("gardener", ds, files', tree)
    <3>1. PICK ds \in SUBSET Library : Begin("gardener", ds, files', tree)
      BY <2>2
    <3>2. PICK fs : fs = files'
      OBVIOUS
    <3>3. fs = WithSkeletons(files, Reached, tree)
      BY <1>1, <3>2 DEF GardenBegins
    <3>4. fs \in FilePairs /\ Begin("gardener", ds, fs, tree)
      BY <1>0, <3>1, <3>2, <3>3, SkeletonsWritten
    <3>5. pass'["seed"] = pass["seed"]
      BY <1>0, <3>4, Begun
    <3> QED BY <2>1, <3>5
  <2>3. CASE UNCHANGED <<pass, raced>>
    BY <2>1, <2>3
  <2> QED BY <1>1, <2>2, <2>3 DEF GardenBegins
<1>2. CASE GardenVerified
  <2>1. EndPass("gardener") /\ UNCHANGED <<seed, cursor, passed>>
    BY <1>2 DEF GardenVerified
  <2> QED BY <1>0, <2>1, Ended
<1>3. CASE GardenUndone
  <2>1. EndPass("gardener") /\ UNCHANGED <<seed, cursor, passed>>
    BY <1>3 DEF GardenUndone
  <2> QED BY <1>0, <2>1, Ended
<1> QED BY <1>1, <1>2, <1>3

LEMMA KeepsProgress ==
  ASSUME CageTypeOK, SeedKeepsTo, SeedProgress, [CageNext]_cageVars
  PROVE  SeedProgress'
<1>0. /\ seed \in Seeds /\ files \in FilePairs /\ seed.tree \in Trees
      /\ "seed" \in Runners /\ pass["seed"].at \in SUBSET Library
  BY Typed, TheRunners
<1>1. /\ cursor \subseteq passed /\ seed.passed \subseteq passed
      /\ ~seed.failed /\ seed.pc # "idle" =>
           seed.built = Library /\ seed.tried \subseteq seed.passed \cup pass["seed"].at
      /\ seed.pc = "settle" => pass["seed"].at = {} /\ \A d \in Library : ~Wanted(d)
  BY DEF SeedProgress
<1>2. CASE pass'["seed"] = pass["seed"] /\ UNCHANGED <<seed, cursor, passed>>
  BY <1>1, <1>2 DEF SeedProgress, Wanted
<1>3. CASE GardenBegins \/ GardenVerified \/ GardenUndone
  BY <1>2, <1>3, GardenersOwn
<1>4. CASE SeedBegins
  <2>1. /\ UNCHANGED <<cursor, pass, passed>>
        /\ seed'.pc = "summarize" /\ seed'.tried = {} /\ seed'.passed = {}
        /\ ~seed'.failed => seed'.built = Library
    <3>1. PICK req \in Requests :
            LET built == {d \in Library : ~Unsound(d)} IN
            seed' = [NoSeed EXCEPT !.pc = "summarize", !.dirs = req.dirs, !.force = req.force,
                       !.budget = req.budget, !.offline = req.offline, !.tree = tree, !.built = built,
                       !.failed = built # Library]
      BY <1>4 DEF SeedBegins
    <3>2. NoSeed.tried = {} /\ NoSeed.passed = {}
      BY DEF NoSeed
    <3>3. seed'.pc = "summarize" /\ seed'.tried = {} /\ seed'.passed = {}
      BY <3>1, <3>2, NoSeedType DEF Seeds
    <3>4. ~seed'.failed => seed'.built = Library
      BY <3>1, NoSeedType DEF Seeds
    <3>5. UNCHANGED <<cursor, pass, passed>>
      BY <1>4 DEF SeedBegins
    <3> QED BY <3>3, <3>4, <3>5
  <2> QED BY <1>1, <2>1 DEF SeedProgress
<1>5. CASE SeedSession
  <2>1. PICK d \in Library :
          /\ Begin("seed", {d}, files, seed.tree) /\ seed' = [seed EXCEPT !.tried = @ \cup {d}]
          /\ seed.pc = "summarize" /\ pass["seed"].at = {}
    BY <1>5 DEF SeedSession
  <2>2. UNCHANGED <<cursor, passed>>
    BY <1>5 DEF SeedSession
  <2>3. pass'["seed"].at = {d}
    <3>1. {d} \in SUBSET Library
      OBVIOUS
    <3> QED BY <1>0, <2>1, <3>1, Begun
  <2>4. /\ seed'.pc = "summarize" /\ seed'.tried = seed.tried \cup {d} /\ seed'.passed = seed.passed
        /\ seed'.built = seed.built /\ seed'.failed = seed.failed
    BY <1>0, <2>1 DEF Seeds
  <2> QED BY <1>1, <2>1, <2>2, <2>3, <2>4 DEF SeedProgress
<1>6. CASE SeedVerified
  <2>1. EndPass("seed") /\ passed' = passed \cup pass["seed"].at /\ seed.pc = "summarize"
    BY <1>6 DEF SeedVerified, SeedKeepsTo
  <2>2. pass'["seed"].at = {}
    BY <1>0, <2>1, Ended, NoPassType
  <2>3. CASE /\ cursor' = cursor \cup pass["seed"].at
             /\ seed' = [seed EXCEPT !.used = @ + 1, !.passed = @ \cup pass["seed"].at]
    <3>1. /\ seed'.pc = "summarize" /\ seed'.tried = seed.tried
          /\ seed'.passed = seed.passed \cup pass["seed"].at
          /\ seed'.built = seed.built /\ seed'.failed = seed.failed
      BY <1>0, <2>1, <2>3 DEF Seeds
    <3> QED BY <1>1, <2>1, <2>2, <2>3, <3>1 DEF SeedProgress
  <2>4. CASE seed' = NoSeed /\ UNCHANGED cursor
    BY <1>1, <2>1, <2>4, NoSeedType DEF SeedProgress
  <2> QED BY <1>6, <2>3, <2>4 DEF SeedVerified
<1>7. CASE SeedUndone
  <2>1. /\ seed' = [seed EXCEPT !.failed = TRUE] /\ UNCHANGED <<cursor, passed>>
        /\ pass["seed"].at # {}
    BY <1>7 DEF SeedUndone
  <2>2. seed'.failed /\ seed'.passed = seed.passed /\ seed'.pc = "summarize"
    BY <1>0, <2>1 DEF Seeds, SeedKeepsTo
  <2> QED BY <1>1, <2>1, <2>2 DEF SeedProgress
<1>8. CASE SeedSummarized
  <2>1. /\ UNCHANGED <<cursor, pass, passed>> /\ seed' = [seed EXCEPT !.pc = "settle"]
        /\ seed.pc = "summarize" /\ pass["seed"].at = {} /\ \A d \in Library : ~Wanted(d)
    BY <1>8 DEF SeedSummarized
  <2>2. /\ seed'.tried = seed.tried /\ seed'.passed = seed.passed
        /\ seed'.built = seed.built /\ seed'.failed = seed.failed
    BY <1>0, <2>1 DEF Seeds
  <2>3. /\ seed'.dirs = seed.dirs /\ seed'.force = seed.force
        /\ seed'.budget = seed.budget /\ seed'.used = seed.used /\ seed'.offline = seed.offline
    BY <1>0, <2>1 DEF Seeds
  <2>4. \A d \in Library : Wanted(d)' <=> Wanted(d)
    BY <2>1, <2>2, <2>3 DEF Wanted
  <2> QED BY <1>1, <2>1, <2>2, <2>4 DEF SeedProgress
<1>9. CASE SeedSettles
  <2>1. seed' = NoSeed /\ UNCHANGED <<cursor, passed>>
    BY <1>9 DEF SeedSettles
  <2> QED BY <1>1, <2>1, NoSeedType DEF SeedProgress
<1>10. CASE (\E r \in Runners : Edit(r)) \/ HumanEdit \/ TreeChanges \/ UNCHANGED cageVars
  BY <1>2, <1>10 DEF Edit, HumanEdit, TreeChanges, cageVars
<1>11. CASE Crash
  <2>1. seed' = NoSeed /\ UNCHANGED <<cursor, passed>>
    BY <1>11 DEF Crash
  <2> QED BY <1>1, <2>1, NoSeedType DEF SeedProgress
<1> QED BY <1>3, <1>4, <1>5, <1>6, <1>7, <1>8, <1>9, <1>10, <1>11 DEF CageNext

-----------------------------------------------------------------------------
(* The theorems                                                            *)

LEMMA CageStarts ==
  ASSUME CageInit
  PROVE  CageInv
<1> DEFINE First(d, n) == IF n = "AGENTS" /\ d \in Written
                          THEN [Absent EXCEPT !.there = TRUE, !.outside = "people"] ELSE Absent
<1>1. /\ tree \in [Library -> [hash : {0}, file : BOOLEAN]] /\ files = [d \in Library |-> [n \in Names |-> First(d, n)]]
      /\ cursor = {} /\ pass = [r \in Runners |-> NoPass] /\ seed = NoSeed
      /\ left = files /\ raced = {} /\ departed = {d \in Library : ~tree[d].file} /\ passed = {} /\ events = 0
  BY DEF CageInit
<1>2. \A d \in Library, n \in Names : /\ First(d, n) \in Files /\ Gone(First(d, n))
                                  /\ Left(First(d, n)) = First(d, n)
  <2> DEFINE people == [Absent EXCEPT !.there = TRUE, !.outside = "people"]
  <2>1. people \in Files /\ Gone(people) /\ Left(people) = people
    <3>1. Absent \in Files /\ Absent.tree = 0 /\ Absent.rest = FALSE
      BY DEF Files, Absent
    <3>2. people \in Files /\ people.there /\ people.tree = 0 /\ people.rest = FALSE
      BY <3>1 DEF Files
    <3> HIDE DEF people
    <3>3. Left(people) = people
      BY <3>2 DEF Files, Left
    <3> QED BY <3>2, <3>3 DEF Gone
  <2>2. ASSUME NEW d \in Library, NEW n \in Names PROVE First(d, n) = people \/ First(d, n) = Absent
    OBVIOUS
  <2> HIDE DEF people, First
  <2> QED BY <2>1, <2>2, AbsentFile
<1> HIDE DEF First
<1>3. files \in FilePairs /\ left \in FilePairs
  BY <1>1, <1>2 DEF FilePairs
<1>4. tree \in Trees /\ events \in 0 .. MaxEvents
  BY <1>1, CageAssumption DEF Trees
<1>5. CageTypeOK
  BY <1>1, <1>3, <1>4, NoPassType, NoSeedType, TypesAre DEF Types
<1>6. \A r \in Runners : pass[r] = NoPass
  BY <1>1
<1>7. GoneIsAbsent
  BY <1>1, <1>2, <1>6, NoPassType, AbsentFile DEF GoneIsAbsent, GoneFiles
<1>8. SnapshotsHold /\ SeedKeepsTo
  BY <1>1, <1>6, NoPassType, NoSeedType, TheRunners DEF SnapshotsHold, SeedKeepsTo
<1>9. SeedProgress
  BY <1>1, NoSeedType DEF SeedProgress
<1>10. KeptAsAccepted
  <2>1. ASSUME NEW d \in Library, NEW n \in Names PROVE Agrees(departed, d, files[d][n], left[d][n])
    <3>1. files[d][n] = First(d, n) /\ left[d][n] = First(d, n)
      BY <1>1
    <3>2. Agrees(departed, d, First(d, n), Left(First(d, n)))
      BY <1>2, AgreesLeft
    <3> QED BY <1>2, <3>1, <3>2
  <2> QED BY <2>1 DEF KeptAsAccepted
<1>11. SnapshotsHave /\ TreesKnown
  BY <1>1, <1>6, NoPassType, NoSeedType, TheRunners DEF SnapshotsHave, TreesKnown, Known
<1> QED BY <1>5, <1>7, <1>8, <1>9, <1>10, <1>11 DEF CageInv

LEMMA CageKept ==
  ASSUME CageInv, [CageNext]_cageVars
  PROVE  CageInv'
<1>1. CageTypeOK /\ GoneIsAbsent /\ SnapshotsHave /\ TreesKnown /\ AccountInv /\ SeedKeepsTo /\ SeedProgress
  BY DEF CageInv, AccountInv
<1>2. CageTypeOK' /\ GoneIsAbsent' /\ SnapshotsHave' /\ TreesKnown' /\ SeedProgress'
  BY <1>1, KeepsTypes, KeepsGone, KeepsHave, KeepsTrees, KeepsProgress
<1>3. AccountInv'
  BY <1>1, GardenKeeps, SeedKeeps, OthersKeep DEF CageNext
<1> QED BY <1>2, <1>3 DEF CageInv, AccountInv

LEMMA CageHolds == CageSpec => []CageInv
BY CageStarts, CageKept, PTL DEF CageSpec

(* The types of the state, among them that no session, no seed's request   *)
(* and no mark of the cursor names a directory that is not covered.        *)
THEOREM CageTypeCorrect == CageSpec => []CageTypeOK
<1>1. CageInv => CageTypeOK
  BY DEF CageInv
<1> QED BY <1>1, CageHolds, PTL

(* docfile.go, "everything outside the markers is human/curated content    *)
(* and is preserved", and Build's purpose lines and blurbs carried forward: *)
(* with no session at work on a directory, its files hold what people and  *)
(* accepted passes have left there, however many sessions and refreshes of *)
(* skeletons there have been in between.                                   *)
THEOREM FilesAreKeptAsAccepted == CageSpec => []KeptAsAccepted
<1>1. CageInv => KeptAsAccepted
  BY DEF CageInv
<1> QED BY <1>1, CageHolds, PTL

(* A seed that had opencode to summarize with and no budget, and ends its  *)
(* passes without a failure, has had every directory it was asked for      *)
(* accepted: what phase 2 of seed.go skips has been tried, and so          *)
(* accepted, or the cursor has it marked.                                  *)
THEOREM SeedsComplete == CageSpec => []SeedCompletes
<1>1. ASSUME CageInv, seed.pc = "settle", ~seed.failed, seed.budget = 0, ~seed.offline
      PROVE  IF seed.dirs # {} THEN seed.dirs \subseteq seed.passed
             ELSE Library \subseteq IF seed.force THEN seed.passed ELSE passed
  <2>1. /\ cursor \subseteq passed /\ seed.passed \subseteq passed
        /\ seed.built = Library /\ seed.tried \subseteq seed.passed /\ \A d \in Library : ~Wanted(d)
    BY <1>1 DEF CageInv, SeedProgress
  <2>2. seed.dirs \subseteq Library
    BY <1>1, Typed DEF CageInv, Seeds
  <2>3. ASSUME NEW d \in Library, seed.dirs # {} => d \in seed.dirs, d \notin seed.passed
        PROVE  d \in cursor /\ ~seed.force /\ d \notin seed.dirs
    BY <1>1, <2>1, <2>3 DEF Wanted
  <2> QED BY <2>1, <2>2, <2>3
<1>2. CageInv => SeedCompletes
  BY <1>1 DEF SeedCompletes
<1> QED BY <1>2, CageHolds, PTL

=============================================================================
