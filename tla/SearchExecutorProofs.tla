------------------------ MODULE SearchExecutorProofs ------------------------
(***************************************************************************)
(* Theorems about SearchExecutor for every number of tuples, jobs and      *)
(* slots.  ExecutorInv is inductive; the documented promises follow.       *)
(***************************************************************************)
EXTENDS SearchExecutor, FiniteSetTheorems, TLAPS

-----------------------------------------------------------------------------
(* Arithmetic of the ring.                                                 *)

(* Integer division, as the provers need it. *)
LEMMA Division ==
  ASSUME NEW w \in Nat \ {0}, NEW a \in Nat
  PROVE  /\ SlotOf(a, w) \in 0 .. w - 1
         /\ \E q \in Nat : a = q * w + SlotOf(a, w)
<1>1. a % w \in 0 .. w - 1
  BY SMT
<1>2. a = (a \div w) * w + (a % w) /\ a \div w \in Nat
  BY SMT
<1>3. QED
  BY <1>1, <1>2 DEF SlotOf

(* A positive multiple of the ring is no smaller than the ring. *)
LEMMA Multiple ==
  ASSUME NEW w \in Nat \ {0}, NEW p \in Int, p >= 1
  PROVE  p * w >= w
  BY SMT

(* Two tuples less than a ring apart never share a slot.                   *)
LEMMA SlotsDiffer ==
  ASSUME NEW w \in Nat \ {0}, NEW a \in Nat, NEW b \in Nat,
         SlotOf(a, w) = SlotOf(b, w), a < b + w, b < a + w
  PROVE  a = b
<1>1. PICK p \in Nat : a = p * w + SlotOf(a, w)
  BY Division
<1>2. PICK q \in Nat : b = q * w + SlotOf(b, w)
  BY Division
<1>3. a - b = (p - q) * w
  <2>1. SlotOf(a, w) \in Nat
    BY Division
  <2>2. QED
    BY <1>1, <1>2, <2>1
<1>4. CASE p > q
  <2>1. (p - q) * w >= w
    BY <1>4, Multiple
  <2>2. QED
    BY <1>3, <2>1
<1>5. CASE q > p
  <2>1. (q - p) * w >= w
    BY <1>5, Multiple
  <2>2. (q - p) * w = -((p - q) * w)
    BY SMT
  <2>3. QED
    BY <1>3, <2>1, <2>2
<1>6. CASE q = p
  BY <1>3, <1>6
<1>7. QED
  BY <1>4, <1>5, <1>6

(* Jobs and the size of the ring are numbers, fixed by the arguments.      *)
LEMMA Sizes ==
  ASSUME count \in Nat, requested \in Nat
  PROVE  /\ Jobs \in Nat /\ Jobs <= requested /\ Jobs <= count
         /\ Window \in Nat /\ Window <= count /\ Window <= Jobs * SlotsPerJob
         /\ requested > 0 /\ count > 0 => Jobs > 0 /\ Window > 0
<1>1. Jobs \in Nat /\ Jobs <= requested /\ Jobs <= count
  BY DEF Jobs
<1>2. Jobs * SlotsPerJob \in Nat
  BY <1>1, ArgumentsAssumption
<1>3. requested > 0 /\ count > 0 => Jobs > 0
  BY DEF Jobs
<1>4. Jobs > 0 => Jobs * SlotsPerJob > 0
  BY <1>1, ArgumentsAssumption
<1>5. QED
  BY <1>1, <1>2, <1>3, <1>4 DEF Window

(* The two facts, for the ring of this call. *)
LEMMA Ring ==
  ASSUME Window \in Nat, Window > 0
  PROVE  /\ \A a \in Nat : SlotOf(a, Window) \in 0 .. Window - 1
         /\ \A a, b \in Nat :
              SlotOf(a, Window) = SlotOf(b, Window) /\ a < b + Window /\ b < a + Window => a = b
<1>1. PICK w \in Nat \ {0} : w = Window
  OBVIOUS
<1>2. \A a \in Nat : SlotOf(a, w) \in 0 .. w - 1
  BY Division
<1>3. \A a, b \in Nat : SlotOf(a, w) = SlotOf(b, w) /\ a < b + w /\ b < a + w => a = b
  BY SlotsDiffer
<1>4. QED
  BY <1>1, <1>2, <1>3

(* Jobs and the ring do not change while the arguments do not. *)
LEMMA SizesKept == UNCHANGED arguments => Jobs' = Jobs /\ Window' = Window
  BY DEF arguments, Jobs, Window

-----------------------------------------------------------------------------
(* The inductive invariant holds when the call begins.                     *)
LEMMA InitInv == Init => ExecutorInv
<1> SUFFICES ASSUME Init PROVE ExecutorInv
  OBVIOUS
<1>1. count \in Nat /\ requested \in Nat
  BY ArgumentsAssumption DEF Init
<1>2. Window \in Nat
  BY <1>1, Sizes
<1>3. TypeOK
  <2>1. slots \in [0 .. Window - 1 -> Slot]
    BY <1>2 DEF Init, Slot, Free
  <2>2. worker \in [Threads -> WorkerPlaces] /\ index \in [Threads -> Tuples \cup {NoTuple}]
    BY DEF Init, WorkerPlaces
  <2>3. made \in 0 .. MaxJobs /\ delivered \in Seq(Tuples)
    BY ArgumentsAssumption DEF Init
  <2>4. turn \in 0 .. count /\ next \in 0 .. count /\ consumed \in 0 .. count
    BY <1>1 DEF Init
  <2>5. QED
    BY <1>1, <2>1, <2>2, <2>3, <2>4 DEF Init, TypeOK, CallerPlaces
<1>4. CallerInv
  BY <1>1 DEF Init, CallerInv, PoolPlaces
<1>5. ThreadsInv
  BY <1>1, ArgumentsAssumption DEF Init, ThreadsInv, Threads, Ended
<1>6. RingInv
  BY <1>1, <1>2 DEF Init, RingInv, Owing, Free, NoTuple
<1>7. QED
  BY <1>3, <1>4, <1>5, <1>6 DEF ExecutorInv

(* A step of the caller keeps the types. *)
LEMMA CallerKeepsTypeOK ==
  ASSUME ExecutorInv, CallerStep
  PROVE  TypeOK'
<1> USE DEF ExecutorInv, TypeOK, CallerPlaces, WorkerPlaces, Threads, NoTuple, Slot, Tuples,
            CallerGoes, NotifyWorkers, Free, Result, arguments, working, shared
<1>s. /\ Jobs \in Nat /\ Window \in Nat
      /\ Jobs <= requested /\ Jobs <= count /\ Window <= count
      /\ requested > 0 /\ count > 0 => Jobs > 0 /\ Window > 0
      /\ Jobs' = Jobs /\ Window' = Window /\ MaxJobs \in Nat
  BY Sizes, SizesKept, ArgumentsAssumption DEF CallerStep, RejectJobs, Choose, EvaluateInline, ReturnInline, CreateThread, CreateThreadFails, CallerSleeps, Rethrow, Take, AnnounceRoom, Consume, ConsumeFails, LoopEnds, RaiseStop, AnnounceStop, Join
<1>r. Window > 0 =>
        /\ \A a \in Nat : SlotOf(a, Window) \in 0 .. Window - 1
        /\ \A a, b \in Nat :
             SlotOf(a, Window) = SlotOf(b, Window) /\ a < b + Window /\ b < a + Window => a = b
  BY <1>s, Ring
<1>1. CASE RejectJobs
  BY <1>s, <1>1 DEF RejectJobs
<1>2. CASE Choose
  BY <1>s, <1>2 DEF Choose
<1>3. CASE EvaluateInline
  BY <1>s, <1>3 DEF EvaluateInline
<1>4. CASE ReturnInline
  BY <1>s, <1>4 DEF ReturnInline
<1>5. CASE CreateThread
  <2>1. made + 1 \in Threads
    BY <1>s, <1>5 DEF CreateThread, CallerInv, PoolPlaces
  <2>2. QED
    BY <1>s, <1>5, <2>1 DEF CreateThread
<1>6. CASE CreateThreadFails
  BY <1>s, <1>6 DEF CreateThreadFails
<1>7. CASE CallerSleeps
  BY <1>s, <1>7 DEF CallerSleeps
<1>8. CASE Rethrow
  BY <1>s, <1>8 DEF Rethrow
<1>9. CASE Take
  <2>1. SlotOf(turn, Window) \in 0 .. Window - 1
    BY <1>s, <1>r, <1>9 DEF Take, CallerInv, PoolPlaces
  <2>2. slots[SlotOf(turn, Window)].value \in Tuples \cup {NoTuple}
    BY <2>1
  <2>3. consumed < count
    BY <1>9 DEF Take, CallerInv
  <2>4. slots' \in [0 .. Window - 1 -> Slot]
    BY <1>9, <2>1 DEF Take
  <2>5. QED
    BY <1>s, <1>9, <2>2, <2>3, <2>4 DEF Take
<1>10. CASE AnnounceRoom
  BY <1>s, <1>10 DEF AnnounceRoom
<1>11. CASE Consume
  <2>1. held \in Tuples /\ turn < count
    BY <1>11 DEF Consume, CallerInv
  <2>2. delivered' \in Seq(Tuples)
    BY <1>11, <2>1 DEF Consume
  <2>3. QED
    BY <1>s, <1>11, <2>1, <2>2 DEF Consume
<1>12. CASE ConsumeFails
  BY <1>s, <1>12 DEF ConsumeFails
<1>13. CASE LoopEnds
  BY <1>s, <1>13 DEF LoopEnds
<1>14. CASE RaiseStop
  BY <1>s, <1>14 DEF RaiseStop
<1>15. CASE AnnounceStop
  BY <1>s, <1>15 DEF AnnounceStop
<1>16. CASE Join
  BY <1>s, <1>16 DEF Join
<1>17. QED
  BY <1>1, <1>2, <1>3, <1>4, <1>5, <1>6, <1>7, <1>8, <1>9, <1>10, <1>11, <1>12, <1>13, <1>14, <1>15, <1>16 DEF CallerStep

(* A step of the caller keeps the place of the loop. *)
LEMMA CallerKeepsCallerInv ==
  ASSUME ExecutorInv, CallerStep
  PROVE  CallerInv'
<1> USE DEF ExecutorInv, TypeOK, CallerInv, PoolPlaces, NoTuple, Tuples, Threads,
            CallerGoes, NotifyWorkers, Free, Result, arguments, working, shared
<1>s. /\ Jobs \in Nat /\ Window \in Nat
      /\ Jobs <= requested /\ Jobs <= count /\ Window <= count
      /\ requested > 0 /\ count > 0 => Jobs > 0 /\ Window > 0
      /\ Jobs' = Jobs /\ Window' = Window /\ MaxJobs \in Nat
  BY Sizes, SizesKept, ArgumentsAssumption DEF CallerStep, RejectJobs, Choose, EvaluateInline, ReturnInline, CreateThread, CreateThreadFails, CallerSleeps, Rethrow, Take, AnnounceRoom, Consume, ConsumeFails, LoopEnds, RaiseStop, AnnounceStop, Join
<1>r. Window > 0 =>
        /\ \A a \in Nat : SlotOf(a, Window) \in 0 .. Window - 1
        /\ \A a, b \in Nat :
             SlotOf(a, Window) = SlotOf(b, Window) /\ a < b + Window /\ b < a + Window => a = b
  BY <1>s, Ring
<1>1. CASE RejectJobs
  BY <1>s, <1>1 DEF RejectJobs
<1>2. CASE Choose
  <2>1. requested \in 1 .. MaxJobs /\ turn = 0 /\ consumed = 0
    BY <1>2 DEF Choose, ThreadsInv
  <2>2. \/ count = 0 /\ caller' = "returned"
        \/ count > 0 /\ Jobs = 1 /\ caller' = "evaluate"
        \/ count > 0 /\ Jobs # 1 /\ caller' = "create"
    BY <1>2 DEF Choose
  <2>3. QED
    BY <1>s, <1>2, <2>1, <2>2 DEF Choose
<1>3. CASE EvaluateInline
  BY <1>s, <1>3 DEF EvaluateInline
<1>4. CASE ReturnInline
  BY <1>s, <1>4 DEF ReturnInline
<1>5. CASE CreateThread
  BY <1>s, <1>5 DEF CreateThread
<1>6. CASE CreateThreadFails
  BY <1>s, <1>6 DEF CreateThreadFails
<1>7. CASE CallerSleeps
  BY <1>s, <1>7 DEF CallerSleeps
<1>8. CASE Rethrow
  BY <1>s, <1>8 DEF Rethrow
<1>9. CASE Take
  <2>1. SlotOf(turn, Window) \in 0 .. Window - 1
    BY <1>s, <1>r, <1>9 DEF Take
  <2>2. slots[SlotOf(turn, Window)].value = turn
    <3> DEFINE v == slots[SlotOf(turn, Window)].value
    <3>1. v \in consumed .. next - 1 /\ SlotOf(v, Window) = SlotOf(turn, Window)
      BY <1>9, <2>1 DEF Take, RingInv
    <3>2. v < turn + Window /\ turn < v + Window
      BY <1>s, <1>9, <3>1 DEF Take, RingInv
    <3>3. v \in Nat /\ turn \in Nat /\ Window > 0
      BY <1>s, <1>9, <3>1 DEF Take
    <3>4. QED
      BY <1>r, <3>1, <3>2, <3>3
  <2>3. QED
    BY <1>s, <1>9, <2>2 DEF Take
<1>10. CASE AnnounceRoom
  BY <1>s, <1>10 DEF AnnounceRoom
<1>11. CASE Consume
  <2>1. Len(delivered') = turn' /\ held = turn
    BY <1>11 DEF Consume
  <2>2. ASSUME NEW k \in 1 .. turn'
        PROVE  delivered'[k] = k - 1
    BY <1>11, <2>1 DEF Consume
  <2>3. QED
    BY <1>s, <1>11, <2>1, <2>2 DEF Consume
<1>12. CASE ConsumeFails
  BY <1>s, <1>12 DEF ConsumeFails
<1>13. CASE LoopEnds
  BY <1>s, <1>13 DEF LoopEnds
<1>14. CASE RaiseStop
  BY <1>s, <1>14 DEF RaiseStop
<1>15. CASE AnnounceStop
  BY <1>s, <1>15 DEF AnnounceStop
<1>16. CASE Join
  BY <1>s, <1>16 DEF Join
<1>17. QED
  BY <1>1, <1>2, <1>3, <1>4, <1>5, <1>6, <1>7, <1>8, <1>9, <1>10, <1>11, <1>12, <1>13, <1>14, <1>15, <1>16 DEF CallerStep

(* A step of the caller keeps the census of threads. *)
LEMMA CallerKeepsThreadsInv ==
  ASSUME ExecutorInv, CallerStep
  PROVE  ThreadsInv'
<1> USE DEF ExecutorInv, TypeOK, CallerInv, ThreadsInv, PoolPlaces, Threads, Ended, NoTuple,
            CallerGoes, NotifyWorkers, Free, Result, arguments, working, shared
<1>s. /\ Jobs \in Nat /\ Window \in Nat
      /\ Jobs <= requested /\ Jobs <= count /\ Window <= count
      /\ requested > 0 /\ count > 0 => Jobs > 0 /\ Window > 0
      /\ Jobs' = Jobs /\ Window' = Window /\ MaxJobs \in Nat
  BY Sizes, SizesKept, ArgumentsAssumption DEF CallerStep, RejectJobs, Choose, EvaluateInline, ReturnInline, CreateThread, CreateThreadFails, CallerSleeps, Rethrow, Take, AnnounceRoom, Consume, ConsumeFails, LoopEnds, RaiseStop, AnnounceStop, Join
<1>1. CASE RejectJobs
  BY <1>s, <1>1 DEF RejectJobs
<1>2. CASE Choose
  <2>1. caller' = "create" => Jobs > 0
    BY <1>s, <1>2 DEF Choose
  <2>2. caller' = "returned" => made = 0
    BY <1>2 DEF Choose
  <2>3. caller' \in {"returned", "evaluate", "create"}
    BY <1>2 DEF Choose
  <2>4. QED
    BY <1>s, <1>2, <2>1, <2>2, <2>3 DEF Choose
<1>3. CASE EvaluateInline
  BY <1>s, <1>3 DEF EvaluateInline
<1>4. CASE ReturnInline
  BY <1>s, <1>4 DEF ReturnInline
<1>5. CASE CreateThread
  BY <1>s, <1>5 DEF CreateThread
<1>6. CASE CreateThreadFails
  BY <1>s, <1>6 DEF CreateThreadFails
<1>7. CASE CallerSleeps
  BY <1>s, <1>7 DEF CallerSleeps
<1>8. CASE Rethrow
  BY <1>s, <1>8 DEF Rethrow
<1>9. CASE Take
  BY <1>s, <1>9 DEF Take
<1>10. CASE AnnounceRoom
  BY <1>s, <1>10 DEF AnnounceRoom
<1>11. CASE Consume
  BY <1>s, <1>11 DEF Consume
<1>12. CASE ConsumeFails
  BY <1>s, <1>12 DEF ConsumeFails
<1>13. CASE LoopEnds
  BY <1>s, <1>13 DEF LoopEnds
<1>14. CASE RaiseStop
  BY <1>s, <1>14 DEF RaiseStop
<1>15. CASE AnnounceStop
  BY <1>s, <1>15 DEF AnnounceStop
<1>16. CASE Join
  BY <1>s, <1>16 DEF Join
<1>17. QED
  BY <1>1, <1>2, <1>3, <1>4, <1>5, <1>6, <1>7, <1>8, <1>9, <1>10, <1>11, <1>12, <1>13, <1>14, <1>15, <1>16 DEF CallerStep

(* A step of the caller keeps the ring. *)
LEMMA CallerKeepsRingInv ==
  ASSUME ExecutorInv, CallerStep
  PROVE  RingInv'
<1> USE DEF ExecutorInv, TypeOK, RingInv, Owing, Threads, NoTuple, Tuples,
            CallerGoes, NotifyWorkers, Free, Result, arguments, working, shared
<1>s. /\ Jobs \in Nat /\ Window \in Nat
      /\ Jobs <= requested /\ Jobs <= count /\ Window <= count
      /\ requested > 0 /\ count > 0 => Jobs > 0 /\ Window > 0
      /\ Jobs' = Jobs /\ Window' = Window /\ MaxJobs \in Nat
  BY Sizes, SizesKept, ArgumentsAssumption DEF CallerStep, RejectJobs, Choose, EvaluateInline, ReturnInline, CreateThread, CreateThreadFails, CallerSleeps, Rethrow, Take, AnnounceRoom, Consume, ConsumeFails, LoopEnds, RaiseStop, AnnounceStop, Join
<1>r. Window > 0 =>
        /\ \A a \in Nat : SlotOf(a, Window) \in 0 .. Window - 1
        /\ \A a, b \in Nat :
             SlotOf(a, Window) = SlotOf(b, Window) /\ a < b + Window /\ b < a + Window => a = b
  BY <1>s, Ring
<1>1. CASE RejectJobs
  BY <1>s, <1>1 DEF RejectJobs
<1>2. CASE Choose
  BY <1>s, <1>2 DEF Choose
<1>3. CASE EvaluateInline
  BY <1>s, <1>3 DEF EvaluateInline
<1>4. CASE ReturnInline
  BY <1>s, <1>4 DEF ReturnInline
<1>5. CASE CreateThread
  BY <1>s, <1>5 DEF CreateThread
<1>6. CASE CreateThreadFails
  BY <1>s, <1>6 DEF CreateThreadFails
<1>7. CASE CallerSleeps
  BY <1>s, <1>7 DEF CallerSleeps
<1>8. CASE Rethrow
  BY <1>s, <1>8 DEF Rethrow
<1>9. CASE Take
  <2>1. SlotOf(turn, Window) \in 0 .. Window - 1 /\ consumed = turn /\ failure = NoTuple
    BY <1>s, <1>r, <1>9 DEF Take, CallerInv, PoolPlaces
  <2>2. consumed < next
    BY <1>9, <2>1 DEF Take
  <2>3. ASSUME NEW s \in DOMAIN slots, slots'[s].ready
        PROVE  /\ slots'[s] = slots[s] /\ s # SlotOf(turn, Window)
               /\ slots[s].value \in consumed' .. next - 1 /\ SlotOf(slots[s].value, Window) = s
    BY <1>9, <2>1, <2>3 DEF Take
  <2>4. ASSUME NEW u \in Owing
        PROVE  index[u] \in consumed' .. next - 1 /\ ~ slots'[SlotOf(index[u], Window)].ready
    <3>1. index[u] # turn
      BY <1>9, <2>4 DEF Take
    <3>2. SlotOf(index[u], Window) \in 0 .. Window - 1
      <4>1. index[u] \in Nat /\ Window > 0
        BY <1>s, <1>9, <2>4 DEF Take, CallerInv, PoolPlaces
      <4>2. QED
        BY <1>r, <4>1
    <3>3. QED
      BY <1>9, <2>1, <2>4, <3>1, <3>2 DEF Take
  <2>5. Owing' = Owing
    BY <1>9 DEF Take
  <2>6. QED
    BY <1>s, <1>9, <2>1, <2>2, <2>3, <2>4, <2>5 DEF Take
<1>10. CASE AnnounceRoom
  BY <1>s, <1>10 DEF AnnounceRoom
<1>11. CASE Consume
  <2>1. failure # NoTuple => turn' <= consumed
    BY <1>s, <1>11 DEF Consume, CallerInv, ThreadsInv
  <2>2. QED
    BY <1>s, <1>11, <2>1 DEF Consume
<1>12. CASE ConsumeFails
  BY <1>s, <1>12 DEF ConsumeFails
<1>13. CASE LoopEnds
  BY <1>s, <1>13 DEF LoopEnds
<1>14. CASE RaiseStop
  BY <1>s, <1>14 DEF RaiseStop
<1>15. CASE AnnounceStop
  BY <1>s, <1>15 DEF AnnounceStop
<1>16. CASE Join
  BY <1>s, <1>16 DEF Join
<1>17. QED
  BY <1>1, <1>2, <1>3, <1>4, <1>5, <1>6, <1>7, <1>8, <1>9, <1>10, <1>11, <1>12, <1>13, <1>14, <1>15, <1>16 DEF CallerStep

(* A step of a worker keeps the types. *)
LEMMA WorkerKeepsTypeOK ==
  ASSUME ExecutorInv, NEW t \in Threads, WorkerStep(t)
  PROVE  TypeOK'
<1> USE DEF ExecutorInv, TypeOK, CallerPlaces, WorkerPlaces, Threads, NoTuple, Slot, Tuples,
            WorkerGoes, NotifyWorkers, NotifyCaller, Filled, Result, arguments, calling, shared
<1>s. /\ Jobs \in Nat /\ Window \in Nat
      /\ Jobs <= requested /\ Jobs <= count /\ Window <= count
      /\ requested > 0 /\ count > 0 => Jobs > 0 /\ Window > 0
      /\ Jobs' = Jobs /\ Window' = Window /\ MaxJobs \in Nat
  BY Sizes, SizesKept, ArgumentsAssumption DEF WorkerStep, Leave, WorkerSleeps, Claim, Evaluate, EvaluateFails, Publish, Discard, AnnounceResult, Record, AnnounceFailure
<1>1. CASE Leave(t)
  BY <1>s, <1>1 DEF Leave
<1>2. CASE WorkerSleeps(t)
  BY <1>s, <1>2 DEF WorkerSleeps
<1>3. CASE Claim(t)
  BY <1>s, <1>3 DEF Claim
<1>4. CASE Evaluate(t)
  BY <1>s, <1>4 DEF Evaluate
<1>5. CASE EvaluateFails(t)
  BY <1>s, <1>5 DEF EvaluateFails
<1>6. CASE Publish(t)
  BY <1>s, <1>6 DEF Publish
<1>7. CASE Discard(t)
  BY <1>s, <1>7 DEF Discard
<1>8. CASE AnnounceResult(t)
  BY <1>s, <1>8 DEF AnnounceResult
<1>9. CASE Record(t)
  BY <1>s, <1>9 DEF Record
<1>10. CASE AnnounceFailure(t)
  BY <1>s, <1>10 DEF AnnounceFailure
<1>11. QED
  BY <1>1, <1>2, <1>3, <1>4, <1>5, <1>6, <1>7, <1>8, <1>9, <1>10 DEF WorkerStep

(* A step of a worker keeps the place of the loop. *)
LEMMA WorkerKeepsCallerInv ==
  ASSUME ExecutorInv, NEW t \in Threads, WorkerStep(t)
  PROVE  CallerInv'
<1> USE DEF ExecutorInv, TypeOK, CallerInv, PoolPlaces, NoTuple, Tuples, Threads,
            WorkerGoes, NotifyWorkers, NotifyCaller, Filled, Result, arguments, calling, shared
<1>s. /\ Jobs \in Nat /\ Window \in Nat
      /\ Jobs <= requested /\ Jobs <= count /\ Window <= count
      /\ requested > 0 /\ count > 0 => Jobs > 0 /\ Window > 0
      /\ Jobs' = Jobs /\ Window' = Window /\ MaxJobs \in Nat
  BY Sizes, SizesKept, ArgumentsAssumption DEF WorkerStep, Leave, WorkerSleeps, Claim, Evaluate, EvaluateFails, Publish, Discard, AnnounceResult, Record, AnnounceFailure
<1>1. CASE Leave(t)
  BY <1>s, <1>1 DEF Leave
<1>2. CASE WorkerSleeps(t)
  BY <1>s, <1>2 DEF WorkerSleeps
<1>3. CASE Claim(t)
  BY <1>s, <1>3 DEF Claim
<1>4. CASE Evaluate(t)
  BY <1>s, <1>4 DEF Evaluate
<1>5. CASE EvaluateFails(t)
  BY <1>s, <1>5 DEF EvaluateFails
<1>6. CASE Publish(t)
  BY <1>s, <1>6 DEF Publish
<1>7. CASE Discard(t)
  BY <1>s, <1>7 DEF Discard
<1>8. CASE AnnounceResult(t)
  BY <1>s, <1>8 DEF AnnounceResult
<1>9. CASE Record(t)
  BY <1>s, <1>9 DEF Record
<1>10. CASE AnnounceFailure(t)
  BY <1>s, <1>10 DEF AnnounceFailure
<1>11. QED
  BY <1>1, <1>2, <1>3, <1>4, <1>5, <1>6, <1>7, <1>8, <1>9, <1>10 DEF WorkerStep

(* A step of a worker keeps the census of threads. *)
LEMMA WorkerKeepsThreadsInv ==
  ASSUME ExecutorInv, NEW t \in Threads, WorkerStep(t)
  PROVE  ThreadsInv'
<1> USE DEF ExecutorInv, TypeOK, CallerInv, ThreadsInv, PoolPlaces, Threads, Ended, NoTuple,
            WorkerGoes, NotifyWorkers, NotifyCaller, Filled, Result, arguments, calling, shared
<1>s. /\ Jobs \in Nat /\ Window \in Nat
      /\ Jobs <= requested /\ Jobs <= count /\ Window <= count
      /\ requested > 0 /\ count > 0 => Jobs > 0 /\ Window > 0
      /\ Jobs' = Jobs /\ Window' = Window /\ MaxJobs \in Nat
  BY Sizes, SizesKept, ArgumentsAssumption DEF WorkerStep, Leave, WorkerSleeps, Claim, Evaluate, EvaluateFails, Publish, Discard, AnnounceResult, Record, AnnounceFailure
<1>1. CASE Leave(t)
  BY <1>s, <1>1 DEF Leave
<1>2. CASE WorkerSleeps(t)
  BY <1>s, <1>2 DEF WorkerSleeps
<1>3. CASE Claim(t)
  BY <1>s, <1>3 DEF Claim
<1>4. CASE Evaluate(t)
  BY <1>s, <1>4 DEF Evaluate
<1>5. CASE EvaluateFails(t)
  BY <1>s, <1>5 DEF EvaluateFails
<1>6. CASE Publish(t)
  BY <1>s, <1>6 DEF Publish
<1>7. CASE Discard(t)
  BY <1>s, <1>7 DEF Discard
<1>8. CASE AnnounceResult(t)
  BY <1>s, <1>8 DEF AnnounceResult
<1>9. CASE Record(t)
  BY <1>s, <1>9 DEF Record
<1>10. CASE AnnounceFailure(t)
  BY <1>s, <1>10 DEF AnnounceFailure
<1>11. QED
  BY <1>1, <1>2, <1>3, <1>4, <1>5, <1>6, <1>7, <1>8, <1>9, <1>10 DEF WorkerStep

(* A step of a worker keeps the ring. *)
LEMMA WorkerKeepsRingInv ==
  ASSUME ExecutorInv, NEW t \in Threads, WorkerStep(t)
  PROVE  RingInv'
<1> USE DEF ExecutorInv, TypeOK, RingInv, Owing, Threads, NoTuple, Tuples,
            WorkerGoes, NotifyWorkers, NotifyCaller, Filled, Result, arguments, calling, shared
<1>s. /\ Jobs \in Nat /\ Window \in Nat
      /\ Jobs <= requested /\ Jobs <= count /\ Window <= count
      /\ requested > 0 /\ count > 0 => Jobs > 0 /\ Window > 0
      /\ Jobs' = Jobs /\ Window' = Window /\ MaxJobs \in Nat
  BY Sizes, SizesKept, ArgumentsAssumption DEF WorkerStep, Leave, WorkerSleeps, Claim, Evaluate, EvaluateFails, Publish, Discard, AnnounceResult, Record, AnnounceFailure
<1>r. Window > 0 =>
        /\ \A a \in Nat : SlotOf(a, Window) \in 0 .. Window - 1
        /\ \A a, b \in Nat :
             SlotOf(a, Window) = SlotOf(b, Window) /\ a < b + Window /\ b < a + Window => a = b
  BY <1>s, Ring
<1>1. CASE Leave(t)
  BY <1>s, <1>1 DEF Leave
<1>2. CASE WorkerSleeps(t)
  BY <1>s, <1>2 DEF WorkerSleeps
<1>3. CASE Claim(t)
  <2>1. next \in Tuples /\ next' = next + 1 /\ consumed' = consumed /\ slots' = slots
    BY <1>3 DEF Claim
  <2>2. Window \in Nat /\ Window > 0 /\ next \in Nat
    BY <1>s, <1>3 DEF Claim, HasRoom
  <2>3. SlotOf(next, Window) \in 0 .. Window - 1
    BY <1>r, <2>2
  <2>4. ~ slots[SlotOf(next, Window)].ready
    <3> SUFFICES ASSUME slots[SlotOf(next, Window)].ready PROVE FALSE
      OBVIOUS
    <3> DEFINE v == slots[SlotOf(next, Window)].value
    <3>1. v \in consumed .. next - 1 /\ SlotOf(v, Window) = SlotOf(next, Window)
      BY <2>3
    <3>2. v < next + Window /\ next < v + Window
      BY <1>3, <2>2, <3>1 DEF Claim, HasRoom
    <3>3. v \in Nat
      BY <3>1
    <3>4. v = next
      BY <1>r, <2>2, <3>1, <3>2, <3>3
    <3>5. QED
      BY <2>2, <3>1, <3>4
  <2>5. Owing' = Owing \cup {t} /\ t \notin Owing
    BY <1>3 DEF Claim
  <2>6. /\ index'[t] = next
        /\ \A u \in Owing : index'[u] = index[u]
    BY <1>3, <2>5 DEF Claim
  <2>7. QED
    BY <1>s, <1>3, <2>1, <2>4, <2>5, <2>6 DEF Claim, HasRoom
<1>4. CASE Evaluate(t)
  BY <1>s, <1>4 DEF Evaluate
<1>5. CASE EvaluateFails(t)
  BY <1>s, <1>5 DEF EvaluateFails
<1>6. CASE Publish(t)
  <2>1. t \in Owing /\ Owing' = Owing \ {t}
    BY <1>6 DEF Publish
  <2>2. index[t] \in consumed .. next - 1 /\ index[t] \in Nat
    BY <2>1
  <2>3. Window \in Nat /\ Window > 0
    BY <1>s, <2>2
  <2>4. SlotOf(index[t], Window) \in 0 .. Window - 1
    BY <1>r, <2>2, <2>3
  <2>5. ASSUME NEW u \in Owing, u # t
        PROVE  SlotOf(index[u], Window) # SlotOf(index[t], Window)
    <3>1. index[u] \in consumed .. next - 1 /\ index[u] # index[t]
      BY <2>1, <2>5
    <3>2. index[u] < index[t] + Window /\ index[t] < index[u] + Window
      BY <1>s, <2>2, <3>1
    <3>3. QED
      BY <1>r, <2>2, <2>3, <3>1, <3>2
  <2>6. ASSUME NEW s \in DOMAIN slots, slots'[s].ready
        PROVE  slots'[s].value \in consumed .. next - 1 /\ SlotOf(slots'[s].value, Window) = s
    BY <1>6, <2>2, <2>4, <2>6 DEF Publish
  <2>7. ASSUME NEW u \in Owing'
        PROVE  ~ slots'[SlotOf(index[u], Window)].ready
    <3>1. u \in Owing /\ u # t /\ SlotOf(index[u], Window) # SlotOf(index[t], Window)
      BY <2>1, <2>5, <2>7
    <3>2. index[u] \in Nat
      BY <3>1
    <3>3. SlotOf(index[u], Window) \in 0 .. Window - 1
      BY <1>r, <2>3, <3>2
    <3>4. QED
      BY <1>6, <3>1, <3>3 DEF Publish
  <2>8. UNCHANGED <<turn, index, next, consumed, failure>> /\ DOMAIN slots' = DOMAIN slots
    BY <1>6 DEF Publish
  <2>9. QED
    BY <1>s, <2>1, <2>6, <2>7, <2>8
<1>7. CASE Discard(t)
  BY <1>s, <1>7 DEF Discard
<1>8. CASE AnnounceResult(t)
  BY <1>s, <1>8 DEF AnnounceResult
<1>9. CASE Record(t)
  <2>1. t \in Owing /\ Owing' = Owing \ {t}
    BY <1>9 DEF Record
  <2>2. turn <= consumed
    <3>1. t <= made /\ made # 0 /\ worker[t] # "ended"
      BY <1>9 DEF Record, ThreadsInv
    <3>2. caller \notin {"check", "evaluate", "returned", "threw"}
      BY <1>9, <3>1 DEF ThreadsInv, Ended
    <3>3. caller = "consume" => Jobs # 1
      BY <3>1 DEF ThreadsInv
    <3>4. QED
      BY <1>s, <3>2, <3>3 DEF CallerInv, CallerPlaces, PoolPlaces
  <2>3. QED
    BY <1>s, <1>9, <2>1, <2>2 DEF Record
<1>10. CASE AnnounceFailure(t)
  BY <1>s, <1>10 DEF AnnounceFailure
<1>11. QED
  BY <1>1, <1>2, <1>3, <1>4, <1>5, <1>6, <1>7, <1>8, <1>9, <1>10 DEF WorkerStep

(* A spurious wake-up only sends one thread back to its predicate. *)
LEMMA SpuriousKeeps ==
  ASSUME ExecutorInv, SpuriousWake
  PROVE  ExecutorInv'
<1> USE DEF ExecutorInv, SpuriousWake, CallerGoes, WorkerGoes, arguments, shared
<1>1. Jobs' = Jobs /\ Window' = Window
  BY SizesKept
<1>2. TypeOK'
  BY <1>1 DEF TypeOK, CallerPlaces, WorkerPlaces, Slot, Tuples
<1>3. CallerInv'
  BY <1>1 DEF CallerInv, PoolPlaces
<1>4. ThreadsInv'
  <2>1. CASE caller = "asleep" /\ caller' = "take" /\ UNCHANGED worker
    BY <1>1, <2>1 DEF TypeOK, ThreadsInv, Ended
  <2>2. ASSUME NEW t \in Threads, WorkerGoes(t, "asleep", "claim"), UNCHANGED caller
        PROVE  ThreadsInv'
    <3>1. t <= made /\ ~ Ended
      BY <2>2 DEF TypeOK, ThreadsInv, Threads
    <3>2. QED
      BY <1>1, <2>2, <3>1 DEF TypeOK, ThreadsInv, Ended, Threads
  <2>3. QED
    BY <2>1, <2>2
<1>5. RingInv'
  <2>1. Owing' = Owing
    BY DEF TypeOK, Owing
  <2>2. QED
    BY <1>1, <2>1 DEF RingInv
<1>6. QED
  BY <1>2, <1>3, <1>4, <1>5

(* A step that changes nothing keeps the invariant. *)
LEMMA StutterKeeps ==
  ASSUME ExecutorInv, UNCHANGED vars
  PROVE  ExecutorInv'
<1> USE DEF ExecutorInv, vars, arguments, calling, working, shared
<1>1. Jobs' = Jobs /\ Window' = Window
  BY SizesKept
<1>2. QED
  BY <1>1 DEF TypeOK, CallerInv, ThreadsInv, RingInv, Tuples, Owing, Ended, Slot

(* Every step of the caller, of a worker or of the system keeps the invariant. *)
LEMMA NextInv == ExecutorInv /\ [Next]_vars => ExecutorInv'
<1> SUFFICES ASSUME ExecutorInv, [Next]_vars PROVE ExecutorInv'
  OBVIOUS
<1>1. CASE CallerStep
  BY <1>1, CallerKeepsTypeOK, CallerKeepsCallerInv, CallerKeepsThreadsInv, CallerKeepsRingInv
     DEF ExecutorInv
<1>2. ASSUME NEW t \in Threads, WorkerStep(t) PROVE ExecutorInv'
  BY <1>2, WorkerKeepsTypeOK, WorkerKeepsCallerInv, WorkerKeepsThreadsInv, WorkerKeepsRingInv
     DEF ExecutorInv
<1>3. CASE SpuriousWake
  BY <1>3, SpuriousKeeps
<1>4. CASE UNCHANGED vars
  BY <1>4, StutterKeeps
<1>5. QED
  BY <1>1, <1>2, <1>3, <1>4 DEF Next, Over

(* The invariant holds for every number of tuples, jobs and slots. *)
THEOREM ExecutorInvariant == SafeSpec => []ExecutorInv
<1>1. Init => ExecutorInv
  BY InitInv
<1>2. ExecutorInv /\ [Next]_vars => ExecutorInv'
  BY NextInv
<1>3. QED
  BY <1>1, <1>2, PTL DEF SafeSpec

(* Every variable keeps its type, whatever the arguments: no slot outside the  *)
(* ring is written and no tuple past the last one is claimed.                  *)
THEOREM TypeCorrect == SafeSpec => []TypeOK
<1>1. ExecutorInv => TypeOK
  BY DEF ExecutorInv
<1>2. QED
  BY <1>1, ExecutorInvariant, PTL

-----------------------------------------------------------------------------
(* What a failure holds back: neither the tuple that failed nor a later one is *)
(* delivered, and a call that returns has no failure.                          *)
THEOREM FailureHeldBack == SafeSpec => []FailureHoldsBack
<1>1. ExecutorInv => FailureHoldsBack
  BY DEF ExecutorInv, TypeOK, CallerInv, RingInv, FailureHoldsBack
<1>2. QED
  BY <1>1, ExecutorInvariant, PTL

(* No worker outlives the call, on any of its exits. *)
THEOREM WorkersJoined == SafeSpec => []JoinedOnExit
<1>1. ExecutorInv => JoinedOnExit
  BY DEF ExecutorInv, TypeOK, ThreadsInv, JoinedOnExit, Threads
<1>2. QED
  BY <1>1, ExecutorInvariant, PTL

-----------------------------------------------------------------------------
(* A result waits in its slot until the caller takes it: the only step that    *)
(* fills a slot finds it free, because the window never holds two tuples that  *)
(* share a slot.                                                               *)
THEOREM ResultsKept == SafeSpec => NoResultOverwritten
<1> DEFINE Kept == \A s \in DOMAIN slots : slots[s].ready => slots'[s] \in {slots[s], Free}
<1>1. ASSUME ExecutorInv, [Next]_vars
      PROVE  [Kept]_vars
  <2> USE <1>1 DEF vars, arguments, calling, working, shared
  <2>1. CASE CallerStep
    <3>1. CASE Take
      BY <3>1 DEF Take, ExecutorInv, TypeOK
    <3>2. CASE ~ Take
      BY <2>1, <3>2 DEF CallerStep, RejectJobs, Choose, EvaluateInline, ReturnInline, CreateThread,
         CreateThreadFails, CallerSleeps, Rethrow, AnnounceRoom, Consume, ConsumeFails, LoopEnds,
         RaiseStop, AnnounceStop, Join
    <3>3. QED
      BY <3>1, <3>2
  <2>2. ASSUME NEW t \in Threads, WorkerStep(t)
        PROVE  Kept
    <3>1. CASE Publish(t)
      <4>1. ~ slots[SlotOf(index[t], Window)].ready
        BY <3>1 DEF Publish, WorkerGoes, ExecutorInv, RingInv, Owing
      <4>2. QED
        BY <3>1, <4>1 DEF Publish, ExecutorInv, TypeOK
    <3>2. CASE ~ Publish(t)
      BY <2>2, <3>2 DEF WorkerStep, Leave, WorkerSleeps, Claim, Evaluate, EvaluateFails, Discard,
         AnnounceResult, Record, AnnounceFailure
    <3>3. QED
      BY <3>1, <3>2
  <2>3. CASE SpuriousWake
    BY <2>3 DEF SpuriousWake
  <2>4. CASE UNCHANGED vars
    BY <2>4
  <2>5. QED
    BY <2>1, <2>2, <2>3, <2>4 DEF Next, Over
<1>2. QED
  BY <1>1, ExecutorInvariant, PTL DEF SafeSpec, NoResultOverwritten

-----------------------------------------------------------------------------
(* The pool implements OrderedDelivery: whatever the threads do, the caller    *)
(* sees the results of the sequential loop.                                    *)
THEOREM OrderedDeliveryImplemented == SafeSpec => DeliversInOrder
<1>1. Init => Delivery!Init
  BY ArgumentsAssumption DEF Init, Delivery!Init, Ended
<1>2. ASSUME ExecutorInv, ExecutorInv', [Next]_vars
      PROVE  [Delivery!Next]_(Delivery!delivery)
  <2> USE <1>2 DEF vars, arguments, calling, working, shared, Delivery!delivery, Ended
  <2>1. CASE CallerStep
    <3> USE DEF CallerGoes
    <3>1. CASE Consume
      <4>1. held = Len(delivered) /\ Len(delivered) < count
        BY <3>1 DEF Consume, ExecutorInv, TypeOK, CallerInv
      <4>2. Delivery!Deliver
        BY <3>1, <4>1 DEF Consume, Delivery!Deliver
      <4>3. QED
        BY <4>2 DEF Delivery!Next
    <3>2. CASE caller' = "returned" /\ ~ Consume
      <4>1. Len(delivered') = count' /\ caller # "returned" /\ caller # "threw"
        BY <2>1, <3>2 DEF ExecutorInv, CallerInv, CallerStep, RejectJobs, Choose, EvaluateInline,
           ReturnInline, CreateThread, CreateThreadFails, CallerSleeps, Rethrow, Take, AnnounceRoom,
           ConsumeFails, LoopEnds, RaiseStop, AnnounceStop, Join
      <4>2. UNCHANGED <<count, delivered>>
        BY <2>1, <3>2 DEF CallerStep, RejectJobs, Choose, EvaluateInline, ReturnInline, CreateThread,
           CreateThreadFails, CallerSleeps, Rethrow, Take, AnnounceRoom, ConsumeFails, LoopEnds,
           RaiseStop, AnnounceStop, Join
      <4>3. Delivery!Return
        BY <3>2, <4>1, <4>2 DEF Delivery!Return
      <4>4. QED
        BY <4>3 DEF Delivery!Next
    <3>3. CASE caller' # "returned" /\ ~ Consume
      <4>1. UNCHANGED <<count, delivered>> /\ caller # "returned" /\ caller # "threw"
        BY <2>1, <3>3 DEF CallerStep, RejectJobs, Choose, EvaluateInline, ReturnInline, CreateThread,
           CreateThreadFails, CallerSleeps, Rethrow, Take, AnnounceRoom, ConsumeFails, LoopEnds,
           RaiseStop, AnnounceStop, Join
      <4>2. Delivery!Throw \/ UNCHANGED Delivery!delivery
        BY <3>3, <4>1 DEF Delivery!Throw
      <4>3. QED
        BY <4>2 DEF Delivery!Next
    <3>4. QED
      BY <3>1, <3>2, <3>3
  <2>2. ASSUME NEW t \in Threads, WorkerStep(t)
        PROVE  UNCHANGED Delivery!delivery
    <3>1. UNCHANGED <<count, delivered>> /\ caller' \in {caller, NotifyCaller}
      BY <2>2 DEF WorkerStep, Leave, WorkerSleeps, Claim, Evaluate, EvaluateFails, Publish, Discard,
         AnnounceResult, Record, AnnounceFailure
    <3>2. QED
      BY <3>1 DEF NotifyCaller
  <2>3. CASE SpuriousWake
    BY <2>3 DEF SpuriousWake, CallerGoes
  <2>4. CASE UNCHANGED vars
    BY <2>4
  <2>5. QED
    BY <2>1, <2>2, <2>3, <2>4 DEF Next, Over
<1>3. QED
  BY <1>1, <1>2, ExecutorInvariant, PTL DEF SafeSpec, DeliversInOrder, Delivery!Safe

-----------------------------------------------------------------------------
(* The documented bound on buffered results: each worker that owes a result    *)
(* has a free slot of its own, so owed and waiting results fit in the ring.    *)
THEOREM BufferBounded == SafeSpec => []BoundedBuffer
<1>1. ASSUME ExecutorInv
      PROVE  BoundedBuffer
  <2> DEFINE Ready == {s \in DOMAIN slots : slots[s].ready}
             Idle  == {s \in DOMAIN slots : ~ slots[s].ready}
             own   == [t \in Owing |-> SlotOf(index[t], Window)]
  <2> USE <1>1 DEF ExecutorInv
  <2>1. /\ Window \in Nat /\ Window <= Jobs * SlotsPerJob /\ Jobs * SlotsPerJob \in Nat
        /\ DOMAIN slots = 0 .. Window - 1
    BY Sizes, ArgumentsAssumption DEF TypeOK
  <2>2. IsFiniteSet(DOMAIN slots) /\ Cardinality(DOMAIN slots) = Window
    BY <2>1, FS_Interval
  <2>3. IsFiniteSet(Ready) /\ IsFiniteSet(Idle) /\ Cardinality(Ready) \in Nat /\ Cardinality(Idle) \in Nat
    BY <2>2, FS_Subset, FS_CardinalityType
  <2>4. Cardinality(Ready) + Cardinality(Idle) = Window
    <3>1. Ready \cup Idle = DOMAIN slots /\ Ready \cap Idle = {}
      OBVIOUS
    <3>2. Cardinality(Ready \cup Idle) = Cardinality(Ready) + Cardinality(Idle) - Cardinality(Ready \cap Idle)
      BY <2>3, FS_Union
    <3>3. Cardinality(Ready \cap Idle) = 0
      BY <3>1, FS_EmptySet
    <3>4. QED
      BY <2>2, <2>3, <3>1, <3>2, <3>3
  <2>5. ASSUME NEW t \in Owing
        PROVE  /\ index[t] \in Nat /\ index[t] \in consumed .. next - 1 /\ Window > 0
               /\ own[t] \in Idle
    <3>1. index[t] \in Nat /\ index[t] \in consumed .. next - 1 /\ ~ slots[SlotOf(index[t], Window)].ready
      BY DEF RingInv, TypeOK, Tuples
    <3>2. Window > 0
      BY <2>1, <3>1 DEF RingInv, TypeOK
    <3>3. QED
      BY <2>1, <3>1, <3>2, Ring
  <2>6. ASSUME NEW t \in Owing, NEW u \in Owing, own[t] = own[u]
        PROVE  t = u
    <3>1. index[t] < index[u] + Window /\ index[u] < index[t] + Window
      BY <2>1, <2>5 DEF RingInv, TypeOK
    <3>2. index[t] = index[u]
      BY <2>1, <2>5, <2>6, <3>1, Ring
    <3>3. QED
      BY <3>2 DEF RingInv
  <2>7. own \in Injection(Owing, Idle)
    BY <2>5, <2>6 DEF Injection, IsInjective
  <2>8. Cardinality(Owing) <= Cardinality(Idle) /\ Cardinality(Owing) \in Nat
    BY <2>3, <2>7, FS_Injection, FS_CardinalityType
  <2>9. QED
    BY <2>1, <2>3, <2>4, <2>8 DEF BoundedBuffer
<1>2. QED
  BY <1>1, ExecutorInvariant, PTL

-----------------------------------------------------------------------------
(* No lost wake-up, for every number of threads: what makes a predicate true   *)
(* is always followed by a notification that has not been given yet.           *)
THEOREM WakeupsKept == SafeSpec => []NoLostWakeup
<1> DEFINE rings == \E t \in Threads : worker[t] \in {"announce", "alarm"}
           workersRung == (\E t \in Threads : worker[t] = "asleep") /\ WorkerMayGo
                            => rings \/ caller \in {"announce", "alarm"}
           callerRung  == caller = "asleep" /\ CallerMayGo => rings
<1>0. NoLostWakeup <=> workersRung /\ callerRung
  BY DEF NoLostWakeup
<1>1. Init => NoLostWakeup
  BY DEF Init, NoLostWakeup
<1>2. ASSUME ExecutorInv, NoLostWakeup, [Next]_vars
      PROVE  NoLostWakeup'
  <2> USE DEF WorkerMayGo, CallerMayGo, HasRoom, arguments, calling, working, shared
  <2>g. SUFFICES workersRung' /\ callerRung'
    BY DEF NoLostWakeup
  <2>0. workersRung /\ callerRung /\ worker \in [Threads -> WorkerPlaces]
    BY <1>2, <1>0 DEF ExecutorInv, TypeOK
  <2>k. UNCHANGED arguments => Window' = Window
    BY SizesKept
  <2>1. CASE CallerStep
    <3> USE DEF CallerGoes
    <3>1. CASE AnnounceRoom \/ AnnounceStop
      BY <2>0, <3>1 DEF AnnounceRoom, AnnounceStop, NotifyWorkers
    <3>2. CASE Take
      BY <3>2 DEF Take
    <3>3. CASE RaiseStop
      BY <3>3 DEF RaiseStop
    <3>4. CASE CreateThread
      <4>1. \A t \in Threads : t = made + 1 => worker[t] = "unborn"
        BY <1>2, <3>4 DEF ExecutorInv, TypeOK, ThreadsInv
      <4>2. \A t \in Threads : t # made + 1 => worker'[t] = worker[t]
        BY <2>0, <3>4 DEF CreateThread
      <4>3. rings => rings'
        BY <4>1, <4>2
      <4>4. worker[made + 1] = "asleep" \/ worker'[made + 1] # "asleep"
        BY <2>0, <3>4, <4>1 DEF CreateThread
      <4>5. (\E t \in Threads : worker'[t] = "asleep") => \E t \in Threads : worker[t] = "asleep"
        BY <4>2, <4>4
      <4>6. QED
        BY <2>0, <2>k, <3>4, <4>3, <4>5 DEF CreateThread
    <3>5. CASE CallerSleeps
      BY <2>0, <2>k, <3>5 DEF CallerSleeps
    <3>6. CASE ~ (AnnounceRoom \/ AnnounceStop \/ Take \/ RaiseStop \/ CreateThread \/ CallerSleeps)
      BY <2>0, <2>k, <2>1, <3>6 DEF CallerStep, RejectJobs, Choose, EvaluateInline, ReturnInline,
         CreateThreadFails, Rethrow, Consume, ConsumeFails, LoopEnds, Join
    <3>7. QED
      BY <3>1, <3>2, <3>3, <3>4, <3>5, <3>6
  <2>2. ASSUME NEW t \in Threads, WorkerStep(t)
        PROVE  workersRung' /\ callerRung'
    <3> USE DEF WorkerGoes
    <3>1. CASE AnnounceResult(t) \/ AnnounceFailure(t)
      BY <2>0, <3>1 DEF AnnounceResult, AnnounceFailure, NotifyWorkers, NotifyCaller
    <3>2. CASE Publish(t) \/ Record(t)
      <4>1. worker'[t] \in {"announce", "alarm"}
        BY <2>0, <3>2 DEF Publish, Record
      <4>2. QED
        BY <4>1
    <3>3. CASE WorkerSleeps(t)
      BY <2>0, <2>k, <3>3 DEF WorkerSleeps
    <3>4. CASE Claim(t)
      BY <2>0, <2>k, <3>4 DEF Claim
    <3>5. CASE Leave(t) \/ Evaluate(t) \/ EvaluateFails(t) \/ Discard(t)
      BY <2>0, <2>k, <3>5 DEF Leave, Evaluate, EvaluateFails, Discard
    <3>6. QED
      BY <2>2, <3>1, <3>2, <3>3, <3>4, <3>5 DEF WorkerStep
  <2>3. CASE SpuriousWake
    BY <2>0, <2>k, <2>3 DEF SpuriousWake, CallerGoes, WorkerGoes
  <2>4. CASE UNCHANGED vars
    BY <2>0, <2>k, <2>4 DEF vars
  <2>5. QED
    BY <1>2, <2>1, <2>2, <2>3, <2>4 DEF Next, Over
<1>3. QED
  BY <1>1, <1>2, ExecutorInvariant, PTL DEF SafeSpec
=============================================================================
