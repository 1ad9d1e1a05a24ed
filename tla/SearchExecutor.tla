--------------------------- MODULE SearchExecutor ---------------------------
(***************************************************************************)
(* runOrderedSearch (src/Cli/SearchExecutor.cpp): a fixed pool of worker   *)
(* threads evaluates starting tuples out of order while the calling thread *)
(* consumes their results in tuple order, through a ring of slots that     *)
(* bounds how far the workers may run ahead.  One mutex protects the       *)
(* shared state and one condition variable is used by both sides.          *)
(*                                                                         *)
(* One action is one critical section, one callback or one notify_all(),   *)
(* so that every interleaving between an unlock and the notification that  *)
(* follows it is explored.  A thread that waits on the condition variable  *)
(* is "asleep" until a notification (or a spurious wake-up) sends it back  *)
(* to the section in which it evaluates its predicate.                     *)
(***************************************************************************)
EXTENDS Integers, Sequences, FiniteSets

CONSTANTS
  Counts,       \* numbers of starting tuples a caller may ask for
  JobRequests,  \* values of the `jobs` argument a caller may pass
  MaxJobs,      \* 256 in the code
  SlotsPerJob   \* 8 in the code

ASSUME ArgumentsAssumption ==
  /\ Counts \subseteq Nat
  /\ JobRequests \subseteq Nat
  /\ MaxJobs \in Nat \ {0}
  /\ SlotsPerJob \in Nat \ {0}

VARIABLES
  count, requested,  \* the arguments of the call
  caller,            \* where the calling thread is
  made,              \* how many workers have been created
  turn,              \* the caller's loop index: the tuple it delivers next
  held,              \* the caller's local `value`
  error,             \* what the call is about to throw
  worker,            \* where each worker thread is
  index,             \* each worker's local `index`
  slots,             \* the ring of results
  next, consumed,    \* tuples claimed by workers, tuples taken by the caller
  stop,              \* workers must leave
  failure,           \* the tuple whose exception was recorded first
  delivered          \* history: the results consume() accepted, in order

arguments == <<count, requested>>
calling   == <<caller, made, turn, held, error, delivered>>
working   == <<worker, index>>
shared    == <<slots, next, consumed, stop, failure>>
vars      == <<arguments, calling, working, shared>>

-----------------------------------------------------------------------------
NoTuple == -1
Threads == 1 .. MaxJobs

(* The result of a tuple is identified by the tuple. *)
Result(tuple) == tuple

Jobs   == IF requested <= count THEN requested ELSE count
Window == IF count <= Jobs * SlotsPerJob THEN count ELSE Jobs * SlotsPerJob

Free         == [value |-> NoTuple, ready |-> FALSE]
Filled(v)    == [value |-> v, ready |-> TRUE]
SlotOf(tuple, size) == tuple % size

(* The predicates of the two waits. *)
\* Mutant of HasRoom: one tuple too many.
HasRoomForOneMore == next - consumed <= Window
HasRoom       == next - consumed < Window
WorkerMayGo   == stop \/ next = count \/ HasRoom
CallerMayGo   == failure # NoTuple \/ slots[SlotOf(turn, Window)].ready

(* notify_all(): every sleeping thread evaluates its predicate again. *)
NotifyWorkers(at) == [t \in Threads |-> IF at[t] = "asleep" THEN "claim" ELSE at[t]]
NotifyCaller      == IF caller = "asleep" THEN "take" ELSE caller

-----------------------------------------------------------------------------
Init ==
  /\ count \in Counts
  /\ requested \in JobRequests
  /\ caller = "check"
  /\ made = 0 /\ turn = 0 /\ held = NoTuple /\ error = "none"
  /\ worker = [t \in Threads |-> "unborn"]
  /\ index = [t \in Threads |-> NoTuple]
  /\ slots = [s \in 0 .. Window - 1 |-> Free]
  /\ next = 0 /\ consumed = 0 /\ stop = FALSE /\ failure = NoTuple
  /\ delivered = <<>>

-----------------------------------------------------------------------------
(***************************************************************************)
(* The calling thread.                                                     *)
(***************************************************************************)
CallerGoes(from, to) == caller = from /\ caller' = to

(* A `jobs` argument outside 1 .. 256 is refused. *)
RejectJobs ==
  /\ CallerGoes("check", "threw")
  /\ requested = 0 \/ requested > MaxJobs
  /\ error' = "jobs"
  /\ UNCHANGED <<arguments, made, turn, held, delivered, working, shared>>

(* No tuple, one job, or a pool. *)
Choose ==
  /\ CallerGoes("check", CASE count = 0 -> "returned"
                           [] count # 0 /\ Jobs = 1 -> "evaluate"
                           [] OTHER -> "create")
  /\ requested \in 1 .. MaxJobs
  /\ UNCHANGED <<arguments, made, turn, held, error, delivered, working, shared>>

(* One job: the caller evaluates and consumes each tuple itself. *)
EvaluateInline ==
  /\ \/ /\ CallerGoes("evaluate", "consume")
        /\ held' = Result(turn)
        /\ UNCHANGED error
     \/ /\ CallerGoes("evaluate", "threw")
        /\ error' = "evaluate"
        /\ UNCHANGED held
  /\ turn < count
  /\ UNCHANGED <<arguments, made, turn, delivered, working, shared>>

ReturnInline ==
  /\ CallerGoes("evaluate", "returned")
  /\ turn = count
  /\ UNCHANGED <<arguments, made, turn, held, error, delivered, working, shared>>

(* workers.emplace_back(worker): the new thread may run at once. *)
CreateThread ==
  /\ CallerGoes("create", IF made + 1 = Jobs THEN "take" ELSE "create")
  /\ made < Jobs
  /\ made' = made + 1
  /\ worker' = [worker EXCEPT ![made + 1] = "claim"]
  /\ UNCHANGED <<arguments, turn, held, error, delivered, index, shared>>

\* Mutant of CreateThreadFails: the exception leaves without join().
CreateThreadFailsUnjoined ==
  /\ CallerGoes("create", "threw")
  /\ made < Jobs
  /\ error' = "thread"
  /\ UNCHANGED <<arguments, made, turn, held, delivered, working, shared>>

CreateThreadFails ==
  /\ CallerGoes("create", "stop")
  /\ made < Jobs
  /\ error' = "thread"
  /\ UNCHANGED <<arguments, made, turn, held, delivered, working, shared>>

(* The caller's critical section when neither a failure nor its result is there. *)
CallerSleeps ==
  /\ CallerGoes("take", "asleep")
  /\ turn < count /\ ~ CallerMayGo
  /\ UNCHANGED <<arguments, made, turn, held, error, delivered, working, shared>>

\* Mutant of Rethrow: the loop is left, the exception forgotten.
RethrowNothing ==
  /\ CallerGoes("take", "stop")
  /\ turn < count /\ failure # NoTuple
  /\ UNCHANGED <<arguments, made, turn, held, error, delivered, working, shared>>

(* A recorded failure goes first, even when the result is ready. *)
Rethrow ==
  /\ CallerGoes("take", "stop")
  /\ turn < count /\ failure # NoTuple
  /\ error' = "evaluate"
  /\ UNCHANGED <<arguments, made, turn, held, delivered, working, shared>>

(* The result is moved out of its slot, which makes room for a worker. *)
Take ==
  /\ CallerGoes("take", "announce")
  /\ turn < count /\ failure = NoTuple /\ slots[SlotOf(turn, Window)].ready
  /\ held' = slots[SlotOf(turn, Window)].value
  /\ slots' = [slots EXCEPT ![SlotOf(turn, Window)] = Free]
  /\ consumed' = consumed + 1
  /\ UNCHANGED <<arguments, made, turn, error, delivered, working, next, stop, failure>>

AnnounceRoom ==
  /\ CallerGoes("announce", "consume")
  /\ worker' = NotifyWorkers(worker)
  /\ UNCHANGED <<arguments, made, turn, held, error, delivered, index, shared>>

(* consume(value) accepts the result; the loop goes on. *)
Consume ==
  /\ CallerGoes("consume", IF Jobs = 1 THEN "evaluate" ELSE "take")
  /\ delivered' = Append(delivered, held)
  /\ turn' = turn + 1
  /\ held' = NoTuple
  /\ UNCHANGED <<arguments, made, error, working, shared>>

ConsumeFails ==
  /\ CallerGoes("consume", IF Jobs = 1 THEN "threw" ELSE "stop")
  /\ error' = "consume"
  /\ UNCHANGED <<arguments, made, turn, held, delivered, working, shared>>

(* Every result has been delivered. *)
LoopEnds ==
  /\ CallerGoes("take", "stop")
  /\ turn = count
  /\ UNCHANGED <<arguments, made, turn, held, error, delivered, working, shared>>

(* join(): the flag, the notification, then every thread created so far. *)
RaiseStop ==
  /\ CallerGoes("stop", "alarm")
  /\ stop' = TRUE
  /\ UNCHANGED <<arguments, made, turn, held, error, delivered, working, slots, next, consumed, failure>>

AnnounceStop ==
  /\ CallerGoes("alarm", "join")
  /\ worker' = NotifyWorkers(worker)
  /\ UNCHANGED <<arguments, made, turn, held, error, delivered, index, shared>>

Join ==
  /\ CallerGoes("join", IF error = "none" THEN "returned" ELSE "threw")
  /\ \A t \in 1 .. made : worker[t] = "ended"
  /\ UNCHANGED <<arguments, made, turn, held, error, delivered, working, shared>>

-----------------------------------------------------------------------------
(***************************************************************************)
(* A worker thread.                                                        *)
(***************************************************************************)
WorkerGoes(t, from, to) == worker[t] = from /\ worker' = [worker EXCEPT ![t] = to]

(* First critical section: leave, wait, or claim the next tuple. *)
Leave(t) ==
  /\ WorkerGoes(t, "claim", "ended")
  /\ stop \/ next = count
  /\ UNCHANGED <<arguments, calling, index, shared>>

WorkerSleeps(t) ==
  /\ WorkerGoes(t, "claim", "asleep")
  /\ ~ WorkerMayGo
  /\ UNCHANGED <<arguments, calling, index, shared>>

Claim(t) ==
  /\ WorkerGoes(t, "claim", "evaluate")
  /\ ~ stop /\ next # count /\ HasRoom
  /\ index' = [index EXCEPT ![t] = next]
  /\ next' = next + 1
  /\ UNCHANGED <<arguments, calling, slots, consumed, stop, failure>>

(* evaluate(index), outside the lock. *)
Evaluate(t) ==
  /\ WorkerGoes(t, "evaluate", "publish")
  /\ UNCHANGED <<arguments, calling, index, shared>>

EvaluateFails(t) ==
  /\ WorkerGoes(t, "evaluate", "record")
  /\ UNCHANGED <<arguments, calling, index, shared>>

\* Mutant of Publish: the first slot of the window, not the one of the tuple.
PublishFirst(t) ==
  /\ WorkerGoes(t, "publish", "announce")
  /\ ~ stop
  /\ slots' = [slots EXCEPT ![SlotOf(consumed, Window)] = Filled(Result(index[t]))]
  /\ UNCHANGED <<arguments, calling, index, next, consumed, stop, failure>>

(* Second critical section: fill the slot, or drop the result after a stop. *)
Publish(t) ==
  /\ WorkerGoes(t, "publish", "announce")
  /\ ~ stop
  /\ slots' = [slots EXCEPT ![SlotOf(index[t], Window)] = Filled(Result(index[t]))]
  /\ UNCHANGED <<arguments, calling, index, next, consumed, stop, failure>>

Discard(t) ==
  /\ WorkerGoes(t, "publish", "ended")
  /\ stop
  /\ UNCHANGED <<arguments, calling, index, shared>>

(* notify_all() after the slot was filled. *)
AnnounceResult(t) ==
  /\ worker[t] = "announce"
  /\ worker' = NotifyWorkers([worker EXCEPT ![t] = "claim"])
  /\ caller' = NotifyCaller
  /\ UNCHANGED <<arguments, made, turn, held, error, delivered, index, shared>>

(* The catch block: the first exception is kept, everybody must stop. *)
Record(t) ==
  /\ WorkerGoes(t, "record", "alarm")
  /\ failure' = IF failure = NoTuple THEN index[t] ELSE failure
  /\ stop' = TRUE
  /\ UNCHANGED <<arguments, calling, index, slots, next, consumed>>

\* Mutant of AnnounceFailure: only the workers are told.
AnnounceFailureToWorkers(t) ==
  /\ worker[t] = "alarm"
  /\ worker' = NotifyWorkers([worker EXCEPT ![t] = "ended"])
  /\ UNCHANGED <<arguments, calling, index, shared>>

AnnounceFailure(t) ==
  /\ worker[t] = "alarm"
  /\ worker' = NotifyWorkers([worker EXCEPT ![t] = "ended"])
  /\ caller' = NotifyCaller
  /\ UNCHANGED <<arguments, made, turn, held, error, delivered, index, shared>>

-----------------------------------------------------------------------------
(* wait() may return without a notification; the predicate is then tested again. *)
SpuriousWake ==
  /\ \/ /\ CallerGoes("asleep", "take")
        /\ UNCHANGED worker
     \/ /\ \E t \in Threads : WorkerGoes(t, "asleep", "claim")
        /\ UNCHANGED caller
  /\ UNCHANGED <<arguments, made, turn, held, error, delivered, index, shared>>

CallerStep ==
  \/ RejectJobs \/ Choose \/ EvaluateInline \/ ReturnInline
  \/ CreateThread \/ CreateThreadFails
  \/ CallerSleeps \/ Rethrow \/ Take \/ AnnounceRoom
  \/ Consume \/ ConsumeFails \/ LoopEnds
  \/ RaiseStop \/ AnnounceStop \/ Join

WorkerStep(t) ==
  \/ Leave(t) \/ WorkerSleeps(t) \/ Claim(t)
  \/ Evaluate(t) \/ EvaluateFails(t)
  \/ Publish(t) \/ Discard(t) \/ AnnounceResult(t)
  \/ Record(t) \/ AnnounceFailure(t)

Ended == caller \in {"returned", "threw"}

(* The call is over; the model stutters. *)
Over == Ended /\ UNCHANGED vars

Next == CallerStep \/ (\E t \in Threads : WorkerStep(t)) \/ SpuriousWake \/ Over

(***************************************************************************)
(* Every thread that can run eventually does, and the callbacks return.    *)
(* Nothing is assumed of spurious wake-ups: a wake-up the code forgets to  *)
(* give is never replaced by one of them.                                  *)
(***************************************************************************)
Fairness == WF_vars(CallerStep) /\ \A t \in Threads : WF_vars(WorkerStep(t))

SafeSpec == Init /\ [][Next]_vars
Spec     == SafeSpec /\ Fairness
-----------------------------------------------------------------------------
(***************************************************************************)
(* Properties.                                                             *)
(***************************************************************************)
CallerPlaces == {"check", "evaluate", "create", "take", "asleep", "announce", "consume",
                 "stop", "alarm", "join", "returned", "threw"}
WorkerPlaces == {"unborn", "claim", "asleep", "evaluate", "publish", "announce",
                 "record", "alarm", "ended"}
Tuples == 0 .. count - 1
Slot   == [value : Tuples \cup {NoTuple}, ready : BOOLEAN]

(* The type invariant. *)
TypeOK ==
  /\ count \in Nat /\ requested \in Nat
  /\ caller \in CallerPlaces
  /\ made \in 0 .. MaxJobs
  /\ turn \in 0 .. count
  /\ held \in Tuples \cup {NoTuple}
  /\ error \in {"none", "jobs", "thread", "evaluate", "consume"}
  /\ worker \in [Threads -> WorkerPlaces]
  /\ index \in [Threads -> Tuples \cup {NoTuple}]
  /\ slots \in [0 .. Window - 1 -> Slot]
  /\ next \in 0 .. count /\ consumed \in 0 .. count
  /\ stop \in BOOLEAN
  /\ failure \in Tuples \cup {NoTuple}
  /\ delivered \in Seq(Tuples)

(* Workers that still owe the result of the tuple they claimed. *)
Owing == {t \in Threads : worker[t] \in {"evaluate", "publish", "record"}}

(* The documented bound of SearchExecutor.hpp: results that are finished or   *)
(* being computed, and that the caller has not taken, are at most 8 * jobs.   *)
BoundedBuffer ==
  caller \notin {"check", "returned", "threw"} =>
    Cardinality(Owing) + Cardinality({s \in DOMAIN slots : slots[s].ready}) <= Jobs * SlotsPerJob

(* A result that is waiting in the ring leaves it only through the caller: no  *)
(* worker, however late, writes over a slot that the window has reused.        *)
NoResultOverwritten ==
  [][\A s \in DOMAIN slots : slots[s].ready => slots'[s] \in {slots[s], Free}]_vars

(* No lost wake-up: a thread sleeps although it may go on only while some      *)
(* thread has left its critical section and is about to call notify_all().     *)
NoLostWakeup ==
  LET workerRings == \E t \in Threads : worker[t] \in {"announce", "alarm"}
  IN  /\ (\E t \in Threads : worker[t] = "asleep") /\ WorkerMayGo
          => workerRings \/ caller \in {"announce", "alarm"}
      /\ caller = "asleep" /\ CallerMayGo => workerRings

(* The tuple whose evaluation failed first, and every later one, is never      *)
(* delivered, and no failure is swallowed: a call that returns has none.       *)
FailureHoldsBack ==
  failure # NoTuple => Len(delivered) <= failure /\ caller # "returned"

(* Workers refer to the caller's locals, so none of them may outlive the call, *)
(* whichever of the exits of runOrderedSearch is taken.                        *)
JoinedOnExit == Ended => \A t \in Threads : worker[t] \in {"unborn", "ended"}

(* runOrderedSearch keeps the promise of OrderedDelivery: delivery in tuple    *)
(* order, exactly once, and a normal return only after the last tuple.         *)
Delivery == INSTANCE OrderedDelivery
              WITH outcome <- IF Ended THEN caller ELSE "running"
DeliversInOrder == Delivery!Safe

(* Every call ends: the pool neither deadlocks nor forgets a sleeping thread,  *)
(* with or without a failure of a callback or of thread creation.              *)
CallEnds == <>Ended

-----------------------------------------------------------------------------
(***************************************************************************)
(* The inductive invariant behind the properties above.                    *)
(***************************************************************************)
PoolPlaces == {"create", "take", "asleep", "announce", "stop", "alarm", "join"}

(* What the caller's place says of its loop: where the index stands relative   *)
(* to the shared counter, and that the delivered results are the first ones.   *)
CallerInv ==
  /\ Len(delivered) = turn
  /\ \A k \in 1 .. turn : delivered[k] = k - 1
  /\ caller \in PoolPlaces \cup {"evaluate", "consume"} => requested \in 1 .. MaxJobs /\ count > 0
  /\ caller \in PoolPlaces => Jobs # 1
  /\ caller = "evaluate" => Jobs = 1
  /\ caller = "create" => turn = 0 /\ consumed = 0
  /\ caller \in {"take", "asleep"} => consumed = turn
  /\ caller \in {"announce", "consume"} => turn < count /\ held = turn
  /\ caller \in {"announce", "consume"} /\ Jobs # 1 => consumed = turn + 1
  /\ caller \in {"stop", "alarm", "join"} => turn <= consumed
  /\ caller \in {"stop", "alarm", "join"} /\ error = "none" => turn = count
  /\ caller = "returned" => turn = count

(* Which threads exist at each place of the caller. *)
ThreadsInv ==
  /\ \A t \in Threads : worker[t] = "unborn" <=> t > made
  /\ caller = "check" => turn = 0 /\ consumed = 0
  /\ caller \in {"check", "evaluate"} => made = 0
  /\ caller = "consume" /\ Jobs = 1 => made = 0
  /\ caller = "create" => made < Jobs
  /\ made = 0 => failure = NoTuple
  /\ Ended => \A t \in 1 .. made : worker[t] = "ended"

(* The window: every tuple between the two counters has one owner, the worker  *)
(* that owes it or the slot that keeps it, and no two of them share a slot.    *)
RingInv ==
  /\ consumed <= next /\ next - consumed <= Window
  /\ \A s \in DOMAIN slots : slots[s].ready =>
        slots[s].value \in consumed .. next - 1 /\ SlotOf(slots[s].value, Window) = s
  /\ \A t \in Owing : index[t] \in consumed .. next - 1 /\ ~ slots[SlotOf(index[t], Window)].ready
  /\ \A t, u \in Owing : index[t] = index[u] => t = u
  /\ failure # NoTuple => failure \in consumed .. next - 1 /\ turn <= consumed

ExecutorInv == TypeOK /\ CallerInv /\ ThreadsInv /\ RingInv
=============================================================================
