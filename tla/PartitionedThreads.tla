------------------------- MODULE PartitionedThreads -------------------------
(***************************************************************************)
(* The threads of a partitioned job (engine/partitioned_pipeline.cpp, Run) *)
(* and the bounded queues between them (engine/bounded_queue.h): the main  *)
(* thread that starts and joins, the router, the workers, the stop signal, *)
(* and the cancellation protocol of a thread that throws.  What a worker   *)
(* does with a batch is KeyedProcessor's business; here it succeeds or     *)
(* throws.                                                                 *)
(*                                                                         *)
(* Threads are numbered: workers 0 .. NumWorkers - 1, then the router, and *)
(* last the thread that called Run.  The queues are modelled down to their *)
(* condition variables: a thread whose predicate is false goes to sleep    *)
(* atomically with the release of the mutex, and whoever changes the       *)
(* predicate notifies in a step of its own, after it has unlocked.         *)
(***************************************************************************)
EXTENDS Integers, Sequences

CONSTANTS NumWorkers,
          QueueCapacity, \* config.queue_capacity
          NumBatches,    \* source batches before the end of input
          Checkpointing  \* config.checkpoint_dir is set

ASSUME ThreadsAssumption ==
    /\ NumWorkers \in Nat \ {0} /\ QueueCapacity \in Nat \ {0}
    /\ NumBatches \in Nat /\ Checkpointing \in BOOLEAN

Workers == 0..(NumWorkers - 1)
Router == NumWorkers
Threads == 0..NumWorkers
Main == NumWorkers + 1
Actors == Threads \cup {Main}

VARIABLES main,      \* where the main thread is in Run
          spawned,   \* number of threads started
          pc,        \* where each thread is
          at,        \* loop index of a thread walking the queues
          items,     \* queue contents, per worker
          closed,    \* closed_, per worker
          asleep,    \* threads waiting on a condition variable
          owed,      \* notifications a thread has still to send, per actor
          cancelled, \* the shared flag
          error,     \* an exception is kept
          stop,      \* control_->stop
          ending,    \* the sentinel the router decided on: "none", "eos", "suspend"
          batches,   \* batches drawn from the source
          targets,   \* workers the current batch has items for
          sentinel,  \* the sentinel each worker consumed
          flushed,   \* whether each worker flushed, and how
          sent, consumed \* auxiliary: messages pushed to and taken by each worker

queues == <<items, closed>>
waits  == <<asleep, owed>>
flags  == <<cancelled, error, stop>>
router == <<ending, batches, targets>>
worker == <<sentinel, flushed>>
aux    == <<sent, consumed>>
vars   == <<main, spawned, pc, at, queues, waits, flags, router, worker, aux>>

Init ==
    /\ main = "spawn" /\ spawned = 0
    /\ pc = [t \in Threads |-> "unborn"]
    /\ at = [t \in Actors |-> 0]
    /\ items = [p \in Workers |-> << >>] /\ closed = [p \in Workers |-> FALSE]
    /\ asleep = {} /\ owed = [t \in Actors |-> << >>]
    /\ cancelled = FALSE /\ error = FALSE /\ stop = "none" /\ ending = "none"
    /\ batches = 0 /\ targets = {}
    /\ sentinel = [p \in Workers |-> "none"]
    /\ flushed = [p \in Workers |-> "no"]
    /\ sent = [p \in Workers |-> << >>] /\ consumed = [p \in Workers |-> << >>]

\* Thread t is at a place in its code, awake, with no call under way.
At(t, where) == pc[t] = where /\ t \notin asleep /\ owed[t] = << >>

Go(t, where) == pc' = [pc EXCEPT ![t] = where]

(***************************************************************************)
(* BoundedQueue.  Push returns FALSE on a closed queue; Pop returns the    *)
(* items left in a closed queue before it returns nothing.  Of queue p,    *)
(* only worker p waits on not_empty_ and only the router on not_full_, so  *)
(* notify_one and notify_all wake the same threads.                        *)
(***************************************************************************)
\* Mutant: Push does not wait for room.
CanPushAlways(p) == TRUE

CanPush(p) == Len(items[p]) < QueueCapacity \/ closed[p]
CanPop(p) == items[p] # << >> \/ closed[p]

\* Mutant: a closed queue returns nothing although items are left in it.
PopsNothingOnceClosed(p) == closed[p]

PopsNothing(p) == items[p] = << >>

Enqueue(p, m) == /\ items' = [items EXCEPT ![p] = Append(@, m)]
                 /\ sent' = [sent EXCEPT ![p] = Append(@, m)]

NotEmpty(p) == [cv |-> "not_empty", queue |-> p]
NotFull(p) == [cv |-> "not_full", queue |-> p]

Owe(t, notes) == owed' = [owed EXCEPT ![t] = @ \o notes]

\* Mutant: Close wakes the consumer only.
CloseNotesConsumer(p) == << NotEmpty(p) >>

PushNotes(p) == << NotEmpty(p) >>
PopNotes(p) == << NotFull(p) >>
CloseNotes(p) == << NotEmpty(p), NotFull(p) >>

Waiters(note) == {t \in asleep : \/ note = NotEmpty(t)
                                 \/ t = Router /\ note = NotFull(at[t])}

\* One notification, after the unlock.
Notify(t) ==
    /\ owed[t] # << >>
    /\ asleep' = asleep \ Waiters(Head(owed[t]))
    /\ owed' = [owed EXCEPT ![t] = Tail(@)]
    /\ UNCHANGED <<main, spawned, pc, at, queues, flags, router, worker, aux>>

\* A condition variable may wake a thread for no reason; wait() tests again.
SpuriousWakeup(t) ==
    /\ t \in asleep
    /\ asleep' = asleep \ {t}
    /\ UNCHANGED <<main, spawned, pc, at, queues, owed, flags, router, worker, aux>>

CloseQueue(t, p) == /\ closed' = [closed EXCEPT ![p] = TRUE]
                    /\ Owe(t, CloseNotes(p))

(***************************************************************************)
(* The main thread: workers first, then the router; a thread that cannot   *)
(* be created unwinds through JoinWorkers.                                 *)
(***************************************************************************)
Spawn ==
    /\ main = "spawn"
    /\ Go(spawned, "loop")
    /\ spawned' = spawned + 1
    /\ main' = IF spawned = Router THEN "join_router" ELSE "spawn"
    /\ UNCHANGED <<at, queues, waits, flags, router, worker, aux>>

SpawnFails ==
    /\ main = "spawn"
    /\ cancelled' = TRUE
    /\ main' = "unwind"
    /\ UNCHANGED <<spawned, pc, at, queues, waits, error, stop, router, worker, aux>>

Unwind ==
    /\ main = "unwind" /\ owed[Main] = << >>
    /\ CloseQueue(Main, at[Main])
    /\ at' = [at EXCEPT ![Main] = @ + 1]
    /\ main' = IF at[Main] + 1 = NumWorkers THEN "unwind_join" ELSE "unwind"
    /\ UNCHANGED <<spawned, pc, items, asleep, flags, router, worker, aux>>

Exited(ts) == \A t \in ts : At(t, "exited")

JoinRouter ==
    /\ main = "join_router" /\ Exited({Router})
    /\ main' = "join_workers"
    /\ UNCHANGED <<spawned, pc, at, queues, waits, flags, router, worker, aux>>

\* All threads joined: rethrow the kept exception, or merge and return.
JoinWorkers ==
    /\ \/ main = "join_workers" /\ Exited(Workers)
       \/ main = "unwind_join" /\ owed[Main] = << >> /\ Exited(0..(spawned - 1))
    /\ main' = IF error \/ main = "unwind_join" THEN "threw" ELSE "returned"
    /\ UNCHANGED <<spawned, pc, at, queues, waits, flags, router, worker, aux>>

MainStep == Spawn \/ SpawnFails \/ Unwind \/ JoinRouter \/ JoinWorkers \/ Notify(Main)

\* RequestStop, from any thread of the caller; the first request wins.  Only
\* the router's loop reads it: a request after that changes nothing.
RequestStop(how) ==
    /\ pc[Router] \in {"unborn", "loop", "next", "push"} /\ stop = "none"
    /\ stop' = how
    /\ UNCHANGED <<main, spawned, pc, at, queues, waits, cancelled, error, router, worker, aux>>

-----------------------------------------------------------------------------
(***************************************************************************)
(* fail(): keep the first exception, raise the flag, then close every      *)
(* queue.                                                                  *)
(***************************************************************************)
Throw(t) ==
    /\ \E where \in {"next", "process", "flush"} : At(t, where)
    /\ error' = TRUE
    /\ Go(t, "cancel")
    /\ UNCHANGED <<main, spawned, at, queues, waits, cancelled, stop, router, worker, aux>>

\* Mutant: the flag is not raised; closing the queues is all a failure does.
CancelSilently(t) ==
    /\ At(t, "cancel")
    /\ at' = [at EXCEPT ![t] = 0]
    /\ Go(t, "close")
    /\ UNCHANGED <<main, spawned, queues, waits, flags, router, worker, aux>>

Cancel(t) ==
    /\ At(t, "cancel")
    /\ cancelled' = TRUE
    /\ at' = [at EXCEPT ![t] = 0]
    /\ Go(t, "close")
    /\ UNCHANGED <<main, spawned, queues, waits, error, stop, router, worker, aux>>

CloseNext(t) ==
    /\ At(t, "close")
    /\ CloseQueue(t, at[t])
    /\ at' = [at EXCEPT ![t] = @ + 1]
    /\ Go(t, IF at[t] + 1 = NumWorkers THEN "exited" ELSE "close")
    /\ UNCHANGED <<main, spawned, items, asleep, flags, router, worker, aux>>

FailStep(t) == Cancel(t) \/ CloseNext(t)

-----------------------------------------------------------------------------
(***************************************************************************)
(* The router.                                                             *)
(***************************************************************************)
\* What the router walks over the queues with once its loop is left.
LeaveLoop ==
    /\ at' = [at EXCEPT ![Router] = 0]
    /\ Go(Router, IF Checkpointing /\ ending' = "suspend" THEN "barrier" ELSE "sentinel")

\* The loop's two conditions; either way out leads to the sentinels.
RouterLoop ==
    /\ At(Router, "loop")
    /\ IF cancelled \/ stop # "none"
       THEN /\ ending' = IF ~cancelled /\ stop = "suspend" THEN "suspend" ELSE "eos"
            /\ LeaveLoop
       ELSE /\ Go(Router, "next")
            /\ UNCHANGED <<ending, at>>
    /\ UNCHANGED <<main, spawned, queues, waits, flags, batches, targets, worker, aux>>

\* source_->Next() returns a batch, with items for some of the workers.
NextBatch ==
    /\ At(Router, "next") /\ batches < NumBatches
    /\ \E ws \in (SUBSET Workers) \ {{}} : targets' = ws
    /\ batches' = batches + 1
    /\ at' = [at EXCEPT ![Router] = 0]
    /\ Go(Router, "push")
    /\ UNCHANGED <<main, spawned, queues, waits, flags, ending, worker, aux>>

\* It returns an empty batch: a live source with no data yet.
NextEmpty ==
    /\ At(Router, "next") /\ batches < NumBatches
    /\ Go(Router, "loop")
    /\ UNCHANGED <<main, spawned, at, queues, waits, flags, router, worker, aux>>

\* It returns nullopt: the input ended, or the source was cancelled.
NextEnds ==
    /\ At(Router, "next")
    /\ batches = NumBatches \/ stop # "none"
    /\ ending' = IF stop = "suspend" THEN "suspend" ELSE "eos"
    /\ LeaveLoop
    /\ UNCHANGED <<main, spawned, queues, waits, flags, batches, targets, worker, aux>>

\* The message the router pushes to every worker in each of its walks.
Message == CASE pc[Router] = "push" -> [kind |-> "batch", number |-> batches]
             [] pc[Router] = "barrier" -> [kind |-> "barrier", number |-> batches]
             [] OTHER -> [kind |-> ending, number |-> batches]

After(walk) == CASE walk = "push" -> "loop"
                 [] walk = "barrier" -> "sentinel"
                 [] OTHER -> "exited"

\* The next queue of a walk, or the end of it.
Advance(walk) ==
    LET last == at[Router] + 1 = NumWorkers
    IN  /\ at' = [at EXCEPT ![Router] = IF last THEN 0 ELSE @ + 1]
        /\ Go(Router, IF last THEN After(walk) ELSE walk)

Walking == \E walk \in {"push", "barrier", "sentinel"} : At(Router, walk)
Skips(p) == pc[Router] = "push" /\ p \notin targets

PushSkips ==
    /\ Walking /\ Skips(at[Router])
    /\ Advance(pc[Router])
    /\ UNCHANGED <<main, spawned, queues, waits, flags, router, worker, aux>>

PushWaits ==
    /\ Walking /\ ~Skips(at[Router]) /\ ~CanPush(at[Router])
    /\ asleep' = asleep \cup {Router}
    /\ UNCHANGED <<main, spawned, pc, at, queues, owed, flags, router, worker, aux>>

\* A refused Push ends the router; the sentinel's Push is followed by Close.
Push ==
    LET p == at[Router]
    IN  /\ Walking /\ ~Skips(p) /\ CanPush(p)
        /\ IF closed[p]
           THEN /\ Go(Router, "exited")
                /\ UNCHANGED <<at, items, owed, sent>>
           ELSE /\ Enqueue(p, Message)
                /\ Owe(Router, PushNotes(p))
                /\ IF pc[Router] = "sentinel"
                   THEN Go(Router, "seal") /\ UNCHANGED at
                   ELSE Advance(pc[Router])
        /\ UNCHANGED <<main, spawned, closed, asleep, flags, router, worker, consumed>>

Seal ==
    /\ At(Router, "seal")
    /\ CloseQueue(Router, at[Router])
    /\ Advance("sentinel")
    /\ UNCHANGED <<main, spawned, items, asleep, flags, router, worker, aux>>

RouterStep == RouterLoop \/ NextBatch \/ NextEmpty \/ NextEnds
              \/ PushSkips \/ PushWaits \/ Push \/ Seal

-----------------------------------------------------------------------------
(***************************************************************************)
(* Worker p.                                                               *)
(***************************************************************************)
WorkerLoop(p) ==
    /\ At(p, "loop")
    /\ Go(p, IF cancelled THEN "end" ELSE "pop")
    /\ UNCHANGED <<main, spawned, at, queues, waits, flags, router, worker, aux>>

PopWaits(p) ==
    /\ At(p, "pop") /\ ~CanPop(p)
    /\ asleep' = asleep \cup {p}
    /\ UNCHANGED <<main, spawned, pc, at, queues, owed, flags, router, worker, aux>>

Pop(p) ==
    /\ At(p, "pop") /\ CanPop(p)
    /\ IF PopsNothing(p)
       THEN /\ Go(p, "end")
            /\ UNCHANGED <<items, owed, consumed>>
       ELSE /\ Go(p, "process")
            /\ items' = [items EXCEPT ![p] = Tail(@)]
            /\ consumed' = [consumed EXCEPT ![p] = Append(@, Head(items[p]))]
            /\ Owe(p, PopNotes(p))
    /\ UNCHANGED <<main, spawned, at, closed, asleep, flags, router, worker, sent>>

\* The messages of a batch succeed; a sentinel ends the loop.
Process(p) ==
    /\ At(p, "process")
    /\ LET m == consumed[p][Len(consumed[p])]
       IN  IF m.kind \in {"eos", "suspend"}
           THEN /\ sentinel' = [sentinel EXCEPT ![p] = m.kind]
                /\ Go(p, "end")
           ELSE /\ Go(p, "loop")
                /\ UNCHANGED sentinel
    /\ UNCHANGED <<main, spawned, at, queues, waits, flags, router, flushed, aux>>

\* The flag is checked once more after the loop.
WorkerEnd(p) ==
    /\ At(p, "end")
    /\ Go(p, IF cancelled THEN "exited" ELSE "flush")
    /\ UNCHANGED <<main, spawned, at, queues, waits, flags, router, worker, aux>>

\* sink->Flush() of a suspended worker, FinalFlush() otherwise.
Flush(p) ==
    /\ At(p, "flush")
    /\ flushed' = [flushed EXCEPT ![p] = IF sentinel[p] = "suspend" THEN "sink" ELSE "final"]
    /\ Go(p, "exited")
    /\ UNCHANGED <<main, spawned, at, queues, waits, flags, router, sentinel, aux>>

WorkerStep(p) == WorkerLoop(p) \/ PopWaits(p) \/ Pop(p) \/ Process(p) \/ WorkerEnd(p) \/ Flush(p)

Next == \/ MainStep
        \/ RouterStep
        \/ \E p \in Workers : WorkerStep(p)
        \/ \E t \in Threads : FailStep(t) \/ Throw(t) \/ Notify(t) \/ SpuriousWakeup(t)
        \/ \E how \in {"final", "suspend"} : RequestStop(how)

\* Every thread that is awake keeps running, and a mutex is never held
\* forever; nothing wakes a sleeping thread but a notification.  A live source
\* does not stay empty for ever.
Fairness == /\ WF_vars(MainStep) /\ WF_vars(RouterStep) /\ SF_vars(NextBatch)
            /\ \A p \in Workers : WF_vars(WorkerStep(p))
            /\ \A t \in Threads : WF_vars(FailStep(t)) /\ WF_vars(Notify(t))

Spec == Init /\ [][Next]_vars /\ Fairness

-----------------------------------------------------------------------------
Messages == [kind : {"batch", "barrier", "eos", "suspend"}, number : 0..NumBatches]

(***************************************************************************)
(* Types of the variables; no queue exceeds its capacity (BoundedQueue).   *)
(***************************************************************************)
TypeOK ==
    /\ main \in {"spawn", "unwind", "unwind_join", "join_router", "join_workers", "returned",
                 "threw"}
    /\ spawned \in 0..(NumWorkers + 1)
    /\ pc \in [Threads -> {"unborn", "loop", "next", "push", "barrier", "sentinel", "pop",
                           "process", "end", "flush", "cancel", "close", "seal", "exited"}]
    /\ at \in [Actors -> 0..NumWorkers]
    /\ asleep \subseteq Threads
    /\ owed \in [Actors -> Seq([cv : {"not_empty", "not_full"}, queue : Workers])]
    /\ items \in [Workers -> Seq(Messages)] /\ closed \in [Workers -> BOOLEAN]
    /\ \A p \in Workers : Len(items[p]) <= QueueCapacity
    /\ cancelled \in BOOLEAN /\ error \in BOOLEAN
    /\ stop \in {"none", "final", "suspend"} /\ ending \in {"none", "eos", "suspend"}
    /\ batches \in 0..NumBatches /\ targets \subseteq Workers
    /\ sentinel \in [Workers -> {"none", "eos", "suspend"}]
    /\ flushed \in [Workers -> {"no", "sink", "final"}]
    /\ sent \in [Workers -> Seq(Messages)] /\ consumed \in [Workers -> Seq(Messages)]

WholeStream(p) == consumed[p] = sent[p] /\ sentinel[p] # "none"

(***************************************************************************)
(* No window is published from a truncated stream: a worker runs the final *)
(* flush only after it has consumed everything the router sent it, the     *)
(* EndOfStream sentinel included, and only when the router sent that       *)
(* because the input ended or a final stop was requested, never because a  *)
(* thread threw (the worker loop's checks of cancelled, fail's order).     *)
(***************************************************************************)
NoTruncatedFlush == \A p \in Workers : flushed[p] = "final" =>
                        /\ WholeStream(p) /\ sentinel[p] = "eos" /\ ending = "eos"
                        /\ batches = NumBatches \/ stop = "final"

(***************************************************************************)
(* All or nothing: when Run returns normally, no thread has thrown, every  *)
(* worker consumed everything sent to it, every queue is empty, and all    *)
(* workers ended the same way, final flush or suspension (Run after        *)
(* joining).                                                               *)
(***************************************************************************)
ReturnsWhole ==
    main = "returned" =>
        /\ \A p \in Workers : WholeStream(p) /\ items[p] = << >>
        /\ \/ \A p \in Workers : flushed[p] = "final"
           \/ \A p \in Workers : flushed[p] = "sink"

\* Actor t has still to send a notification.
Owes(t, note) == \E i \in 1..Len(owed[t]) : owed[t][i] = note

(***************************************************************************)
(* No wakeup is lost: whenever a sleeping thread could go on, because the  *)
(* queue it waits on got an item, got room or was closed, some thread that *)
(* changed the queue has still to notify it (BoundedQueue notifies after   *)
(* the unlock, so the waiter may sleep on for a while, never for good).    *)
(***************************************************************************)
NoLostWakeup ==
    /\ \A p \in Workers \cap asleep :
          CanPop(p) => \E t \in Actors : Owes(t, NotEmpty(p))
    /\ Router \in asleep /\ CanPush(at[Router]) =>
          \E t \in Actors : Owes(t, NotFull(at[Router]))

(***************************************************************************)
(* Run always ends: neither a full queue, an empty queue, a stop request   *)
(* nor a thread that throws can leave the others waiting (fail closes      *)
(* every queue; docs/architecture.md:124).                                 *)
(***************************************************************************)
Ends == <>(main \in {"returned", "threw"})
=============================================================================
