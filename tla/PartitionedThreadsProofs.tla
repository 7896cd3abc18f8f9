---------------------- MODULE PartitionedThreadsProofs ----------------------
(***************************************************************************)
(* The threads of a partitioned job are safe for every number of workers,  *)
(* every queue capacity and every length of the input: no queue exceeds    *)
(* its capacity, no worker publishes windows of a truncated stream, Run    *)
(* returns normally only with the whole stream processed, and no           *)
(* notification of a condition variable is missed.                         *)
(***************************************************************************)
EXTENDS PartitionedThreads, SequenceTheorems, TLAPS

-----------------------------------------------------------------------------
(***************************************************************************)
(* The inductive invariant, thread by thread and queue by queue.           *)
(***************************************************************************)
Sentinels == {"eos", "suspend"}

\* The router has sent worker p the last message of its stream.
Ended(p) == Len(sent[p]) > 0 /\ sent[p][Len(sent[p])].kind \in Sentinels

\* The main thread: what it has started and joined, and why the flag is raised.
MainOK ==
    /\ main = "spawn" => spawned \in Threads /\ at[Main] = 0
    /\ main \in {"join_router", "join_workers", "returned"} => spawned = NumWorkers + 1
    /\ main \in {"join_workers", "returned"} => pc[Router] = "exited"
    /\ main = "returned" => ~error
    /\ main = "unwind" => cancelled /\ at[Main] \in Workers
    /\ cancelled => error \/ main \in {"unwind", "unwind_join", "threw"}

\* A thread in fail() keeps its exception first, then raises the flag, then closes.
ThreadOK(t) ==
    /\ t >= spawned => pc[t] = "unborn"
    /\ pc[t] \in {"cancel", "close"} => error
    /\ pc[t] = "close" => cancelled /\ at[t] \in Workers
    /\ main = "returned" => pc[t] = "exited"

\* A queue is FIFO; a sentinel is the last message; without a failure only a
\* queue that has been sent its sentinel is closed.
StreamOK(p) ==
    /\ sent[p] = consumed[p] \o items[p]
    /\ \A i \in 1..(Len(sent[p]) - 1) : sent[p][i].kind \notin Sentinels
    /\ Ended(p) => sent[p][Len(sent[p])].kind = ending
    /\ closed[p] => cancelled \/ Ended(p)

\* The router's place in its code, and how far it is with the sentinels.
RouterOK ==
    /\ pc[Router] \in {"unborn", "loop", "next", "push", "barrier", "cancel", "close",
                       "sentinel", "seal", "exited"}
    /\ pc[Router] \in {"push", "barrier", "sentinel", "seal"} => at[Router] \in Workers
    /\ pc[Router] \in {"barrier", "sentinel", "seal"} => ending \in Sentinels

PassedOK(p) ==
    Ended(p) => \/ pc[Router] = "sentinel" /\ p < at[Router]
                \/ pc[Router] = "seal" /\ p =< at[Router]
                \/ pc[Router] = "exited"

SealOK == pc[Router] = "seal" => Ended(at[Router])

\* A worker leaves its loop with its sentinel or because of the flag, and
\* flushes only with its sentinel.
WorkerOK(p) ==
    /\ pc[p] \in {"unborn", "loop", "pop", "process", "end", "flush", "cancel", "close",
                  "exited"}
    /\ pc[p] \in {"unborn", "loop", "pop"} =>
           \A i \in 1..Len(consumed[p]) : consumed[p][i].kind \notin Sentinels
    /\ pc[p] = "process" => Len(consumed[p]) > 0
    /\ pc[p] \in {"unborn", "loop", "pop", "process"} => sentinel[p] = "none"
    /\ pc[p] = "end" => cancelled \/ sentinel[p] # "none"
    /\ pc[p] = "flush" => sentinel[p] # "none"
    /\ pc[p] = "exited" => cancelled \/ flushed[p] # "no"
    /\ sentinel[p] # "none" => /\ items[p] = << >> /\ Ended(p)
                               /\ sent[p][Len(sent[p])].kind = sentinel[p]
    /\ flushed[p] = "final" => sentinel[p] = "eos"
    /\ flushed[p] = "sink" => sentinel[p] = "suspend"

IInv == /\ TypeOK /\ MainOK /\ RouterOK /\ SealOK
        /\ \A t \in Threads : ThreadOK(t)
        /\ \A p \in Workers : StreamOK(p) /\ PassedOK(p) /\ WorkerOK(p)

-----------------------------------------------------------------------------
(***************************************************************************)
(* Sequences: what is sent is what was consumed followed by what is queued. *)
(***************************************************************************)
LEMMA AppendToSecond ==
    ASSUME NEW s \in Seq(Messages), NEW t \in Seq(Messages), NEW e \in Messages
    PROVE  Append(s \o t, e) = s \o Append(t, e)
<1> DEFINE S == Messages
<1> HIDE DEF S
<1>0. s \in Seq(S) /\ t \in Seq(S) /\ e \in S
  BY DEF S
<1>1. /\ s \o t \in Seq(S) /\ Append(t, e) \in Seq(S)
      /\ Append(s \o t, e) \in Seq(S) /\ s \o Append(t, e) \in Seq(S)
  BY <1>0, ConcatProperties, AppendProperties
<1>2. Len(Append(s \o t, e)) = Len(s) + Len(t) + 1 /\ Len(s \o Append(t, e)) = Len(s) + Len(t) + 1
  BY <1>0, <1>1, ConcatProperties, AppendProperties
<1>3. \A i \in 1..(Len(s) + Len(t) + 1) : Append(s \o t, e)[i] = (s \o Append(t, e))[i]
  BY <1>0, <1>1, ConcatProperties, AppendProperties, LenProperties
<1> QED BY <1>0, <1>1, <1>2, <1>3, SeqEqual

LEMMA ConcatFacts ==
    ASSUME NEW S, NEW s \in Seq(S), NEW t \in Seq(S)
    PROVE  /\ Len(s \o t) = Len(s) + Len(t) /\ Len(s) \in Nat /\ Len(t) \in Nat
           /\ \A i \in 1..Len(s) : (s \o t)[i] = s[i]
  BY ConcatProperties, LenProperties

LEMMA BeforeLast ==
    ASSUME NEW S, NEW s \in Seq(S), NEW t \in Seq(S), NEW i \in 1..Len(s), i # Len(s)
    PROVE  i \in 1..(Len(s \o t) - 1)
<1>1. Len(s \o t) = Len(s) + Len(t) /\ Len(s) \in Nat /\ Len(t) \in Nat
  BY ConcatFacts
<1> QED BY <1>1

LEMMA MoveHead ==
    ASSUME NEW S, NEW s \in Seq(S), NEW t \in Seq(S), t # << >>
    PROVE  Append(s, Head(t)) \o Tail(t) = s \o t
<1>1. Head(t) \in S /\ Head(t) = t[1] /\ Tail(t) \in Seq(S) /\ Len(Tail(t)) = Len(t) - 1
      /\ Len(t) \in Nat \ {0}
  BY HeadTailProperties, EmptySeq
<1>2. Append(s, Head(t)) \in Seq(S) /\ Append(s, Head(t)) \o Tail(t) \in Seq(S) /\ s \o t \in Seq(S)
  BY <1>1, ConcatProperties, AppendProperties
<1>3. Len(Append(s, Head(t)) \o Tail(t)) = Len(s) + Len(t) /\ Len(s \o t) = Len(s) + Len(t)
  BY <1>1, <1>2, ConcatProperties, AppendProperties, LenProperties
<1>4. \A i \in 1..(Len(s) + Len(t)) : (Append(s, Head(t)) \o Tail(t))[i] = (s \o t)[i]
  BY <1>1, <1>2, ConcatProperties, AppendProperties, LenProperties, HeadTailProperties
<1> QED BY <1>2, <1>3, <1>4, SeqEqual

-----------------------------------------------------------------------------
(***************************************************************************)
(* Threads are numbers: workers first, then the router, then main.         *)
(***************************************************************************)
LEMMA ThreadSets ==
    /\ NumWorkers \in Nat /\ NumWorkers > 0 /\ QueueCapacity \in Nat /\ NumBatches \in Nat
    /\ Router = NumWorkers /\ Main = NumWorkers + 1
    /\ Workers \subseteq Threads /\ Threads \subseteq Actors /\ Main \in Actors
    /\ Router \in Threads /\ Router \notin Workers /\ Main \notin Threads /\ 0 \in Workers
    /\ \A t \in Threads : t \in Int /\ (t \in Workers \/ t = Router)
    /\ \A p \in Workers : p \in Int /\ p >= 0 /\ p < NumWorkers
                           /\ p \in 0..NumWorkers /\ p + 1 \in 0..NumWorkers
    /\ \A i \in Int : i >= 0 /\ i < NumWorkers => i \in Workers
    /\ \A i \in Int : i >= 0 /\ i =< NumWorkers => i \in Threads /\ i \in 0..NumWorkers
  BY ThreadsAssumption DEF Workers, Router, Threads, Main, Actors

LEMMA NextWorker ==
    ASSUME NEW p \in Workers
    PROVE  /\ p + 1 \in 0..NumWorkers /\ p + 1 \in Int
           /\ p + 1 # NumWorkers => p + 1 \in Workers /\ p + 1 < NumWorkers
  BY ThreadsAssumption DEF Workers

PcNames == {"unborn", "loop", "next", "push", "barrier", "sentinel", "pop",
            "process", "end", "flush", "cancel", "close", "seal", "exited"}
Notes == [cv : {"not_empty", "not_full"}, queue : Workers]

\* What one assignment does to a thread's place, an index, or what is owed.
LEMMA PcMoves ==
    ASSUME pc \in [Threads -> PcNames], NEW t \in Threads, NEW where \in PcNames, Go(t, where)
    PROVE  /\ pc' \in [Threads -> PcNames] /\ pc'[t] = where
           /\ \A u \in Threads : u # t => pc'[u] = pc[u]
  BY DEF Go, PcNames

LEMMA IndexMoves ==
    ASSUME at \in [Actors -> 0..NumWorkers], NEW t \in Actors, NEW i \in 0..NumWorkers,
           at' = [at EXCEPT ![t] = i]
    PROVE  /\ at' \in [Actors -> 0..NumWorkers] /\ at'[t] = i
           /\ \A u \in Actors : u # t => at'[u] = at[u]
  OBVIOUS

LEMMA OwedGrows ==
    ASSUME owed \in [Actors -> Seq(Notes)], NEW t \in Actors, NEW notes \in Seq(Notes),
           Owe(t, notes)
    PROVE  owed' \in [Actors -> Seq(Notes)]
<1>1. owed[t] \o notes \in Seq(Notes)
  BY ConcatProperties
<1> QED BY <1>1 DEF Owe

LEMMA NotesTyped ==
    ASSUME NEW p \in Workers
    PROVE  CloseNotes(p) \in Seq(Notes) /\ PushNotes(p) \in Seq(Notes) /\ PopNotes(p) \in Seq(Notes)
<1>1. NotEmpty(p) \in Notes /\ NotFull(p) \in Notes
  BY DEF NotEmpty, NotFull, Notes
<1> QED BY <1>1 DEF CloseNotes, PushNotes, PopNotes

LEMMA TypeFacts ==
    ASSUME TypeOK
    PROVE  /\ pc \in [Threads -> PcNames] /\ at \in [Actors -> 0..NumWorkers]
           /\ owed \in [Actors -> Seq(Notes)] /\ asleep \subseteq Threads
           /\ items \in [Workers -> Seq(Messages)] /\ closed \in [Workers -> BOOLEAN]
           /\ sent \in [Workers -> Seq(Messages)] /\ consumed \in [Workers -> Seq(Messages)]
           /\ batches \in 0..NumBatches /\ targets \subseteq Workers
           /\ cancelled \in BOOLEAN /\ error \in BOOLEAN
           /\ sentinel \in [Workers -> {"none", "eos", "suspend"}]
           /\ flushed \in [Workers -> {"no", "sink", "final"}]
           /\ stop \in {"none", "final", "suspend"} /\ ending \in {"none", "eos", "suspend"}
  BY DEF TypeOK, PcNames, Notes

LEMMA RouterAdvances ==
    ASSUME TypeOK, NEW walk \in {"push", "barrier", "sentinel"}, at[Router] \in Workers,
           Advance(walk)
    PROVE  /\ pc' \in [Threads -> PcNames] /\ at' \in [Actors -> 0..NumWorkers]
           /\ \A u \in Threads : u # Router => pc'[u] = pc[u]
           /\ \A u \in Actors : u # Router => at'[u] = at[u]
           /\ \/ at[Router] + 1 = NumWorkers /\ pc'[Router] = After(walk) /\ at'[Router] = 0
              \/ /\ at[Router] + 1 < NumWorkers
                 /\ pc'[Router] = walk /\ at'[Router] = at[Router] + 1
<1> USE ThreadSets
<1>1. pc \in [Threads -> PcNames] /\ at \in [Actors -> 0..NumWorkers] /\ Router \in Actors
  BY TypeFacts
<1>2. After(walk) \in PcNames /\ walk \in PcNames
  BY DEF After, PcNames
<1>3. CASE at[Router] + 1 = NumWorkers
  <2>1. Go(Router, After(walk)) /\ at' = [at EXCEPT ![Router] = 0] /\ 0 \in 0..NumWorkers
    BY <1>3 DEF Advance
  <2> QED BY <1>1, <1>2, <1>3, <2>1, PcMoves, IndexMoves
<1>4. CASE at[Router] + 1 # NumWorkers
  <2>1. /\ Go(Router, walk) /\ at' = [at EXCEPT ![Router] = at[Router] + 1]
    BY <1>4 DEF Advance
  <2>2. at[Router] + 1 \in 0..NumWorkers /\ at[Router] + 1 < NumWorkers
    BY <1>4, NextWorker
  <2> QED BY <1>1, <1>2, <2>1, <2>2, PcMoves, IndexMoves
<1> QED BY <1>3, <1>4

LEMMA QueueCloses ==
    ASSUME TypeOK, NEW t \in Actors, NEW p \in Workers, CloseQueue(t, p)
    PROVE  /\ closed' \in [Workers -> BOOLEAN] /\ owed' \in [Actors -> Seq(Notes)]
           /\ \A q \in Workers : q # p => closed'[q] = closed[q]
<1>1. owed \in [Actors -> Seq(Notes)] /\ closed \in [Workers -> BOOLEAN]
  BY DEF TypeOK, Notes
<1> QED BY <1>1, OwedGrows, NotesTyped DEF CloseQueue

-----------------------------------------------------------------------------
(***************************************************************************)
(* A part of the invariant whose variables do not change is preserved.     *)
(***************************************************************************)
LEMMA WorkerFrame ==
    ASSUME NEW q \in Workers, WorkerOK(q), pc'[q] = pc[q], consumed'[q] = consumed[q],
           items'[q] = items[q], sent'[q] = sent[q], sentinel'[q] = sentinel[q],
           flushed'[q] = flushed[q], cancelled => cancelled'
    PROVE  WorkerOK(q)'
  BY DEF WorkerOK, Ended

LEMMA StreamFrame ==
    ASSUME NEW q \in Workers, StreamOK(q), consumed'[q] = consumed[q], items'[q] = items[q],
           sent'[q] = sent[q], closed'[q] = closed[q], cancelled => cancelled',
           Ended(q) => ending' = ending
    PROVE  StreamOK(q)'
  BY DEF StreamOK, Ended

LEMMA StreamClosed ==
    ASSUME NEW q \in Workers, StreamOK(q), consumed'[q] = consumed[q], items'[q] = items[q],
           sent'[q] = sent[q], cancelled' \/ Ended(q), ending' = ending
    PROVE  StreamOK(q)'
  BY DEF StreamOK, Ended

\* A sentinel is the last message of a stream.
LEMMA StreamLast ==
    ASSUME NEW p \in Workers, StreamOK(p), sent[p] \in Seq(Messages),
           consumed[p] \in Seq(Messages), items[p] \in Seq(Messages), Len(consumed[p]) > 0,
           consumed[p][Len(consumed[p])].kind \in Sentinels
    PROVE  items[p] = << >> /\ sent[p] = consumed[p] /\ Ended(p)
<1>1. /\ Len(sent[p]) = Len(consumed[p]) + Len(items[p])
      /\ sent[p][Len(consumed[p])] = consumed[p][Len(consumed[p])]
  <2>1. Len(consumed[p]) \in 1..Len(consumed[p])
    BY LenProperties
  <2>2. sent[p] = consumed[p] \o items[p]
    BY DEF StreamOK
  <2>3. /\ Len(consumed[p] \o items[p]) = Len(consumed[p]) + Len(items[p])
        /\ \A i \in 1..Len(consumed[p]) : (consumed[p] \o items[p])[i] = consumed[p][i]
    BY ConcatFacts
  <2> QED BY <2>1, <2>2, <2>3
<1>2. Len(consumed[p]) \notin 1..(Len(sent[p]) - 1)
  BY <1>1 DEF StreamOK
<1>3. Len(items[p]) = 0
  BY <1>1, <1>2, LenProperties
<1>4. items[p] = << >>
  BY <1>3, EmptySeq
<1>5. sent[p] = consumed[p]
  BY <1>4, ConcatEmptySeq DEF StreamOK
<1> QED BY <1>1, <1>4, <1>5 DEF Ended

\* Every other message is not one.
LEMMA StreamPlain ==
    ASSUME NEW p \in Workers, StreamOK(p), sent[p] \in Seq(Messages),
           consumed[p] \in Seq(Messages), items[p] \in Seq(Messages), Len(consumed[p]) > 0,
           consumed[p][Len(consumed[p])].kind \notin Sentinels
    PROVE  \A i \in 1..Len(consumed[p]) : consumed[p][i].kind \notin Sentinels
<1>1. /\ Len(sent[p]) = Len(consumed[p]) + Len(items[p])
      /\ \A i \in 1..Len(consumed[p]) : sent[p][i] = consumed[p][i]
  <2>1. sent[p] = consumed[p] \o items[p]
    BY DEF StreamOK
  <2>2. /\ Len(consumed[p] \o items[p]) = Len(consumed[p]) + Len(items[p])
        /\ \A i \in 1..Len(consumed[p]) : (consumed[p] \o items[p])[i] = consumed[p][i]
    BY ConcatFacts
  <2> QED BY <2>1, <2>2
<1>2. ASSUME NEW i \in 1..Len(consumed[p]) PROVE consumed[p][i].kind \notin Sentinels
  <2>1. CASE i = Len(consumed[p])
    BY <2>1
  <2>2. CASE i # Len(consumed[p])
    <3>1. i \in 1..(Len(sent[p]) - 1)
      <4>1. sent[p] = consumed[p] \o items[p]
        BY DEF StreamOK
      <4> QED BY <2>2, <4>1, BeforeLast
    <3> QED BY <1>1, <3>1 DEF StreamOK
  <2> QED BY <2>1, <2>2
<1> QED BY <1>2

\* What a Push does to the stream it is made to, and to the others.
LEMMA StreamGrows ==
    ASSUME NEW p \in Workers, NEW m \in Messages, TypeOK, StreamOK(p), ~Ended(p),
           Enqueue(p, m), UNCHANGED <<closed, consumed, ending, cancelled>>, ~closed[p],
           m.kind \in Sentinels => m.kind = ending, Len(items[p]) < QueueCapacity
    PROVE  /\ items' \in [Workers -> Seq(Messages)] /\ sent' \in [Workers -> Seq(Messages)]
           /\ \A q \in Workers : Len(items'[q]) =< QueueCapacity
           /\ \A q \in Workers : q # p => items'[q] = items[q] /\ sent'[q] = sent[q]
           /\ StreamOK(p)' /\ (Ended(p)' <=> m.kind \in Sentinels)
<1>1. /\ items[p] \in Seq(Messages) /\ sent[p] \in Seq(Messages) /\ consumed[p] \in Seq(Messages)
      /\ items'[p] = Append(items[p], m) /\ sent'[p] = Append(sent[p], m)
  BY TypeFacts DEF Enqueue
<1>2. /\ Append(items[p], m) \in Seq(Messages) /\ Append(sent[p], m) \in Seq(Messages)
      /\ Len(Append(items[p], m)) = Len(items[p]) + 1 /\ Len(items[p]) \in Nat
      /\ Len(Append(sent[p], m)) = Len(sent[p]) + 1 /\ Len(sent[p]) \in Nat
      /\ Append(sent[p], m)[Len(sent[p]) + 1] = m
      /\ \A i \in 1..Len(sent[p]) : Append(sent[p], m)[i] = sent[p][i]
  BY <1>1, AppendProperties, LenProperties
<1>3. /\ items' \in [Workers -> Seq(Messages)] /\ sent' \in [Workers -> Seq(Messages)]
      /\ \A q \in Workers : q # p => items'[q] = items[q] /\ sent'[q] = sent[q]
  BY <1>2, TypeFacts DEF Enqueue
<1>4. ASSUME NEW q \in Workers PROVE Len(items'[q]) =< QueueCapacity
  <2>1. Len(items[q]) =< QueueCapacity
    BY DEF TypeOK
  <2>2. Len(items[p]) + 1 =< QueueCapacity
    BY <1>2, ThreadSets
  <2> QED BY <1>1, <1>2, <1>3, <2>1, <2>2
<1>5. Ended(p)' <=> m.kind \in Sentinels
  BY <1>1, <1>2 DEF Ended
<1>6. sent'[p] = consumed'[p] \o items'[p]
  <2>1. sent[p] = consumed[p] \o items[p]
    BY DEF StreamOK
  <2>2. \A s, t \in Seq(Messages) : Append(s \o t, m) = s \o Append(t, m)
    BY AppendToSecond
  <2>3. Append(consumed[p] \o items[p], m) = consumed[p] \o Append(items[p], m)
    BY <1>1, <2>2
  <2> QED BY <1>1, <2>1, <2>3
<1>7. ASSUME NEW i \in 1..(Len(sent'[p]) - 1) PROVE sent'[p][i].kind \notin Sentinels
  <2>1. i \in 1..Len(sent[p]) /\ sent'[p][i] = sent[p][i]
    BY <1>1, <1>2
  <2>2. CASE i = Len(sent[p])
    BY <2>1, <2>2 DEF Ended
  <2>3. CASE i # Len(sent[p])
    <3>1. i \in 1..(Len(sent[p]) - 1)
      BY <1>2, <2>1, <2>3
    <3> QED BY <2>1, <3>1 DEF StreamOK
  <2> QED BY <2>2, <2>3
<1>8. StreamOK(p)'
  <2>1. Ended(p)' => sent'[p][Len(sent'[p])].kind = ending'
    BY <1>1, <1>2, <1>5
  <2> QED BY <1>6, <1>7, <2>1 DEF StreamOK
<1> QED BY <1>3, <1>4, <1>5, <1>8

LEMMA PassedFrame ==
    ASSUME NEW q \in Workers, PassedOK(q), pc'[Router] = pc[Router],
           at'[Router] = at[Router], sent'[q] = sent[q]
    PROVE  PassedOK(q)'
  BY DEF PassedOK, Ended

LEMMA RouterFrame ==
    ASSUME RouterOK, SealOK, pc'[Router] = pc[Router], at'[Router] = at[Router],
           UNCHANGED <<ending, sent>>
    PROVE  RouterOK' /\ SealOK'
  BY DEF RouterOK, SealOK, Ended

LEMMA ThreadFrame ==
    ASSUME NEW t \in Threads, ThreadOK(t), pc'[t] = pc[t], at'[t] = at[t], UNCHANGED spawned,
           error => error', cancelled => cancelled', main' = "returned" => main = "returned"
    PROVE  ThreadOK(t)'
  BY DEF ThreadOK

-----------------------------------------------------------------------------
(***************************************************************************)
(* The invariant holds initially and is preserved by every step.           *)
(***************************************************************************)
LEMMA InitInv == Init => IInv
<1> SUFFICES ASSUME Init PROVE IInv
  OBVIOUS
<1> USE ThreadSets DEF Init
<1>1. TypeOK
  <2>1. at \in [Actors -> 0..NumWorkers]
    OBVIOUS
  <2>2. owed \in [Actors -> Seq([cv : {"not_empty", "not_full"}, queue : Workers])]
    OBVIOUS
  <2>3. /\ items \in [Workers -> Seq(Messages)] /\ closed \in [Workers -> BOOLEAN]
        /\ sent \in [Workers -> Seq(Messages)] /\ consumed \in [Workers -> Seq(Messages)]
    OBVIOUS
  <2>4. \A p \in Workers : Len(items[p]) <= QueueCapacity
    OBVIOUS
  <2>5. /\ pc \in [Threads -> PcNames] /\ sentinel \in [Workers -> {"none", "eos", "suspend"}]
        /\ flushed \in [Workers -> {"no", "sink", "final"}]
    BY DEF PcNames
  <2>6. spawned \in 0..(NumWorkers + 1) /\ batches \in 0..NumBatches
    OBVIOUS
  <2> QED BY <2>1, <2>2, <2>3, <2>4, <2>5, <2>6 DEF TypeOK, PcNames
<1>2. MainOK /\ RouterOK /\ SealOK
  BY DEF MainOK, RouterOK, SealOK
<1>3. ASSUME NEW t \in Threads PROVE ThreadOK(t)
  BY DEF ThreadOK
<1>4. ASSUME NEW p \in Workers PROVE StreamOK(p) /\ PassedOK(p) /\ WorkerOK(p)
  <2>1. sent[p] = << >> /\ consumed[p] = << >> /\ items[p] = << >> /\ ~closed[p] /\ ~Ended(p)
    BY DEF Ended
  <2>2. StreamOK(p) /\ PassedOK(p)
    BY <2>1 DEF StreamOK, PassedOK
  <2>3. WorkerOK(p)
    BY <2>1 DEF WorkerOK
  <2> QED BY <2>2, <2>3
<1> QED BY <1>1, <1>2, <1>3, <1>4 DEF IInv

LEMMA SpawnInv ==
    ASSUME IInv, Spawn
    PROVE  IInv'
<1> USE ThreadSets DEF IInv, Spawn, queues, waits, flags, router, worker, aux
<1>1. spawned \in Threads /\ pc[spawned] = "unborn"
  <2>1. spawned \in Threads
    BY DEF MainOK
  <2>2. spawned >= spawned
    BY <2>1
  <2> QED BY <2>1, <2>2 DEF ThreadOK
<1>2. /\ pc' \in [Threads -> PcNames] /\ pc'[spawned] = "loop"
      /\ \A u \in Threads : u # spawned => pc'[u] = pc[u]
  <2>1. pc \in [Threads -> PcNames]
    BY DEF TypeOK, PcNames
  <2> QED BY <1>1, <2>1, PcMoves DEF PcNames
<1>3. TypeOK'
  <2>1. spawned' \in 0..(NumWorkers + 1)
    BY <1>1
  <2> QED BY <1>2, <2>1 DEF TypeOK, PcNames
<1>4. MainOK'
  BY <1>1, <1>2 DEF MainOK
<1>5. ASSUME NEW t \in Threads PROVE ThreadOK(t)'
  BY <1>1, <1>2 DEF ThreadOK
<1>6. RouterOK' /\ SealOK'
  BY <1>1, <1>2 DEF RouterOK, SealOK, Ended
<1>7. ASSUME NEW q \in Workers PROVE PassedOK(q)'
  BY <1>1, <1>2 DEF PassedOK, Ended
<1>8. ASSUME NEW q \in Workers PROVE StreamOK(q)'
  BY StreamFrame
<1>9. ASSUME NEW q \in Workers PROVE WorkerOK(q)'
  BY <1>1, <1>2 DEF WorkerOK, Ended
<1> QED BY <1>1, <1>2, <1>3, <1>4, <1>5, <1>6, <1>7, <1>8, <1>9

LEMMA SpawnFailsInv ==
    ASSUME IInv, SpawnFails
    PROVE  IInv'
<1> USE ThreadSets DEF IInv, SpawnFails, queues, waits, flags, router, worker, aux
<1>1. TypeOK'
  BY DEF TypeOK
<1>2. MainOK'
  BY DEF MainOK, TypeOK
<1>3. RouterOK' /\ SealOK'
  BY RouterFrame
<1>4. ASSUME NEW u \in Threads PROVE ThreadOK(u)'
  BY ThreadFrame
<1>5. ASSUME NEW q \in Workers PROVE StreamOK(q)' /\ PassedOK(q)' /\ WorkerOK(q)'
  BY StreamFrame, PassedFrame, WorkerFrame
<1> QED BY <1>1, <1>2, <1>3, <1>4, <1>5

LEMMA UnwindInv ==
    ASSUME IInv, Unwind
    PROVE  IInv'
<1> USE ThreadSets DEF IInv, Unwind, queues, waits, flags, router, worker, aux
<1>1. cancelled /\ at[Main] \in Workers /\ main # "returned"
  BY DEF MainOK
<1>2. /\ closed' \in [Workers -> BOOLEAN] /\ owed' \in [Actors -> Seq(Notes)]
      /\ \A q \in Workers : q # at[Main] => closed'[q] = closed[q]
  BY <1>1, QueueCloses
<1>3. /\ at' \in [Actors -> 0..NumWorkers] /\ at'[Main] = at[Main] + 1
      /\ \A u \in Actors : u # Main => at'[u] = at[u]
  <2>1. at[Main] + 1 \in 0..NumWorkers /\ at' = [at EXCEPT ![Main] = at[Main] + 1]
    BY <1>1
  <2> QED BY <2>1, TypeFacts, IndexMoves
<1>4. TypeOK'
  BY <1>2, <1>3 DEF TypeOK, Notes
<1>5. MainOK'
  BY <1>1, <1>3 DEF MainOK
<1>6. RouterOK' /\ SealOK'
  BY <1>3, RouterFrame
<1>7. ASSUME NEW u \in Threads PROVE ThreadOK(u)'
  <2>1. main' # "returned" /\ u # Main /\ u \in Actors
    OBVIOUS
  <2> QED BY <1>3, <2>1, ThreadFrame
<1>8. ASSUME NEW q \in Workers PROVE StreamOK(q)' /\ PassedOK(q)' /\ WorkerOK(q)'
  BY <1>1, <1>3, StreamClosed, PassedFrame, WorkerFrame
<1> QED BY <1>1, <1>2, <1>3, <1>4, <1>5, <1>6, <1>7, <1>8

LEMMA JoinRouterInv ==
    ASSUME IInv, JoinRouter
    PROVE  IInv'
<1> USE ThreadSets DEF IInv, JoinRouter, queues, waits, flags, router, worker, aux
<1>1. TypeOK'
  BY DEF TypeOK
<1>2. MainOK'
  BY DEF MainOK, Exited, At
<1>3. RouterOK' /\ SealOK'
  BY RouterFrame
<1>4. ASSUME NEW u \in Threads PROVE ThreadOK(u)'
  BY ThreadFrame
<1>5. ASSUME NEW q \in Workers PROVE StreamOK(q)' /\ PassedOK(q)' /\ WorkerOK(q)'
  BY StreamFrame, PassedFrame, WorkerFrame
<1> QED BY <1>1, <1>2, <1>3, <1>4, <1>5

LEMMA JoinWorkersInv ==
    ASSUME IInv, JoinWorkers
    PROVE  IInv'
<1> USE ThreadSets DEF IInv, JoinWorkers, queues, waits, flags, router, worker, aux
<1>1. TypeOK'
  BY DEF TypeOK
<1>2. MainOK'
  BY DEF MainOK
<1>3. RouterOK' /\ SealOK'
  BY RouterFrame
<1>4. ASSUME NEW u \in Threads PROVE ThreadOK(u)'
  <2>1. CASE main = "join_workers"
    <3>1. pc[u] = "exited"
      BY <2>1 DEF Exited, At, MainOK
    <3> QED BY <3>1 DEF ThreadOK
  <2>2. CASE main = "unwind_join"
    BY <2>2, ThreadFrame
  <2> QED BY <2>1, <2>2
<1>5. ASSUME NEW q \in Workers PROVE StreamOK(q)' /\ PassedOK(q)' /\ WorkerOK(q)'
  BY StreamFrame, PassedFrame, WorkerFrame
<1> QED BY <1>1, <1>2, <1>3, <1>4, <1>5

LEMMA NotifyInv ==
    ASSUME NEW t \in Actors, IInv, Notify(t)
    PROVE  IInv'
<1> USE ThreadSets DEF IInv, Notify, queues, waits, flags, router, worker, aux
<1>1. TypeOK'
  <2>1. Tail(owed[t]) \in Seq(Notes)
    BY TypeFacts, HeadTailProperties
  <2>2. owed' \in [Actors -> Seq(Notes)]
    BY <2>1, TypeFacts
  <2>3. asleep' \subseteq Threads
    BY TypeFacts
  <2> QED BY <2>2, <2>3 DEF TypeOK, Notes
<1>2. MainOK' /\ RouterOK' /\ SealOK'
  BY RouterFrame DEF MainOK
<1>3. ASSUME NEW u \in Threads PROVE ThreadOK(u)'
  BY ThreadFrame
<1>4. ASSUME NEW q \in Workers PROVE StreamOK(q)' /\ PassedOK(q)' /\ WorkerOK(q)'
  BY StreamFrame, PassedFrame, WorkerFrame
<1> QED BY <1>1, <1>2, <1>3, <1>4

LEMMA SpuriousWakeupInv ==
    ASSUME NEW t \in Threads, IInv, SpuriousWakeup(t)
    PROVE  IInv'
<1> USE ThreadSets DEF IInv, SpuriousWakeup, queues, waits, flags, router, worker, aux
<1>1. TypeOK'
  BY DEF TypeOK
<1>2. MainOK' /\ RouterOK' /\ SealOK'
  BY RouterFrame DEF MainOK
<1>3. ASSUME NEW u \in Threads PROVE ThreadOK(u)'
  BY ThreadFrame
<1>4. ASSUME NEW q \in Workers PROVE StreamOK(q)' /\ PassedOK(q)' /\ WorkerOK(q)'
  BY StreamFrame, PassedFrame, WorkerFrame
<1> QED BY <1>1, <1>2, <1>3, <1>4

LEMMA RequestStopInv ==
    ASSUME NEW how \in {"final", "suspend"}, IInv, RequestStop(how)
    PROVE  IInv'
<1> USE ThreadSets DEF IInv, RequestStop, queues, waits, flags, router, worker, aux
<1>1. TypeOK'
  BY DEF TypeOK
<1>2. MainOK' /\ RouterOK' /\ SealOK'
  BY RouterFrame DEF MainOK
<1>3. ASSUME NEW u \in Threads PROVE ThreadOK(u)'
  BY ThreadFrame
<1>4. ASSUME NEW q \in Workers PROVE StreamOK(q)' /\ PassedOK(q)' /\ WorkerOK(q)'
  BY StreamFrame, PassedFrame, WorkerFrame
<1> QED BY <1>1, <1>2, <1>3, <1>4

LEMMA PushWaitsInv ==
    ASSUME IInv, PushWaits
    PROVE  IInv'
<1> USE ThreadSets DEF IInv, PushWaits, queues, waits, flags, router, worker, aux
<1>1. TypeOK'
  BY DEF TypeOK
<1>2. MainOK' /\ RouterOK' /\ SealOK'
  BY RouterFrame DEF MainOK
<1>3. ASSUME NEW u \in Threads PROVE ThreadOK(u)'
  BY ThreadFrame
<1>4. ASSUME NEW q \in Workers PROVE StreamOK(q)' /\ PassedOK(q)' /\ WorkerOK(q)'
  BY StreamFrame, PassedFrame, WorkerFrame
<1> QED BY <1>1, <1>2, <1>3, <1>4

LEMMA PopWaitsInv ==
    ASSUME NEW p \in Workers, IInv, PopWaits(p)
    PROVE  IInv'
<1> USE ThreadSets DEF IInv, PopWaits, queues, waits, flags, router, worker, aux
<1>1. TypeOK'
  BY DEF TypeOK
<1>2. MainOK' /\ RouterOK' /\ SealOK'
  BY RouterFrame DEF MainOK
<1>3. ASSUME NEW u \in Threads PROVE ThreadOK(u)'
  BY ThreadFrame
<1>4. ASSUME NEW q \in Workers PROVE StreamOK(q)' /\ PassedOK(q)' /\ WorkerOK(q)'
  BY StreamFrame, PassedFrame, WorkerFrame
<1> QED BY <1>1, <1>2, <1>3, <1>4

LEMMA StutterInv ==
    ASSUME IInv, UNCHANGED vars
    PROVE  IInv'
<1> USE ThreadSets DEF IInv, vars, queues, waits, flags, router, worker, aux
<1>1. TypeOK'
  BY DEF TypeOK
<1>2. MainOK' /\ RouterOK' /\ SealOK'
  BY RouterFrame DEF MainOK
<1>3. ASSUME NEW u \in Threads PROVE ThreadOK(u)'
  BY ThreadFrame
<1>4. ASSUME NEW q \in Workers PROVE StreamOK(q)' /\ PassedOK(q)' /\ WorkerOK(q)'
  BY StreamFrame, PassedFrame, WorkerFrame
<1> QED BY <1>1, <1>2, <1>3, <1>4

LEMMA ThrowInv ==
    ASSUME NEW t \in Threads, IInv, Throw(t)
    PROVE  IInv'
<1> USE ThreadSets DEF IInv, Throw, queues, waits, flags, router, worker, aux
<1>1. /\ pc' \in [Threads -> PcNames] /\ pc'[t] = "cancel"
      /\ \A u \in Threads : u # t => pc'[u] = pc[u]
  <2>1. "cancel" \in PcNames
    BY DEF PcNames
  <2> QED BY <2>1, TypeFacts, PcMoves
<1>2. pc[t] \in {"next", "process", "flush"}
  BY DEF At
<1>3. TypeOK'
  BY <1>1 DEF TypeOK, PcNames
<1>4. MainOK'
  BY <1>1, <1>2 DEF MainOK, ThreadOK
<1>5. RouterOK' /\ SealOK'
  <2>1. CASE t = Router
    BY <1>1, <2>1 DEF RouterOK, SealOK
  <2>2. CASE t # Router
    BY <1>1, <2>2, RouterFrame
  <2> QED BY <2>1, <2>2
<1>6. ASSUME NEW u \in Threads PROVE ThreadOK(u)'
  <2>1. CASE u = t
    BY <1>1, <1>2, <2>1 DEF ThreadOK
  <2>2. CASE u # t
    BY <1>1, <2>2, ThreadFrame
  <2> QED BY <2>1, <2>2
<1>7. ASSUME NEW q \in Workers PROVE StreamOK(q)' /\ PassedOK(q)'
  BY <1>1, <1>2, StreamFrame DEF PassedOK, Ended
<1>8. ASSUME NEW q \in Workers PROVE WorkerOK(q)'
  <2>1. CASE q = t
    BY <1>1, <1>2, <2>1 DEF WorkerOK, Ended
  <2>2. CASE q # t
    BY <1>1, <2>2, WorkerFrame
  <2> QED BY <2>1, <2>2
<1> QED BY <1>1, <1>2, <1>3, <1>4, <1>5, <1>6, <1>7, <1>8

LEMMA CancelInv ==
    ASSUME NEW t \in Threads, IInv, Cancel(t)
    PROVE  IInv'
<1> USE ThreadSets DEF IInv, Cancel, queues, waits, flags, router, worker, aux
<1>1. /\ pc' \in [Threads -> PcNames] /\ pc'[t] = "close"
      /\ \A u \in Threads : u # t => pc'[u] = pc[u]
  <2>1. "close" \in PcNames
    BY DEF PcNames
  <2> QED BY <2>1, TypeFacts, PcMoves
<1>2. pc[t] = "cancel" /\ error
  BY DEF At, ThreadOK
<1>3. /\ at' \in [Actors -> 0..NumWorkers] /\ at'[t] = 0
      /\ \A u \in Actors : u # t => at'[u] = at[u]
  <2>1. 0 \in 0..NumWorkers /\ t \in Actors
    OBVIOUS
  <2> QED BY <2>1, TypeFacts, IndexMoves
<1>4. TypeOK'
  BY <1>1, <1>3 DEF TypeOK, PcNames
<1>5. MainOK'
  BY <1>1, <1>2, <1>3 DEF MainOK
<1>6. RouterOK' /\ SealOK'
  <2>1. CASE t = Router
    BY <1>1, <2>1 DEF RouterOK, SealOK
  <2>2. CASE t # Router
    BY <1>1, <1>3, <2>2, RouterFrame
  <2> QED BY <2>1, <2>2
<1>7. ASSUME NEW u \in Threads PROVE ThreadOK(u)'
  <2>1. CASE u = t
    BY <1>1, <1>2, <1>3, <2>1 DEF ThreadOK
  <2>2. CASE u # t
    BY <1>1, <1>3, <2>2, ThreadFrame
  <2> QED BY <2>1, <2>2
<1>8. ASSUME NEW q \in Workers PROVE StreamOK(q)' /\ PassedOK(q)'
  BY <1>1, <1>2, <1>3, StreamFrame DEF PassedOK, Ended
<1>9. ASSUME NEW q \in Workers PROVE WorkerOK(q)'
  <2>1. CASE q = t
    BY <1>1, <1>2, <2>1 DEF WorkerOK, Ended
  <2>2. CASE q # t
    BY <1>1, <2>2, WorkerFrame
  <2> QED BY <2>1, <2>2
<1> QED BY <1>1, <1>2, <1>3, <1>4, <1>5, <1>6, <1>7, <1>8, <1>9

LEMMA CloseNextInv ==
    ASSUME NEW t \in Threads, IInv, CloseNext(t)
    PROVE  IInv'
<1> USE ThreadSets DEF IInv, CloseNext, queues, waits, flags, router, worker, aux
<1>1. /\ pc' \in [Threads -> PcNames] /\ pc'[t] \in {"exited", "close"}
      /\ pc'[t] = "close" => at[t] + 1 # NumWorkers
      /\ \A u \in Threads : u # t => pc'[u] = pc[u]
  <2>1. "exited" \in PcNames /\ "close" \in PcNames
    BY DEF PcNames
  <2>2. CASE at[t] + 1 = NumWorkers
    <3>1. Go(t, "exited")
      BY <2>2
    <3>2. pc'[t] = "exited" /\ pc' \in [Threads -> PcNames]
          /\ \A u \in Threads : u # t => pc'[u] = pc[u]
      BY <2>1, <3>1, TypeFacts, PcMoves
    <3> QED BY <3>2
  <2>3. CASE at[t] + 1 # NumWorkers
    <3>1. Go(t, "close")
      BY <2>3
    <3> QED BY <2>1, <2>3, <3>1, TypeFacts, PcMoves
  <2> QED BY <2>2, <2>3
<1>2. pc[t] = "close" /\ error /\ cancelled /\ at[t] \in Workers /\ t \in Actors
  BY DEF At, ThreadOK
<1>3. /\ closed' \in [Workers -> BOOLEAN] /\ owed' \in [Actors -> Seq(Notes)]
      /\ \A q \in Workers : q # at[t] => closed'[q] = closed[q]
  BY <1>2, QueueCloses
<1>4. /\ at' \in [Actors -> 0..NumWorkers] /\ at'[t] = at[t] + 1
      /\ \A u \in Actors : u # t => at'[u] = at[u]
  <2>1. at[t] + 1 \in 0..NumWorkers /\ at' = [at EXCEPT ![t] = at[t] + 1]
    BY <1>2
  <2> QED BY <1>2, <2>1, TypeFacts, IndexMoves
<1>5. TypeOK'
  BY <1>1, <1>3, <1>4 DEF TypeOK, PcNames, Notes
<1>6. MainOK'
  BY <1>1, <1>2, <1>4 DEF MainOK
<1>7. RouterOK' /\ SealOK'
  <2>1. CASE t = Router
    BY <1>1, <2>1 DEF RouterOK, SealOK
  <2>2. CASE t # Router
    BY <1>1, <1>4, <2>2, RouterFrame
  <2> QED BY <2>1, <2>2
<1>8. ASSUME NEW u \in Threads PROVE ThreadOK(u)'
  <2>1. CASE u = t
    BY <1>1, <1>2, <1>4, <2>1 DEF ThreadOK
  <2>2. CASE u # t
    BY <1>1, <1>4, <2>2, ThreadFrame
  <2> QED BY <2>1, <2>2
<1>9. ASSUME NEW q \in Workers PROVE StreamOK(q)' /\ PassedOK(q)'
  BY <1>1, <1>2, <1>4, StreamClosed DEF PassedOK, Ended
<1>10. ASSUME NEW q \in Workers PROVE WorkerOK(q)'
  <2>1. CASE q = t
    BY <1>1, <1>2, <2>1 DEF WorkerOK, Ended
  <2>2. CASE q # t
    BY <1>1, <2>2, WorkerFrame
  <2> QED BY <2>1, <2>2
<1> QED BY <1>1, <1>2, <1>3, <1>4, <1>5, <1>6, <1>7, <1>8, <1>9, <1>10

LEMMA WorkerLoopInv ==
    ASSUME NEW p \in Workers, IInv, WorkerLoop(p)
    PROVE  IInv'
<1> USE ThreadSets DEF IInv, WorkerLoop, queues, waits, flags, router, worker, aux
<1>1. /\ pc' \in [Threads -> PcNames] /\ pc'[p] = IF cancelled THEN "end" ELSE "pop"
      /\ \A u \in Threads : u # p => pc'[u] = pc[u]
  <2>1. (IF cancelled THEN "end" ELSE "pop") \in PcNames
    BY DEF PcNames
  <2> QED BY <2>1, TypeFacts, PcMoves
<1>2. pc[p] = "loop" /\ p # Router
  BY DEF At
<1>3. TypeOK'
  BY <1>1 DEF TypeOK, PcNames
<1>4. MainOK' /\ RouterOK' /\ SealOK'
  BY <1>1, <1>2, RouterFrame DEF MainOK
<1>5. ASSUME NEW u \in Threads PROVE ThreadOK(u)'
  <2>1. CASE u = p
    BY <1>1, <1>2, <2>1 DEF ThreadOK
  <2>2. CASE u # p
    BY <1>1, <2>2, ThreadFrame
  <2> QED BY <2>1, <2>2
<1>6. ASSUME NEW q \in Workers PROVE StreamOK(q)' /\ PassedOK(q)'
  BY <1>1, <1>2, StreamFrame, PassedFrame
<1>8. ASSUME NEW q \in Workers PROVE WorkerOK(q)'
  <2>1. CASE q = p
    BY <1>1, <1>2, <2>1 DEF WorkerOK, Ended
  <2>2. CASE q # p
    BY <1>1, <2>2, WorkerFrame
  <2> QED BY <2>1, <2>2
<1> QED BY <1>1, <1>2, <1>3, <1>4, <1>5, <1>6, <1>8

LEMMA WorkerEndInv ==
    ASSUME NEW p \in Workers, IInv, WorkerEnd(p)
    PROVE  IInv'
<1> USE ThreadSets DEF IInv, WorkerEnd, queues, waits, flags, router, worker, aux
<1>1. /\ pc' \in [Threads -> PcNames] /\ pc'[p] = IF cancelled THEN "exited" ELSE "flush"
      /\ \A u \in Threads : u # p => pc'[u] = pc[u]
  <2>1. (IF cancelled THEN "exited" ELSE "flush") \in PcNames
    BY DEF PcNames
  <2> QED BY <2>1, TypeFacts, PcMoves
<1>2. pc[p] = "end" /\ p # Router
  BY DEF At
<1>3. TypeOK'
  BY <1>1 DEF TypeOK, PcNames
<1>4. MainOK' /\ RouterOK' /\ SealOK'
  BY <1>1, <1>2, RouterFrame DEF MainOK
<1>5. ASSUME NEW u \in Threads PROVE ThreadOK(u)'
  <2>1. CASE u = p
    BY <1>1, <1>2, <2>1 DEF ThreadOK
  <2>2. CASE u # p
    BY <1>1, <2>2, ThreadFrame
  <2> QED BY <2>1, <2>2
<1>6. ASSUME NEW q \in Workers PROVE StreamOK(q)' /\ PassedOK(q)'
  BY <1>1, <1>2, StreamFrame, PassedFrame
<1>8. ASSUME NEW q \in Workers PROVE WorkerOK(q)'
  <2>1. CASE q = p
    BY <1>1, <1>2, <2>1 DEF WorkerOK, Ended
  <2>2. CASE q # p
    BY <1>1, <2>2, WorkerFrame
  <2> QED BY <2>1, <2>2
<1> QED BY <1>1, <1>2, <1>3, <1>4, <1>5, <1>6, <1>8

LEMMA FlushInv ==
    ASSUME NEW p \in Workers, IInv, Flush(p)
    PROVE  IInv'
<1> USE ThreadSets DEF IInv, Flush, queues, waits, flags, router, worker, aux
<1>1. /\ pc' \in [Threads -> PcNames] /\ pc'[p] = "exited"
      /\ \A u \in Threads : u # p => pc'[u] = pc[u]
  <2>1. "exited" \in PcNames
    BY DEF PcNames
  <2> QED BY <2>1, TypeFacts, PcMoves
<1>2. pc[p] = "flush" /\ p # Router
  BY DEF At
<1>3. TypeOK'
  BY <1>1 DEF TypeOK, PcNames
<1>4. MainOK' /\ RouterOK' /\ SealOK'
  BY <1>1, <1>2, RouterFrame DEF MainOK
<1>5. ASSUME NEW u \in Threads PROVE ThreadOK(u)'
  <2>1. CASE u = p
    BY <1>1, <1>2, <2>1 DEF ThreadOK
  <2>2. CASE u # p
    BY <1>1, <2>2, ThreadFrame
  <2> QED BY <2>1, <2>2
<1>6. ASSUME NEW q \in Workers PROVE StreamOK(q)' /\ PassedOK(q)'
  BY <1>1, <1>2, StreamFrame, PassedFrame
<1>8. ASSUME NEW q \in Workers PROVE WorkerOK(q)'
  <2>1. CASE q = p
    <3>1. sentinel[p] \in {"eos", "suspend"}
      BY <1>2, TypeFacts DEF WorkerOK
    <3>2. flushed'[p] = IF sentinel[p] = "suspend" THEN "sink" ELSE "final"
      BY TypeFacts
    <3> QED BY <1>1, <1>2, <2>1, <3>1, <3>2 DEF WorkerOK, Ended
  <2>2. CASE q # p
    <3>1. flushed'[q] = flushed[q]
      BY <2>2, TypeFacts
    <3> QED BY <1>1, <2>2, <3>1, WorkerFrame
  <2> QED BY <2>1, <2>2
<1> QED BY <1>1, <1>2, <1>3, <1>4, <1>5, <1>6, <1>8

LEMMA ProcessInv ==
    ASSUME NEW p \in Workers, IInv, Process(p)
    PROVE  IInv'
<1> USE ThreadSets DEF IInv
<1> DEFINE m == consumed[p][Len(consumed[p])]
<1>0. pc[p] = "process" /\ p # Router /\ Len(consumed[p]) > 0 /\ sentinel[p] = "none"
  BY DEF Process, At, WorkerOK
<1>1. CASE m.kind \in Sentinels
  <2>1. /\ Go(p, "end") /\ sentinel' = [sentinel EXCEPT ![p] = m.kind]
        /\ UNCHANGED <<main, spawned, at, items, closed, asleep, owed, cancelled, error, stop,
                       ending, batches, targets, flushed, sent, consumed>>
    BY <1>1 DEF Process, Sentinels, queues, waits, flags, router, aux
  <2> HIDE DEF m
  <2>2. /\ sentinel' \in [Workers -> {"none", "eos", "suspend"}] /\ sentinel'[p] = m.kind
        /\ \A q \in Workers : q # p => sentinel'[q] = sentinel[q]
    BY <1>1, <2>1, TypeFacts DEF Sentinels
  <2>3. /\ pc' \in [Threads -> PcNames] /\ pc'[p] = "end"
        /\ \A u \in Threads : u # p => pc'[u] = pc[u]
    <3>1. "end" \in PcNames
      BY DEF PcNames
    <3> QED BY <2>1, <3>1, TypeFacts, PcMoves
  <2>4. TypeOK'
    BY <2>1, <2>2, <2>3 DEF TypeOK, PcNames
  <2>5. MainOK' /\ RouterOK' /\ SealOK'
    BY <1>0, <2>1, <2>3, RouterFrame DEF MainOK
  <2>6. ASSUME NEW u \in Threads PROVE ThreadOK(u)'
    <3>1. CASE u = p
      BY <1>0, <2>1, <2>3, <3>1 DEF ThreadOK
    <3>2. CASE u # p
      BY <2>1, <2>3, <3>2, ThreadFrame
    <3> QED BY <3>1, <3>2
  <2>8. ASSUME NEW q \in Workers PROVE StreamOK(q)' /\ PassedOK(q)'
    BY <1>0, <2>1, <2>3, StreamFrame, PassedFrame
  <2>7. ASSUME NEW q \in Workers PROVE WorkerOK(q)'
    <3>1. CASE q = p
      <4>1. items[p] = << >> /\ sent[p] = consumed[p] /\ Ended(p)
        BY <1>0, <1>1, StreamLast, TypeFacts DEF m
      <4>2. m.kind # "none" /\ m.kind = sent[p][Len(sent[p])].kind
        BY <1>1, <4>1 DEF Sentinels, m
      <4> QED BY <1>0, <2>1, <2>2, <2>3, <3>1, <4>1, <4>2 DEF WorkerOK, Ended
    <3>2. CASE q # p
      BY <2>1, <2>2, <2>3, <3>2, WorkerFrame
    <3> QED BY <3>1, <3>2
  <2> QED BY <2>4, <2>5, <2>6, <2>7, <2>8
<1>2. CASE m.kind \notin Sentinels
  <2>1. /\ Go(p, "loop") /\ sentinel' = sentinel
        /\ UNCHANGED <<main, spawned, at, items, closed, asleep, owed, cancelled, error, stop,
                       ending, batches, targets, flushed, sent, consumed>>
    BY <1>2 DEF Process, Sentinels, queues, waits, flags, router, aux
  <2> HIDE DEF m
  <2>2. sentinel' \in [Workers -> {"none", "eos", "suspend"}]
    BY <2>1, TypeFacts
  <2>3. /\ pc' \in [Threads -> PcNames] /\ pc'[p] = "loop"
        /\ \A u \in Threads : u # p => pc'[u] = pc[u]
    <3>1. "loop" \in PcNames
      BY DEF PcNames
    <3> QED BY <2>1, <3>1, TypeFacts, PcMoves
  <2>4. TypeOK'
    BY <2>1, <2>2, <2>3 DEF TypeOK, PcNames
  <2>5. MainOK' /\ RouterOK' /\ SealOK'
    BY <1>0, <2>1, <2>3, RouterFrame DEF MainOK
  <2>6. ASSUME NEW u \in Threads PROVE ThreadOK(u)'
    <3>1. CASE u = p
      BY <1>0, <2>1, <2>3, <3>1 DEF ThreadOK
    <3>2. CASE u # p
      BY <2>1, <2>3, <3>2, ThreadFrame
    <3> QED BY <3>1, <3>2
  <2>8. ASSUME NEW q \in Workers PROVE StreamOK(q)' /\ PassedOK(q)'
    BY <1>0, <2>1, <2>3, StreamFrame, PassedFrame
  <2>7. ASSUME NEW q \in Workers PROVE WorkerOK(q)'
    <3>1. CASE q = p
      <4>1. \A i \in 1..Len(consumed[p]) : consumed[p][i].kind \notin Sentinels
        BY <1>0, <1>2, StreamPlain, TypeFacts DEF m
      <4> QED BY <1>0, <2>1, <2>3, <3>1, <4>1 DEF WorkerOK, Ended
    <3>2. CASE q # p
      BY <2>1, <2>3, <3>2, WorkerFrame
    <3> QED BY <3>1, <3>2
  <2> QED BY <2>4, <2>5, <2>6, <2>7, <2>8
<1> QED BY <1>1, <1>2

LEMMA PopInv ==
    ASSUME NEW p \in Workers, IInv, Pop(p)
    PROVE  IInv'
<1> USE ThreadSets DEF IInv
<1>0. pc[p] = "pop" /\ p # Router /\ CanPop(p) /\ sentinel[p] = "none"
      /\ \A i \in 1..Len(consumed[p]) : consumed[p][i].kind \notin Sentinels
  BY DEF Pop, At, WorkerOK
<1>1. CASE items[p] = << >>
  <2>1. /\ Go(p, "end")
        /\ UNCHANGED <<main, spawned, at, items, closed, asleep, owed, cancelled, error, stop,
                       ending, batches, targets, sentinel, flushed, sent, consumed>>
    BY <1>1 DEF Pop, PopsNothing, flags, router, worker
  <2>2. cancelled
    <3>1. closed[p] /\ sent[p] = consumed[p]
      BY <1>0, <1>1, TypeFacts, ConcatEmptySeq DEF CanPop, StreamOK
    <3>2. ~Ended(p)
      <4>1. Len(consumed[p]) > 0 => Len(consumed[p]) \in 1..Len(consumed[p])
        BY TypeFacts, LenProperties
      <4> QED BY <1>0, <3>1, <4>1 DEF Ended
    <3> QED BY <3>1, <3>2 DEF StreamOK
  <2>3. /\ pc' \in [Threads -> PcNames] /\ pc'[p] = "end"
        /\ \A u \in Threads : u # p => pc'[u] = pc[u]
    <3>1. "end" \in PcNames
      BY DEF PcNames
    <3> QED BY <2>1, <3>1, TypeFacts, PcMoves
  <2>4. TypeOK'
    BY <2>1, <2>2, <2>3 DEF TypeOK, PcNames
  <2>5. MainOK' /\ RouterOK' /\ SealOK'
    BY <1>0, <2>1, <2>3, RouterFrame DEF MainOK
  <2>6. ASSUME NEW u \in Threads PROVE ThreadOK(u)'
    <3>1. CASE u = p
      BY <1>0, <2>1, <2>3, <3>1 DEF ThreadOK
    <3>2. CASE u # p
      BY <2>1, <2>3, <3>2, ThreadFrame
    <3> QED BY <3>1, <3>2
  <2>8. ASSUME NEW q \in Workers PROVE StreamOK(q)' /\ PassedOK(q)'
    BY <1>0, <2>1, <2>3, StreamFrame, PassedFrame
  <2>7. ASSUME NEW q \in Workers PROVE WorkerOK(q)'
    <3>1. CASE q = p
      BY <1>0, <2>1, <2>2, <2>3, <3>1 DEF WorkerOK, Ended
    <3>2. CASE q # p
      BY <2>1, <2>3, <3>2, WorkerFrame
    <3> QED BY <3>1, <3>2
  <2> QED BY <2>4, <2>5, <2>6, <2>7, <2>8
<1>2. CASE items[p] # << >>
  <2>1. /\ Go(p, "process") /\ items' = [items EXCEPT ![p] = Tail(items[p])]
        /\ consumed' = [consumed EXCEPT ![p] = Append(consumed[p], Head(items[p]))]
        /\ Owe(p, PopNotes(p))
        /\ UNCHANGED <<main, spawned, at, closed, asleep, cancelled, error, stop,
                       ending, batches, targets, sentinel, flushed, sent>>
    BY <1>2 DEF Pop, PopsNothing, flags, router, worker
  <2>2. /\ items' \in [Workers -> Seq(Messages)] /\ consumed' \in [Workers -> Seq(Messages)]
        /\ owed' \in [Actors -> Seq(Notes)] /\ \A q \in Workers : Len(items'[q]) =< QueueCapacity
        /\ \A q \in Workers : q # p => items'[q] = items[q] /\ consumed'[q] = consumed[q]
        /\ Len(consumed'[p]) > 0 /\ consumed'[p] \o items'[p] = consumed[p] \o items[p]
    <3>1. /\ items[p] \in Seq(Messages) /\ consumed[p] \in Seq(Messages)
          /\ items'[p] = Tail(items[p]) /\ consumed'[p] = Append(consumed[p], Head(items[p]))
      BY <2>1, TypeFacts
    <3>2. /\ Tail(items[p]) \in Seq(Messages) /\ Head(items[p]) \in Messages
          /\ Len(Tail(items[p])) = Len(items[p]) - 1 /\ Len(items[p]) \in Nat
      BY <1>2, <3>1, HeadTailProperties, LenProperties
    <3>3. /\ Append(consumed[p], Head(items[p])) \in Seq(Messages)
          /\ Len(Append(consumed[p], Head(items[p]))) > 0
      BY <3>1, <3>2, AppendProperties, LenProperties
    <3>4. owed' \in [Actors -> Seq(Notes)]
      BY <2>1, TypeFacts, OwedGrows, NotesTyped
    <3>5. items' \in [Workers -> Seq(Messages)] /\ consumed' \in [Workers -> Seq(Messages)]
          /\ \A q \in Workers : q # p => items'[q] = items[q] /\ consumed'[q] = consumed[q]
      BY <2>1, <3>2, <3>3, TypeFacts
    <3>6. ASSUME NEW q \in Workers PROVE Len(items'[q]) =< QueueCapacity
      <4>1. Len(items[q]) =< QueueCapacity
        BY DEF TypeOK
      <4> QED BY <3>1, <3>2, <3>5, <4>1
    <3> QED BY <1>2, <3>1, <3>3, <3>4, <3>5, <3>6, MoveHead
  <2>3. /\ pc' \in [Threads -> PcNames] /\ pc'[p] = "process"
        /\ \A u \in Threads : u # p => pc'[u] = pc[u]
    <3>1. "process" \in PcNames
      BY DEF PcNames
    <3> QED BY <2>1, <3>1, TypeFacts, PcMoves
  <2>4. TypeOK'
    BY <2>1, <2>2, <2>3 DEF TypeOK, PcNames, Notes
  <2>5. MainOK' /\ RouterOK' /\ SealOK'
    BY <1>0, <2>1, <2>3, RouterFrame DEF MainOK
  <2>6. ASSUME NEW u \in Threads PROVE ThreadOK(u)'
    <3>1. CASE u = p
      BY <1>0, <2>1, <2>3, <3>1 DEF ThreadOK
    <3>2. CASE u # p
      BY <2>1, <2>3, <3>2, ThreadFrame
    <3> QED BY <3>1, <3>2
  <2>8. ASSUME NEW q \in Workers PROVE StreamOK(q)' /\ PassedOK(q)'
    <3>1. CASE q = p
      BY <1>0, <2>1, <2>2, <2>3, <3>1, PassedFrame DEF StreamOK, Ended
    <3>2. CASE q # p
      BY <1>0, <2>1, <2>2, <2>3, <3>2, StreamFrame, PassedFrame
    <3> QED BY <3>1, <3>2
  <2>7. ASSUME NEW q \in Workers PROVE WorkerOK(q)'
    <3>1. CASE q = p
      BY <1>0, <2>1, <2>2, <2>3, <3>1 DEF WorkerOK, Ended
    <3>2. CASE q # p
      BY <2>1, <2>2, <2>3, <3>2, WorkerFrame
    <3> QED BY <3>1, <3>2
  <2> QED BY <2>4, <2>5, <2>6, <2>7, <2>8
<1> QED BY <1>1, <1>2

LEMMA NextBatchInv ==
    ASSUME IInv, NextBatch
    PROVE  IInv'
<1> USE ThreadSets DEF IInv, NextBatch, queues, waits, flags, router, worker, aux
<1>1. /\ pc' \in [Threads -> PcNames] /\ pc'[Router] = "push"
      /\ \A u \in Threads : u # Router => pc'[u] = pc[u]
  <2>1. "push" \in PcNames
    BY DEF PcNames
  <2> QED BY <2>1, TypeFacts, PcMoves
<1>2. pc[Router] = "next"
  BY DEF At
<1>3. /\ at' \in [Actors -> 0..NumWorkers] /\ at'[Router] = 0
      /\ \A u \in Actors : u # Router => at'[u] = at[u]
  <2>1. 0 \in 0..NumWorkers /\ Router \in Actors
    OBVIOUS
  <2> QED BY <2>1, TypeFacts, IndexMoves
<1>4. TypeOK'
  <2>1. batches \in Nat /\ batches < NumBatches /\ batches' = batches + 1
    BY TypeFacts
  <2>2. batches' \in 0..NumBatches
    BY <2>1
  <2>3. targets' \subseteq Workers
    OBVIOUS
  <2> QED BY <1>1, <1>3, <2>2, <2>3 DEF TypeOK, PcNames
<1>5. MainOK' /\ RouterOK' /\ SealOK'
  <2>1. MainOK'
    BY <1>1, <1>2, <1>3 DEF MainOK
  <2>2. RouterOK' /\ SealOK'
    BY <1>1, <1>2, <1>3 DEF RouterOK, SealOK, Sentinels
  <2> QED BY <2>1, <2>2
<1>6. ASSUME NEW u \in Threads PROVE ThreadOK(u)'
  <2>1. CASE u = Router
    BY <1>1, <1>2, <1>3, <2>1 DEF ThreadOK
  <2>2. CASE u # Router
    BY <1>1, <1>3, <2>2, ThreadFrame
  <2> QED BY <2>1, <2>2
<1>7. ASSUME NEW q \in Workers PROVE WorkerOK(q)'
  BY <1>1, WorkerFrame
<1>8. ASSUME NEW q \in Workers PROVE StreamOK(q)' /\ PassedOK(q)'
  <2>1. ~Ended(q)
    BY <1>2 DEF PassedOK
  <2>2. ~Ended(q)'
    BY <2>1 DEF Ended
  <2> QED BY <2>1, <2>2, StreamFrame DEF PassedOK
<1> QED BY <1>1, <1>2, <1>3, <1>4, <1>5, <1>6, <1>7, <1>8

LEMMA NextEmptyInv ==
    ASSUME IInv, NextEmpty
    PROVE  IInv'
<1> USE ThreadSets DEF IInv, NextEmpty, queues, waits, flags, router, worker, aux
<1>1. /\ pc' \in [Threads -> PcNames] /\ pc'[Router] = "loop"
      /\ \A u \in Threads : u # Router => pc'[u] = pc[u]
  <2>1. "loop" \in PcNames
    BY DEF PcNames
  <2> QED BY <2>1, TypeFacts, PcMoves
<1>2. pc[Router] = "next"
  BY DEF At
<1>3. \A u \in Actors : at'[u] = at[u]
  OBVIOUS
<1>4. TypeOK'
  BY <1>1, <1>3 DEF TypeOK, PcNames
<1>5. MainOK' /\ RouterOK' /\ SealOK'
  <2>1. MainOK'
    BY <1>1, <1>2, <1>3 DEF MainOK
  <2>2. RouterOK' /\ SealOK'
    BY <1>1, <1>2, <1>3 DEF RouterOK, SealOK, Sentinels
  <2> QED BY <2>1, <2>2
<1>6. ASSUME NEW u \in Threads PROVE ThreadOK(u)'
  <2>1. CASE u = Router
    BY <1>1, <1>2, <1>3, <2>1 DEF ThreadOK
  <2>2. CASE u # Router
    BY <1>1, <1>3, <2>2, ThreadFrame
  <2> QED BY <2>1, <2>2
<1>7. ASSUME NEW q \in Workers PROVE WorkerOK(q)'
  BY <1>1, WorkerFrame
<1>8. ASSUME NEW q \in Workers PROVE StreamOK(q)' /\ PassedOK(q)'
  <2>1. ~Ended(q)
    BY <1>2 DEF PassedOK
  <2>2. ~Ended(q)'
    BY <2>1 DEF Ended
  <2> QED BY <2>1, <2>2, StreamFrame DEF PassedOK
<1> QED BY <1>1, <1>2, <1>3, <1>4, <1>5, <1>6, <1>7, <1>8

LEMMA NextEndsInv ==
    ASSUME IInv, NextEnds
    PROVE  IInv'
<1> USE ThreadSets DEF IInv, NextEnds, LeaveLoop, queues, waits, flags, router, worker, aux
<1>1. /\ pc' \in [Threads -> PcNames] /\ pc'[Router] \in {"barrier", "sentinel"}
      /\ \A u \in Threads : u # Router => pc'[u] = pc[u]
  <2>1. "barrier" \in PcNames /\ "sentinel" \in PcNames
    BY DEF PcNames
  <2>2. Go(Router, "barrier") \/ Go(Router, "sentinel")
    OBVIOUS
  <2> QED BY <2>1, <2>2, TypeFacts, PcMoves
<1>2. pc[Router] = "next" /\ ending' \in {"eos", "suspend"}
  BY DEF At
<1>3. /\ at' \in [Actors -> 0..NumWorkers] /\ at'[Router] = 0
      /\ \A u \in Actors : u # Router => at'[u] = at[u]
  <2>1. 0 \in 0..NumWorkers /\ Router \in Actors
    OBVIOUS
  <2> QED BY <2>1, TypeFacts, IndexMoves
<1>4. TypeOK'
  BY <1>1, <1>2, <1>3 DEF TypeOK, PcNames
<1>5. MainOK' /\ RouterOK' /\ SealOK'
  <2>1. MainOK'
    BY <1>1, <1>2, <1>3 DEF MainOK
  <2>2. RouterOK' /\ SealOK'
    BY <1>1, <1>2, <1>3 DEF RouterOK, SealOK, Sentinels
  <2> QED BY <2>1, <2>2
<1>6. ASSUME NEW u \in Threads PROVE ThreadOK(u)'
  <2>1. CASE u = Router
    BY <1>1, <1>2, <1>3, <2>1 DEF ThreadOK
  <2>2. CASE u # Router
    BY <1>1, <1>3, <2>2, ThreadFrame
  <2> QED BY <2>1, <2>2
<1>7. ASSUME NEW q \in Workers PROVE WorkerOK(q)'
  BY <1>1, WorkerFrame
<1>8. ASSUME NEW q \in Workers PROVE StreamOK(q)' /\ PassedOK(q)'
  <2>1. ~Ended(q)
    BY <1>2 DEF PassedOK
  <2>2. ~Ended(q)'
    BY <2>1 DEF Ended
  <2> QED BY <2>1, <2>2, StreamFrame DEF PassedOK
<1> QED BY <1>1, <1>2, <1>3, <1>4, <1>5, <1>6, <1>7, <1>8

LEMMA RouterLoopInv ==
    ASSUME IInv, RouterLoop
    PROVE  IInv'
<1> USE ThreadSets DEF IInv, RouterLoop, LeaveLoop, queues, waits, flags, router, worker, aux
<1>1. /\ pc' \in [Threads -> PcNames] /\ pc'[Router] \in {"next", "barrier", "sentinel"}
      /\ \A u \in Threads : u # Router => pc'[u] = pc[u]
  <2>1. "next" \in PcNames /\ "barrier" \in PcNames /\ "sentinel" \in PcNames
    BY DEF PcNames
  <2>2. Go(Router, "next") \/ Go(Router, "barrier") \/ Go(Router, "sentinel")
    OBVIOUS
  <2> QED BY <2>1, <2>2, TypeFacts, PcMoves
<1>2. /\ pc[Router] = "loop" /\ ending' \in {"none", "eos", "suspend"}
      /\ pc'[Router] \in {"barrier", "sentinel"} => ending' \in {"eos", "suspend"}
  <2>1. pc[Router] = "loop" /\ Router \in Threads
    BY DEF At
  <2>2. CASE cancelled \/ stop # "none"
    BY <2>1, <2>2
  <2>3. CASE ~(cancelled \/ stop # "none")
    <3>1. pc'[Router] = "next" /\ ending' = ending
      BY <2>3, TypeFacts DEF Go
    <3> QED BY <2>1, <3>1, TypeFacts
  <2> QED BY <2>1, <2>2, <2>3
<1>3. /\ at' \in [Actors -> 0..NumWorkers]
      /\ pc'[Router] \in {"barrier", "sentinel"} => at'[Router] = 0
      /\ \A u \in Actors : u # Router => at'[u] = at[u]
  <2>1. 0 \in 0..NumWorkers /\ Router \in Actors
    OBVIOUS
  <2>2. CASE cancelled \/ stop # "none"
    BY <2>1, <2>2, TypeFacts, IndexMoves
  <2>3. CASE ~(cancelled \/ stop # "none")
    BY <2>3, TypeFacts DEF Go
  <2> QED BY <2>2, <2>3
<1>4. TypeOK'
  BY <1>1, <1>2, <1>3 DEF TypeOK, PcNames
<1>5. MainOK' /\ RouterOK' /\ SealOK'
  <2>1. MainOK'
    BY <1>1, <1>2, <1>3 DEF MainOK
  <2>2. RouterOK' /\ SealOK'
    BY <1>1, <1>2, <1>3 DEF RouterOK, SealOK, Sentinels
  <2> QED BY <2>1, <2>2
<1>6. ASSUME NEW u \in Threads PROVE ThreadOK(u)'
  <2>1. CASE u = Router
    BY <1>1, <1>2, <1>3, <2>1 DEF ThreadOK
  <2>2. CASE u # Router
    BY <1>1, <1>3, <2>2, ThreadFrame
  <2> QED BY <2>1, <2>2
<1>7. ASSUME NEW q \in Workers PROVE WorkerOK(q)'
  BY <1>1, WorkerFrame
<1>8. ASSUME NEW q \in Workers PROVE StreamOK(q)' /\ PassedOK(q)'
  <2>1. ~Ended(q)
    BY <1>2 DEF PassedOK
  <2>2. ~Ended(q)'
    BY <2>1 DEF Ended
  <2> QED BY <2>1, <2>2, StreamFrame DEF PassedOK
<1> QED BY <1>1, <1>2, <1>3, <1>4, <1>5, <1>6, <1>7, <1>8

LEMMA PushSkipsInv ==
    ASSUME IInv, PushSkips
    PROVE  IInv'
<1> USE ThreadSets DEF IInv, PushSkips, queues, waits, flags, router, worker, aux
<1>2. pc[Router] = "push" /\ at[Router] \in Workers
  BY DEF Walking, At, Skips, RouterOK
<1>1. /\ pc' \in [Threads -> PcNames] /\ at' \in [Actors -> 0..NumWorkers]
      /\ \A u \in Threads : u # Router => pc'[u] = pc[u]
      /\ \A u \in Actors : u # Router => at'[u] = at[u]
      /\ \/ pc'[Router] = "loop"
         \/ pc'[Router] = "push" /\ at'[Router] \in Workers
  <2>1. Advance("push")
    BY <1>2
  <2>2. /\ pc' \in [Threads -> PcNames] /\ at' \in [Actors -> 0..NumWorkers]
        /\ \A u \in Threads : u # Router => pc'[u] = pc[u]
        /\ \A u \in Actors : u # Router => at'[u] = at[u]
        /\ \/ at[Router] + 1 = NumWorkers /\ pc'[Router] = After("push") /\ at'[Router] = 0
           \/ /\ at[Router] + 1 < NumWorkers
              /\ pc'[Router] = "push" /\ at'[Router] = at[Router] + 1
    BY <1>2, <2>1, RouterAdvances
  <2> QED BY <1>2, <2>2, NextWorker DEF After
<1>3. TRUE
  OBVIOUS
<1>4. TypeOK'
  BY <1>1, <1>3 DEF TypeOK, PcNames
<1>5. MainOK' /\ RouterOK' /\ SealOK'
  <2>1. MainOK'
    BY <1>1, <1>2, <1>3 DEF MainOK
  <2>2. RouterOK' /\ SealOK'
    BY <1>1, <1>2, <1>3 DEF RouterOK, SealOK, Sentinels
  <2> QED BY <2>1, <2>2
<1>6. ASSUME NEW u \in Threads PROVE ThreadOK(u)'
  <2>1. CASE u = Router
    BY <1>1, <1>2, <1>3, <2>1 DEF ThreadOK
  <2>2. CASE u # Router
    BY <1>1, <1>3, <2>2, ThreadFrame
  <2> QED BY <2>1, <2>2
<1>7. ASSUME NEW q \in Workers PROVE WorkerOK(q)'
  BY <1>1, WorkerFrame
<1>8. ASSUME NEW q \in Workers PROVE StreamOK(q)' /\ PassedOK(q)'
  <2>1. ~Ended(q)
    BY <1>2 DEF PassedOK
  <2>2. ~Ended(q)'
    BY <2>1 DEF Ended
  <2> QED BY <2>1, <2>2, StreamFrame DEF PassedOK
<1> QED BY <1>2, <1>1, <1>3, <1>4, <1>5, <1>6, <1>7, <1>8

LEMMA SealInv ==
    ASSUME IInv, Seal
    PROVE  IInv'
<1> USE ThreadSets DEF IInv, Seal, queues, waits, flags, router, worker, aux
<1>2. /\ pc[Router] = "seal" /\ at[Router] \in Workers /\ Router \in Actors
      /\ Ended(at[Router]) /\ ending \in Sentinels
  BY DEF At, RouterOK, SealOK
<1>1. /\ pc' \in [Threads -> PcNames] /\ at' \in [Actors -> 0..NumWorkers]
      /\ \A u \in Threads : u # Router => pc'[u] = pc[u]
      /\ \A u \in Actors : u # Router => at'[u] = at[u]
      /\ \/ pc'[Router] = "exited"
         \/ pc'[Router] = "sentinel" /\ at'[Router] \in Workers /\ at'[Router] = at[Router] + 1
  <2>1. /\ pc' \in [Threads -> PcNames] /\ at' \in [Actors -> 0..NumWorkers]
        /\ \A u \in Threads : u # Router => pc'[u] = pc[u]
        /\ \A u \in Actors : u # Router => at'[u] = at[u]
        /\ \/ at[Router] + 1 = NumWorkers /\ pc'[Router] = After("sentinel") /\ at'[Router] = 0
           \/ /\ at[Router] + 1 < NumWorkers
              /\ pc'[Router] = "sentinel" /\ at'[Router] = at[Router] + 1
    BY <1>2, RouterAdvances
  <2> QED BY <1>2, <2>1, NextWorker DEF After
<1>3. /\ closed' \in [Workers -> BOOLEAN] /\ owed' \in [Actors -> Seq(Notes)]
      /\ \A q \in Workers : q # at[Router] => closed'[q] = closed[q]
  BY <1>2, QueueCloses
<1>4. TypeOK'
  BY <1>1, <1>3 DEF TypeOK, PcNames, Notes
<1>5. MainOK' /\ RouterOK' /\ SealOK'
  <2>1. MainOK'
    BY <1>1, <1>2 DEF MainOK
  <2>2. RouterOK' /\ SealOK'
    BY <1>1, <1>2 DEF RouterOK, SealOK, Sentinels
  <2> QED BY <2>1, <2>2
<1>6. ASSUME NEW u \in Threads PROVE ThreadOK(u)'
  <2>1. CASE u = Router
    BY <1>1, <1>2, <1>3, <2>1 DEF ThreadOK
  <2>2. CASE u # Router
    BY <1>1, <1>3, <2>2, ThreadFrame
  <2> QED BY <2>1, <2>2
<1>7. ASSUME NEW q \in Workers PROVE WorkerOK(q)'
  BY <1>1, WorkerFrame
<1>8. ASSUME NEW q \in Workers PROVE StreamOK(q)' /\ PassedOK(q)'
  <2>1. StreamOK(q)'
    <3>1. CASE q = at[Router]
      BY <1>2, <3>1, StreamClosed
    <3>2. CASE q # at[Router]
      BY <1>3, <3>2, StreamFrame
    <3> QED BY <3>1, <3>2
  <2>2. PassedOK(q)'
    <3>1. Ended(q)' => q =< at[Router]
      BY <1>2 DEF PassedOK, Ended
    <3>2. q \in Int /\ at[Router] \in Int
      BY <1>2
    <3>3. q =< at[Router] => q < at[Router] + 1
      BY <3>2
    <3> QED BY <1>1, <3>1, <3>3 DEF PassedOK
  <2> QED BY <2>1, <2>2
<1> QED BY <1>2, <1>1, <1>3, <1>4, <1>5, <1>6, <1>7, <1>8

LEMMA PushInv ==
    ASSUME IInv, Push
    PROVE  IInv'
<1> USE ThreadSets DEF IInv
<1>p. PICK p \in Workers : p = at[Router]
  BY DEF Push, Walking, At, RouterOK
<1>0. /\ pc[Router] \in {"push", "barrier", "sentinel"} /\ at[Router] = p /\ Router \in Actors
      /\ CanPush(p) /\ (pc[Router] \in {"barrier", "sentinel"} => ending \in Sentinels)
  BY <1>p DEF Push, Walking, At, RouterOK
<1>1. ASSUME NEW q \in Workers, Ended(q) PROVE pc[Router] = "sentinel" /\ q < p
  BY <1>0, <1>1 DEF PassedOK
<1>2. ~Ended(p)
  <2>1. ~(p < p)
    OBVIOUS
  <2> QED BY <1>1, <2>1
<1>3. CASE closed[p]
  <2>1. /\ Go(Router, "exited")
        /\ UNCHANGED <<main, spawned, at, items, closed, asleep, owed, cancelled, error, stop,
                       ending, batches, targets, sentinel, flushed, sent, consumed>>
    BY <1>0, <1>3 DEF Push, flags, router, worker
  <2>2. cancelled
    BY <1>0, <1>2, <1>3 DEF StreamOK
  <2>3. /\ pc' \in [Threads -> PcNames] /\ pc'[Router] = "exited"
        /\ \A u \in Threads : u # Router => pc'[u] = pc[u]
    <3>1. "exited" \in PcNames
      BY DEF PcNames
    <3> QED BY <2>1, <3>1, TypeFacts, PcMoves
  <2>4. TypeOK'
    BY <2>1, <2>3 DEF TypeOK, PcNames
  <2>5. MainOK' /\ RouterOK' /\ SealOK'
    BY <2>1, <2>3 DEF MainOK, RouterOK, SealOK
  <2>6. ASSUME NEW u \in Threads PROVE ThreadOK(u)'
    <3>1. CASE u = Router
      BY <1>0, <2>1, <2>3, <3>1 DEF ThreadOK
    <3>2. CASE u # Router
      BY <2>1, <2>3, <3>2, ThreadFrame
    <3> QED BY <3>1, <3>2
  <2>7. ASSUME NEW q \in Workers PROVE StreamOK(q)' /\ PassedOK(q)' /\ WorkerOK(q)'
    BY <2>1, <2>3, StreamFrame, WorkerFrame DEF PassedOK
  <2> QED BY <2>4, <2>5, <2>6, <2>7
<1>4. CASE ~closed[p]
  <2>1. /\ Enqueue(p, Message) /\ Owe(Router, PushNotes(p))
        /\ IF pc[Router] = "sentinel" THEN Go(Router, "seal") /\ UNCHANGED at
                                      ELSE Advance(pc[Router])
        /\ UNCHANGED <<main, spawned, closed, asleep, cancelled, error, stop,
                       ending, batches, targets, sentinel, flushed, consumed>>
    BY <1>0, <1>4 DEF Push, flags, router, worker
  <2>2. /\ Message \in Messages /\ (Message.kind \in Sentinels => Message.kind = ending)
        /\ (Message.kind \in Sentinels <=> pc[Router] = "sentinel")
    BY <1>0, TypeFacts DEF Message, Messages, Sentinels
  <2>3. /\ items' \in [Workers -> Seq(Messages)] /\ sent' \in [Workers -> Seq(Messages)]
        /\ \A q \in Workers : Len(items'[q]) =< QueueCapacity
        /\ \A q \in Workers : q # p => items'[q] = items[q] /\ sent'[q] = sent[q]
        /\ StreamOK(p)' /\ (Ended(p)' <=> Message.kind \in Sentinels)
    <3>1. Len(items[p]) < QueueCapacity
      BY <1>0, <1>4 DEF CanPush
    <3> QED BY <1>0, <1>2, <1>4, <2>1, <2>2, <3>1, StreamGrows
  <2>4. owed' \in [Actors -> Seq(Notes)]
    BY <1>0, <2>1, TypeFacts, OwedGrows, NotesTyped
  <2>5. /\ pc' \in [Threads -> PcNames] /\ at' \in [Actors -> 0..NumWorkers]
        /\ \A u \in Threads : u # Router => pc'[u] = pc[u]
        /\ \A u \in Actors : u # Router => at'[u] = at[u]
        /\ \/ pc[Router] = "sentinel" /\ pc'[Router] = "seal" /\ at'[Router] = p
           \/ /\ pc[Router] # "sentinel"
              /\ pc'[Router] \in {"loop", "push", "barrier", "sentinel"}
              /\ pc'[Router] # "loop" => at'[Router] \in Workers
              /\ pc'[Router] \in {"barrier", "sentinel"} => pc[Router] = "barrier"
    <3>1. CASE pc[Router] = "sentinel"
      <4>1. "seal" \in PcNames
        BY DEF PcNames
      <4>2. at' = at
        BY <2>1, <3>1
      <4> QED BY <1>0, <2>1, <3>1, <4>1, <4>2, TypeFacts, PcMoves
    <3>2. CASE pc[Router] # "sentinel"
      <4> DEFINE walk == pc[Router]
      <4>1. Advance(walk) /\ walk \in {"push", "barrier"}
        BY <1>0, <2>1, <3>2
      <4>2. /\ pc' \in [Threads -> PcNames] /\ at' \in [Actors -> 0..NumWorkers]
            /\ \A u \in Threads : u # Router => pc'[u] = pc[u]
            /\ \A u \in Actors : u # Router => at'[u] = at[u]
            /\ \/ p + 1 = NumWorkers /\ pc'[Router] = After(walk) /\ at'[Router] = 0
               \/ p + 1 < NumWorkers /\ pc'[Router] = walk /\ at'[Router] = p + 1
        BY <1>0, <4>1, RouterAdvances
      <4>3. p + 1 < NumWorkers => p + 1 \in Workers
        BY NextWorker
      <4>4. After(walk) = IF walk = "push" THEN "loop" ELSE "sentinel"
        BY <4>1 DEF After
          <4> QED BY <3>2, <4>1, <4>2, <4>3, <4>4
    <3> QED BY <3>1, <3>2
  <2>6. TypeOK'
    BY <2>1, <2>3, <2>4, <2>5 DEF TypeOK, PcNames, Notes
  <2>7. MainOK'
    BY <1>0, <2>1, <2>5 DEF MainOK
  <2>8. RouterOK' /\ SealOK'
    BY <1>0, <2>1, <2>2, <2>3, <2>5 DEF RouterOK, SealOK, Ended
  <2>9. ASSUME NEW u \in Threads PROVE ThreadOK(u)'
    <3>1. CASE u = Router
      BY <1>0, <2>1, <2>5, <3>1 DEF ThreadOK
    <3>2. CASE u # Router
      BY <2>1, <2>5, <3>2, ThreadFrame
    <3> QED BY <3>1, <3>2
  <2>10. ASSUME NEW q \in Workers PROVE StreamOK(q)' /\ PassedOK(q)' /\ WorkerOK(q)'
    <3>1. CASE q = p
      <4>1. PassedOK(p)'
        <5>1. p =< p
          BY <1>0
        <5> QED BY <2>2, <2>3, <2>5, <5>1 DEF PassedOK
      <4>2. WorkerOK(p)'
        BY <1>0, <1>2, <2>1, <2>3, <2>5 DEF WorkerOK
      <4> QED BY <2>3, <3>1, <4>1, <4>2
    <3>2. CASE q # p
      <4>1. Ended(q)' => Ended(q)
        BY <2>3, <3>2 DEF Ended
      <4>2. PassedOK(q)'
        <5>1. q < p => q =< p
          BY <1>0
        <5> QED BY <1>0, <1>1, <2>1, <2>5, <4>1, <5>1 DEF PassedOK
      <4> QED BY <2>1, <2>3, <2>5, <3>2, <4>2, StreamFrame, WorkerFrame
    <3> QED BY <3>1, <3>2
  <2> QED BY <2>6, <2>7, <2>8, <2>9, <2>10
<1> QED BY <1>3, <1>4

-----------------------------------------------------------------------------
LEMMA NextInv == IInv /\ [Next]_vars => IInv'
<1> SUFFICES ASSUME IInv, [Next]_vars PROVE IInv'
  OBVIOUS
<1>1. CASE MainStep
  BY <1>1, SpawnInv, SpawnFailsInv, UnwindInv, JoinRouterInv, JoinWorkersInv, NotifyInv, ThreadSets
     DEF MainStep
<1>2. CASE RouterStep
  BY <1>2, RouterLoopInv, NextBatchInv, NextEmptyInv, NextEndsInv, PushSkipsInv, PushWaitsInv,
     PushInv, SealInv DEF RouterStep
<1>3. ASSUME NEW p \in Workers, WorkerStep(p) PROVE IInv'
  BY <1>3, WorkerLoopInv, PopWaitsInv, PopInv, ProcessInv, WorkerEndInv, FlushInv DEF WorkerStep
<1>4. ASSUME NEW t \in Threads, FailStep(t) \/ Throw(t) \/ Notify(t) \/ SpuriousWakeup(t)
      PROVE  IInv'
  BY <1>4, CancelInv, CloseNextInv, ThrowInv, NotifyInv, SpuriousWakeupInv, ThreadSets DEF FailStep
<1>5. ASSUME NEW how \in {"final", "suspend"}, RequestStop(how) PROVE IInv'
  BY <1>5, RequestStopInv
<1>6. CASE UNCHANGED vars
  BY <1>6, StutterInv
<1> QED BY <1>1, <1>2, <1>3, <1>4, <1>5, <1>6 DEF Next

THEOREM Invariance == Spec => []IInv
  BY InitInv, NextInv, PTL DEF Spec

(***************************************************************************)
(* Every variable keeps its type, and no queue ever holds more than        *)
(* config.queue_capacity messages (BoundedQueue::Push).                    *)
(***************************************************************************)
THEOREM TypesHold == Spec => []TypeOK
<1>1. IInv => TypeOK
  BY DEF IInv
<1> QED BY <1>1, Invariance, PTL

LEMMA FlushedWhole ==
    ASSUME IInv, NEW p \in Workers, sentinel[p] # "none"
    PROVE  WholeStream(p) /\ items[p] = << >> /\ sentinel[p] = ending
<1>1. items[p] = << >> /\ Ended(p) /\ sent[p][Len(sent[p])].kind = sentinel[p]
  BY DEF IInv, WorkerOK
<1>2. sent[p] = consumed[p]
  BY <1>1, TypeFacts, ConcatEmptySeq DEF IInv, StreamOK
<1>3. sentinel[p] = ending
  BY <1>1 DEF IInv, StreamOK
<1> QED BY <1>1, <1>2, <1>3 DEF WholeStream

\* The router ends the streams because the input ended, a final stop was
\* requested or a thread threw; a worker does not flush in the last case.
Concluded == batches = NumBatches \/ stop = "final"
Flushing(p) == (pc[p] = "flush" \/ flushed[p] = "final") /\ sentinel[p] = "eos"
EndInv == /\ ending = "eos" => cancelled \/ Concluded
          /\ \A p \in Workers : Flushing(p) => Concluded

LEMMA EndFrame ==
    ASSUME EndInv, Concluded => Concluded', cancelled => cancelled', ending' = ending,
           \A p \in Workers : Flushing(p)' => Flushing(p)
    PROVE  EndInv'
  BY DEF EndInv

LEMMA NextEndInv == IInv /\ EndInv /\ [Next]_vars => EndInv'
<1> SUFFICES ASSUME IInv, EndInv, [Next]_vars PROVE EndInv'
  OBVIOUS
<1> USE ThreadSets
<1>0. pc \in [Threads -> PcNames] /\ batches \in 0..NumBatches /\ spawned \in 0..(NumWorkers + 1)
      /\ sentinel \in [Workers -> {"none", "eos", "suspend"}]
      /\ flushed \in [Workers -> {"no", "sink", "final"}]
  BY TypeFacts DEF IInv, TypeOK, PcNames
<1>1. CASE MainStep
  <2>1. CASE Spawn
    <3>1. \A p \in Workers : pc'[p] = pc[p] \/ pc'[p] = "loop"
      BY <1>0, <2>1 DEF Spawn, Go
    <3> QED BY <2>1, <3>1, EndFrame DEF Spawn, Flushing, Concluded, flags, router, worker
  <2>2. CASE SpawnFails \/ Unwind \/ JoinRouter \/ JoinWorkers \/ Notify(Main)
    BY <2>2, EndFrame DEF SpawnFails, Unwind, JoinRouter, JoinWorkers, Notify, Flushing,
                          Concluded, flags, router, worker
  <2> QED BY <1>1, <2>1, <2>2 DEF MainStep
<1>2. CASE RouterStep
  <2>0. ASSUME sentinel' = sentinel, flushed' = flushed, batches' = batches, stop' = stop,
               \A p \in Workers : pc'[p] = pc[p]
        PROVE  (Concluded => Concluded') /\ \A p \in Workers : Flushing(p)' => Flushing(p)
    BY <2>0 DEF Concluded, Flushing
  <2>1. CASE RouterLoop \/ NextEnds
    <3>1. \A p \in Workers : pc'[p] = pc[p]
      BY <1>0, <2>1 DEF RouterLoop, NextEnds, LeaveLoop, Go
    <3>2. (Concluded => Concluded') /\ \A p \in Workers : Flushing(p)' => Flushing(p)
      BY <2>0, <2>1, <3>1 DEF RouterLoop, NextEnds, flags, worker
    <3>3. ending' = "eos" => cancelled' \/ Concluded'
      BY <2>1, TypeFacts DEF RouterLoop, NextEnds, flags, Concluded, EndInv, IInv
    <3>4. \A p \in Workers : Flushing(p)' => Concluded'
      BY <3>2 DEF EndInv
    <3> QED BY <3>3, <3>4 DEF EndInv
  <2>2. CASE NextBatch
    <3>1. \A p \in Workers : pc'[p] = pc[p]
      BY <1>0, <2>2 DEF NextBatch, Go
    <3>2. Concluded => Concluded'
      BY <1>0, <2>2 DEF NextBatch, Concluded, flags
    <3>3. /\ cancelled' = cancelled /\ ending' = ending
          /\ \A p \in Workers : Flushing(p)' => Flushing(p)
      BY <2>2, <3>1 DEF NextBatch, flags, worker, Flushing
    <3> QED BY <3>2, <3>3, EndFrame
  <2>3. CASE NextEmpty \/ PushSkips \/ PushWaits \/ Push \/ Seal
    <3>1. \A p \in Workers : pc'[p] = pc[p]
      BY <1>0, <2>3 DEF NextEmpty, PushSkips, PushWaits, Push, Seal, Advance, Go
    <3>2. UNCHANGED <<flags, router, worker>>
      BY <2>3 DEF NextEmpty, PushSkips, PushWaits, Push, Seal
    <3>3. (cancelled => cancelled') /\ ending' = ending
      BY <3>2 DEF flags, router
    <3>4. (Concluded => Concluded') /\ \A p \in Workers : Flushing(p)' => Flushing(p)
      BY <2>0, <3>1, <3>2 DEF flags, router, worker
    <3> QED BY <3>3, <3>4, EndFrame
  <2> QED BY <1>2, <2>1, <2>2, <2>3 DEF RouterStep
<1>3. ASSUME NEW p \in Workers, WorkerStep(p) PROVE EndInv'
  <2>1. \A q \in Workers : q # p => pc'[q] = pc[q] /\ sentinel'[q] = sentinel[q]
                                   /\ flushed'[q] = flushed[q]
    BY <1>0, <1>3 DEF WorkerStep, WorkerLoop, PopWaits, Pop, Process, WorkerEnd, Flush, Go, worker
  <2>2. UNCHANGED <<cancelled, stop, ending, batches>>
    BY <1>3 DEF WorkerStep, WorkerLoop, PopWaits, Pop, Process, WorkerEnd, Flush, flags, router
  <2>3. CASE WorkerLoop(p) \/ PopWaits(p) \/ Pop(p)
    <3>1. Flushing(p)' => Flushing(p)
      BY <1>0, <2>3 DEF WorkerLoop, PopWaits, Pop, Go, worker, Flushing
    <3> QED BY <2>1, <2>2, <3>1, EndFrame DEF Flushing, Concluded
  <2>4. CASE Process(p)
    <3>1. pc'[p] # "flush" /\ flushed'[p] # "final"
      <4>1. sentinel[p] = "none" /\ flushed[p] # "final" /\ flushed' = flushed
        BY <2>4 DEF Process, At, IInv, WorkerOK
      <4> QED BY <1>0, <2>4, <4>1 DEF Process, Go
    <3> QED BY <2>1, <2>2, <3>1, EndFrame DEF Flushing, Concluded
  <2>5. CASE WorkerEnd(p)
    <3>1. sentinel' = sentinel /\ flushed' = flushed
      BY <2>5 DEF WorkerEnd, worker
    <3>2. CASE cancelled
      <4>1. pc'[p] = "exited"
        BY <1>0, <2>5, <3>2 DEF WorkerEnd, Go
      <4> QED BY <2>1, <2>2, <3>1, <4>1, EndFrame DEF Flushing, Concluded
    <3>3. CASE ~cancelled
      <4>1. sentinel[p] = "eos" => Concluded
        BY <3>3, FlushedWhole DEF EndInv
      <4> QED BY <2>1, <2>2, <3>1, <4>1 DEF EndInv, Flushing, Concluded
    <3> QED BY <3>2, <3>3
  <2>6. CASE Flush(p)
    <3>1. pc[p] = "flush" /\ sentinel' = sentinel
      BY <2>6 DEF Flush, At
    <3>2. Flushing(p)' => Flushing(p)
      BY <3>1 DEF Flushing
    <3> QED BY <2>1, <2>2, <3>2, EndFrame DEF Flushing, Concluded
  <2> QED BY <1>3, <2>3, <2>4, <2>5, <2>6 DEF WorkerStep
<1>4. ASSUME NEW t \in Threads, FailStep(t) \/ Throw(t) \/ Notify(t) \/ SpuriousWakeup(t)
      PROVE  EndInv'
  <2>1. \A p \in Workers : pc'[p] = pc[p] \/ pc'[p] # "flush"
    BY <1>0, <1>4 DEF FailStep, Cancel, CloseNext, Throw, Notify, SpuriousWakeup, Go
  <2>2. /\ UNCHANGED <<sentinel, flushed, stop, ending, batches>>
        /\ cancelled => cancelled'
    BY <1>4 DEF FailStep, Cancel, CloseNext, Throw, Notify, SpuriousWakeup, flags, router, worker
  <2> QED BY <2>1, <2>2, EndFrame DEF Flushing, Concluded
<1>5. ASSUME NEW how \in {"final", "suspend"}, RequestStop(how) PROVE EndInv'
  BY <1>5, EndFrame DEF RequestStop, Flushing, Concluded, router, worker
<1>6. CASE UNCHANGED vars
  BY <1>6, EndFrame DEF vars, flags, router, worker, Flushing, Concluded
<1> QED BY <1>1, <1>2, <1>3, <1>4, <1>5, <1>6 DEF Next

(***************************************************************************)
(* No worker publishes the windows of a truncated stream, whatever the     *)
(* other threads throw and whenever Run is stopped: not even of one that   *)
(* the router ended early because a thread threw.                          *)
(***************************************************************************)
THEOREM FlushesWhole == Spec => []NoTruncatedFlush
<1>1. Init => EndInv
  BY DEF Init, EndInv, Flushing
<1>2. IInv /\ EndInv => NoTruncatedFlush
  <2> SUFFICES ASSUME IInv, EndInv, NEW p \in Workers, flushed[p] = "final"
               PROVE  WholeStream(p) /\ sentinel[p] = "eos" /\ ending = "eos" /\ Concluded
    BY DEF NoTruncatedFlush, Concluded
  <2>1. sentinel[p] = "eos"
    BY DEF IInv, WorkerOK
  <2>2. Concluded
    BY <2>1 DEF EndInv, Flushing
  <2> QED BY <2>1, <2>2, FlushedWhole
<1> QED BY <1>1, <1>2, Invariance, NextEndInv, PTL DEF Spec

(***************************************************************************)
(* When Run returns normally every worker has processed its whole stream,  *)
(* nothing is left in a queue, and all workers ended the same way.         *)
(***************************************************************************)
THEOREM ReturnsHold == Spec => []ReturnsWhole
<1>1. IInv => ReturnsWhole
  <2> SUFFICES ASSUME IInv, main = "returned"
               PROVE  /\ \A p \in Workers : WholeStream(p) /\ items[p] = << >>
                      /\ \/ \A p \in Workers : flushed[p] = "final"
                         \/ \A p \in Workers : flushed[p] = "sink"
    BY DEF ReturnsWhole
  <2>1. ~cancelled
    BY DEF IInv, MainOK
  <2>2. ASSUME NEW p \in Workers
        PROVE  /\ sentinel[p] # "none" /\ sentinel[p] = ending /\ WholeStream(p) /\ items[p] = << >>
               /\ flushed[p] = IF ending = "eos" THEN "final" ELSE "sink"
    <3>1. pc[p] = "exited"
      BY ThreadSets DEF IInv, ThreadOK
    <3>2. flushed[p] \in {"sink", "final"}
      BY <2>1, <3>1, TypeFacts DEF IInv, WorkerOK
    <3>3. sentinel[p] = IF flushed[p] = "final" THEN "eos" ELSE "suspend"
      BY <3>2 DEF IInv, WorkerOK
    <3> QED BY <3>2, <3>3, FlushedWhole
  <2> QED BY <2>2
<1> QED BY <1>1, Invariance, PTL

-----------------------------------------------------------------------------
(***************************************************************************)
(* Condition variables.  A sleeping thread is inside the wait of its       *)
(* queue, and whoever made its predicate true still owes the notification. *)
(***************************************************************************)
SleepersWait == /\ \A p \in Workers \cap asleep : pc[p] = "pop"
                /\ Router \in asleep => pc[Router] \in {"push", "barrier", "sentinel"}

WakeInv == SleepersWait /\ NoLostWakeup

\* What is owed stays owed while an actor only adds to its notifications.
LEMMA OwesGrow ==
    ASSUME TypeOK, NEW t \in Actors, NEW notes \in Seq(Notes), Owe(t, notes)
    PROVE  /\ \A u \in Actors : \A note : Owes(u, note) => Owes(u, note)'
           /\ \A i \in 1..Len(notes) : Owes(t, notes[i])'
<1>1. owed \in [Actors -> Seq(Notes)]
  BY TypeFacts
<1>2. owed'[t] = owed[t] \o notes /\ \A u \in Actors : u # t => owed'[u] = owed[u]
  BY <1>1 DEF Owe
<1>3. owed[t] \in Seq(Notes)
  BY <1>1
<1>4. /\ Len(owed[t]) \in Nat /\ Len(notes) \in Nat
      /\ Len(owed[t] \o notes) = Len(owed[t]) + Len(notes)
      /\ \A i \in 1..Len(owed[t]) : (owed[t] \o notes)[i] = owed[t][i]
      /\ \A i \in 1..Len(notes) : (owed[t] \o notes)[Len(owed[t]) + i] = notes[i]
  BY <1>3, ConcatProperties, LenProperties
<1>5. ASSUME NEW u \in Actors, NEW note, Owes(u, note) PROVE Owes(u, note)'
  <2>1. CASE u = t
    <3>1. PICK i \in 1..Len(owed[t]) : owed[t][i] = note
      BY <1>5, <2>1 DEF Owes
    <3>2. i \in 1..Len(owed'[t]) /\ owed'[t][i] = note
      BY <1>2, <1>4, <3>1
    <3> QED BY <2>1, <3>2 DEF Owes
  <2>2. CASE u # t
    BY <1>2, <1>5, <2>2 DEF Owes
  <2> QED BY <2>1, <2>2
<1>6. ASSUME NEW i \in 1..Len(notes) PROVE Owes(t, notes[i])'
  <2>1. Len(owed[t]) + i \in 1..Len(owed'[t]) /\ owed'[t][Len(owed[t]) + i] = notes[i]
    BY <1>2, <1>4
  <2> QED BY <2>1 DEF Owes
<1> QED BY <1>5, <1>6

\* A step may change the queues as long as it owes what its change calls for.
LEMMA WakeFrame ==
    ASSUME IInv, WakeInv, asleep' \subseteq asleep,
           \A t \in asleep' : pc'[t] = pc[t] /\ at'[t] = at[t],
           \A p \in Workers : p \in asleep' => \A u \in Actors :
               Owes(u, NotEmpty(p)) => Owes(u, NotEmpty(p))',
           \A p \in Workers : Router \in asleep' /\ p = at[Router] => \A u \in Actors :
               Owes(u, NotFull(p)) => Owes(u, NotFull(p))',
           \A p \in Workers : CanPop(p)' =>
               CanPop(p) \/ \E u \in Actors : Owes(u, NotEmpty(p))',
           \A p \in Workers : CanPush(p)' =>
               CanPush(p) \/ \E u \in Actors : Owes(u, NotFull(p))'
    PROVE  WakeInv'
<1> USE ThreadSets
<1>1. SleepersWait'
  BY DEF WakeInv, SleepersWait
<1>2. ASSUME NEW p \in Workers, p \in asleep', CanPop(p)'
      PROVE  \E t \in Actors : Owes(t, NotEmpty(p))'
  <2>1. p \in asleep
    BY <1>2
  <2>2. CASE CanPop(p)
    <3>1. PICK t \in Actors : Owes(t, NotEmpty(p))
      BY <2>1, <2>2 DEF WakeInv, NoLostWakeup
    <3> QED BY <1>2, <3>1
  <2> QED BY <1>2, <2>2
<1>3. ASSUME Router \in asleep', CanPush(at[Router])'
      PROVE  \E t \in Actors : Owes(t, NotFull(at[Router]))'
  <2>1. PICK p \in Workers : p = at[Router]
    BY <1>3 DEF IInv, WakeInv, SleepersWait, RouterOK
  <2>2. Router \in asleep /\ at'[Router] = p /\ CanPush(p)'
    BY <1>3, <2>1
  <2>3. CASE CanPush(p)
    <3>1. PICK t \in Actors : Owes(t, NotFull(p))
      BY <2>1, <2>2, <2>3 DEF WakeInv, NoLostWakeup
    <3> QED BY <1>3, <2>1, <2>2, <3>1
  <2>4. \E t \in Actors : Owes(t, NotFull(p))'
    BY <1>3, <2>1, <2>2, <2>3
  <2> QED BY <2>2, <2>4
<1>4. NoLostWakeup'
  BY <1>2, <1>3 DEF NoLostWakeup
<1> QED BY <1>1, <1>4 DEF WakeInv

\* A step of an awake thread that touches neither the queues nor what is owed.
LEMMA QuietStep ==
    ASSUME IInv, WakeInv, UNCHANGED <<items, closed, asleep, owed>>,
           \A t \in asleep : pc'[t] = pc[t] /\ at'[t] = at[t]
    PROVE  WakeInv'
<1>1. \A u \in Actors : \A note : Owes(u, note) => Owes(u, note)'
  BY DEF Owes
<1>2. \A p \in Workers : (CanPop(p)' => CanPop(p)) /\ (CanPush(p)' => CanPush(p))
  BY DEF CanPop, CanPush
<1> QED BY <1>1, <1>2, WakeFrame

\* Closing a queue owes both notifications.
LEMMA CloseStep ==
    ASSUME IInv, WakeInv, NEW t \in Actors, NEW w \in Workers, CloseQueue(t, w),
           UNCHANGED <<items, asleep>>, \A u \in asleep : pc'[u] = pc[u] /\ at'[u] = at[u]
    PROVE  WakeInv'
<1>1. /\ \A u \in Actors : \A note : Owes(u, note) => Owes(u, note)'
      /\ \A i \in 1..Len(CloseNotes(w)) : Owes(t, CloseNotes(w)[i])'
  BY NotesTyped, OwesGrow DEF IInv, CloseQueue
<1>2. Owes(t, NotEmpty(w))' /\ Owes(t, NotFull(w))'
  <2>1. /\ Len(CloseNotes(w)) = 2 /\ CloseNotes(w)[1] = NotEmpty(w)
        /\ CloseNotes(w)[2] = NotFull(w)
    BY DEF CloseNotes
  <2>2. 1 \in 1..Len(CloseNotes(w)) /\ 2 \in 1..Len(CloseNotes(w))
    BY <2>1
  <2> QED BY <1>1, <2>1, <2>2
<1>3. ASSUME NEW p \in Workers, p # w
      PROVE  (CanPop(p)' => CanPop(p)) /\ (CanPush(p)' => CanPush(p))
  <2>1. closed'[p] = closed[p]
    BY <1>3, TypeFacts DEF IInv, CloseQueue
  <2> QED BY <2>1 DEF CanPop, CanPush
<1>4. ASSUME NEW p \in Workers
      PROVE  /\ CanPop(p)' => CanPop(p) \/ \E u \in Actors : Owes(u, NotEmpty(p))'
             /\ CanPush(p)' => CanPush(p) \/ \E u \in Actors : Owes(u, NotFull(p))'
  <2>1. CASE p = w
    BY <1>2, <2>1
  <2>2. CASE p # w
    BY <1>3, <2>2
  <2> QED BY <2>1, <2>2
<1> QED BY <1>1, <1>4, WakeFrame

LEMMA NotifyWakes ==
    ASSUME IInv, WakeInv, NEW t \in Actors, Notify(t)
    PROVE  WakeInv'
<1> USE ThreadSets DEF queues
<1>1. /\ owed[t] \in Seq(Notes) /\ owed[t] # << >> /\ owed'[t] = Tail(owed[t])
      /\ \A u \in Actors : u # t => owed'[u] = owed[u]
  BY TypeFacts DEF Notify, IInv
<1>2. ASSUME NEW u \in Actors, NEW note, Owes(u, note), ~Owes(u, note)'
      PROVE  u = t /\ note = Head(owed[t])
  <2>1. u = t
    BY <1>1, <1>2 DEF Owes
  <2>2. PICK i \in 1..Len(owed[t]) : owed[t][i] = note
    BY <1>2, <2>1 DEF Owes
  <2>3. /\ Head(owed[t]) = owed[t][1] /\ Len(Tail(owed[t])) = Len(owed[t]) - 1
        /\ Len(owed[t]) \in Nat
        /\ \A j \in 1..Len(Tail(owed[t])) : Tail(owed[t])[j] = owed[t][j + 1]
    BY <1>1, HeadTailProperties, LenProperties
  <2>4. CASE i # 1
    <3>1. i - 1 \in 1..Len(Tail(owed[t])) /\ (i - 1) + 1 = i
      BY <2>3, <2>4
    <3>2. Tail(owed[t])[i - 1] = note
      BY <2>2, <2>3, <3>1
    <3>3. Owes(t, note)'
      BY <1>1, <3>1, <3>2 DEF Owes
    <3> QED BY <1>2, <2>1, <3>3
  <2> QED BY <2>1, <2>2, <2>3, <2>4
<1>3. asleep' = asleep \ Waiters(Head(owed[t])) /\ UNCHANGED <<pc, at, items, closed>>
  BY DEF Notify
<1>4. ASSUME NEW p \in Workers, p \in asleep' PROVE Head(owed[t]) # NotEmpty(p)
  BY <1>3, <1>4 DEF Waiters
<1>5. ASSUME Router \in asleep' PROVE Head(owed[t]) # NotFull(at[Router])
  BY <1>3, <1>5 DEF Waiters
<1>6. \A p \in Workers : (CanPop(p)' => CanPop(p)) /\ (CanPush(p)' => CanPush(p))
  BY <1>3 DEF CanPop, CanPush
<1> QED BY <1>2, <1>3, <1>4, <1>5, <1>6, WakeFrame

LEMMA PushWakes ==
    ASSUME IInv, WakeInv, Push
    PROVE  WakeInv'
<1> USE ThreadSets
<1>1. PICK p \in Workers : p = at[Router]
  BY DEF Push, Walking, At, RouterOK, IInv
<1>2. /\ Router \notin asleep /\ Router \in Actors /\ asleep' = asleep /\ closed' = closed
      /\ asleep \subseteq Threads
  BY TypeFacts DEF Push, Walking, At, IInv
<1>3. \A u \in asleep : pc'[u] = pc[u] /\ at'[u] = at[u]
  BY <1>2, TypeFacts DEF Push, Go, Advance, IInv
<1>4. CASE closed[p]
  <2>1. items' = items /\ owed' = owed
    BY <1>1, <1>4 DEF Push
  <2> QED BY <1>2, <1>3, <2>1, QuietStep
<1>5. CASE ~closed[p]
  <2>1. Owe(Router, PushNotes(p)) /\ items' = [items EXCEPT ![p] = Append(items[p], Message)]
    BY <1>1, <1>5 DEF Push, Enqueue
  <2>2. /\ \A u \in Actors : \A note : Owes(u, note) => Owes(u, note)'
        /\ \A i \in 1..Len(PushNotes(p)) : Owes(Router, PushNotes(p)[i])'
    BY <1>2, <2>1, NotesTyped, OwesGrow DEF IInv
  <2>3. Owes(Router, NotEmpty(p))'
    <3>1. Len(PushNotes(p)) = 1 /\ PushNotes(p)[1] = NotEmpty(p) /\ 1 \in 1..1
      BY DEF PushNotes
    <3> QED BY <2>2, <3>1
  <2>4. ASSUME NEW q \in Workers, q # p
        PROVE  (CanPop(q)' => CanPop(q)) /\ (CanPush(q)' => CanPush(q))
    <3>1. items'[q] = items[q]
      BY <2>1, <2>4, TypeFacts DEF IInv
    <3> QED BY <1>2, <3>1 DEF CanPop, CanPush
  <2>5. CanPush(p)
    BY <1>1 DEF Push
  <2>6. ASSUME NEW q \in Workers
        PROVE  /\ CanPop(q)' => CanPop(q) \/ \E u \in Actors : Owes(u, NotEmpty(q))'
               /\ CanPush(q)' => CanPush(q) \/ \E u \in Actors : Owes(u, NotFull(q))'
    <3>1. CASE q = p
      BY <1>2, <2>3, <2>5, <3>1
    <3>2. CASE q # p
      BY <2>4, <3>2
    <3> QED BY <3>1, <3>2
  <2> QED BY <1>2, <1>3, <2>2, <2>6, WakeFrame
<1> QED BY <1>4, <1>5

LEMMA PopWakes ==
    ASSUME IInv, WakeInv, NEW p \in Workers, Pop(p)
    PROVE  WakeInv'
<1> USE ThreadSets
<1>1. /\ p \notin asleep /\ p \in Actors /\ asleep' = asleep /\ closed' = closed /\ at' = at
      /\ asleep \subseteq Threads /\ CanPop(p)
  BY TypeFacts DEF Pop, At, IInv
<1>2. \A u \in asleep : pc'[u] = pc[u] /\ at'[u] = at[u]
  BY <1>1, TypeFacts DEF Pop, Go, IInv
<1>3. CASE items[p] = << >>
  <2>1. items' = items /\ owed' = owed
    BY <1>3 DEF Pop, PopsNothing
  <2> QED BY <1>1, <1>2, <2>1, QuietStep
<1>4. CASE items[p] # << >>
  <2>1. Owe(p, PopNotes(p)) /\ items' = [items EXCEPT ![p] = Tail(items[p])]
    BY <1>4 DEF Pop, PopsNothing
  <2>2. /\ \A u \in Actors : \A note : Owes(u, note) => Owes(u, note)'
        /\ \A i \in 1..Len(PopNotes(p)) : Owes(p, PopNotes(p)[i])'
    BY <1>1, <2>1, NotesTyped, OwesGrow DEF IInv
  <2>3. Owes(p, NotFull(p))'
    <3>1. Len(PopNotes(p)) = 1 /\ PopNotes(p)[1] = NotFull(p) /\ 1 \in 1..1
      BY DEF PopNotes
    <3> QED BY <2>2, <3>1
  <2>4. ASSUME NEW q \in Workers, q # p
        PROVE  (CanPop(q)' => CanPop(q)) /\ (CanPush(q)' => CanPush(q))
    <3>1. items'[q] = items[q]
      BY <2>1, <2>4, TypeFacts DEF IInv
    <3> QED BY <1>1, <3>1 DEF CanPop, CanPush
  <2>5. ASSUME NEW q \in Workers
        PROVE  /\ CanPop(q)' => CanPop(q) \/ \E u \in Actors : Owes(u, NotEmpty(q))'
               /\ CanPush(q)' => CanPush(q) \/ \E u \in Actors : Owes(u, NotFull(q))'
    <3>1. CASE q = p
      BY <1>1, <2>3, <3>1
    <3>2. CASE q # p
      BY <2>4, <3>2
    <3> QED BY <3>1, <3>2
  <2> QED BY <1>1, <1>2, <2>2, <2>5, WakeFrame
<1> QED BY <1>3, <1>4

\* A thread goes to sleep only on a predicate that is false.
LEMMA PopWaitsWakes ==
    ASSUME IInv, WakeInv, NEW p \in Workers, PopWaits(p)
    PROVE  WakeInv'
<1> USE ThreadSets DEF queues
<1>1. /\ pc[p] = "pop" /\ ~CanPop(p) /\ p # Router /\ asleep' = asleep \cup {p}
      /\ UNCHANGED <<pc, at, items, closed, owed>>
  BY DEF PopWaits, At
<1>2. SleepersWait'
  BY <1>1 DEF WakeInv, SleepersWait
<1>3. NoLostWakeup'
  <2>1. \A u \in Actors : \A note : Owes(u, note) => Owes(u, note)'
    BY <1>1 DEF Owes
  <2>2. (\A q \in Workers : CanPop(q)' = CanPop(q)) /\ CanPush(at[Router])' = CanPush(at[Router])
    BY <1>1 DEF CanPop, CanPush
  <2> QED BY <1>1, <2>1, <2>2 DEF WakeInv, NoLostWakeup
<1> QED BY <1>2, <1>3 DEF WakeInv

LEMMA PushWaitsWakes ==
    ASSUME IInv, WakeInv, PushWaits
    PROVE  WakeInv'
<1> USE ThreadSets DEF queues
<1>1. /\ pc[Router] \in {"push", "barrier", "sentinel"} /\ ~CanPush(at[Router])
      /\ asleep' = asleep \cup {Router} /\ UNCHANGED <<pc, at, items, closed, owed>>
  BY DEF PushWaits, Walking, At
<1>2. SleepersWait'
  BY <1>1 DEF WakeInv, SleepersWait
<1>3. NoLostWakeup'
  <2>1. \A u \in Actors : \A note : Owes(u, note) => Owes(u, note)'
    BY <1>1 DEF Owes
  <2>2. (\A q \in Workers : CanPop(q)' = CanPop(q)) /\ CanPush(at[Router])' = CanPush(at[Router])
    BY <1>1 DEF CanPop, CanPush
  <2> QED BY <1>1, <2>1, <2>2 DEF WakeInv, NoLostWakeup
<1> QED BY <1>2, <1>3 DEF WakeInv

LEMMA SpuriousWakes ==
    ASSUME IInv, WakeInv, NEW t \in Threads, SpuriousWakeup(t)
    PROVE  WakeInv'
<1>1. asleep' \subseteq asleep /\ UNCHANGED <<pc, at, items, closed, owed>>
  BY DEF SpuriousWakeup, queues
<1>2. \A u \in Actors : \A note : Owes(u, note) => Owes(u, note)'
  BY <1>1 DEF Owes
<1>3. \A p \in Workers : (CanPop(p)' => CanPop(p)) /\ (CanPush(p)' => CanPush(p))
  BY <1>1 DEF CanPop, CanPush
<1> QED BY <1>1, <1>2, <1>3, WakeFrame

LEMMA NextWake == IInv /\ WakeInv /\ [Next]_vars => WakeInv'
<1> SUFFICES ASSUME IInv, WakeInv, [Next]_vars PROVE WakeInv'
  OBVIOUS
<1> USE ThreadSets
<1>0. /\ asleep \subseteq Threads /\ pc \in [Threads -> PcNames]
      /\ at \in [Actors -> 0..NumWorkers]
  BY TypeFacts DEF IInv
<1>1. CASE MainStep
  <2>1. CASE Spawn
    <3>1. spawned \notin asleep
      <4>1. spawned \in Threads
        BY <2>1 DEF Spawn, IInv, MainOK
      <4>2. spawned >= spawned
        BY <4>1
      <4>3. pc[spawned] = "unborn"
        BY <4>1, <4>2 DEF IInv, ThreadOK
      <4> QED BY <4>1, <4>3 DEF WakeInv, SleepersWait
    <3>2. \A t \in asleep : pc'[t] = pc[t] /\ at'[t] = at[t]
      BY <1>0, <2>1, <3>1 DEF Spawn, Go
    <3> QED BY <2>1, <3>2, QuietStep DEF Spawn, queues, waits
  <2>2. CASE SpawnFails \/ JoinRouter \/ JoinWorkers
    BY <2>2, QuietStep DEF SpawnFails, JoinRouter, JoinWorkers, queues, waits
  <2>3. CASE Unwind
    <3>1. at[Main] \in Workers
      BY <2>3 DEF Unwind, IInv, MainOK
    <3>2. \A t \in asleep : pc'[t] = pc[t] /\ at'[t] = at[t]
      BY <1>0, <2>3 DEF Unwind
    <3> QED BY <2>3, <3>1, <3>2, CloseStep DEF Unwind
  <2>4. CASE Notify(Main)
    BY <2>4, NotifyWakes
  <2> QED BY <1>1, <2>1, <2>2, <2>3, <2>4 DEF MainStep
<1>2. CASE RouterStep
  <2>1. CASE RouterLoop \/ NextBatch \/ NextEmpty \/ NextEnds
    <3>1. Router \notin asleep
      BY <2>1 DEF RouterLoop, NextBatch, NextEmpty, NextEnds, At
    <3>2. \A t \in asleep : pc'[t] = pc[t] /\ at'[t] = at[t]
      BY <1>0, <2>1, <3>1 DEF RouterLoop, NextBatch, NextEmpty, NextEnds, LeaveLoop, Go
    <3> QED BY <2>1, <3>2, QuietStep
            DEF RouterLoop, NextBatch, NextEmpty, NextEnds, queues, waits
  <2>2. CASE PushSkips
    <3>1. Router \notin asleep
      BY <2>2 DEF PushSkips, Walking, At
    <3>2. \A t \in asleep : pc'[t] = pc[t] /\ at'[t] = at[t]
      BY <1>0, <2>2, <3>1 DEF PushSkips, Advance, Go
    <3> QED BY <2>2, <3>2, QuietStep DEF PushSkips, queues, waits
  <2>3. CASE Seal
    <3>1. Router \notin asleep /\ at[Router] \in Workers
      BY <2>3 DEF Seal, At, IInv, RouterOK
    <3>2. \A t \in asleep : pc'[t] = pc[t] /\ at'[t] = at[t]
      BY <1>0, <2>3, <3>1 DEF Seal, Advance, Go
    <3> QED BY <2>3, <3>1, <3>2, CloseStep DEF Seal
  <2> QED BY <1>2, <2>1, <2>2, <2>3, PushWakes, PushWaitsWakes DEF RouterStep
<1>3. ASSUME NEW p \in Workers, WorkerStep(p) PROVE WakeInv'
  <2>1. CASE WorkerLoop(p) \/ Process(p) \/ WorkerEnd(p) \/ Flush(p)
    <3>1. p \notin asleep
      BY <2>1 DEF WorkerLoop, Process, WorkerEnd, Flush, At
    <3>2. \A t \in asleep : pc'[t] = pc[t] /\ at'[t] = at[t]
      BY <1>0, <2>1, <3>1 DEF WorkerLoop, Process, WorkerEnd, Flush, Go
    <3> QED BY <2>1, <3>2, QuietStep DEF WorkerLoop, Process, WorkerEnd, Flush, queues, waits
  <2> QED BY <1>3, <2>1, PopWakes, PopWaitsWakes DEF WorkerStep
<1>4. ASSUME NEW t \in Threads, FailStep(t) \/ Throw(t) \/ Notify(t) \/ SpuriousWakeup(t)
      PROVE  WakeInv'
  <2>1. CASE Cancel(t) \/ Throw(t)
    <3>1. t \notin asleep
      BY <2>1 DEF Cancel, Throw, At
    <3>2. \A u \in asleep : pc'[u] = pc[u] /\ at'[u] = at[u]
      BY <1>0, <2>1, <3>1 DEF Cancel, Throw, Go
    <3> QED BY <2>1, <3>2, QuietStep DEF Cancel, Throw, queues, waits
  <2>2. CASE CloseNext(t)
    <3>1. t \notin asleep /\ at[t] \in Workers /\ t \in Actors
      BY <2>2 DEF CloseNext, At, IInv, ThreadOK
    <3>2. \A u \in asleep : pc'[u] = pc[u] /\ at'[u] = at[u]
      BY <1>0, <2>2, <3>1 DEF CloseNext, Go
    <3> QED BY <2>2, <3>1, <3>2, CloseStep DEF CloseNext
  <2> QED BY <1>4, <2>1, <2>2, NotifyWakes, SpuriousWakes DEF FailStep
<1>5. ASSUME NEW how \in {"final", "suspend"}, RequestStop(how) PROVE WakeInv'
  BY <1>5, QuietStep DEF RequestStop, queues, waits
<1>6. CASE UNCHANGED vars
  BY <1>6, QuietStep DEF vars, queues, waits
<1> QED BY <1>1, <1>2, <1>3, <1>4, <1>5, <1>6 DEF Next

(***************************************************************************)
(* No wakeup is lost: BoundedQueue may notify after it has unlocked, and a *)
(* thread that fell asleep in between is always still owed its wakeup.     *)
(***************************************************************************)
THEOREM WakeupsKept == Spec => []NoLostWakeup
<1>1. Init => WakeInv
  BY DEF Init, WakeInv, SleepersWait, NoLostWakeup
<1>2. WakeInv => NoLostWakeup
  BY DEF WakeInv
<1> QED BY <1>1, <1>2, Invariance, NextWake, PTL DEF Spec
=============================================================================
