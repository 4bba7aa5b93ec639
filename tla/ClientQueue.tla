---------------------------- MODULE ClientQueue -----------------------------
(***************************************************************************)
(* One slot of the client's pool: the goroutine that dials and serves the  *)
(* channel (dialAndServe), its sessions one after the other, each with a   *)
(* write queue and a writeWorker of its own, the goroutines that send over *)
(* it (asyncWriteDirect), and the shutdown of the pool (pool.go).          *)
(*                                                                         *)
(* Queue 0 is the one made with the pool, before any session.  Every frame *)
(* counts for one byte.  A sender sends the data of one connection, which  *)
(* has its name, or a control frame.                                       *)
(***************************************************************************)
EXTENDS Integers, Sequences, FiniteSets

CONSTANTS
    Senders,        \* goroutines that call asyncWriteDirect
    MaxSessions,    \* bound: sessions of the channel
    MaxJobs,        \* bound: frames of each sender
    QueueCap,       \* writeQueueSize
    Limit,          \* globalQueueLimit
    MaxAgg,         \* payloads that fit in one frame (ReadBufferSize * 4)
    NoQueue         \* a nil entry of writeQueues

ASSUME ClientQueueAssumption ==
    /\ {MaxSessions, MaxJobs, Limit} \subseteq Nat
    /\ {QueueCap, MaxAgg} \subseteq Nat \ {0}
    /\ NoQueue \notin Nat /\ IsFiniteSet(Senders)

Sessions == 1..MaxSessions
Queues == 0..MaxSessions
Jobs == [data : BOOLEAN, by : Senders, n : 1..MaxJobs]

VARIABLES
    serve,          \* dialAndServe: "top", "dial" or "serve"
    n,              \* sessions so far
    cur,            \* writeQueues[idx]
    ws,             \* the session in wsConns[idx], or 0
    conn,           \* the WebSocket connection of each session
    q,              \* the frames in each queue
    shut,           \* the queues that were closed
    w,              \* the writeWorker of each session
    batch,          \* the frame it is about to write: the jobs merged into it
    pending,        \* the job it took and could not merge
    sent,           \* the jobs written to the connection of each session
    globalQueueBytes,
    at, hold, begun, \* senders: where, the queue looked up, frames begun
    job,            \* the frame a sender is sending
    stop,           \* shutdown: "no", "cancelled", "queues" or "done"
    panicked        \* a frame was sent on a closed queue

loop == <<serve, n, cur, ws>>
work == <<w, batch, pending, sent>>
send == <<at, hold, begun, job>>
queueVars == <<loop, conn, q, shut, work, globalQueueBytes, send, stop, panicked>>

QueueTypeOK ==
    /\ serve \in {"top", "dial", "serve"} /\ n \in Queues
    /\ cur \in Queues \cup {NoQueue} /\ ws \in Queues
    /\ conn \in [Sessions -> {"none", "open", "closed"}]
    /\ \A i \in Queues : q[i] \in Seq(Jobs) /\ Len(q[i]) <= QueueCap
    /\ shut \subseteq Queues
    /\ w \in [Sessions -> {"none", "top", "agg", "write", "done"}]
    /\ \A s \in Sessions :
          /\ batch[s] \in Seq(Jobs) /\ Len(batch[s]) <= MaxAgg
          /\ pending[s] \in Seq(Jobs) /\ Len(pending[s]) <= 1
          /\ sent[s] \in Seq(Jobs)
    /\ globalQueueBytes \in 0..Limit
    /\ at \in [Senders -> {"idle", "reserved", "send", "wait"}]
    /\ hold \in [Senders -> Queues]
    /\ begun \in [Senders -> 0..MaxJobs]
    /\ \A p \in Senders : at[p] # "idle" => job[p] \in Jobs
    /\ stop \in {"no", "cancelled", "queues", "done"} /\ panicked \in BOOLEAN

NoJob == [data |-> FALSE]

QueueInit ==
    /\ serve = "top" /\ n = 0 /\ cur = 0 /\ ws = 0
    /\ conn = [s \in Sessions |-> "none"]
    /\ q = [i \in Queues |-> <<>>] /\ shut = {}
    /\ w = [s \in Sessions |-> "none"]
    /\ batch = [s \in Sessions |-> <<>>] /\ pending = [s \in Sessions |-> <<>>]
    /\ sent = [s \in Sessions |-> <<>>]
    /\ globalQueueBytes = 0
    /\ at = [p \in Senders |-> "idle"] /\ hold = [p \in Senders |-> 0]
    /\ begun = [p \in Senders |-> 0] /\ job = [p \in Senders |-> NoJob]
    /\ stop = "no" /\ panicked = FALSE

\* releaseQueueBytes never goes below zero.
Released(k) == IF globalQueueBytes < k THEN 0 ELSE globalQueueBytes - k

-----------------------------------------------------------------------------
\* Senders: asyncWriteDirect, after waitForBackpressure

\* reserveQueueBytes; beyond the limit the call fails and changes nothing.
Reserve(p) ==
    /\ at[p] = "idle" /\ begun[p] < MaxJobs
    /\ globalQueueBytes + 1 <= Limit
    /\ globalQueueBytes' = globalQueueBytes + 1
    /\ begun' = [begun EXCEPT ![p] = @ + 1]
    /\ \E d \in BOOLEAN : job' = [job EXCEPT ![p] = [data |-> d, by |-> p, n |-> begun[p] + 1]]
    /\ at' = [at EXCEPT ![p] = "reserved"]
    /\ UNCHANGED <<loop, conn, q, shut, work, hold, stop, panicked>>

\* A sender is done with its frame.
Finished(p) ==
    /\ at' = [at EXCEPT ![p] = "idle"]
    /\ hold' = [hold EXCEPT ![p] = 0]
    /\ job' = [job EXCEPT ![p] = NoJob]

\* The queue is looked up without a lock; whether the channel is connected is
\* not looked at.
Lookup(p) ==
    /\ at[p] = "reserved"
    /\ IF cur = NoQueue
       THEN Finished(p) /\ globalQueueBytes' = Released(1)
       ELSE /\ at' = [at EXCEPT ![p] = "send"]
            /\ hold' = [hold EXCEPT ![p] = cur]
            /\ UNCHANGED <<job, globalQueueBytes>>
    /\ UNCHANGED <<loop, conn, q, shut, work, begun, stop, panicked>>

\* The two selects: a sender that finds the queue full waits there.  A send on
\* a closed queue panics, also one that was waiting.
Enqueue(p) ==
    /\ at[p] \in {"send", "wait"}
    /\ \/ /\ hold[p] \in shut
          /\ panicked' = TRUE
          /\ UNCHANGED <<q, at, hold, job>>
       \/ /\ hold[p] \notin shut /\ Len(q[hold[p]]) < QueueCap
          /\ q' = [q EXCEPT ![hold[p]] = Append(@, job[p])]
          /\ Finished(p)
          /\ UNCHANGED panicked
       \/ /\ at[p] = "send" /\ hold[p] \notin shut /\ Len(q[hold[p]]) = QueueCap
          /\ at' = [at EXCEPT ![p] = "wait"]
          /\ UNCHANGED <<q, hold, job, panicked>>
    /\ UNCHANGED <<loop, conn, shut, work, globalQueueBytes, begun, stop>>

\* Faulty form: the reservation is kept.
GiveUpLeaks(p) ==
    /\ at[p] = "wait"
    /\ Finished(p)
    /\ UNCHANGED <<loop, conn, q, shut, work, globalQueueBytes, begun, stop, panicked>>

\* WriteQueueWaitTimeout is over, or the pool shuts down; the select may choose
\* this also when there is room again or the queue is closed.
GiveUp(p) ==
    /\ at[p] = "wait"
    /\ Finished(p)
    /\ globalQueueBytes' = Released(1)
    /\ UNCHANGED <<loop, conn, q, shut, work, begun, stop, panicked>>

-----------------------------------------------------------------------------
\* writeWorker

\* It returns: what is left in its queue is released.
Exit(s) ==
    /\ w' = [w EXCEPT ![s] = "done"]
    /\ batch' = [batch EXCEPT ![s] = <<>>] /\ pending' = [pending EXCEPT ![s] = <<>>]
    /\ globalQueueBytes' = Released(Len(q[s]))
    /\ q' = [q EXCEPT ![s] = <<>>]
    /\ UNCHANGED <<loop, shut, sent, send, stop, panicked>>

\* The next frame is begun with job j.
BeginFrame(s, j) ==
    /\ batch' = [batch EXCEPT ![s] = <<j>>]
    /\ w' = [w EXCEPT ![s] = IF j.data THEN "agg" ELSE "write"]
    /\ UNCHANGED <<loop, conn, shut, sent, send, stop, panicked>>

\* Faulty form: the queue is looked at first, and the pending job is lost.
TakeQueueFirst(s) ==
    /\ w[s] = "top" /\ q[s] # <<>>
    /\ BeginFrame(s, Head(q[s]))
    /\ q' = [q EXCEPT ![s] = Tail(@)]
    /\ globalQueueBytes' = Released(1)
    /\ UNCHANGED pending

\* The pending job, else the next of the queue, whose byte is released.
Take(s) ==
    /\ w[s] = "top"
    /\ \/ /\ pending[s] # <<>>
          /\ BeginFrame(s, Head(pending[s]))
          /\ pending' = [pending EXCEPT ![s] = <<>>]
          /\ UNCHANGED <<q, globalQueueBytes>>
       \/ /\ pending[s] = <<>> /\ q[s] # <<>>
          /\ BeginFrame(s, Head(q[s]))
          /\ q' = [q EXCEPT ![s] = Tail(@)]
          /\ globalQueueBytes' = Released(1)
          /\ UNCHANGED pending

\* A job that may be merged: data of the same connection, while it fits.
Merges(s, j) == j.data /\ j.by = batch[s][1].by /\ Len(batch[s]) < MaxAgg

\* AggLoop, one iteration.
Aggregate(s) ==
    /\ w[s] = "agg"
    /\ \/ /\ q[s] = <<>>
          /\ w' = [w EXCEPT ![s] = "write"]
          /\ UNCHANGED <<q, batch, pending, globalQueueBytes>>
       \/ /\ q[s] # <<>>
          /\ q' = [q EXCEPT ![s] = Tail(@)]
          /\ globalQueueBytes' = Released(1)
          /\ IF Merges(s, Head(q[s]))
             THEN batch' = [batch EXCEPT ![s] = Append(@, Head(q[s]))] /\ UNCHANGED <<w, pending>>
             ELSE /\ pending' = [pending EXCEPT ![s] = <<Head(q[s])>>]
                  /\ w' = [w EXCEPT ![s] = "write"]
                  /\ UNCHANGED batch
    /\ UNCHANGED <<loop, conn, shut, sent, send, stop, panicked>>

\* A write, or a ping, fails when the connection is closed, and may fail before.
WriteFrame(s) ==
    /\ w[s] = "write" /\ conn[s] = "open"
    /\ sent' = [sent EXCEPT ![s] = @ \o batch[s]]
    /\ batch' = [batch EXCEPT ![s] = <<>>]
    /\ w' = [w EXCEPT ![s] = "top"]
    /\ UNCHANGED <<loop, conn, q, shut, pending, globalQueueBytes, send, stop, panicked>>

WriteFails(s) ==
    /\ w[s] = "write" \/ (w[s] = "top" /\ pending[s] = <<>>)
    /\ conn' = [conn EXCEPT ![s] = "closed"]
    /\ Exit(s)

\* It sees the end of the context, or its queue closed and empty.
WorkerStops(s) ==
    /\ w[s] = "top" /\ pending[s] = <<>>
    /\ stop # "no" \/ (s \in shut /\ q[s] = <<>>)
    /\ Exit(s)
    /\ UNCHANGED conn

-----------------------------------------------------------------------------
\* dialAndServe, and the shutdown of the pool

\* Top of the loop: the context is looked at, then the server is dialled; a
\* failed dial comes back here.
DialAgain ==
    /\ \/ serve = "top" /\ stop = "no" /\ n < MaxSessions /\ serve' = "dial"
       \/ serve = "dial" /\ serve' = "top"
    /\ UNCHANGED <<n, cur, ws, conn, q, shut, work, globalQueueBytes, send, stop, panicked>>

\* The dial succeeds: a new queue, and a worker for it.
Connect ==
    /\ serve = "dial"
    /\ serve' = "serve" /\ n' = n + 1 /\ ws' = n + 1
    /\ cur' = n + 1
    /\ conn' = [conn EXCEPT ![n + 1] = "open"]
    /\ w' = [w EXCEPT ![n + 1] = "top"]
    /\ UNCHANGED <<q, shut, batch, pending, sent, globalQueueBytes, send, stop, panicked>>

\* handleChannel returns: the connection was closed, at either end.  The queue
\* stays where it is.
Disconnect ==
    /\ serve = "serve"
    /\ serve' = "top" /\ ws' = 0
    /\ conn' = [conn EXCEPT ![n] = "closed"]
    /\ UNCHANGED <<n, cur, q, shut, work, globalQueueBytes, send, stop, panicked>>

\* shutdown: the context is cancelled, the queue is closed and its entry
\* cleared, the connection is closed.
Shutdown ==
    /\ \/ /\ stop = "no" /\ stop' = "cancelled"
          /\ UNCHANGED <<cur, ws, conn, shut>>
       \/ /\ stop = "cancelled" /\ stop' = "queues"
          /\ shut' = shut \cup {cur}
          /\ cur' = NoQueue
          /\ UNCHANGED <<ws, conn>>
       \/ /\ stop = "queues" /\ stop' = "done"
          /\ ws' = 0
          /\ conn' = IF ws = 0 THEN conn ELSE [conn EXCEPT ![ws] = "closed"]
          /\ UNCHANGED <<cur, shut>>
    /\ UNCHANGED <<serve, n, q, work, globalQueueBytes, send, panicked>>

-----------------------------------------------------------------------------
Worker(s) ==
    \/ Take(s) \/ Aggregate(s) \/ WriteFrame(s) \/ WriteFails(s) \/ WorkerStops(s)

Sender(p) == Reserve(p) \/ Lookup(p) \/ Enqueue(p) \/ GiveUp(p)

\* A panic ends the process.
QueueNext ==
    /\ ~panicked
    /\ \/ \E p \in Senders : Sender(p)
       \/ \E s \in Sessions : Worker(s)
       \/ DialAgain \/ Connect \/ Disconnect \/ Shutdown

QueueSpec == QueueInit /\ [][QueueNext]_queueVars

-----------------------------------------------------------------------------
\* Properties

\* The frames whose byte is counted: those a sender has reserved for, and those at
\* some place of a queue.
Reserving == {p \in Senders : at[p] # "idle"}
Queued == {c \in Queues \X (1..QueueCap) : c[2] <= Len(q[c[1]])}

\* The counter is the bytes that are reserved or queued, at every moment, also
\* across sessions and shutdown: none is released twice or forgotten
\* (reserveQueueBytes, releaseQueueBytes and their callers).
ClientBytesAccounted == globalQueueBytes = Cardinality(Reserving) + Cardinality(Queued)

\* The frames of each sender are in the order it sent them, none twice.
InOrder(out) ==
    \A i, j \in 1..Len(out) : i < j /\ out[i].by = out[j].by => out[i].n < out[j].n

\* On each connection the frames of a sender go out in the order it sent them,
\* none twice, and a merged frame holds data of one connection only: the job a
\* worker takes ahead while it merges keeps its place (writeWorker's AggLoop).
WireOrder ==
    \A s \in Sessions :
        /\ InOrder(sent[s] \o batch[s] \o pending[s])
        /\ \A i \in 2..Len(batch[s]) :
               batch[s][i].data /\ batch[s][i].by = batch[s][1].by

\* pool.go:653 and pool_test.go:98: a worker that has returned leaves no bytes
\* of its queue behind.  Not kept: the queue stays in place until the next
\* session, and frames are queued there.
ReleasedOnExit ==
    \A s \in Sessions :
        w[s] = "done" /\ (\A p \in Senders : hold[p] # s) => q[s] = <<>>

\* pool.go:870-872: a send that meets the shutdown returns an error to its
\* caller.  Not kept: a sender that has its queue sends on it after it is closed.
ShutdownReturnsError == ~panicked

=============================================================================
