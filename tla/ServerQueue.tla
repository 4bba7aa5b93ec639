---------------------------- MODULE ServerQueue ----------------------------
(***************************************************************************)
(* The server's write queues: asyncWrite and writeLoop of every channel    *)
(* (connection.go), the global byte count, the watermarks that turn it     *)
(* into a backpressure state and the broadcast of every state change       *)
(* (server_pool.go).                                                       *)
(*                                                                         *)
(* The goroutines are the producers (handlers that send downlink data) and *)
(* the writeLoop of every channel, named by the channel.  An atomic read,  *)
(* an atomic write and a critical section are one step each.  A state      *)
(* change is broadcast by the goroutine that notices it, through           *)
(* asyncWrite, which may notice the next change: casts[t] is the stack of  *)
(* the broadcasts that t is inside of.                                     *)
(*                                                                         *)
(* Data frames have one size, backpressure frames another.  What happens   *)
(* to a frame once it is written to the socket is left to the module       *)
(* Backpressure.  notifyChannelReset writes past the queue, and the client *)
(* reacts to it by giving up Hot Pairs only: it is left out.               *)
(***************************************************************************)
EXTENDS Integers, FiniteSets, Sequences

CONSTANTS
    Channels,       \* the ServerWSConn objects
    Producers,      \* goroutines of forwardTargetToClient and the handlers
    Registrars,     \* goroutines that take p.mu for writing
    DataBytes,      \* bytes of a data frame
    CtlBytes,       \* bytes of a backpressure frame
    Limit,          \* p.globalQueueLimit, in bytes
    QueueCap,       \* capacity of writeChan
    Closable,       \* the channels that may be closed
    MaxData,        \* bound: data frames a producer sends
    MaxNested,      \* bound: broadcasts a goroutine is inside of
    NoChannel

Threads == Producers \cup Channels

ASSUME QueueAssumption ==
    /\ IsFiniteSet(Channels) /\ IsFiniteSet(Producers)
    /\ Producers \cap Channels = {} /\ NoChannel \notin Channels
    /\ DataBytes \in Nat /\ CtlBytes \in Nat /\ Limit \in Nat
    /\ QueueCap \in Nat \ {0}
    /\ Closable \subseteq Channels /\ MaxData \in Nat /\ MaxNested \in Nat

VARIABLES
    q,                  \* q[ch]: frames in writeChan
    closed,             \* ServerWSConn.closed
    writer,             \* where writeLoop is in its life
    globalQueueBytes,
    backpressureState,
    cooldown,           \* backpressureCooldown and the goroutine that clears it
    at, tgt, size,      \* next step, channel and newSize of a goroutine
    casts,              \* the broadcasts it is inside of, innermost first
    held,               \* the frame taken by writeLoop
    sent,               \* data frames sent so far
    lock                \* p.mu: [readers, waiting, writing]

shared == <<globalQueueBytes, backpressureState, cooldown>>
thread == <<at, tgt, size, casts, held, sent>>
pipes == <<q, closed, writer>>
vars == <<shared, thread, pipes, lock>>

States == {"normal", "slow", "pause"}
Frames == States \cup {"data"}
Casts == [say : Frames, left : SUBSET Channels, cool : BOOLEAN]
Steps == {"idle", "rlock", "cast", "write", "reserved", "update", "store",
          "remove", "recover", "deliver"}

TypeOK ==
    /\ q \in [Channels -> Seq(Frames)]
    /\ closed \in [Channels -> BOOLEAN]
    /\ writer \in [Channels -> {"starting", "running", "gone"}]
    /\ globalQueueBytes \in Int
    /\ backpressureState \in States
    /\ cooldown \in {"free", "held", "timing"}
    /\ at \in [Threads -> Steps]
    /\ tgt \in [Threads -> Channels \cup {NoChannel}]
    /\ size \in [Threads -> Int]
    /\ casts \in [Threads -> Seq(Casts)]
    /\ held \in [Channels -> Frames]
    /\ sent \in [Producers -> Nat]
    /\ lock \in [readers : [Threads -> Nat], waiting : SUBSET Registrars,
                 writing : SUBSET Registrars]

Init ==
    /\ q = [ch \in Channels |-> <<>>]
    /\ closed = [ch \in Channels |-> FALSE]
    /\ writer = [ch \in Channels |-> "starting"]
    /\ globalQueueBytes = 0
    /\ backpressureState = "normal"
    /\ cooldown = "free"
    /\ at = [t \in Threads |-> "idle"]
    /\ tgt = [t \in Threads |-> NoChannel]
    /\ size = [t \in Threads |-> 0]
    /\ casts = [t \in Threads |-> <<>>]
    /\ held = [ch \in Channels |-> "data"]
    /\ sent = [t \in Producers |-> 0]
    /\ lock = [readers |-> [t \in Threads |-> 0], waiting |-> {}, writing |-> {}]

-----------------------------------------------------------------------------
\* Control of one goroutine

\* Where a goroutine goes on after an asyncWrite, a broadcast or a level check
\* returns: to the broadcast around it, or to its own loop.
Back(t, stack) ==
    IF stack # <<>> THEN "cast" ELSE IF t \in Producers THEN "idle" ELSE "deliver"

Go(t, step) == at' = [at EXCEPT ![t] = step]

\* The locals tgt and size are dead.
Forget(t) ==
    /\ tgt' = [tgt EXCEPT ![t] = NoChannel]
    /\ size' = [size EXCEPT ![t] = 0]

\* wsConn.mu is held by a goroutine between reserving bytes and enqueueing.
MuFree(ch) == \A u \in Threads : ~(at[u] = "reserved" /\ tgt[u] = ch)

\* Store the new state, then broadcast it.
Announce(t, state, cool) ==
    /\ Len(casts[t]) < MaxNested
    /\ casts' = [casts EXCEPT ![t] =
                    <<[say |-> state, left |-> {}, cool |-> cool]>> \o @]
    /\ Go(t, "store")

-----------------------------------------------------------------------------
\* Producers

\* sendDownlink on the chosen downlink: sendToChannel.
Unicast(t, ch) ==
    /\ at[t] = "idle" /\ sent[t] < MaxData
    /\ sent' = [sent EXCEPT ![t] = @ + 1]
    /\ tgt' = [tgt EXCEPT ![t] = ch]
    /\ Go(t, "write")
    /\ UNCHANGED <<size, casts, held, shared, pipes, lock>>

\* sendDownlink before a downlink is chosen: broadcastWriteToClient.
Broadcast(t) ==
    /\ at[t] = "idle" /\ sent[t] < MaxData
    /\ sent' = [sent EXCEPT ![t] = @ + 1]
    /\ casts' = [casts EXCEPT ![t] =
                    <<[say |-> "data", left |-> {}, cool |-> FALSE]>>]
    /\ Go(t, "rlock")
    /\ UNCHANGED <<tgt, size, held, shared, pipes, lock>>

-----------------------------------------------------------------------------
\* broadcastWriteToClient

\* p.mu.RLock: refused while a writer holds the lock or waits for it
\* (sync.RWMutex), then the active channels are collected.
RLock(t) ==
    /\ at[t] = "rlock"
    /\ lock.writing = {} /\ lock.waiting = {}
    /\ lock' = [lock EXCEPT !.readers[t] = @ + 1]
    /\ casts' = [casts EXCEPT ![t] =
                    <<[Head(@) EXCEPT !.left = {ch \in Channels : ~closed[ch]}]>>
                    \o Tail(@)]
    /\ Go(t, "cast")
    /\ UNCHANGED <<tgt, size, held, sent, shared, pipes>>

\* Deferred RUnlock.  After the slow-down broadcast of updateBackpressureState
\* the goroutine that ends the cooldown is started.
EndCast(t) ==
    /\ at[t] = "cast" /\ Head(casts[t]).left = {}
    /\ lock' = [lock EXCEPT !.readers[t] = @ - 1]
    /\ casts' = [casts EXCEPT ![t] = Tail(@)]
    /\ Go(t, Back(t, Tail(casts[t])))
    /\ cooldown' = IF Head(casts[t]).cool THEN "timing" ELSE cooldown
    /\ UNCHANGED <<globalQueueBytes, backpressureState, tgt, size, held, sent, pipes>>

CooldownOver ==
    /\ cooldown = "timing"
    /\ cooldown' = "free"
    /\ UNCHANGED <<globalQueueBytes, backpressureState, thread, pipes, lock>>

-----------------------------------------------------------------------------
\* asyncWrite

Outgoing(t) == IF casts[t] = <<>> THEN "data" ELSE Head(casts[t]).say
Bytes(frame) == IF frame = "data" THEN DataBytes ELSE CtlBytes

\* The channel is the one the goroutine sends to or, in a broadcast, any of
\* those left: the slots of p.wsConns are in the order the channels registered
\* in, which may be any.  On a closed one nothing is done; otherwise wsConn.mu
\* is kept until the frame is enqueued.
Reserve(t, ch) ==
    /\ \/ /\ at[t] = "write" /\ ch = tgt[t]
          /\ UNCHANGED casts
       \/ /\ at[t] = "cast" /\ ch \in Head(casts[t]).left
          /\ casts' = [casts EXCEPT ![t] =
                          <<[Head(@) EXCEPT !.left = Head(casts[t]).left \ {ch}]>> \o Tail(@)]
    /\ MuFree(ch)
    /\ \/ /\ closed[ch]
          /\ Go(t, Back(t, casts[t]))
          /\ Forget(t)
          /\ UNCHANGED globalQueueBytes
       \/ /\ ~closed[ch]
          /\ globalQueueBytes' = globalQueueBytes + Bytes(Outgoing(t))
          /\ size' = [size EXCEPT ![t] = globalQueueBytes']
          /\ tgt' = [tgt EXCEPT ![t] = ch]
          /\ Go(t, "reserved")
    /\ UNCHANGED <<backpressureState, cooldown, held, sent, pipes, lock>>

\* rollbackQueueBytes and removeQueueBytes: the count is clamped at zero.
Less(n) == IF globalQueueBytes < n THEN 0 ELSE globalQueueBytes - n

\* Faulty form: a frame refused by a full queue keeps its bytes reserved.
EnqueueLeaks(t) ==
    /\ at[t] = "reserved"
    /\ \/ /\ Len(q[tgt[t]]) < QueueCap
          /\ q' = [q EXCEPT ![tgt[t]] = Append(@, Outgoing(t))]
          /\ Go(t, "update")
          /\ UNCHANGED <<tgt, size>>
       \/ /\ Len(q[tgt[t]]) >= QueueCap
          /\ Go(t, Back(t, casts[t]))
          /\ Forget(t)
          /\ UNCHANGED q
    /\ UNCHANGED <<globalQueueBytes, backpressureState, cooldown, casts,
                   held, sent, closed, writer, lock>>

\* The second half: the frame is queued, or the queue is full and the bytes are
\* given back.
Enqueue(t) ==
    /\ at[t] = "reserved"
    /\ \/ /\ Len(q[tgt[t]]) < QueueCap
          /\ q' = [q EXCEPT ![tgt[t]] = Append(@, Outgoing(t))]
          /\ Go(t, "update")
          /\ UNCHANGED <<tgt, size, globalQueueBytes>>
       \/ /\ Len(q[tgt[t]]) >= QueueCap
          /\ globalQueueBytes' = Less(Bytes(Outgoing(t)))
          /\ Go(t, Back(t, casts[t]))
          /\ Forget(t)
          /\ UNCHANGED q
    /\ UNCHANGED <<backpressureState, cooldown, casts, held, sent, closed,
                   writer, lock>>

-----------------------------------------------------------------------------
\* The watermarks

High(n) == n > (Limit * 95) \div 100
Middle(n) == ~High(n) /\ n > (Limit * 8) \div 10

\* updateBackpressureState after an enqueue, with the count of that moment.
Update(t) ==
    /\ at[t] = "update"
    /\ LET n == size[t]
           slow == /\ Middle(n) /\ backpressureState = "normal"
                   /\ cooldown = "free"
           pause == High(n) /\ backpressureState # "pause"
       IN  \/ /\ Limit > 0 /\ pause
              /\ Announce(t, "pause", FALSE)
              /\ UNCHANGED cooldown
           \/ /\ Limit > 0 /\ slow
              /\ Announce(t, "slow", TRUE)
              /\ cooldown' = "held"
           \/ /\ Limit = 0 \/ ~(pause \/ slow)
              /\ Go(t, Back(t, casts[t]))
              /\ UNCHANGED <<casts, cooldown>>
    /\ Forget(t)
    /\ UNCHANGED <<globalQueueBytes, backpressureState, held, sent, pipes, lock>>

Store(t) ==
    /\ at[t] = "store"
    /\ backpressureState' = Head(casts[t]).say
    /\ Go(t, "rlock")
    /\ UNCHANGED <<globalQueueBytes, cooldown, tgt, size, casts, held, sent,
                   pipes, lock>>

\* Faulty form: no way back from slow-down to normal.
RecoveredStuck(n) ==
    CASE backpressureState = "pause" /\ n < (Limit * 3) \div 10 -> "normal"
      [] backpressureState = "pause" /\ n >= (Limit * 3) \div 10
                                     /\ n < (Limit * 9) \div 10 -> "slow"
      [] OTHER -> backpressureState

\* The state removeQueueBytes moves to when n bytes are left.
Recovered(n) ==
    CASE backpressureState = "pause" /\ n < (Limit * 3) \div 10 -> "normal"
      [] backpressureState = "pause" /\ n >= (Limit * 3) \div 10
                                     /\ n < (Limit * 9) \div 10 -> "slow"
      [] backpressureState = "slow" /\ n < (Limit * 7) \div 10 -> "normal"
      [] OTHER -> backpressureState

-----------------------------------------------------------------------------
\* writeLoop

\* The snapshot of writeChan: close has set the field to nil.
Start(ch) ==
    /\ writer[ch] = "starting" /\ MuFree(ch)
    /\ writer' = [writer EXCEPT ![ch] = IF closed[ch] THEN "gone" ELSE "running"]
    /\ UNCHANGED <<q, closed, shared, thread, lock>>

Take(ch) ==
    /\ writer[ch] = "running" /\ at[ch] = "idle" /\ q[ch] # <<>>
    /\ held' = [held EXCEPT ![ch] = Head(q[ch])]
    /\ q' = [q EXCEPT ![ch] = Tail(@)]
    /\ Go(ch, "remove")
    /\ UNCHANGED <<tgt, size, casts, sent, closed, writer, shared, lock>>

\* removeQueueBytes: the bytes go before the frame is written.
Remove(ch) ==
    /\ at[ch] = "remove"
    /\ globalQueueBytes' = Less(Bytes(held[ch]))
    /\ size' = [size EXCEPT ![ch] = globalQueueBytes']
    /\ Go(ch, "recover")
    /\ UNCHANGED <<backpressureState, cooldown, tgt, casts, held, sent, pipes, lock>>

Recover(ch) ==
    /\ at[ch] = "recover"
    /\ \/ /\ Limit > 0 /\ Recovered(size[ch]) # backpressureState
          /\ Announce(ch, Recovered(size[ch]), FALSE)
       \/ /\ Limit = 0 \/ Recovered(size[ch]) = backpressureState
          /\ Go(ch, "deliver")
          /\ UNCHANGED casts
    /\ Forget(ch)
    /\ UNCHANGED <<held, sent, shared, pipes, lock>>

\* writeDirect; on a closed channel the frame is dropped.
Deliver(ch) ==
    /\ at[ch] = "deliver" /\ MuFree(ch)
    /\ Go(ch, "idle")
    /\ held' = [held EXCEPT ![ch] = "data"]
    /\ UNCHANGED <<tgt, size, casts, sent, q, closed, writer, shared, lock>>

\* writeChan is closed and empty: the drain has returned every byte.
Exit(ch) ==
    /\ writer[ch] = "running" /\ at[ch] = "idle" /\ closed[ch] /\ q[ch] = <<>>
    /\ writer' = [writer EXCEPT ![ch] = "gone"]
    /\ UNCHANGED <<q, closed, shared, thread, lock>>

\* close, by readLoop, by a failed write, by cleanupChannel or by Shutdown.
Close(ch) ==
    /\ ch \in Closable /\ ~closed[ch] /\ MuFree(ch)
    /\ closed' = [closed EXCEPT ![ch] = TRUE]
    /\ UNCHANGED <<q, writer, shared, thread, lock>>

-----------------------------------------------------------------------------
\* p.mu.Lock in handleWebSocket, cleanupChannel, unregisterConn and the
\* connect handlers, which change the registry and touch no queue.

LockAsk(r) ==
    /\ r \notin lock.waiting \cup lock.writing
    /\ lock' = [lock EXCEPT !.waiting = @ \cup {r}]
    /\ UNCHANGED <<shared, thread, pipes>>

LockGet(r) ==
    /\ r \in lock.waiting /\ lock.writing = {}
    /\ \A t \in Threads : lock.readers[t] = 0
    /\ lock' = [lock EXCEPT !.waiting = @ \ {r}, !.writing = {r}]
    /\ UNCHANGED <<shared, thread, pipes>>

Unlock(r) ==
    /\ r \in lock.writing
    /\ lock' = [lock EXCEPT !.writing = {}]
    /\ UNCHANGED <<shared, thread, pipes>>

-----------------------------------------------------------------------------
WriteStep(t) ==
    \/ RLock(t) \/ EndCast(t) \/ Enqueue(t) \/ Update(t) \/ Store(t)
    \/ \E ch \in Channels : Reserve(t, ch)

WriterStep(ch) ==
    Start(ch) \/ Take(ch) \/ Remove(ch) \/ Recover(ch) \/ Deliver(ch) \/ Exit(ch)

Next ==
    \/ \E t \in Producers : Broadcast(t) \/ \E ch \in Channels : Unicast(t, ch)
    \/ \E t \in Threads : WriteStep(t)
    \/ \E ch \in Channels : WriterStep(ch) \/ Close(ch)
    \/ CooldownOver
    \/ \E r \in Registrars : LockAsk(r) \/ LockGet(r) \/ Unlock(r)

Spec == Init /\ [][Next]_vars

\* Goroutines run, and the cooldown ends.  Closing is never required, and
\* neither is sending.
Fairness ==
    /\ \A t \in Threads : WF_vars(WriteStep(t))
    /\ \A ch \in Channels : WF_vars(WriterStep(ch))
    /\ WF_vars(CooldownOver)
    /\ \A r \in Registrars : WF_vars(LockGet(r)) /\ WF_vars(Unlock(r))

FairSpec == Spec /\ Fairness

-----------------------------------------------------------------------------
\* Properties

\* The frames whose bytes are counted, data frames or backpressure frames:
\* those in a queue, the one a goroutine has reserved bytes for, and the one a
\* writeLoop has taken and not yet released.
Queued(kind) == {p \in Channels \X (1..QueueCap) :
                    p[2] <= Len(q[p[1]]) /\ q[p[1]][p[2]] \in kind}
InHand(kind) == {t \in Threads : \/ at[t] = "reserved" /\ Outgoing(t) \in kind
                                 \/ at[t] = "remove" /\ held[t] \in kind}
Outstanding(kind) == Queued(kind) \cup (InHand(kind) \X {0})

\* globalQueueBytes is exactly the bytes of the outstanding frames at every
\* step of every goroutine, so it returns to zero, and the clamps of
\* rollbackQueueBytes and removeQueueBytes never hide a wrong count.
BytesAccounted ==
    globalQueueBytes = DataBytes * Cardinality(Outstanding({"data"}))
                     + CtlBytes * Cardinality(Outstanding(States))

\* A writeLoop that has ended leaves no counted frame behind in its queue
\* (connection.go:124 "退出时回收队列字节").  Not kept: a loop that finds its channel
\* closed when it starts returns without draining.
DrainedOnExit == \A ch \in Channels : writer[ch] = "gone" => q[ch] = <<>>

\* broadcastWrite (pool.go:879-881) describes the pattern that must not
\* happen: a goroutine asks for a read lock that it already holds while a
\* writer is queued, and waits for itself.  Not kept: broadcastWriteToClient holds
\* the read lock while asyncWrite may broadcast a change of state (server_pool.go:374).
NoSelfDeadlock ==
    \A t \in Threads :
        ~(at[t] = "rlock" /\ lock.readers[t] > 0 /\ lock.waiting # {})

\* When the producers have nothing more to send, the state returns to normal
\* and stays there: no interleaving of a late updateBackpressureState with
\* removeQueueBytes leaves slow-down or pause behind on open channels.
Recovers == <>[](backpressureState = "normal" \/ \A ch \in Channels : closed[ch])
=============================================================================
