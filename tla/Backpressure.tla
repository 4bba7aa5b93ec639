---------------------------- MODULE Backpressure ----------------------------
(***************************************************************************)
(* Backpressure end to end: the server's queues (ServerQueue) connected to *)
(* the client that obeys them (pool.go).  A frame written by writeLoop     *)
(* travels in the order of its channel; the client's reader of the channel *)
(* (handleChannel) applies a backpressure frame, and every client          *)
(* goroutine that writes (asyncWriteDirect) looks at the state first and   *)
(* waits while it is pause.                                                *)
(*                                                                         *)
(* A reader is such a goroutine too: it answers race frames through        *)
(* asyncWriteDirect, and reads nothing while it waits.                     *)
(***************************************************************************)
EXTENDS ServerQueue

CONSTANTS
    Senders,        \* client goroutines that send uplink data
    Readers,        \* the channels whose reader answers race frames
    NetCap          \* frames a connection holds before a write blocks

Writers == Senders \cup Channels

ASSUME BackpressureAssumption ==
    /\ Senders \cap Channels = {} /\ Readers \subseteq Channels
    /\ NetCap \in Nat \ {0}

VARIABLES
    net,            \* net[ch]: frames on the way to the client
    cliState,       \* clientPool.backpressureState
    resumeCh,       \* signals in the buffered channel resumeCh
    stage,          \* where a goroutine is in asyncWriteDirect
    late            \* its deadline of 3 s has passed

client == <<net, cliState, resumeCh, stage, late>>
bpVars == <<vars, client>>

Stages == {"free", "delay", "loop", "select"}

ClientTypeOK ==
    /\ net \in [Channels -> Seq(Frames)]
    /\ \A ch \in Channels : Len(net[ch]) <= NetCap
    /\ cliState \in States
    /\ resumeCh \in 0..1
    /\ stage \in [Writers -> Stages]
    /\ late \in [Writers -> BOOLEAN]

BpInit ==
    /\ Init
    /\ net = [ch \in Channels |-> <<>>]
    /\ cliState = "normal"
    /\ resumeCh = 0
    /\ stage = [g \in Writers |-> "free"]
    /\ late = [g \in Writers |-> FALSE]

-----------------------------------------------------------------------------
\* writeDirect puts the frame on the connection unless it is closed.
DeliverTo(ch) ==
    /\ Deliver(ch)
    /\ IF closed[ch] THEN UNCHANGED net
       ELSE /\ Len(net[ch]) < NetCap
            /\ net' = [net EXCEPT ![ch] = Append(@, held[ch])]
    /\ UNCHANGED <<cliState, resumeCh, stage, late>>

\* Faulty form: only the step out of pause is signalled.
SignalFromPause(old, new) == old = "pause" /\ new = "normal"

\* handleBackpressure signals every change to normal.
Signal(old, new) == old # new /\ new = "normal"

\* The resume channel holds one signal; a second one is dropped.
HandleBackpressure(ch) ==
    /\ stage[ch] = "free" /\ net[ch] # <<>> /\ Head(net[ch]) \in States
    /\ net' = [net EXCEPT ![ch] = Tail(@)]
    /\ cliState' = Head(net[ch])
    /\ resumeCh' = IF Signal(cliState, cliState') THEN 1 ELSE resumeCh
    /\ UNCHANGED <<stage, late, vars>>

\* Any other frame; the answer to a race frame is written by the reader.
HandleData(ch) ==
    /\ stage[ch] = "free" /\ net[ch] # <<>> /\ Head(net[ch]) = "data"
    /\ net' = [net EXCEPT ![ch] = Tail(@)]
    /\ \/ UNCHANGED stage
       \/ ch \in Readers /\ stage' = [stage EXCEPT ![ch] = "delay"]
    /\ UNCHANGED <<cliState, resumeCh, late, vars>>

-----------------------------------------------------------------------------
\* asyncWriteDirect

Begin(s) ==
    /\ stage[s] = "free"
    /\ stage' = [stage EXCEPT ![s] = "delay"]
    /\ UNCHANGED <<net, cliState, resumeCh, late, vars>>

\* getBackpressureDelay: only pause makes the goroutine wait.
Delay(g) ==
    /\ stage[g] = "delay"
    /\ stage' = [stage EXCEPT ![g] = IF cliState = "pause" THEN "loop" ELSE "free"]
    /\ UNCHANGED <<net, cliState, resumeCh, late, vars>>

\* One turn of the loop of waitForBackpressure: the state, then the deadline.
Loop(g) ==
    /\ stage[g] = "loop"
    /\ \/ /\ cliState # "pause"
          /\ stage' = [stage EXCEPT ![g] = "free"]
          /\ late' = [late EXCEPT ![g] = FALSE]
          /\ UNCHANGED cliState
       \/ /\ cliState = "pause" /\ late[g]
          /\ cliState' = "slow"
          /\ stage' = [stage EXCEPT ![g] = "free"]
          /\ late' = [late EXCEPT ![g] = FALSE]
       \/ /\ cliState = "pause" /\ ~late[g]
          /\ stage' = [stage EXCEPT ![g] = "select"]
          /\ UNCHANGED <<cliState, late>>
    /\ UNCHANGED <<net, resumeCh, vars>>

\* The select has two cases, the signal and the end of the pool; the deadline
\* is not one of them.
Select(g) ==
    /\ stage[g] = "select" /\ resumeCh > 0
    /\ resumeCh' = resumeCh - 1
    /\ stage' = [stage EXCEPT ![g] = "loop"]
    /\ UNCHANGED <<net, cliState, late, vars>>

Deadline(g) ==
    /\ stage[g] \in {"loop", "select"} /\ ~late[g]
    /\ late' = [late EXCEPT ![g] = TRUE]
    /\ UNCHANGED <<net, cliState, resumeCh, stage, vars>>

-----------------------------------------------------------------------------
\* Next of ServerQueue with the client connected: Deliver reaches it, every
\* other server step leaves it alone.
ServerStep(ch) == Start(ch) \/ Take(ch) \/ Remove(ch) \/ Recover(ch) \/ Exit(ch)

ServerAlone ==
    \/ \E t \in Producers : Broadcast(t) \/ \E ch \in Channels : Unicast(t, ch)
    \/ \E t \in Threads : WriteStep(t)
    \/ \E ch \in Channels : ServerStep(ch) \/ Close(ch)
    \/ CooldownOver
    \/ \E r \in Registrars : LockAsk(r) \/ LockGet(r) \/ Unlock(r)

Wait(g) == Delay(g) \/ Loop(g) \/ Select(g)

BpNext ==
    \/ ServerAlone /\ UNCHANGED client
    \/ \E ch \in Channels : DeliverTo(ch) \/ HandleBackpressure(ch) \/ HandleData(ch)
    \/ \E s \in Senders : Begin(s)
    \/ \E g \in Writers : Wait(g) \/ Deadline(g)

BpSpec == BpInit /\ [][BpNext]_bpVars

\* Goroutines of both sides run, frames arrive, deadlines pass.
BpFairSpec ==
    /\ BpSpec
    /\ \A t \in Threads : WF_bpVars(WriteStep(t) /\ UNCHANGED client)
    /\ \A ch \in Channels :
           /\ WF_bpVars(ServerStep(ch) /\ UNCHANGED client)
           /\ WF_bpVars(DeliverTo(ch))
           /\ WF_bpVars(HandleBackpressure(ch) \/ HandleData(ch))
    /\ \A g \in Writers : WF_bpVars(Wait(g)) /\ WF_bpVars(Deadline(g))

-----------------------------------------------------------------------------
\* Properties

\* One sender, and no reader that answers on another channel than the one the
\* frames come from: at most one goroutine waits that others could wake up.
OneWaiter ==
    /\ \A s, r \in Senders : s = r
    /\ Readers = {} \/ \A c, d \in Channels : c = d

\* For one waiter a resume signal is never lost: whenever it sits in the select of
\* waitForBackpressure and the state is normal, a signal is there for it, whatever
\* pause, slow-down and normal frames crossed before, and whichever of them the
\* reader itself waited for.  (With several it does not hold: resumeCh has one
\* slot, and the first of them takes the signal.)
NoLostWakeup ==
    \A g \in Writers : stage[g] = "select" /\ cliState = "normal" => resumeCh = 1

\* If the client settles on normal, a sender is never stuck: it writes again
\* and again (asyncWriteDirect returns).
Resumes == <>[](cliState = "normal") =>
               \A s \in Senders : []<>(stage[s] # "select")

\* waitForBackpressure waits for a bounded time: "3s 内未恢复则按减速继续
\* （降级不永久阻塞）" (pool.go:1656).  Not kept: nothing wakes the select up.
PauseIsBounded == \A g \in Writers : late[g] ~> stage[g] = "free"
=============================================================================
