------------------------------ MODULE DialLoop ------------------------------
(***************************************************************************)
(* The dial loops of the client's channels over relay nodes (pool.go       *)
(* dialAndServe), and the load they keep on the nodes (relay.go).  A new   *)
(* node is chosen before every dial but the first; speed tests, failure    *)
(* counts, scores and weights decide only which of the nodes that are not  *)
(* excluded is taken, so any of them may be.  A failure is always within   *)
(* FastRetryWindow of itself, so the window is left out; retryCount and    *)
(* consecutiveFailures stop counting at the limits they are compared with. *)
(***************************************************************************)
EXTENDS Integers, FiniteSets

CONSTANTS
    DialChannels,       \* channels, one loop each
    Nodes,              \* relay nodes, by IP
    NoNode,
    MaxRetries,         \* dialAndServeMaxRetries
    FastRetryAttempts,  \* short waits in a row
    MaxFastRetry,       \* MaxFastRetryConsecutive
    BaseDelay, MaxDelay \* dialAndServeBaseDelay, dialAndServeMaxDelay

ASSUME DialAssumption ==
    /\ NoNode \notin Nodes /\ IsFiniteSet(DialChannels)
    /\ {MaxRetries, MaxFastRetry, BaseDelay, MaxDelay} \subseteq Nat \ {0}
    /\ FastRetryAttempts \in Nat /\ BaseDelay < MaxDelay

VARIABLES
    loop,       \* the variables of each dialAndServe
    load,       \* loadCounts
    stopped,    \* p.ctx is cancelled
    rushed      \* history: short waits since the channel was last connected

dialVars == <<loop, load, stopped, rushed>>

Loops == [at : {"top", "dial", "short", "long", "serving", "cleanup", "pause", "over"},
          ip : Nodes, lastIP : Nodes \cup {NoNode}, first : BOOLEAN, slow : BOOLEAN,
          retries : 0..MaxRetries, fast : 0..FastRetryAttempts, fails : 0..MaxFastRetry,
          delay : BaseDelay..MaxDelay]

DialTypeOK ==
    /\ loop \in [DialChannels -> Loops]
    /\ load \in [Nodes -> 0..Cardinality(DialChannels)]
    /\ stopped \in BOOLEAN
    /\ rushed \in [DialChannels -> 0..MaxFastRetry]

\* Start has dealt the nodes out to the channels.
DialInit ==
    /\ \E node \in [DialChannels -> Nodes] :
           loop = [ch \in DialChannels |->
                     [at |-> "top", ip |-> node[ch], lastIP |-> NoNode, first |-> TRUE,
                      slow |-> FALSE, retries |-> 0, fast |-> 0, fails |-> 0,
                      delay |-> BaseDelay]]
    /\ load = [n \in Nodes |-> 0]
    /\ stopped = FALSE
    /\ rushed = [ch \in DialChannels |-> 0]

-----------------------------------------------------------------------------
Least(x, y) == IF x < y THEN x ELSE y

\* SelectNodeExcluding: a node that is not excluded, or none when all are.
SelectNodeExcluding(exclude) == IF Nodes \ exclude = {} THEN {NoNode} ELSE Nodes \ exclude

\* The top of the loop: the turn to slow retries, and the choice of a node; without
\* one the loop keeps its own.
Attempt(ch) ==
    /\ loop[ch].at = "top" /\ ~stopped
    /\ LET l == loop[ch]
           slows == l.retries >= MaxRetries /\ ~l.slow
       IN  \E n \in IF l.first THEN {NoNode} ELSE SelectNodeExcluding({l.lastIP, l.ip}) :
             loop' = [loop EXCEPT ![ch] =
                [l EXCEPT !.at = "dial", !.first = FALSE,
                          !.ip = IF n = NoNode THEN @ ELSE n,
                          !.slow = @ \/ slows,
                          !.retries = IF slows THEN 0 ELSE @,
                          !.delay = IF slows THEN MaxDelay ELSE @]]
    /\ UNCHANGED <<load, stopped, rushed>>

\* Faulty form: a failure is not counted, so the short waits go on.
DialFailsUncounted(ch) ==
    /\ loop[ch].at = "dial"
    /\ LET l == loop[ch]
           hurry == ~l.slow /\ l.fails < MaxFastRetry /\ l.fast < FastRetryAttempts
       IN  /\ loop' = [loop EXCEPT ![ch] =
                [l EXCEPT !.at = IF hurry THEN "short" ELSE "long",
                          !.retries = Least(@ + 1, MaxRetries),
                          !.fast = IF hurry THEN @ + 1 ELSE 0,
                          !.delay = IF hurry THEN @ ELSE Least((@ * 3) \div 2, MaxDelay)]]
           /\ rushed' = [rushed EXCEPT ![ch] = IF hurry THEN @ + 1 ELSE @]
    /\ UNCHANGED <<load, stopped>>

\* dialWebSocket fails: a short wait while both limits allow it, or a longer one.
DialFails(ch) ==
    /\ loop[ch].at = "dial"
    /\ LET l == loop[ch]
           fails == Least(l.fails + 1, MaxFastRetry)
           hurry == ~l.slow /\ fails < MaxFastRetry /\ l.fast < FastRetryAttempts
       IN  /\ loop' = [loop EXCEPT ![ch] =
                [l EXCEPT !.at = IF hurry THEN "short" ELSE "long",
                          !.retries = Least(@ + 1, MaxRetries), !.fails = fails,
                          !.fast = IF hurry THEN @ + 1 ELSE 0,
                          !.delay = IF hurry THEN @ ELSE Least((@ * 3) \div 2, MaxDelay)]]
           /\ rushed' = [rushed EXCEPT ![ch] = IF hurry THEN @ + 1 ELSE @]
    /\ UNCHANGED <<load, stopped>>

\* dialWebSocket succeeds: everything is reset, and the node acquired.
DialSucceeds(ch) ==
    /\ loop[ch].at = "dial"
    /\ loop' = [loop EXCEPT ![ch] =
                [@ EXCEPT !.at = "serving", !.lastIP = loop[ch].ip, !.slow = FALSE,
                          !.retries = 0, !.fast = 0, !.fails = 0, !.delay = BaseDelay]]
    /\ load' = [load EXCEPT ![loop[ch].ip] = @ + 1]
    /\ rushed' = [rushed EXCEPT ![ch] = 0]
    /\ UNCHANGED stopped

\* handleChannel returns.
Disconnect(ch) ==
    /\ loop[ch].at = "serving"
    /\ loop' = [loop EXCEPT ![ch].at = "cleanup"]
    /\ UNCHANGED <<load, stopped, rushed>>

\* Faulty form: a loop that has been told to stop keeps its node.
ReleaseUnlessStopped(ch) ==
    /\ loop[ch].at = "cleanup"
    /\ load' = IF stopped THEN load
               ELSE [load EXCEPT ![loop[ch].ip] = IF @ > 1 THEN @ - 1 ELSE 0]
    /\ loop' = [loop EXCEPT ![ch].at = "pause"]
    /\ UNCHANGED <<stopped, rushed>>

\* cleanupChannel has returned: Release.
Release(ch) ==
    /\ loop[ch].at = "cleanup"
    /\ load' = [load EXCEPT ![loop[ch].ip] = IF @ > 1 THEN @ - 1 ELSE 0]
    /\ loop' = [loop EXCEPT ![ch].at = "pause"]
    /\ UNCHANGED <<stopped, rushed>>

\* A wait is over, by its time or by the end of the pool.
WaitOver(ch) ==
    /\ loop[ch].at \in {"short", "long", "pause"}
    /\ \/ loop' = [loop EXCEPT ![ch].at = "top"]
       \/ stopped /\ loop' = [loop EXCEPT ![ch].at = "over"]
    /\ UNCHANGED <<load, stopped, rushed>>

\* The look at p.ctx at the top of the loop.
LoopExit(ch) ==
    /\ loop[ch].at = "top" /\ stopped
    /\ loop' = [loop EXCEPT ![ch].at = "over"]
    /\ UNCHANGED <<load, stopped, rushed>>

\* shutdown cancels p.ctx; the connections it closes end by Disconnect.
CancelContext ==
    /\ ~stopped
    /\ stopped' = TRUE
    /\ UNCHANGED <<loop, load, rushed>>

DialNext ==
    \/ CancelContext
    \/ \E ch \in DialChannels :
          \/ Attempt(ch) \/ DialFails(ch) \/ DialSucceeds(ch)
          \/ Disconnect(ch) \/ Release(ch) \/ WaitOver(ch) \/ LoopExit(ch)

DialSpec == DialInit /\ [][DialNext]_dialVars

-----------------------------------------------------------------------------
\* The load of a node is the number of channels connected through it, also when the
\* loops are told to stop: what Acquire counts, Release takes back for the same node.
LoadsExact ==
    \A n \in Nodes :
        load[n] = Cardinality({ch \in DialChannels :
                                 loop[ch].at \in {"serving", "cleanup"} /\ loop[ch].ip = n})

\* A channel that stays without a connection waits briefly fewer than MaxFastRetry
\* times, whatever the attempts between the longer waits; slow retries wait longest.
RetryPace ==
    \A ch \in DialChannels :
        rushed[ch] < MaxFastRetry /\ (loop[ch].slow => loop[ch].delay = MaxDelay)

=============================================================================
