---------------------------- MODULE HotPairTable ----------------------------
(***************************************************************************)
(* How the server learns of Hot Pairs: the client's batched notifications  *)
(* (pair_warmer.go queueHotPairNotify, flushHotPairNotify) and the         *)
(* server's passive table (hotpair_table.go).  An entry holds the channels *)
(* of its pair, which never change, so the table is the set of its keys.   *)
(***************************************************************************)
EXTENDS BuildPair, FiniteSetsExt

CONSTANT MaxFail    \* bound: connections that break, writes that fail, reads that miss

ASSUME FailAssumption == MaxFail \in Nat

VARIABLES
    live,           \* availableChannels: connected at the client
    srvLive,        \* registered at the server
    fails,          \* failures so far
    pending,        \* notifyPending
    timer,          \* notifyTimer is armed
    notices,        \* MsgHotPairNotify on the way, <<key, channel>>
    table           \* keys this client has in the server's table

channelVars == <<live, srvLive, fails>>
tableVars == <<pending, timer, notices, table>>

TableTypes ==
    /\ {live, srvLive} \subseteq SUBSET Channels
    /\ fails \in 0..MaxFail
    /\ {pending, table} \subseteq SUBSET Keys
    /\ timer \in BOOLEAN
    /\ notices \subseteq Keys \X Channels

TableInit ==
    /\ live = Channels /\ srvLive = Channels /\ fails = 0
    /\ pending = {} /\ timer = FALSE /\ notices = {} /\ table = {}

\* What broke needs one of the MaxFail failures, unless it was broken already.
Break(broken) ==
    /\ ~broken => fails < MaxFail
    /\ fails' = IF broken THEN fails ELSE fails + 1

\* Faulty form: no timer is started.
QueueOnly(S) ==
    /\ pending' = pending \cup S
    /\ UNCHANGED timer

\* queueHotPairNotify for the pairs of S.
QueueNotify(S) ==
    /\ pending' = pending \cup S
    /\ timer' = (timer \/ S # {})

\* flushHotPairNotify: what is not Ready is dropped, the rest goes out in a frame on
\* the first channel that takes it, or stays pending, without a timer.  The list of
\* pairs is read without its lock, so a concurrent removal may hide a pair.  (What
\* is queued between the unlock and the end of the send is the same record again.)
Flush(ready) ==
    /\ timer
    /\ timer' = FALSE
    /\ \E missed \in SUBSET (pending \cap ready) :
          LET batch == (pending \cap ready) \ missed IN
          /\ Break(missed = {})
          /\ IF live = {} THEN pending' = batch /\ UNCHANGED notices
             ELSE /\ pending' = {}
                  /\ notices' = notices \cup (batch \X ({Min(live)} \cap srvLive))
    /\ UNCHANGED <<table, live, srvLive>>

\* HandleNotify: the entries are stored with a new time.
HandleNotify(ch) ==
    LET S == {k \in Keys : <<k, ch>> \in notices} IN
    /\ S # {} /\ ch \in srvLive
    /\ table' = table \cup S
    /\ notices' = {n \in notices : n[2] # ch}
    /\ UNCHANGED <<pending, timer, channelVars>>

\* An entry older than hotPairEntryTTL is deleted by Lookup, Newest or HandleNotify.
Expire(k) ==
    /\ k \in table
    /\ table' = table \ {k}
    /\ UNCHANGED <<pending, timer, notices, channelVars>>

\* InvalidateChannel goes by the number of the channel, whose ever it is: these are
\* the keys of this client that an invalidation leaves.
KeysWithout(ch, ends) == {k \in Keys : ch \notin {ends[k].up, ends[k].down}}

\* cleanupChannel of another client's channel with the same number.
InvalidateByOther(ch, ends) ==
    /\ table' = table \cap KeysWithout(ch, ends)
    /\ table' # table
    /\ UNCHANGED <<pending, timer, notices, channelVars>>

\* The server gives up a channel of this client: InvalidateClient with the last
\* one, InvalidateChannel otherwise.
ServerDown(ch, ends) ==
    /\ ch \in srvLive
    /\ Break(ch \notin live)
    /\ srvLive' = srvLive \ {ch}
    /\ notices' = {n \in notices : n[2] # ch}
    /\ table' = IF srvLive' = {} THEN {} ELSE table \cap KeysWithout(ch, ends)
    /\ UNCHANGED <<live, pending, timer>>

=============================================================================
