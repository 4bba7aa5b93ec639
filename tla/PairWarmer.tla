----------------------------- MODULE PairWarmer -----------------------------
(***************************************************************************)
(* The client's manager of Hot Pairs (pair_warmer.go): the list of pairs,  *)
(* the primary, the reference counts that dials hold, and the run loop     *)
(* that fills the list when a channel comes up, repairs it when one goes   *)
(* down and holds a new race at every refresh.  Dials (pool.go) acquire a  *)
(* pair, may find its uplink dead and fall back, and release it when the   *)
(* connection is unregistered.  The race itself is BuildPair; what the     *)
(* server is told is HotPairTable.                                         *)
(*                                                                         *)
(* Each section under w.mu is one step; releases, which take no lock for   *)
(* the count, are three.  Slot IDs are only logged.                        *)
(***************************************************************************)
EXTENDS HotPairTable, SequencesExt

CONSTANTS
    PairCount,      \* pairs to keep Ready (HotPairCount)
    Conns           \* dials at a time

ASSUME WarmerAssumption == PairCount \in Nat \ {0} /\ IsFiniteSet(Conns)

VARIABLES
    pairs,          \* w.pairs, keys of pairs
    primary,
    state,          \* of a pair: none (never built), Ready, Draining, Closed
    ends,           \* its two channels
    refs,
    run,            \* the run loop: where it is, and what it carries along
    kicks,          \* what chReadyCh and chInvalidCh hold
    down,           \* a channel's dial loop after a disconnect: what is still to do
    conn,           \* a dial, and whether its clientConnState still has the pair
    release         \* calls of ReleasePair in progress, <<connection, caller, step>>

listVars == <<pairs, primary, state, ends, refs>>
dialVars == <<conn, release>>
vars == <<key, made, channelVars, tableVars, listVars, run, kicks, down, dialVars>>

NoEnds == [up |-> NoCh, down |-> NoCh]
Idle == [at |-> "idle", head |-> NoKey, chans |-> {}, count |-> 0, refresh |-> FALSE]
Steps == {"count", "look", "remove", "invalidate"}
NoDial == [at |-> "idle", pair |-> NoKey, has |-> FALSE]

Ready == {k \in Keys : state[k] = "Ready"}
Listed == ToSet(pairs)

\* A key that stands for a new one: its pair is gone, and no dial has it.
Fresh(k) ==
    state[k] \in {"none", "Closed"} /\ k \notin Listed /\ \A c \in Conns : conn[c].pair # k

-----------------------------------------------------------------------------
\* ensurePrimaryLocked on list ps.
Elect(ps, st, pr) ==
    IF pr # NoKey /\ st[pr] = "Ready" THEN pr
    ELSE LET ready == SelectSeq(ps, LAMBDA k : st[k] = "Ready")
         IN  IF ready = <<>> THEN NoKey ELSE Head(ready)

\* The pairs of S leave service: those nobody uses are closed and removed, the
\* others drain.
Retire(S) ==
    LET idle == {k \in S : refs[k] <= 0} IN
    /\ state' = [k \in Keys |-> IF k \in idle THEN "Closed"
                                ELSE IF k \in S THEN "Draining" ELSE state[k]]
    /\ pairs' = SelectSeq(pairs, LAMBDA k : k \notin idle)
    /\ primary' = Elect(pairs', state', IF primary \in idle THEN NoKey ELSE primary)
    /\ UNCHANGED <<ends, refs>>

\* PairWarmer.InvalidateChannel.
InvalidateChannel(ch) ==
    Retire({k \in Listed : state[k] # "Closed" /\ ch \in {ends[k].up, ends[k].down}})

\* removePair.
Without(ps, k) == SelectSeq(ps, LAMBDA x : x # k)

-----------------------------------------------------------------------------
\* AcquirePrimary, and the registration of the connection with the pair.
Acquire(c) ==
    /\ conn[c].at = "idle"
    /\ LET p == Elect(pairs, state, primary) IN
       /\ p # NoKey
       /\ refs' = [refs EXCEPT ![p] = @ + 1]
       /\ conn' = [conn EXCEPT ![c] = [at |-> "dialing", pair |-> p, has |-> TRUE]]
    /\ UNCHANGED <<key, made, channelVars, tableVars, pairs, primary, state, ends, run, kicks,
                   down, release>>

\* registerAndBroadcastTCPWithPair: the request goes out on the uplink, or not.
SendRequest(c) ==
    /\ conn[c].at = "dialing"
    /\ LET up == ends[conn[c].pair].up IN
       \/ up \in live /\ conn' = [conn EXCEPT ![c].at = "open"] /\ UNCHANGED fails
       \/ Break(up \notin live) /\ conn' = [conn EXCEPT ![c].at = "failed"]
    /\ UNCHANGED <<key, made, live, srvLive, tableVars, listVars, run, kicks, down, release>>

\* Faulty form: the fallback leaves the pair to Unregister.
FallbackKeeps(c) ==
    /\ conn[c].at = "failed"
    /\ conn' = [conn EXCEPT ![c].at = "gone", ![c].has = FALSE]
    /\ UNCHANGED <<key, made, channelVars, tableVars, listVars, run, kicks, down, release>>

\* The dial falls back: it takes the pair from the connection's state, if that is
\* still registered, and releases the pair in any case.
Fallback(c) ==
    /\ conn[c].at = "failed"
    /\ conn' = [conn EXCEPT ![c].at = "gone", ![c].has = FALSE]
    /\ release' = release \cup {<<c, "dial", "count">>}
    /\ UNCHANGED <<key, made, channelVars, tableVars, listVars, run, kicks, down>>

\* Unregister: at the end of an open connection, or by cleanupChannel.
Unregister(c) ==
    /\ conn[c].has
    /\ \/ conn[c].at = "open" /\ conn' = [conn EXCEPT ![c].has = FALSE, ![c].at = "gone"]
       \/ /\ conn[c].at # "open" /\ down[ends[conn[c].pair].up] = "cleanup"
          /\ conn' = [conn EXCEPT ![c].has = FALSE]
    /\ release' = release \cup {<<c, "unregister", "count">>}
    /\ UNCHANGED <<key, made, channelVars, tableVars, listVars, run, kicks, down>>

\* The connection is over once no call is left that has its pair.
Forget(c) ==
    /\ conn[c].at = "gone" /\ ~\E r \in release : r[1] = c
    /\ conn' = [conn EXCEPT ![c] = NoDial]
    /\ UNCHANGED <<key, made, channelVars, tableVars, listVars, run, kicks, down, release>>

\* What follows a release: the fallback of a dial goes on to InvalidateChannel.
Released(r) == (release \ {r}) \cup (IF r[2] = "dial" THEN {<<r[1], r[2], "invalidate">>} ELSE {})

\* ReleasePair: the count goes down; the state is looked at only when it reached 0.
CountDown(r) ==
    /\ r \in release /\ r[3] = "count"
    /\ LET p == conn[r[1]].pair IN
       /\ refs' = [refs EXCEPT ![p] = @ - 1]
       /\ release' = IF refs'[p] <= 0 THEN (release \ {r}) \cup {<<r[1], r[2], "look">>}
                     ELSE Released(r)
    /\ UNCHANGED <<key, made, channelVars, tableVars, pairs, primary, state, ends, run, kicks,
                   down, conn>>

\* Faulty form: the pair is closed and stays in the list.
CloseOnly(r) ==
    /\ r \in release /\ r[3] = "look"
    /\ LET p == conn[r[1]].pair
       IN  state' = IF state[p] = "Draining" THEN [state EXCEPT ![p] = "Closed"] ELSE state
    /\ release' = Released(r)
    /\ UNCHANGED <<key, made, channelVars, tableVars, pairs, primary, ends, refs, run, kicks,
                   down, conn>>

\* It closes a pair it finds draining.
CloseDrained(r) ==
    /\ r \in release /\ r[3] = "look"
    /\ LET p == conn[r[1]].pair IN
       IF state[p] = "Draining"
       THEN /\ state' = [state EXCEPT ![p] = "Closed"]
            /\ release' = (release \ {r}) \cup {<<r[1], r[2], "remove">>}
       ELSE release' = Released(r) /\ UNCHANGED state
    /\ UNCHANGED <<key, made, channelVars, tableVars, pairs, primary, ends, refs, run, kicks,
                   down, conn>>

\* And removes it under the lock.
RemoveClosed(r) ==
    /\ r \in release /\ r[3] = "remove"
    /\ LET p == conn[r[1]].pair IN
       /\ pairs' = Without(pairs, p)
       /\ primary' = Elect(pairs', state, IF primary = p THEN NoKey ELSE primary)
    /\ release' = Released(r)
    /\ UNCHANGED <<key, made, channelVars, tableVars, state, ends, refs, run, kicks, down, conn>>

\* The dial that fell back gives up the uplink of its pair.
InvalidateUplink(r) ==
    /\ r \in release /\ r[3] = "invalidate"
    /\ InvalidateChannel(ends[conn[r[1]].pair].up)
    /\ release' = release \ {r}
    /\ UNCHANGED <<key, made, channelVars, tableVars, run, kicks, down, conn>>

-----------------------------------------------------------------------------
\* The run loop moves on; only its own state changes.
Goto(r) ==
    /\ run' = r
    /\ UNCHANGED <<channelVars, kicks, down, dialVars>>

\* Where the loop goes after BuildPair, with a pair or without.
AfterRace ==
    IF run.at = "race" THEN IF made' = NoPair THEN [run EXCEPT !.at = "dedup"]
                                              ELSE [run EXCEPT !.at = "decide"]
    ELSE IF made' = NoPair THEN [run EXCEPT !.at = "filled"]
    ELSE [run EXCEPT !.at = "filling", !.count = @ + 1]

\* BuildPair returns an error.
BuildFails ==
    /\ Fail
    /\ Goto(AfterRace)
    /\ UNCHANGED <<tableVars, listVars>>

\* Faulty form: the new pair is the primary in any case.
BuildTakesOver(p) ==
    /\ Make(p)
    /\ pairs' = Append(pairs, key)
    /\ state' = [state EXCEPT ![key] = "Ready"]
    /\ ends' = [ends EXCEPT ![key] = [up |-> p.up, down |-> p.down]]
    /\ refs' = [refs EXCEPT ![key] = 0]
    /\ primary' = key
    /\ QueueNotify({key})
    /\ UNCHANGED <<notices, table>>
    /\ Goto(AfterRace)

\* BuildPair returns a pair: it is appended, is the primary if there is no Ready
\* one, and is announced.  Nobody asks whether its channels are still up.
BuildMakes(p) ==
    /\ Make(p)
    /\ pairs' = Append(pairs, key)
    /\ state' = [state EXCEPT ![key] = "Ready"]
    /\ ends' = [ends EXCEPT ![key] = [up |-> p.up, down |-> p.down]]
    /\ refs' = [refs EXCEPT ![key] = 0]
    /\ primary' = IF primary # NoKey /\ state[primary] = "Ready" THEN primary ELSE key
    /\ QueueNotify({key})
    /\ UNCHANGED <<notices, table>>
    /\ Goto(AfterRace)

\* BuildPair is called under a new key; what was left of an earlier use of it is
\* of no consequence and is dropped.
CallBuildPair(k) ==
    /\ Fresh(k) /\ Begin(k)
    /\ state' = [state EXCEPT ![k] = "none"]
    /\ ends' = [ends EXCEPT ![k] = NoEnds]
    /\ notices' = {n \in notices : n[1] # k}
    /\ table' = table \ {k} /\ pending' = pending \ {k}
    /\ UNCHANGED <<timer, pairs, primary, refs>>

\* Run: a channel is ready, tryBuildPairs.
OnReady ==
    /\ run.at = "idle" /\ "ready" \in kicks
    /\ kicks' = kicks \ {"ready"}
    /\ run' = [run EXCEPT !.at = "fill"]
    /\ UNCHANGED <<key, made, channelVars, tableVars, listVars, down, dialVars>>

\* Run: a channel is lost, tryRefresh: elect a primary, and look at its channels.
OnInvalid ==
    /\ run.at = "idle" /\ "invalid" \in kicks
    /\ kicks' = kicks \ {"invalid"}
    /\ primary' = Elect(pairs, state, primary)
    /\ run' = [run EXCEPT !.at = "sweep",
                          !.chans = IF primary' = NoKey THEN {}
                                    ELSE {ends[primary'].up, ends[primary'].down} \ live]
    /\ UNCHANGED <<key, made, channelVars, tableVars, pairs, state, ends, refs, down, dialVars>>

\* InvalidateChannel on each channel found dead.
Sweep ==
    /\ run.at = "sweep" /\ run.chans # {}
    /\ \E ch \in run.chans : /\ InvalidateChannel(ch)
                             /\ Goto([run EXCEPT !.chans = @ \ {ch}])
    /\ UNCHANGED <<key, made, tableVars>>

EndSweep ==
    /\ run.at = "sweep" /\ run.chans = {}
    /\ Goto([run EXCEPT !.at = IF run.refresh THEN "trim" ELSE "fill"])
    /\ UNCHANGED <<key, made, tableVars, listVars>>

\* pruneIdleDrainingPairs ranges over the array that it shifts: the element after
\* a removed one is passed over, and the last one may be seen twice.
PruneAt(acc, i) ==
    LET x == acc.array[i] IN
    IF x \in ToSet(acc.left) /\ state[x] = "Draining" /\ refs[x] <= 0
    THEN LET left == Without(acc.left, x)
         IN  [left |-> left, array |-> left \o SubSeq(acc.array, Len(left) + 1, Len(pairs))]
    ELSE acc

\* The pairs it takes out.
Pruned ==
    LET left == FoldLeft(PruneAt, [left |-> pairs, array |-> pairs],
                         [i \in DOMAIN pairs |-> i]).left
    IN  SelectSeq(pairs, LAMBDA k : k \notin ToSet(left))

\* Run: the refresh ticker.  periodicRefresh repeats the announcements and prunes.
Tick ==
    /\ run.at = "idle"
    /\ QueueNotify(Ready \cap Listed)
    /\ IF Pruned = <<>> THEN UNCHANGED listVars ELSE Retire(ToSet(Pruned))
    /\ Goto([run EXCEPT !.at = "call", !.refresh = TRUE])
    /\ UNCHANGED <<key, made, notices, table>>

\* With two channels there is a new race.
Race ==
    /\ run.at = "call" /\ Cardinality(live) >= 2
    /\ \E k \in Keys : CallBuildPair(k)
    /\ Goto([run EXCEPT !.at = "race"])

\* Without them (or when all of Keys are in use, a bound of the model) there is none.
NoRace ==
    /\ run.at = "call" /\ (Cardinality(live) < 2 \/ ~\E k \in Keys : Fresh(k))
    /\ Goto([run EXCEPT !.at = "dedup"])
    /\ UNCHANGED <<key, made, tableVars, listVars>>

\* The candidate against the list (findReadyMatchLocked): the head has the same
\* channels, or a spare has, or nobody.
Decide ==
    /\ run.at = "decide"
    /\ LET c == made.key
           same == SelectSeq(pairs, LAMBDA k : k # c /\ state[k] = "Ready" /\ ends[k] = ends[c])
       IN  Goto([run EXCEPT
                   !.head = IF primary \in ToSet(same) \cup {c} THEN NoKey
                            ELSE IF same # <<>> THEN Head(same) ELSE primary,
                   !.at = IF primary \in ToSet(same) THEN "discard"
                          ELSE IF same # <<>> THEN "promote"
                          ELSE IF primary = c THEN "dedup" ELSE "replace"])
    /\ UNCHANGED <<key, made, tableVars, listVars>>

\* promoteToHead, of the spare found before.
Promote ==
    /\ run.at = "promote"
    /\ IF run.head \in Listed
       THEN pairs' = <<run.head>> \o Without(pairs, run.head) /\ primary' = run.head
       ELSE UNCHANGED <<pairs, primary>>
    /\ Goto([run EXCEPT !.at = "discard", !.head = NoKey])
    /\ UNCHANGED <<key, made, tableVars, state, ends, refs>>

\* Faulty form: a candidate that was removed meanwhile is put back.
PutBack ==
    /\ run.at = "replace"
    /\ LET old == IF run.head # NoKey /\ state[run.head] = "Ready" THEN <<run.head>> ELSE <<>>
       IN  pairs' = <<made.key>> \o old \o Without(Without(pairs, made.key), run.head)
    /\ primary' = made.key
    /\ Goto([run EXCEPT !.at = "dedup", !.head = NoKey])
    /\ UNCHANGED <<key, made, tableVars, state, ends, refs>>

\* replaceHeadWithCandidate, unless the candidate was removed meanwhile: it comes
\* first, and a head that is still Ready second.
Replace ==
    /\ run.at = "replace"
    /\ LET old == IF run.head # NoKey /\ state[run.head] = "Ready" THEN <<run.head>> ELSE <<>>
           rest == SelectSeq(pairs, LAMBDA k : k # made.key /\ k \notin ToSet(old))
       IN  IF made.key \in Listed
           THEN pairs' = <<made.key>> \o old \o rest /\ primary' = made.key
           ELSE UNCHANGED <<pairs, primary>>
    /\ Goto([run EXCEPT !.at = "dedup", !.head = NoKey])
    /\ UNCHANGED <<key, made, tableVars, state, ends, refs>>

\* discardCandidatePair: a candidate that nobody uses is removed.
Discard ==
    /\ run.at = "discard"
    /\ IF refs[made.key] <= 0 THEN Retire({made.key})
       ELSE /\ state' = [state EXCEPT ![made.key] = "Draining"]
            /\ UNCHANGED <<pairs, primary, ends, refs>>
    /\ Goto([run EXCEPT !.at = "dedup"])
    /\ UNCHANGED <<key, made, tableVars>>

\* Faulty form: no pair is a duplicate.
DuplicatesMissed == {}

\* Ready pairs with the channels of an earlier one.
Duplicates ==
    {pairs[i] : i \in {n \in DOMAIN pairs :
        /\ state[pairs[n]] = "Ready"
        /\ \E m \in 1..(n - 1) : /\ state[pairs[m]] = "Ready"
                                 /\ ends[pairs[m]] = ends[pairs[n]]}}

\* deduplicatePairs.
Dedup ==
    /\ run.at = "dedup"
    /\ Retire(Duplicates)
    /\ Goto([run EXCEPT !.at = "health"])
    /\ UNCHANGED <<key, made, tableVars>>

\* healthCheckSpares: a dead channel of each Ready spare, to be invalidated.
HealthCheck ==
    /\ run.at = "health"
    /\ LET spares == {k \in Listed \ {primary} : state[k] = "Ready"}
           Dead(k) == IF ends[k].up \notin live THEN {ends[k].up} ELSE {ends[k].down} \ live
       IN  Goto([run EXCEPT !.at = "sweep", !.chans = UNION {Dead(k) : k \in spares}])
    /\ UNCHANGED <<key, made, tableVars, listVars>>

\* Faulty form: one Ready pair too many is left.
ExcessOffByOne ==
    LET ready == SelectSeq(pairs, LAMBDA k : state[k] = "Ready") IN
    {ready[i] : i \in {n \in PairCount + 2 .. Len(ready) :
                          \A m \in n + 1 .. Len(ready) : refs[ready[m]] <= 0}}

\* The Ready pairs beyond PairCount, from the tail up to the first one in use.
Excess ==
    LET ready == SelectSeq(pairs, LAMBDA k : state[k] = "Ready") IN
    {ready[i] : i \in {n \in PairCount + 1 .. Len(ready) :
                          \A m \in n + 1 .. Len(ready) : refs[ready[m]] <= 0}}

\* trimExcessPairs.
Trim ==
    /\ run.at = "trim"
    /\ Retire(Excess)
    /\ Goto([run EXCEPT !.at = "fill"])
    /\ UNCHANGED <<key, made, tableVars>>

\* tryBuildPairs: count the Ready pairs, and see whether there are two channels.
Fill ==
    /\ run.at = "fill"
    /\ LET ready == Cardinality(Ready \cap Listed)
       IN  Goto([run EXCEPT !.at = IF Cardinality(live) < 2 THEN "filled" ELSE "filling",
                           !.count = ready])
    /\ UNCHANGED <<key, made, tableVars, listVars>>

\* Its loop goes by its own count, whatever becomes of the pairs meanwhile.
FillOne ==
    /\ run.at = "filling" /\ run.count < PairCount
    /\ \E k \in Keys : CallBuildPair(k)
    /\ Goto([run EXCEPT !.at = "building"])

FillEnds ==
    /\ run.at = "filling" /\ run.count >= PairCount
    /\ Goto([run EXCEPT !.at = "filled"])
    /\ UNCHANGED <<key, made, tableVars, listVars>>

\* After a refresh the list is deduplicated once more.
Filled ==
    /\ run.at = "filled"
    /\ IF run.refresh
       THEN Retire(Duplicates) /\ Goto([run EXCEPT !.at = "refreshed"]) /\ UNCHANGED <<key, made>>
       ELSE Drop /\ Goto(Idle) /\ UNCHANGED listVars
    /\ UNCHANGED tableVars

\* Run repeats the announcements after the refresh.
Refreshed ==
    /\ run.at = "refreshed"
    /\ QueueNotify(Ready \cap Listed)
    /\ Drop /\ Goto(Idle)
    /\ UNCHANGED <<notices, table, listVars>>

-----------------------------------------------------------------------------
\* handleChannel returns: the channel is down, and Run is told.
ChannelDown(ch) ==
    /\ ch \in live
    /\ Break(ch \notin srvLive)
    /\ live' = live \ {ch}
    /\ down' = [down EXCEPT ![ch] = "invalidate"]
    /\ kicks' = kicks \cup {"invalid"}
    /\ UNCHANGED <<key, made, srvLive, tableVars, listVars, run, dialVars>>

DownInvalidate(ch) ==
    /\ down[ch] = "invalidate"
    /\ InvalidateChannel(ch)
    /\ down' = [down EXCEPT ![ch] = "cleanup"]
    /\ UNCHANGED <<key, made, channelVars, tableVars, run, kicks, dialVars>>

\* cleanupChannel is through when the connections that used the channel are closed.
DownCleaned(ch) ==
    /\ down[ch] = "cleanup"
    /\ \A c \in Conns : conn[c].at = "open" => ends[conn[c].pair].up # ch
    /\ down' = [down EXCEPT ![ch] = "no"]
    /\ UNCHANGED <<key, made, channelVars, tableVars, listVars, run, kicks, dialVars>>

\* dialAndServe connects the channel again, and Run is told.
Reconnect(ch) ==
    /\ ch \notin live \cup srvLive /\ down[ch] = "no"
    /\ live' = live \cup {ch} /\ srvLive' = srvLive \cup {ch}
    /\ kicks' = kicks \cup {"ready"}
    /\ UNCHANGED <<key, made, fails, tableVars, listVars, run, down, dialVars>>

\* MsgChannelReset: the server's queue for a channel is full.  The channel stays,
\* its pairs go.
ChannelReset(ch) ==
    /\ Break(FALSE)
    /\ kicks' = kicks \cup {"invalid"}
    /\ InvalidateChannel(ch)
    /\ UNCHANGED <<key, made, live, srvLive, tableVars, run, down, dialVars>>

-----------------------------------------------------------------------------
Init ==
    /\ BuildInit /\ TableInit
    /\ pairs = <<>> /\ primary = NoKey
    /\ state = [k \in Keys |-> "none"]
    /\ ends = [k \in Keys |-> NoEnds]
    /\ refs = [k \in Keys |-> 0]
    /\ run = Idle /\ kicks = {"ready"}
    /\ down = [ch \in Channels |-> "no"]
    /\ conn = [c \in Conns |-> NoDial] /\ release = {}

Loop ==
    \/ OnReady \/ OnInvalid \/ Sweep \/ EndSweep \/ Tick \/ Race \/ NoRace
    \/ BuildFails
    \/ \E p \in Pairs : BuildMakes(p)
    \/ Decide \/ Promote \/ Replace \/ Discard \/ Dedup
    \/ HealthCheck \/ Trim \/ Fill \/ FillOne \/ FillEnds \/ Filled \/ Refreshed

Dial(c) == Acquire(c) \/ SendRequest(c) \/ Fallback(c) \/ Unregister(c) \/ Forget(c)

ReleasePair(r) == CountDown(r) \/ CloseDrained(r) \/ RemoveClosed(r) \/ InvalidateUplink(r)

ChannelStep(ch) ==
    \/ ChannelDown(ch)
    \/ DownInvalidate(ch)
    \/ DownCleaned(ch)
    \/ Reconnect(ch)
    \/ ChannelReset(ch)

warmerVars == <<key, made, listVars, run, kicks, down, dialVars>>

\* Notifications, and the server's table.
Announce ==
    /\ \/ Flush(Ready \cap Listed)
       \/ \E ch \in Channels : \/ HandleNotify(ch)
                               \/ InvalidateByOther(ch, ends)
                               \/ ServerDown(ch, ends)
       \/ \E k \in Keys : Expire(k)
    /\ UNCHANGED warmerVars

Next ==
    \/ Loop
    \/ Announce
    \/ \E c \in Conns : Dial(c)
    \/ \E r \in release : ReleasePair(r)
    \/ \E ch \in Channels : ChannelStep(ch)

Spec == Init /\ [][Next]_vars

\* The goroutine of Run, those that release a pair, the timer of a flush, and the
\* server's readers all go on, and the client's read timeout notices a connection
\* that the server has given up.
Fairness ==
    /\ WF_vars(Loop)
    /\ \A c \in Conns, who \in {"dial", "unregister"}, step \in Steps :
          WF_vars(ReleasePair(<<c, who, step>>))
    /\ WF_vars(Flush(Ready \cap Listed) /\ UNCHANGED warmerVars)
    /\ \A ch \in Channels : /\ WF_vars(HandleNotify(ch) /\ UNCHANGED warmerVars)
                            /\ WF_vars(ch \notin srvLive /\ ChannelDown(ch))

FairSpec == Spec /\ Fairness

-----------------------------------------------------------------------------
TypeOK ==
    /\ TableTypes
    /\ key \in Keys \cup {NoKey} /\ made \in Pairs \cup {NoPair}
    /\ pairs \in Seq(Keys) /\ primary \in Keys \cup {NoKey}
    /\ state \in [Keys -> {"none", "Ready", "Draining", "Closed"}]
    /\ ends \in [Keys -> [up : Channels \cup {NoCh}, down : Channels \cup {NoCh}]]
    /\ refs \in [Keys -> Int]
    /\ run.count \in 0..PairCount /\ run.chans \subseteq Channels
    /\ kicks \subseteq {"ready", "invalid"}
    /\ release \subseteq Conns \X {"dial", "unregister"} \X Steps

\* The list of pairs stays sound whatever the run loop, dials and disconnects do to
\* it between one section under its lock and the next: no pair is in it twice, the
\* primary is in it, and a closed pair is in it only while its last user is about
\* to remove it.
QueueSound ==
    /\ \A i, j \in DOMAIN pairs : pairs[i] = pairs[j] => i = j
    /\ primary # NoKey => primary \in Listed
    /\ \A k \in Listed : state[k] = "Closed" =>
          \E r \in release : r[3] = "remove" /\ conn[r[1]].pair = k

\* There is never more than one Ready pair above PairCount, and that one only from
\* the race of a refresh to the trim that ends it.
ReadyBound ==
    Cardinality(Ready) <= PairCount +
        (IF run.refresh /\ run.at \notin {"idle", "call", "race", "fill", "filling", "building",
                                          "filled", "refreshed"} THEN 1 ELSE 0)

\* Between two turns of the run loop a dial finds the primary at once: it is Ready
\* if any pair is, and after a refresh no two Ready pairs have the same channels.
PrimaryElected ==
    /\ run.at = "idle" /\ Ready # {} => primary \in Ready
    /\ run.at = "refreshed" => \A j, k \in Ready : ends[j] = ends[k] => j = k

\* Every reference is one that a dial still has to give back, so that none keeps a
\* pair in the list for ever.
RefsCovered ==
    \A k \in Keys : refs[k] <= Cardinality({c \in Conns : conn[c].pair = k /\ conn[c].has})
                              + Cardinality({r \in release : conn[r[1]].pair = k /\ r[3] = "count"})

\* Not kept: a connection's pair stays in the list until the connection releases it
\* (the comment of ReleasePair).  A release that counts down to 0 looks at the state
\* later, and meanwhile another dial may have taken the pair and a channel gone down.
HeldPairKept == \A c \in Conns : conn[c].has => state[conn[c].pair] # "Closed"

\* Not kept: a pair has a reference for every connection on it.  A dial whose request
\* fails releases the pair although cleanupChannel may have released it already.
RefsExact ==
    \A k \in Keys : refs[k] >= Cardinality({c \in Conns : conn[c].pair = k /\ conn[c].has})

\* The candidate that a refresh gives up in favour of an equal pair was never handed
\* to a dial: no connection is on a pair that is thrown away as a duplicate.
DiscardUnused == run.at = "discard" => refs[made.key] <= 0

\* No pair that drains and that nobody uses stays in the list: it is removed by the
\* release that found it draining, or by the prune of a later refresh.
DrainedReclaimed ==
    \A k \in Keys : (k \in Listed /\ state[k] = "Draining" /\ refs[k] <= 0) ~> (k \notin Listed)

\* A pair that stays Ready is in the server's table again and again, although its
\* entry expires, and other clients' channels of the same number invalidate it.
Announced == \A k \in Keys : <>[](k \in Ready) => []<>(k \in table)

=============================================================================
