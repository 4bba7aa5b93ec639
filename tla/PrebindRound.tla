---------------------------- MODULE PrebindRound ----------------------------
(***************************************************************************)
(* The pre-binding round that finds a Hot Pair (pair_warmer.go BuildPair,  *)
(* handler.go handlePrebindRequest, pool.go handleChannel).  The client    *)
(* registers a temporary connection under a new key and sends the request  *)
(* on every channel.  The server takes the channel of the first copy as    *)
(* the uplink and broadcasts its choice; the client takes the first other  *)
(* channel that brings the choice as the downlink.                         *)
(*                                                                         *)
(* The server's choice travels in a FIFO per channel.  Requests are a set: *)
(* those of different keys touch different states, so their order does not *)
(* matter.  MsgSelectDownlink, which ends the exchange, sets a field of    *)
(* the server's temporary state that nothing reads and is left out.  No    *)
(* queue is full here (the limits are in ServerQueue and ClientQueue), and *)
(* a channel comes back only when both sides have given it up (the other   *)
(* case is in ServerChannels).                                             *)
(***************************************************************************)
EXTENDS BuildPair

CONSTANTS
    ResultCap,      \* capacity of prebindResultCh
    MaxFail         \* bound: connections that break

ASSUME RoundAssumption == ResultCap \in Nat \ {0} /\ MaxFail \in Nat

VARIABLES
    live,           \* availableChannels: connected at the client
    leaving,        \* disconnected at the client, cleanupChannel to come
    srvLive,        \* registered at the server
    fails,          \* connections broken so far
    temp,           \* the temporary clientConnState under key, while in p.conns
    requests,       \* MsgPrebindRequest on the way, <<key, channel>>
    claimed,        \* server: the uplink of the state under a key
    choices,        \* MsgSelectUplink on the way, per channel
    handing,        \* a result that a channel's reader is about to deliver
    results         \* prebindResultCh

channelVars == <<live, leaving, srvLive, fails>>
buildVars == <<key, made>>
roundVars == <<channelVars, buildVars, temp, requests, claimed, choices, handing, results>>

NoTemp == [uplink |-> NoCh, downlink |-> NoCh, reg |-> FALSE]
Results == [key : Keys, up : Channels, down : Channels]

RoundTypeOK ==
    /\ {live, leaving, srvLive} \subseteq SUBSET Channels
    /\ fails \in 0..MaxFail
    /\ key \in Keys \cup {NoKey} /\ made \in Results \cup {NoPair}
    /\ temp \in [uplink : Channels \cup {NoCh}, downlink : Channels \cup {NoCh}, reg : BOOLEAN]
    /\ requests \subseteq Keys \X Channels
    /\ claimed \in [Keys -> Channels \cup {NoCh}]
    /\ choices \in [Channels -> Seq([key : Keys, up : Channels])]
    /\ handing \in [Channels -> Results \cup {NoPair}]
    /\ results \in Seq(Results) /\ Len(results) <= ResultCap

RoundInit ==
    /\ BuildInit
    /\ live = Channels /\ leaving = {} /\ srvLive = Channels /\ fails = 0
    /\ temp = NoTemp /\ requests = {} /\ results = <<>>
    /\ claimed = [k \in Keys |-> NoCh]
    /\ choices = [ch \in Channels |-> <<>>]
    /\ handing = [ch \in Channels |-> NoPair]

\* No frame, result or state of the round with key k is left: it is as good as new.
Unused(k) ==
    /\ key # k /\ claimed[k] = NoCh
    /\ \A ch \in Channels : /\ <<k, ch>> \notin requests /\ handing[ch].key # k
                            /\ \A i \in DOMAIN choices[ch] : choices[ch][i].key # k
    /\ \A i \in DOMAIN results : results[i].key # k

-----------------------------------------------------------------------------
\* BuildPair up to its wait: the temporary state, and a request on every channel
\* (with fewer than two channels, or none that takes it, there is no round).  What
\* is sent on a connection the server has given up is lost.
StartRound(k) ==
    /\ Cardinality(live) >= 2 /\ Unused(k)
    /\ key = NoKey /\ key' = k /\ made' = NoPair
    /\ requests' = requests \cup ({k} \X (live \cap srvLive))
    /\ temp' = [NoTemp EXCEPT !.reg = TRUE]
    /\ UNCHANGED <<channelVars, claimed, choices, handing, results>>

\* BuildPair runs into PrebindTimeout.
RoundTimeout ==
    /\ key # NoKey
    /\ key' = NoKey /\ made' = NoPair /\ temp' = NoTemp
    /\ UNCHANGED <<channelVars, requests, claimed, choices, handing, results>>

\* BuildPair reads a result: its own makes the pair, another's is ignored.
TakeResult ==
    /\ key # NoKey /\ results # <<>>
    /\ results' = Tail(results)
    /\ IF Head(results).key = key
       THEN key' = NoKey /\ made' = Head(results) /\ temp' = NoTemp
       ELSE UNCHANGED <<buildVars, temp>>
    /\ UNCHANGED <<channelVars, requests, claimed, choices, handing>>

\* handlePrebindRequest: the first copy claims the key for its channel and is
\* broadcast; a later one finds the key claimed.
HandlePrebindRequest(k, ch) ==
    /\ <<k, ch>> \in requests /\ ch \in srvLive
    /\ requests' = requests \ {<<k, ch>>}
    /\ IF claimed[k] = NoCh
       THEN /\ claimed' = [claimed EXCEPT ![k] = ch]
            /\ choices' = [x \in Channels |-> IF x \in srvLive \cap live
                              THEN Append(choices[x], [key |-> k, up |-> ch]) ELSE choices[x]]
       ELSE UNCHANGED <<claimed, choices>>
    /\ UNCHANGED <<channelVars, buildVars, temp, handing, results>>

\* Faulty form: the state is gone before the round is over.
WindowEndsEarly(k) ==
    /\ claimed[k] # NoCh
    /\ claimed' = [claimed EXCEPT ![k] = NoCh]
    /\ UNCHANGED <<channelVars, buildVars, temp, requests, choices, handing, results>>

\* The AfterFunc of handlePrebindRequest.  The window (prebindStateTTL, 5 s from
\* the latest MsgHotPairBegin) is longer than a round (PrebindTimeout, 3 s).
WindowEnds(k) ==
    /\ claimed[k] # NoCh /\ key # k
    /\ claimed' = [claimed EXCEPT ![k] = NoCh]
    /\ UNCHANGED <<channelVars, buildVars, temp, requests, choices, handing, results>>

\* Faulty form: the downlink may be the uplink.
SelectDownlinkAny(ch, uplink) == temp.downlink = NoCh

\* selectDownlink for a pre-binding: the first channel but the uplink wins.
SelectDownlink(ch, uplink) == temp.downlink = NoCh /\ ch # uplink

\* handleChannel, case MsgSelectUplink: noteUplink, then selectDownlink.  The
\* result carries the uplink named in the frame.
HandleSelectUplink(ch) ==
    /\ ch \in live /\ choices[ch] # <<>> /\ handing[ch] = NoPair
    /\ choices' = [choices EXCEPT ![ch] = Tail(@)]
    /\ LET m == Head(choices[ch])
           uplink == IF temp.uplink = NoCh THEN m.up ELSE temp.uplink
           won == SelectDownlink(ch, uplink)
       IN  IF temp.reg /\ m.key = key
           THEN /\ temp' = [temp EXCEPT !.uplink = uplink, !.downlink = IF won THEN ch ELSE @]
                /\ handing' = IF won
                              THEN [handing EXCEPT ![ch] = [key |-> m.key, up |-> m.up, down |-> ch]]
                              ELSE handing
           ELSE UNCHANGED <<temp, handing>>
    /\ UNCHANGED <<channelVars, buildVars, requests, claimed, results>>

\* HandlePrebindResult: a result that does not fit is dropped.
HandlePrebindResult(ch) ==
    /\ handing[ch] # NoPair
    /\ results' = IF Len(results) < ResultCap THEN Append(results, handing[ch]) ELSE results
    /\ handing' = [handing EXCEPT ![ch] = NoPair]
    /\ UNCHANGED <<channelVars, buildVars, temp, requests, claimed, choices>>

-----------------------------------------------------------------------------
\* The client's reader of a channel ends; frames towards it are lost.
ClientDown(ch) ==
    /\ ch \in live /\ handing[ch] = NoPair
    /\ ch \in srvLive => fails < MaxFail
    /\ fails' = IF ch \in srvLive THEN fails + 1 ELSE fails
    /\ live' = live \ {ch} /\ leaving' = leaving \cup {ch}
    /\ choices' = [choices EXCEPT ![ch] = <<>>]
    /\ UNCHANGED <<srvLive, buildVars, temp, requests, claimed, handing, results>>

\* clientPool.cleanupChannel, for the temporary state: a round that has chosen
\* the channel loses it, and BuildPair waits for its timeout.
CleanupRound(ch) ==
    /\ ch \in leaving
    /\ leaving' = leaving \ {ch}
    /\ temp' = IF ch \in {temp.uplink, temp.downlink} THEN NoTemp ELSE temp
    /\ UNCHANGED <<live, srvLive, fails, buildVars, requests, claimed, choices, handing, results>>

\* serverPool.cleanupChannel, for pre-bindings: states with this uplink go.
ServerDown(ch) ==
    /\ ch \in srvLive
    /\ ch \in live => fails < MaxFail
    /\ fails' = IF ch \in live THEN fails + 1 ELSE fails
    /\ srvLive' = srvLive \ {ch}
    /\ requests' = {r \in requests : r[2] # ch}
    /\ claimed' = [k \in Keys |-> IF claimed[k] = ch THEN NoCh ELSE claimed[k]]
    /\ UNCHANGED <<live, leaving, buildVars, temp, choices, handing, results>>

\* dialAndServe connects the channel again.
Reconnect(ch) ==
    /\ ch \notin live \cup leaving \cup srvLive
    /\ live' = live \cup {ch} /\ srvLive' = srvLive \cup {ch}
    /\ UNCHANGED <<leaving, fails, buildVars, temp, requests, claimed, choices, handing, results>>

ChannelStep(ch) ==
    \/ HandleSelectUplink(ch)
    \/ HandlePrebindResult(ch)
    \/ ClientDown(ch)
    \/ CleanupRound(ch)
    \/ ServerDown(ch)
    \/ Reconnect(ch)

RoundNext ==
    \/ RoundTimeout
    \/ TakeResult
    \/ \E k \in Keys : \/ StartRound(k)
                       \/ WindowEnds(k)
                       \/ \E ch \in Channels : HandlePrebindRequest(k, ch)
    \/ \E ch \in Channels : ChannelStep(ch)

RoundSpec == RoundInit /\ [][RoundNext]_roundVars

-----------------------------------------------------------------------------
\* BuildPair keeps its promise: whatever copies, choices and results of this and
\* of earlier rounds are under way, and whatever connections break on either side,
\* a call returns only a pair of its own round, and of two different channels.
Promise == BuildSpec

\* While no connection has broken, the two sides agree on the uplink: when
\* BuildPair returns a pair, the server still has its state of the round and that
\* state names the uplink of the pair.
UplinkClaimed ==
    [][\A k \in Keys : made' # made /\ made'.key = k /\ fails = 0 => claimed[k] = made'.up]_roundVars

=============================================================================
