----------------------- MODULE ClientChannels_proofs ------------------------
(***************************************************************************)
(* The client's channels: the round that pre-binds a pair of them          *)
(* (PrebindRound), and the queues they are written from (ClientQueue).     *)
(*                                                                         *)
(* The round implements BuildPair, for any channels, keys and capacity of  *)
(* the result queue, and whatever connections break. What could go wrong   *)
(* is a second claim: when the server gives up the uplink it chose, a late *)
(* copy of the request makes it choose again, and the client may know one  *)
(* uplink and be told of another.                                          *)
(*                                                                         *)
(* ClientBytesAccounted and WireOrder hold for any senders, sessions,      *)
(* frames and limits.                                                      *)
(***************************************************************************)
EXTENDS PrebindRound, ClientQueue, TLAPS

-----------------------------------------------------------------------------
\* The pre-binding round

\* The choice [k, b] is in the sequence s before any other choice for k.
FirstFor(k, b, s) ==
    \E i \in 1..Len(s) : /\ s[i] = [key |-> k, up |-> b]
                         /\ \A j \in 1..i - 1 : s[j].key # k

Mentions(k, s) == \E i \in 1..Len(s) : s[i].key = k

\* Channel b is the uplink the client knows, or will be told first, on b itself.
Own(b) == temp.uplink = b \/ FirstFor(key, b, choices[b])

\* The server has chosen in this round, as far as anything that is left shows.
Evidence ==
    \/ claimed[key] # NoCh \/ temp.uplink # NoCh
    \/ \E ch \in Channels : Mentions(key, choices[ch])

TempKept == IF temp.reg THEN key # NoKey ELSE temp = NoTemp

\* A request that is still on its way is on a channel the server has, and its
\* channel was never chosen in its round.
RequestsPending ==
    \A k \in Keys, b \in Channels : <<k, b>> \in requests =>
        /\ b \in srvLive /\ claimed[k] # b
        /\ \A ch \in Channels : \A i \in 1..Len(choices[ch]) :
              choices[ch][i] # [key |-> k, up |-> b]
        /\ key = k => temp.uplink # b

\* A channel whose request is still on its way has the first choice of the round
\* before it, unless the round has its downlink.
Reached ==
    \A b \in Channels :
        temp.reg /\ temp.downlink = NoCh /\ <<key, b>> \in requests /\ b \in live /\ Evidence
            => Mentions(key, choices[b])

\* Until the round has its downlink, at most one channel can be its uplink.
OneUplink ==
    temp.reg /\ temp.downlink = NoCh =>
        \A b, c \in Channels : Own(b) /\ Own(c) => b = c

TwoChannels ==
    /\ \A ch \in Channels : handing[ch] # NoPair => handing[ch].up # handing[ch].down
    /\ \A i \in 1..Len(results) : results[i].up # results[i].down

RoundIInv ==
    /\ RoundTypeOK /\ TempKept /\ RequestsPending /\ Reached /\ OneUplink /\ TwoChannels

-----------------------------------------------------------------------------
\* Choices in a queue

Choices == [key : Keys, up : Channels]

\* What is first in the rest of a queue was first in the queue, or the frame that
\* was taken (handleChannel) spoke of the same key.
LEMMA TailFirst ==
    ASSUME NEW s \in Seq(Choices), s # <<>>, NEW k \in Keys, NEW b \in Channels,
           FirstFor(k, b, Tail(s)), Head(s).key # k
    PROVE  FirstFor(k, b, s)
<1>1. PICK i \in 1..Len(Tail(s)) : /\ Tail(s)[i] = [key |-> k, up |-> b]
                                   /\ \A j \in 1..i - 1 : Tail(s)[j].key # k
      BY Zenon DEF FirstFor
<1>2. /\ i + 1 \in 1..Len(s) /\ s[i + 1] = Tail(s)[i]
      /\ \A j \in 1..i : j = 1 \/ s[j] = Tail(s)[j - 1]
      BY <1>1
<1>3. ASSUME NEW j \in 1..(i + 1) - 1 PROVE s[j].key # k
  <2>1. CASE j = 1
        BY <2>1
  <2>2. CASE j - 1 \in 1..i - 1
        BY <1>1, <1>2, <2>2
  <2>3. QED
        BY <2>1, <2>2
<1>4. QED
      BY <1>1, <1>2, <1>3, Zenon DEF FirstFor

\* The frame taken from a queue was the first for its key.
LEMMA HeadFirst ==
    ASSUME NEW s \in Seq(Choices), s # <<>>
    PROVE  FirstFor(Head(s).key, Head(s).up, s)
<1>1. 1 \in 1..Len(s) /\ Head(s) = s[1] /\ s[1] \in Choices /\ 1..1 - 1 = {}
      OBVIOUS
<1>2. s[1] = [key |-> s[1].key, up |-> s[1].up]
      BY <1>1, Zenon DEF Choices
<1>3. QED
      BY <1>1, <1>2, Zenon DEF FirstFor

\* A choice that is appended is first only if its key was not spoken of.
LEMMA AppendFirst ==
    ASSUME NEW s \in Seq(Choices), NEW m \in Choices, NEW k \in Keys, NEW b \in Channels,
           FirstFor(k, b, Append(s, m))
    PROVE  FirstFor(k, b, s) \/ (m = [key |-> k, up |-> b] /\ ~Mentions(k, s))
<1>1. PICK i \in 1..Len(Append(s, m)) :
          /\ Append(s, m)[i] = [key |-> k, up |-> b]
          /\ \A j \in 1..i - 1 : Append(s, m)[j].key # k
      BY Zenon DEF FirstFor
<1>2. /\ Len(Append(s, m)) = Len(s) + 1 /\ Append(s, m)[Len(s) + 1] = m
      /\ \A j \in 1..Len(s) : Append(s, m)[j] = s[j]
      OBVIOUS
<1>3. CASE i = Len(s) + 1
      BY <1>1, <1>2, <1>3 DEF Mentions
<1>4. CASE i \in 1..Len(s)
      BY <1>1, <1>2, <1>4 DEF FirstFor
<1>5. QED
      BY <1>2, <1>3, <1>4

\* Taking and appending a choice, as to which keys a queue speaks of.
LEMMA MentionsSteps ==
    ASSUME NEW s \in Seq(Choices), NEW k \in Keys
    PROVE  /\ ~Mentions(k, <<>>)
           /\ \A m \in Choices : Mentions(k, Append(s, m)) <=> Mentions(k, s) \/ m.key = k
           /\ s # <<>> /\ Mentions(k, Tail(s)) => Mentions(k, s)
           /\ s # <<>> /\ Mentions(k, s) => Mentions(k, Tail(s)) \/ Head(s).key = k
<1>1. ~Mentions(k, <<>>)
      BY DEF Mentions
<1>2. ASSUME NEW m \in Choices
      PROVE  Mentions(k, Append(s, m)) <=> Mentions(k, s) \/ m.key = k
  <2>1. /\ Len(Append(s, m)) = Len(s) + 1 /\ Append(s, m)[Len(s) + 1] = m
        /\ \A j \in 1..Len(s) : Append(s, m)[j] = s[j]
        OBVIOUS
  <2>2. QED
        BY <2>1 DEF Mentions
<1>3. ASSUME s # <<>>
      PROVE  /\ Mentions(k, Tail(s)) => Mentions(k, s)
             /\ Mentions(k, s) => Mentions(k, Tail(s)) \/ Head(s).key = k
  <2>1. /\ Len(Tail(s)) = Len(s) - 1 /\ Head(s) = s[1]
        /\ \A j \in 1..Len(Tail(s)) : Tail(s)[j] = s[j + 1]
        BY <1>3
  <2>2. ASSUME Mentions(k, Tail(s)) PROVE Mentions(k, s)
        BY <2>1, <2>2 DEF Mentions
  <2>3. ASSUME Mentions(k, s), Head(s).key # k PROVE Mentions(k, Tail(s))
    <3>1. PICK i \in 1..Len(s) : s[i].key = k
          BY <2>3, Zenon DEF Mentions
    <3>2. i - 1 \in 1..Len(Tail(s)) /\ Tail(s)[i - 1] = s[i]
          BY <2>1, <2>3, <3>1
    <3>3. QED
          BY <3>1, <3>2, Zenon DEF Mentions
  <2>4. QED
        BY <2>2, <2>3, Zenon
<1>4. QED
      BY <1>1, <1>2, <1>3, Zenon

-----------------------------------------------------------------------------
\* The types

Temps == [uplink : Channels \cup {NoCh}, downlink : Channels \cup {NoCh}, reg : BOOLEAN]

\* The steps of the two sides keep the types of the round's state.
LEMMA RoundTypeStep == RoundTypeOK /\ [RoundNext]_roundVars => RoundTypeOK'
<1> SUFFICES ASSUME RoundTypeOK, [RoundNext]_roundVars PROVE RoundTypeOK'
    BY Zenon
<1> USE RoundAssumption, BuildPairAssumption
<1>0. /\ \A ch \in Channels : choices[ch] \in Seq(Choices)
      /\ NoTemp \in Temps /\ temp \in Temps /\ results \in Seq(Results)
      BY Zenon DEF RoundTypeOK, NoTemp, Temps, Choices
<1>1. ASSUME NEW k \in Keys, StartRound(k) PROVE RoundTypeOK'
  <2>1. [NoTemp EXCEPT !.reg = TRUE] \in Temps
        BY Zenon DEF NoTemp, Temps
  <2>2. QED
        BY <1>1, <2>1, Zenon DEF RoundTypeOK, StartRound, channelVars, Temps
<1>2. CASE RoundTimeout
      BY <1>2, <1>0, Zenon DEF RoundTypeOK, RoundTimeout, channelVars, Temps
<1>3. CASE TakeResult
  <2>1. /\ Head(results) \in Results /\ Tail(results) \in Seq(Results)
        /\ Len(Tail(results)) <= ResultCap
        BY <1>3, <1>0 DEF RoundTypeOK, TakeResult
  <2>2. QED
        BY <1>3, <1>0, <2>1, Zenon DEF RoundTypeOK, TakeResult, channelVars, buildVars, Temps
<1>4. ASSUME NEW k \in Keys, NEW ch \in Channels, HandlePrebindRequest(k, ch)
      PROVE  RoundTypeOK'
  <2>1. \A m \in Choices, x \in Channels : Append(choices[x], m) \in Seq(Choices)
        BY <1>0
  <2>2. choices' \in [Channels -> Seq(Choices)]
    <3>1. [key |-> k, up |-> ch] \in Choices
          BY Zenon DEF Choices
    <3>2. CASE choices' = choices
          BY <3>2, Zenon DEF RoundTypeOK, Choices
    <3>3. CASE choices' = [x \in Channels |-> IF x \in srvLive \cap live
                              THEN Append(choices[x], [key |-> k, up |-> ch]) ELSE choices[x]]
          BY <1>0, <2>1, <3>1, <3>3, Zenon
    <3>4. QED
          BY <1>4, <3>2, <3>3, Zenon DEF HandlePrebindRequest
  <2>3. QED
        BY <1>4, <2>2, Zenon DEF RoundTypeOK, HandlePrebindRequest, channelVars, buildVars, Choices
<1>5. ASSUME NEW k \in Keys, WindowEnds(k) PROVE RoundTypeOK'
      BY <1>5, Zenon DEF RoundTypeOK, WindowEnds, channelVars, buildVars
<1>6. ASSUME NEW ch \in Channels, HandleSelectUplink(ch) PROVE RoundTypeOK'
  <2> DEFINE m == Head(choices[ch])
  <2>1. m \in Choices /\ Tail(choices[ch]) \in Seq(Choices)
        BY <1>6, <1>0 DEF HandleSelectUplink
  <2>2. choices' \in [Channels -> Seq(Choices)]
        BY <1>6, <2>1, Zenon DEF HandleSelectUplink, RoundTypeOK, Choices
  <2>3. temp' \in Temps
        BY <1>6, <1>0, <2>1, Zenon DEF HandleSelectUplink, Temps, Choices
  <2>4. [key |-> m.key, up |-> m.up, down |-> ch] \in Results
        BY <2>1, Zenon DEF Choices, Results
  <2>5. handing' \in [Channels -> Results \cup {NoPair}]
    <3>1. \/ handing' = handing
          \/ handing' = [handing EXCEPT ![ch] = [key |-> m.key, up |-> m.up, down |-> ch]]
          BY <1>6, Zenon DEF HandleSelectUplink
    <3>2. QED
          BY <2>4, <3>1, ZenonT(30) DEF RoundTypeOK
  <2>6. QED
        BY <1>6, <2>2, <2>3, <2>5, Zenon
           DEF RoundTypeOK, HandleSelectUplink, channelVars, buildVars, Temps, Choices
<1>7. ASSUME NEW ch \in Channels, HandlePrebindResult(ch) PROVE RoundTypeOK'
  <2>1. handing[ch] \in Results
        BY <1>7, Zenon DEF HandlePrebindResult, RoundTypeOK
  <2>2. Append(results, handing[ch]) \in Seq(Results)
        /\ Len(Append(results, handing[ch])) = Len(results) + 1
        BY <1>0, <2>1
  <2>3. results' \in Seq(Results) /\ Len(results') <= ResultCap
        BY <1>7, <1>0, <2>2 DEF HandlePrebindResult, RoundTypeOK
  <2>4. handing' \in [Channels -> Results \cup {NoPair}]
        BY <1>7, Zenon DEF HandlePrebindResult, RoundTypeOK
  <2>5. QED
        BY <1>7, <2>3, <2>4, Zenon DEF RoundTypeOK, HandlePrebindResult, channelVars, buildVars
<1>8. ASSUME NEW ch \in Channels, ClientDown(ch) PROVE RoundTypeOK'
  <2>1. choices' \in [Channels -> Seq(Choices)]
    <3>1. <<>> \in Seq(Choices)
          OBVIOUS
    <3>2. choices \in [Channels -> Seq(Choices)]
          BY Zenon DEF RoundTypeOK, Choices
    <3>3. QED
          BY <1>8, <3>1, <3>2, Zenon DEF ClientDown
  <2>2. fails' \in 0..MaxFail
        BY <1>8 DEF RoundTypeOK, ClientDown
  <2>3. {live', leaving', srvLive'} \subseteq SUBSET Channels
        BY <1>8, Zenon DEF RoundTypeOK, ClientDown
  <2>4. QED
        BY <1>8, <2>1, <2>2, <2>3, Zenon DEF RoundTypeOK, ClientDown, buildVars, Choices
<1>9. ASSUME NEW ch \in Channels, CleanupRound(ch) PROVE RoundTypeOK'
      BY <1>9, <1>0, Zenon DEF RoundTypeOK, CleanupRound, buildVars, Temps
<1>10. ASSUME NEW ch \in Channels, ServerDown(ch) PROVE RoundTypeOK'
  <2>1. claimed' \in [Keys -> Channels \cup {NoCh}]
        BY <1>10, Zenon DEF RoundTypeOK, ServerDown
  <2>2. fails' \in 0..MaxFail
        BY <1>10 DEF RoundTypeOK, ServerDown
  <2>3. {live', leaving', srvLive'} \subseteq SUBSET Channels
        BY <1>10, Zenon DEF RoundTypeOK, ServerDown
  <2>4. requests' \subseteq Keys \X Channels
        BY <1>10, Zenon DEF RoundTypeOK, ServerDown
  <2>5. QED
        BY <1>10, <2>1, <2>2, <2>3, <2>4, Zenon DEF RoundTypeOK, ServerDown, buildVars
<1>11. ASSUME NEW ch \in Channels, Reconnect(ch) PROVE RoundTypeOK'
       BY <1>11, Zenon DEF RoundTypeOK, Reconnect, buildVars
<1>12. CASE UNCHANGED roundVars
       BY <1>12, Zenon DEF RoundTypeOK, roundVars, channelVars, buildVars
<1>13. QED
       BY <1>1, <1>2, <1>3, <1>4, <1>5, <1>6, <1>7, <1>8, <1>9, <1>10, <1>11, <1>12, Zenon
          DEF RoundNext, ChannelStep

-----------------------------------------------------------------------------
\* At most one uplink

Round == TempKept /\ RequestsPending /\ Reached /\ OneUplink

\* A step that only loses things: frames, claims, requests, or the round itself.
Quiet ==
    /\ temp' = NoTemp \/ (temp' = temp /\ key' = key)
    /\ requests' \subseteq requests
    /\ \A r \in requests' :
          /\ r[2] \in srvLive'
          /\ r[2] \in live' => r[2] \in live /\ choices'[r[2]] = choices[r[2]]
    /\ \A ch \in Channels : choices'[ch] \in {choices[ch], <<>>}
    /\ \A k \in Keys : claimed'[k] \in {claimed[k], NoCh}

\* All steps but those of a request that is sent, claimed or answered are of
\* that kind: timeouts, results, expiry, and channels that go and come back.
LEMMA QuietSteps ==
    ASSUME RoundTypeOK, Round, [RoundNext]_roundVars,
           \A k \in Keys : ~StartRound(k),
           \A k \in Keys, ch \in Channels : ~HandlePrebindRequest(k, ch),
           \A ch \in Channels : ~HandleSelectUplink(ch)
    PROVE  Quiet
<1>0. \A r \in requests : r \in Keys \X Channels /\ r[2] \in Channels /\ r[2] \in srvLive
  <2>1. requests \subseteq Keys \X Channels
        BY Zenon DEF RoundTypeOK
  <2>2. ASSUME NEW r \in requests
        PROVE  r \in Keys \X Channels /\ r[2] \in Channels /\ r[2] \in srvLive
    <3>1. r \in Keys \X Channels /\ r[1] \in Keys /\ r[2] \in Channels /\ r = <<r[1], r[2]>>
          BY <2>1
    <3>2. QED
          BY <3>1, Zenon DEF Round, RequestsPending
  <2>3. QED
        BY <2>2, Zenon
<1>2. CASE RoundTimeout
      BY <1>2, <1>0, Zenon DEF RoundTimeout, channelVars, Quiet
<1>3. CASE TakeResult
      BY <1>3, <1>0, Zenon DEF TakeResult, channelVars, buildVars, Quiet
<1>5. ASSUME NEW k \in Keys, WindowEnds(k) PROVE Quiet
      BY <1>5, <1>0, Zenon DEF WindowEnds, channelVars, buildVars, Quiet, RoundTypeOK
<1>7. ASSUME NEW ch \in Channels, HandlePrebindResult(ch) PROVE Quiet
      BY <1>7, <1>0, Zenon DEF HandlePrebindResult, channelVars, buildVars, Quiet
<1>8. ASSUME NEW ch \in Channels, ClientDown(ch) PROVE Quiet
      BY <1>8, <1>0, Zenon DEF ClientDown, buildVars, Quiet, RoundTypeOK
<1>9. ASSUME NEW ch \in Channels, CleanupRound(ch) PROVE Quiet
      BY <1>9, <1>0, Zenon DEF CleanupRound, buildVars, Quiet
<1>10. ASSUME NEW ch \in Channels, ServerDown(ch) PROVE Quiet
  <2>1. \A r \in requests' : r \in requests /\ r[2] \in srvLive'
        BY <1>10, <1>0, Zenon DEF ServerDown
  <2>2. \A k \in Keys : claimed'[k] \in {claimed[k], NoCh}
        BY <1>10, Zenon DEF ServerDown
  <2>3. QED
        BY <1>10, <2>1, <2>2, Zenon DEF ServerDown, buildVars, Quiet
<1>11. ASSUME NEW ch \in Channels, Reconnect(ch) PROVE Quiet
       BY <1>11, <1>0, Zenon DEF Reconnect, buildVars, Quiet
<1>12. CASE UNCHANGED roundVars
       BY <1>12, <1>0, Zenon DEF roundVars, channelVars, buildVars, Quiet
<1>13. QED
       BY <1>2, <1>3, <1>5, <1>7, <1>8, <1>9, <1>10, <1>11, <1>12, Zenon
          DEF RoundNext, ChannelStep

\* Losing things makes no second uplink.
LEMMA QuietKeeps ==
    ASSUME RoundTypeOK, Round, Quiet
    PROVE  Round'
<1> USE BuildPairAssumption
<1>0. /\ NoTemp.uplink = NoCh /\ NoTemp.reg = FALSE
      /\ \A k : ~Mentions(k, <<>>)
      /\ \A k, b : ~FirstFor(k, b, <<>>)
      BY DEF NoTemp, Mentions, FirstFor
<1>1. TempKept'
      BY <1>0, Zenon DEF Round, TempKept, Quiet, NoTemp
<1>2. RequestsPending'
  <2> SUFFICES ASSUME NEW k \in Keys, NEW b \in Channels, <<k, b>> \in requests'
               PROVE  /\ b \in srvLive' /\ claimed'[k] # b
                      /\ \A ch \in Channels : \A i \in 1..Len(choices'[ch]) :
                            choices'[ch][i] # [key |-> k, up |-> b]
                      /\ key' = k => temp'.uplink # b
      BY Zenon DEF RequestsPending
  <2>1. <<k, b>> \in requests
        BY Zenon DEF Quiet
  <2>2. b \in srvLive' /\ claimed'[k] # b
        BY <2>1, ZenonT(30) DEF Quiet, Round, RequestsPending
  <2>3. \A ch \in Channels : \A i \in 1..Len(choices'[ch]) :
            choices'[ch][i] # [key |-> k, up |-> b]
        BY <2>1 DEF Quiet, Round, RequestsPending
  <2>4. key' = k => temp'.uplink # b
        BY <2>1, <1>0, ZenonT(30) DEF Quiet, Round, RequestsPending
  <2>5. QED
        BY <2>2, <2>3, <2>4, Zenon
<1>3. CASE temp' = NoTemp
      BY <1>0, <1>1, <1>2, <1>3, Zenon DEF Round, Reached, OneUplink
<1>4. CASE temp' = temp /\ key' = key /\ temp.reg
  <2>1. key \in Keys
        BY <1>4, Zenon DEF Round, TempKept, RoundTypeOK
  <2>2. Evidence' => Evidence
    <3>1. \A ch \in Channels : Mentions(key, choices'[ch]) => Mentions(key, choices[ch])
          BY <1>0, Zenon DEF Quiet
    <3>2. QED
          BY <1>4, <2>1, <3>1, Zenon DEF Quiet, Evidence
  <2>3. Reached'
        BY <1>4, <2>2, Zenon DEF Reached, Round, Quiet
  <2>4. \A b \in Channels : Own(b)' => Own(b)
        BY <1>0, <1>4, Zenon DEF Own, Quiet
  <2>5. OneUplink'
        BY <1>4, <2>4, Zenon DEF OneUplink, Round
  <2>6. QED
        BY <1>1, <1>2, <2>3, <2>5, Zenon DEF Round
<1>5. QED
      BY <1>1, <1>2, <1>3, <1>4, Zenon DEF Quiet, Round, Reached, OneUplink

\* StartRound: nothing speaks of a new key yet.
LEMMA StartKeeps ==
    ASSUME RoundTypeOK, Round, NEW k \in Keys, StartRound(k)
    PROVE  Round'
<1> USE BuildPairAssumption
<1>0. /\ key' = k /\ choices' = choices /\ claimed' = claimed /\ srvLive' = srvLive
      /\ requests' = requests \cup ({k} \X (live \cap srvLive))
      /\ temp' = [uplink |-> NoCh, downlink |-> NoCh, reg |-> TRUE]
      /\ claimed[k] = NoCh
      BY Zenon DEF StartRound, Unused, NoTemp, channelVars
<1>1. \A ch \in Channels : ~Mentions(k, choices[ch])
  <2>1. \A ch \in Channels : DOMAIN choices[ch] = 1..Len(choices[ch])
        BY DEF RoundTypeOK
  <2>2. QED
        BY <2>1, Zenon DEF StartRound, Unused, Mentions
<1>2. \A b, ch \in Channels : ~FirstFor(k, b, choices[ch])
  <2> SUFFICES ASSUME NEW b \in Channels, NEW ch \in Channels, FirstFor(k, b, choices[ch])
               PROVE  FALSE
      BY Zenon
  <2>1. PICK i \in 1..Len(choices[ch]) : choices[ch][i] = [key |-> k, up |-> b]
        BY Zenon DEF FirstFor
  <2>2. choices[ch][i].key = k
        BY <2>1
  <2>3. QED
        BY <1>1, <2>2, Zenon DEF Mentions
<1>3. TempKept'
      BY <1>0, Zenon DEF TempKept
<1>4. RequestsPending'
  <2> SUFFICES ASSUME NEW x \in Keys, NEW b \in Channels, <<x, b>> \in requests'
               PROVE  /\ b \in srvLive' /\ claimed'[x] # b
                      /\ \A ch \in Channels : \A i \in 1..Len(choices'[ch]) :
                            choices'[ch][i] # [key |-> x, up |-> b]
                      /\ key' = x => temp'.uplink # b
      BY Zenon DEF RequestsPending
  <2>1. temp'.uplink # b
        BY <1>0, Zenon
  <2>2. CASE <<x, b>> \in requests
        BY <1>0, <2>1, <2>2, Zenon DEF Round, RequestsPending
  <2>3. CASE x = k /\ b \in srvLive
    <3>1. ASSUME NEW ch \in Channels, NEW i \in 1..Len(choices'[ch]),
                 choices'[ch][i] = [key |-> x, up |-> b]
          PROVE  FALSE
          BY <1>0, <1>1, <2>3, <3>1 DEF Mentions
    <3>2. QED
          BY <1>0, <2>1, <2>3, <3>1, Zenon
  <2>4. QED
        BY <1>0, <2>2, <2>3, Zenon
<1>5. ~Evidence'
      BY <1>0, <1>1, Zenon DEF Evidence
<1>6. Reached'
      BY <1>5, Zenon DEF Reached
<1>7. OneUplink'
      BY <1>0, <1>2, Zenon DEF OneUplink, Own
<1>8. QED
      BY <1>3, <1>4, <1>6, <1>7, Zenon DEF Round

\* handlePrebindRequest: if the server has chosen before, the channel of this copy
\* has been told so first, and cannot become a second uplink.
LEMMA ClaimKeeps ==
    ASSUME RoundTypeOK, Round, NEW k \in Keys, NEW c \in Channels, HandlePrebindRequest(k, c)
    PROVE  Round'
<1> USE BuildPairAssumption
<1> DEFINE m == [key |-> k, up |-> c]
<1>0. /\ key' = key /\ temp' = temp /\ live' = live /\ srvLive' = srvLive
      /\ <<k, c>> \in requests /\ c \in srvLive /\ requests' = requests \ {<<k, c>>}
      BY Zenon DEF HandlePrebindRequest, channelVars, buildVars
<1>1. CASE claimed[k] # NoCh
  <2>1. \A r \in requests : r[2] \in srvLive
    <3>1. ASSUME NEW r \in requests PROVE r[2] \in srvLive
      <4>1. r[1] \in Keys /\ r[2] \in Channels /\ r = <<r[1], r[2]>>
            BY DEF RoundTypeOK
      <4>2. QED
            BY <4>1, Zenon DEF Round, RequestsPending
    <3>2. QED
          BY <3>1, Zenon
  <2>2. Quiet
        BY <1>0, <1>1, <2>1, Zenon DEF HandlePrebindRequest, Quiet
  <2>3. QED
        BY <2>2, QuietKeeps, Zenon
<1>2. CASE claimed[k] = NoCh
  <2>1. /\ claimed' = [claimed EXCEPT ![k] = c]
        /\ choices' = [x \in Channels |-> IF x \in srvLive \cap live
                              THEN Append(choices[x], m) ELSE choices[x]]
        BY <1>2, Zenon DEF HandlePrebindRequest
  <2>2. m \in Choices /\ m.key = k /\ \A x \in Channels : choices[x] \in Seq(Choices)
        BY Zenon DEF Choices, RoundTypeOK
  <2> HIDE DEF m
  <2>3. TempKept'
        BY <1>0, Zenon DEF Round, TempKept
  <2>4. RequestsPending'
    <3> SUFFICES ASSUME NEW x \in Keys, NEW b \in Channels, <<x, b>> \in requests'
                 PROVE  /\ b \in srvLive' /\ claimed'[x] # b
                        /\ \A ch \in Channels : \A i \in 1..Len(choices'[ch]) :
                              choices'[ch][i] # [key |-> x, up |-> b]
                        /\ key' = x => temp'.uplink # b
        BY Zenon DEF RequestsPending
    <3>1. <<x, b>> \in requests /\ ~(x = k /\ b = c)
          BY <1>0, Zenon
    <3>2. m # [key |-> x, up |-> b]
          BY <3>1, Zenon DEF m
    <3>3. b \in srvLive' /\ claimed'[x] # b /\ (key' = x => temp'.uplink # b)
          BY <1>0, <2>1, <3>1, Zenon DEF Round, RequestsPending, RoundTypeOK
    <3>4. ASSUME NEW ch \in Channels, NEW i \in 1..Len(choices'[ch])
          PROVE  choices'[ch][i] # [key |-> x, up |-> b]
      <4>1. \A j \in 1..Len(choices[ch]) : choices[ch][j] # [key |-> x, up |-> b]
            BY <3>1, Zenon DEF Round, RequestsPending
      <4>2. CASE choices'[ch] = choices[ch]
            BY <4>1, <4>2, Zenon
      <4>3. CASE choices'[ch] = Append(choices[ch], m)
        <5>1. choices'[ch][i] = m \/ (i \in 1..Len(choices[ch]) /\ choices'[ch][i] = choices[ch][i])
              BY <2>2, <4>3
        <5>2. QED
              BY <3>2, <4>1, <5>1, Zenon
      <4>4. QED
            BY <2>1, <4>2, <4>3, Zenon
    <3>5. QED
          BY <3>3, <3>4, Zenon
  <2>5. ASSUME temp.reg, temp.downlink = NoCh
        PROVE  Reached' /\ OneUplink'
    <3>1. key \in Keys
          BY <2>5, Zenon DEF Round, TempKept, RoundTypeOK
    <3>2. \A x \in Channels :
              choices'[x] = IF x \in srvLive \cap live THEN Append(choices[x], m) ELSE choices[x]
          BY <2>1, Zenon
    <3>3. \A x \in Channels :
              /\ Mentions(key, choices'[x]) => Mentions(key, choices[x]) \/ key = k
              /\ Mentions(key, choices[x]) => Mentions(key, choices'[x])
              /\ key = k /\ x \in srvLive \cap live => Mentions(key, choices'[x])
      <4>1. \A x \in Channels :
                Mentions(key, Append(choices[x], m)) <=> Mentions(key, choices[x]) \/ k = key
            BY <2>2, <3>1, MentionsSteps, Zenon
      <4>2. QED
            BY <3>2, <4>1, Zenon
    <3>4. Evidence' => Evidence \/ key = k
          BY <1>0, <2>1, <3>1, <3>3, Zenon DEF Evidence, RoundTypeOK
    <3>5. ASSUME NEW b \in Channels, <<key, b>> \in requests', b \in live, Evidence'
          PROVE  Mentions(key, choices'[b])
      <4>1. <<key, b>> \in requests
            BY <1>0, <3>5, Zenon
      <4>2. b \in srvLive
            BY <3>1, <4>1, Zenon DEF Round, RequestsPending
      <4>3. CASE key = k
            BY <3>3, <3>5, <4>2, <4>3, Zenon
      <4>4. CASE Evidence
            BY <2>5, <3>3, <3>5, <4>1, <4>4, Zenon DEF Round, Reached
      <4>5. QED
            BY <3>4, <3>5, <4>3, <4>4, Zenon
    <3>6. Reached'
          BY <1>0, <3>5, Zenon DEF Reached
    <3>7. ASSUME NEW b \in Channels, Own(b) PROVE Evidence
      <4>1. CASE temp.uplink = b
            BY <4>1, Zenon DEF Evidence
      <4>2. CASE FirstFor(key, b, choices[b])
        <5>1. PICK i \in 1..Len(choices[b]) : choices[b][i] = [key |-> key, up |-> b]
              BY <4>2, Zenon DEF FirstFor
        <5>2. choices[b][i].key = key
              BY <5>1
        <5>3. QED
              BY <5>2, Zenon DEF Evidence, Mentions
      <4>3. QED
            BY <3>7, <4>1, <4>2, Zenon DEF Own
    <3>8. ASSUME NEW b \in Channels, Own(b)'
          PROVE  Own(b) \/ (b = c /\ ~Evidence)
      <4>1. CASE temp.uplink = b
            BY <4>1, Zenon DEF Own
      <4>2. CASE FirstFor(key, b, choices'[b])
        <5>1. \/ FirstFor(key, b, choices[b])
              \/ /\ m = [key |-> key, up |-> b] /\ ~Mentions(key, choices[b])
                 /\ b \in live
          <6>1. CASE choices'[b] = choices[b]
                BY <4>2, <6>1, Zenon
          <6>2. CASE b \in live /\ choices'[b] = Append(choices[b], m)
            <7>1. FirstFor(key, b, Append(choices[b], m))
                  BY <4>2, <6>2, Zenon
            <7>2. QED
                  BY <2>2, <3>1, <6>2, <7>1, AppendFirst
          <6>3. QED
                BY <3>2, <6>1, <6>2, Zenon
        <5>2. m = [key |-> key, up |-> b] => key = k /\ b = c
              BY Zenon DEF m
        <5>3. QED
              BY <1>0, <2>5, <5>1, <5>2, Zenon DEF Round, Reached, Own
      <4>3. QED
            BY <1>0, <3>8, <4>1, <4>2, Zenon DEF Own
    <3>9. OneUplink'
          BY <2>5, <3>7, <3>8, Zenon DEF OneUplink, Round
    <3>10. QED
           BY <3>6, <3>9, Zenon
  <2>6. QED
        BY <1>0, <2>3, <2>4, <2>5, Zenon DEF Round, Reached, OneUplink
<1>3. QED
      BY <1>1, <1>2, Zenon

\* handleChannel, case MsgSelectUplink: the client learns its uplink from the only
\* channel that can be it, or the round gets its downlink.
LEMMA AnswerKeeps ==
    ASSUME RoundTypeOK, Round, NEW c \in Channels, HandleSelectUplink(c)
    PROVE  Round'
<1> USE BuildPairAssumption
<1> DEFINE s == choices[c]
           m == Head(s)
           uplink == IF temp.uplink = NoCh THEN m.up ELSE temp.uplink
           won == SelectDownlink(c, uplink)
<1>0. /\ s \in Seq(Choices) /\ s # <<>> /\ m \in Choices
      /\ choices' = [choices EXCEPT ![c] = Tail(s)]
      /\ key' = key /\ live' = live /\ srvLive' = srvLive
      /\ requests' = requests /\ claimed' = claimed
  <2>1. s \in Seq(Choices) /\ s # <<>>
        BY Zenon DEF HandleSelectUplink, RoundTypeOK, Choices
  <2>2. m \in Choices
        BY <2>1
  <2>3. QED
        BY <2>1, <2>2, Zenon DEF HandleSelectUplink, channelVars, buildVars
<1>1. /\ choices'[c] = Tail(s)
      /\ \A x \in Channels : x # c => choices'[x] = choices[x]
      BY <1>0, Zenon DEF RoundTypeOK
<1>2. ASSUME NEW ch \in Channels, NEW i \in 1..Len(choices'[ch])
      PROVE  \E j \in 1..Len(choices[ch]) : choices'[ch][i] = choices[ch][j]
  <2>1. CASE ch # c
        BY <1>1, <2>1, Zenon
  <2>2. CASE ch = c
    <3>1. i \in 1..Len(Tail(s)) /\ i + 1 \in 1..Len(s) /\ Tail(s)[i] = s[i + 1]
      <4>1. \A t \in Seq(Choices) : t # <<>> =>
                \A j \in 1..Len(Tail(t)) : j + 1 \in 1..Len(t) /\ Tail(t)[j] = t[j + 1]
            OBVIOUS
      <4>2. i \in 1..Len(Tail(s))
            BY <1>1, <1>2, <2>2, Zenon
      <4>3. QED
            BY <1>0, <4>1, <4>2, Zenon
    <3>2. QED
          BY <1>1, <2>2, <3>1, Zenon
  <2>3. QED
        BY <2>1, <2>2, Zenon
<1>3. ASSUME NEW k \in Keys, NEW b \in Channels, <<k, b>> \in requests
      PROVE  /\ b \in srvLive' /\ claimed'[k] # b
             /\ \A ch \in Channels : \A i \in 1..Len(choices'[ch]) :
                   choices'[ch][i] # [key |-> k, up |-> b]
             /\ m # [key |-> k, up |-> b]
  <2>1. \A ch \in Channels : \A i \in 1..Len(choices[ch]) :
            choices[ch][i] # [key |-> k, up |-> b]
        BY <1>3, Zenon DEF Round, RequestsPending
  <2>2. 1 \in 1..Len(s) /\ m = s[1]
        BY <1>0
  <2>3. QED
        BY <1>0, <1>2, <1>3, <2>1, <2>2, SMTT(30) DEF Round, RequestsPending
<1>4. \A k \in Keys : \A x \in Channels :
          /\ Mentions(k, choices'[x]) => Mentions(k, choices[x])
          /\ Mentions(k, choices[x]) /\ (x = c => m.key # k) => Mentions(k, choices'[x])
      BY <1>0, <1>1, MentionsSteps
<1>5. CASE ~temp.reg
  <2>1. temp' = temp
        BY <1>5, Zenon DEF HandleSelectUplink
  <2>2. RequestsPending'
        BY <1>0, <1>3, <2>1, Zenon DEF Round, RequestsPending
  <2>3. QED
        BY <1>0, <1>5, <2>1, <2>2, Zenon DEF Round, TempKept, Reached, OneUplink
<1>6. CASE temp.reg /\ m.key # key
  <2>1. temp' = temp /\ key \in Keys
        BY <1>6, Zenon DEF HandleSelectUplink, Round, TempKept, RoundTypeOK
  <2>2. RequestsPending'
        BY <1>0, <1>3, <2>1, Zenon DEF Round, RequestsPending
  <2>3. Evidence' => Evidence
        BY <1>0, <1>4, <2>1, Zenon DEF Evidence
  <2>4. Reached'
        BY <1>0, <1>4, <1>6, <2>1, <2>3, Zenon DEF Reached, Round
  <2>5. ASSUME NEW b \in Channels, Own(b)' PROVE Own(b)
    <3>1. FirstFor(key, b, choices'[b]) => FirstFor(key, b, choices[b])
          BY <1>0, <1>1, <1>6, <2>1, TailFirst
    <3>2. QED
          BY <1>0, <2>1, <2>5, <3>1, Zenon DEF Own
  <2>6. OneUplink'
        BY <1>0, <2>1, <2>5, Zenon DEF OneUplink, Round
  <2>7. QED
        BY <1>0, <2>1, <2>2, <2>4, <2>6, Zenon DEF Round, TempKept
<1>7. CASE temp.reg /\ m.key = key
  <2>1. /\ temp' = [temp EXCEPT !.uplink = uplink, !.downlink = IF won THEN c ELSE @]
        /\ key \in Keys
        BY <1>7, Zenon DEF HandleSelectUplink, Round, TempKept, RoundTypeOK
  <2>2. /\ temp'.reg /\ temp'.uplink = uplink
        /\ temp'.downlink = IF won THEN c ELSE temp.downlink
        BY <1>7, <2>1, Zenon DEF RoundTypeOK
  <2>3. m = [key |-> key, up |-> m.up] /\ m.up \in Channels
        BY <1>0, <1>7, Zenon DEF Choices
  <2> HIDE DEF m, s
  <2>4. RequestsPending'
    <3>1. ASSUME NEW b \in Channels, <<key, b>> \in requests PROVE uplink # b
          BY <1>3, <2>1, <2>3, <3>1, Zenon DEF Round, RequestsPending
    <3>2. QED
          BY <1>0, <1>3, <2>2, <3>1, Zenon DEF RequestsPending
  <2>5. TempKept'
        BY <1>0, <2>1, <2>2, Zenon DEF TempKept
  <2>6. CASE won \/ temp.downlink # NoCh
        BY <2>2, <2>4, <2>5, <2>6, Zenon DEF Round, Reached, OneUplink
  <2>7. CASE ~won /\ temp.downlink = NoCh
    <3>1. uplink = c
          BY <2>7, Zenon DEF SelectDownlink
    <3>2. FirstFor(key, m.up, s)
          BY <1>0, <1>7, HeadFirst, Zenon DEF m
    <3>3. Own(c)
          BY <3>1, <3>2, Zenon DEF Own, s
    <3>4. \A b \in Channels : Own(b)' => Own(b)
      <4>1. ASSUME NEW b \in Channels, b # c, Own(b)' PROVE Own(b)
            BY <1>0, <1>1, <2>2, <3>1, <4>1, Zenon DEF Own
      <4>2. QED
            BY <3>3, <4>1, Zenon
    <3>5. OneUplink'
          BY <1>7, <2>7, <3>4, Zenon DEF OneUplink, Round
    <3>6. Evidence
      <4>1. Mentions(key, s)
        <5>1. PICK i \in 1..Len(s) : s[i] = [key |-> key, up |-> m.up]
              BY <3>2, Zenon DEF FirstFor
        <5>2. s[i].key = key
              BY <5>1
        <5>3. QED
              BY <5>2, Zenon DEF Mentions
      <4>2. QED
            BY <4>1, Zenon DEF Evidence, s
    <3>7. ASSUME NEW b \in Channels, <<key, b>> \in requests, b \in live
          PROVE  Mentions(key, choices'[b])
      <4>1. b # c
            BY <1>0, <2>1, <2>2, <2>4, <3>1, <3>7, Zenon DEF RequestsPending
      <4>2. QED
            BY <1>1, <1>7, <2>7, <3>6, <3>7, <4>1, Zenon DEF Round, Reached
    <3>8. Reached'
          BY <1>0, <3>7, Zenon DEF Reached
    <3>9. QED
          BY <2>4, <2>5, <3>5, <3>8, Zenon DEF Round
  <2>8. QED
        BY <2>6, <2>7, Zenon
<1>8. QED
      BY <1>5, <1>6, <1>7, Zenon

\* Every step of the round leaves at most one uplink.
LEMMA RoundKept == RoundTypeOK /\ Round /\ [RoundNext]_roundVars => Round'
BY QuietSteps, QuietKeeps, StartKeeps, ClaimKeeps, AnswerKeeps, Zenon

-----------------------------------------------------------------------------
\* The results

\* A result is made on a channel that is not the uplink it names.
LEMMA AnswerPairs ==
    ASSUME RoundTypeOK, Round, NEW c \in Channels, HandleSelectUplink(c)
    PROVE  \/ handing' = handing
           \/ \E u \in Channels \ {c} :
                 /\ handing' = [handing EXCEPT ![c] = [key |-> key, up |-> u, down |-> c]]
                 /\ \E i \in 1..Len(choices[c]) : choices[c][i] = [key |-> key, up |-> u]
<1> USE BuildPairAssumption
<1> DEFINE s == choices[c]
           m == Head(s)
           uplink == IF temp.uplink = NoCh THEN m.up ELSE temp.uplink
<1> SUFFICES ASSUME handing' # handing
             PROVE  \E u \in Channels \ {c} :
                 /\ handing' = [handing EXCEPT ![c] = [key |-> key, up |-> u, down |-> c]]
                 /\ \E i \in 1..Len(s) : s[i] = [key |-> key, up |-> u]
    BY Zenon
<1>1. /\ temp.reg /\ m.key = key /\ temp.downlink = NoCh /\ c # uplink
      /\ handing' = [handing EXCEPT ![c] = [key |-> m.key, up |-> m.up, down |-> c]]
      BY Zenon DEF HandleSelectUplink, SelectDownlink
<1>2. s \in Seq(Choices) /\ s # <<>>
      BY Zenon DEF HandleSelectUplink, RoundTypeOK, Choices
<1>3. m \in Choices /\ m = s[1] /\ 1 \in 1..Len(s)
      BY <1>2
<1>4. m = [key |-> key, up |-> m.up] /\ m.up \in Channels
      BY <1>1, <1>3, Zenon DEF Choices
<1>5. ASSUME m.up = c PROVE FALSE
  <2>1. FirstFor(key, c, s)
        BY <1>1, <1>2, <1>5, HeadFirst, Zenon
  <2>2. temp.uplink \in Channels /\ temp.uplink # c
        BY <1>1, <1>5, Zenon DEF RoundTypeOK
  <2>3. Own(c) /\ Own(temp.uplink)
        BY <2>1, Zenon DEF Own
  <2>4. QED
        BY <1>1, <2>2, <2>3, Zenon DEF Round, OneUplink
<1>6. QED
      BY <1>1, <1>3, <1>4, <1>5, Zenon

\* Results, on their way or queued, name two channels.
LEMMA TwoChannelsStep ==
    ASSUME RoundTypeOK, Round, TwoChannels, [RoundNext]_roundVars
    PROVE  TwoChannels'
<1>0. results \in Seq(Results)
      BY Zenon DEF RoundTypeOK
<1>1. CASE TakeResult
  <2>1. handing' = handing /\ results' = Tail(results) /\ results # <<>>
        BY <1>1, Zenon DEF TakeResult
  <2>2. \A i \in 1..Len(Tail(results)) :
            i + 1 \in 1..Len(results) /\ Tail(results)[i] = results[i + 1]
        BY <1>0, <2>1
  <2>3. QED
        BY <2>1, <2>2, Zenon DEF TwoChannels
<1>2. ASSUME NEW c \in Channels, HandleSelectUplink(c) PROVE TwoChannels'
  <2>1. results' = results
        BY <1>2, Zenon DEF HandleSelectUplink
  <2>2. CASE handing' = handing
        BY <2>1, <2>2, Zenon DEF TwoChannels
  <2>3. ASSUME NEW u \in Channels \ {c},
               handing' = [handing EXCEPT ![c] = [key |-> key, up |-> u, down |-> c]]
        PROVE  TwoChannels'
    <3>1. \A ch \in Channels : handing'[ch] =
              IF ch = c THEN [key |-> key, up |-> u, down |-> c] ELSE handing[ch]
          BY <2>3, Zenon DEF RoundTypeOK
    <3>2. QED
          BY <2>1, <3>1 DEF TwoChannels
  <2>4. QED
        BY <1>2, <2>2, <2>3, AnswerPairs, Zenon
<1>3. ASSUME NEW c \in Channels, HandlePrebindResult(c) PROVE TwoChannels'
  <2>1. handing[c] # NoPair /\ handing[c] \in Results
        BY <1>3, Zenon DEF HandlePrebindResult, RoundTypeOK
  <2>2. \A ch \in Channels : handing'[ch] = IF ch = c THEN NoPair ELSE handing[ch]
        BY <1>3, Zenon DEF HandlePrebindResult, RoundTypeOK
  <2>3. \A i \in 1..Len(results') :
            results'[i] = handing[c] \/ (i \in 1..Len(results) /\ results'[i] = results[i])
    <3>1. results' = results \/ results' = Append(results, handing[c])
          BY <1>3, Zenon DEF HandlePrebindResult
    <3>2. QED
          BY <1>0, <2>1, <3>1
  <2>4. QED
        BY <2>1, <2>2, <2>3, Zenon DEF TwoChannels
<1>4. CASE handing' = handing /\ results' = results
      BY <1>4, Zenon DEF TwoChannels
<1>5. QED
      BY <1>1, <1>2, <1>3, <1>4, Zenon
         DEF RoundNext, ChannelStep, StartRound, RoundTimeout, HandlePrebindRequest,
             WindowEnds, ClientDown, CleanupRound, ServerDown, Reconnect, roundVars

\* The strengthened invariant of the round is inductive.
LEMMA RoundInvariant == RoundSpec => []RoundIInv
<1>1. RoundInit => RoundIInv
  <2> SUFFICES ASSUME RoundInit PROVE RoundIInv
      BY Zenon
  <2> USE BuildPairAssumption, RoundAssumption DEF RoundInit, BuildInit, NoTemp
  <2>1. RoundTypeOK
        BY DEF RoundTypeOK
  <2>2. TempKept /\ RequestsPending /\ TwoChannels
        BY DEF TempKept, RequestsPending, TwoChannels
  <2>3. Reached /\ OneUplink
        BY Zenon DEF Reached, OneUplink
  <2>4. QED
        BY <2>1, <2>2, <2>3, Zenon DEF RoundIInv
<1>2. RoundIInv /\ [RoundNext]_roundVars => RoundIInv'
      BY RoundTypeStep, RoundKept, TwoChannelsStep, Zenon DEF RoundIInv, Round
<1>3. QED
      BY <1>1, <1>2, PTL DEF RoundSpec

-----------------------------------------------------------------------------
\* BuildPair keeps its promise

\* A step of the round is a step of BuildPair, or does not concern it.
LEMMA BuildStep ==
    ASSUME RoundIInv, [RoundNext]_roundVars
    PROVE  [BuildNext]_<<key, made>>
<1>1. ASSUME NEW k \in Keys, StartRound(k) PROVE BuildNext
      BY <1>1, Zenon DEF StartRound, BuildNext, Begin
<1>2. CASE RoundTimeout
      BY <1>2, Zenon DEF RoundTimeout, BuildNext, Fail
<1>3. CASE TakeResult
  <2> DEFINE p == Head(results)
  <2>1. results \in Seq(Results) /\ results # <<>>
        BY <1>3, Zenon DEF RoundIInv, RoundTypeOK, TakeResult
  <2>2. p \in Results /\ p = results[1] /\ 1 \in 1..Len(results)
        BY <2>1
  <2>3. p \in Pairs
        BY <2>2, Zenon DEF RoundIInv, TwoChannels, Pairs, Results
  <2>4. CASE p.key = key
        BY <1>3, <2>3, <2>4, Zenon DEF TakeResult, BuildNext, Make
  <2>5. CASE p.key # key
        BY <1>3, <2>5, Zenon DEF TakeResult, buildVars
  <2>6. QED
        BY <2>4, <2>5, Zenon
<1>4. CASE UNCHANGED <<key, made>>
      BY <1>4, Zenon
<1>5. QED
      BY <1>1, <1>2, <1>3, <1>4, Zenon
         DEF RoundNext, ChannelStep, HandlePrebindRequest, WindowEnds, HandleSelectUplink,
             HandlePrebindResult, ClientDown, CleanupRound, ServerDown, Reconnect,
             roundVars, buildVars

\* The pre-binding round implements BuildPair: a call returns only a pair of its
\* own round and of two different channels, for any channels, keys and capacity,
\* whatever copies, choices and results are late and whatever connections break.
THEOREM RoundImplementsBuildPair == RoundSpec => Promise
<1>1. RoundInit => BuildInit
      BY Zenon DEF RoundInit
<1>2. RoundIInv /\ [RoundNext]_roundVars => [BuildNext]_<<key, made>>
      BY BuildStep, Zenon
<1>3. QED
      BY <1>1, <1>2, RoundInvariant, PTL DEF RoundSpec, Promise, BuildSpec

-----------------------------------------------------------------------------
\* The uplink

\* While no connection has broken, every choice and result of the round in
\* progress names the uplink that the server has stored.
Agreed ==
    fails = 0 =>
        /\ live = Channels /\ srvLive = Channels
        /\ key # NoKey =>
            /\ \A ch \in Channels : \A i \in 1..Len(choices[ch]) :
                  choices[ch][i].key = key => choices[ch][i].up = claimed[key]
            /\ \A ch \in Channels : handing[ch].key = key => handing[ch].up = claimed[key]
            /\ \A i \in 1..Len(results) : results[i].key = key => results[i].up = claimed[key]

\* A step keeps that agreement: the server stores an uplink once in a round.
LEMMA AgreedStep ==
    ASSUME RoundIInv, Agreed, [RoundNext]_roundVars
    PROVE  Agreed'
<1> USE BuildPairAssumption
<1> SUFFICES ASSUME fails' = 0 PROVE Agreed'
    BY Zenon DEF Agreed
<1>0. /\ fails \in Nat /\ results \in Seq(Results)
      /\ handing \in [Channels -> Results \cup {NoPair}]
      /\ choices \in [Channels -> Seq(Choices)]
      /\ claimed \in [Keys -> Channels \cup {NoCh}]
      /\ key \in Keys \cup {NoKey}
  <2>1. fails \in Nat
        BY RoundAssumption DEF RoundIInv, RoundTypeOK
  <2>2. QED
        BY <2>1, Zenon DEF RoundIInv, RoundTypeOK, Choices
<1>1. ASSUME NEW k \in Keys, StartRound(k) PROVE Agreed'
  <2>1. /\ \A ch \in Channels : DOMAIN choices[ch] = 1..Len(choices[ch])
        /\ DOMAIN results = 1..Len(results)
        BY <1>0
  <2>2. QED
        BY <1>1, <2>1, Zenon DEF StartRound, Unused, channelVars, Agreed
<1>2. CASE RoundTimeout
      BY <1>2, Zenon DEF RoundTimeout, channelVars, Agreed
<1>3. CASE TakeResult
  <2>1. \A i \in 1..Len(Tail(results)) :
            i + 1 \in 1..Len(results) /\ Tail(results)[i] = results[i + 1]
        BY <1>0, <1>3 DEF TakeResult
  <2>2. QED
        BY <1>3, <2>1 DEF TakeResult, channelVars, buildVars, Agreed
<1>4. ASSUME NEW k \in Keys, NEW c \in Channels, HandlePrebindRequest(k, c) PROVE Agreed'
  <2> DEFINE m == [key |-> k, up |-> c]
  <2>1. CASE claimed[k] # NoCh
        BY <1>4, <2>1 DEF HandlePrebindRequest, channelVars, buildVars, Agreed
  <2>2. CASE claimed[k] = NoCh
    <3>1. /\ claimed' = [claimed EXCEPT ![k] = c] /\ key' = key
          /\ handing' = handing /\ results' = results
          /\ live' = live /\ srvLive' = srvLive /\ fails' = fails
          /\ choices' = [x \in Channels |-> IF x \in srvLive \cap live
                              THEN Append(choices[x], m) ELSE choices[x]]
          BY <1>4, <2>2, Zenon DEF HandlePrebindRequest, channelVars, buildVars
    <3>2. m \in Choices /\ m.key = k /\ m.up = c
          BY Zenon DEF Choices
    <3> HIDE DEF m
    <3>3. ASSUME NEW ch \in Channels, NEW i \in 1..Len(choices'[ch])
          PROVE  \/ choices'[ch][i] = m
                 \/ i \in 1..Len(choices[ch]) /\ choices'[ch][i] = choices[ch][i]
      <4>1. choices'[ch] = choices[ch] \/ choices'[ch] = Append(choices[ch], m)
            BY <3>1, Zenon
      <4>2. choices[ch] \in Seq(Choices)
            BY <1>0, Zenon
      <4>3. QED
            BY <3>2, <3>3, <4>1, <4>2, SMTT(30)
    <3>4. ASSUME key # NoKey
          PROVE  /\ \A ch \in Channels : \A i \in 1..Len(choices'[ch]) :
                       choices'[ch][i].key = key => choices'[ch][i].up = claimed'[key]
                 /\ \A ch \in Channels :
                       handing[ch].key = key => handing[ch].up = claimed'[key]
                 /\ \A i \in 1..Len(results) :
                       results[i].key = key => results[i].up = claimed'[key]
      <4>1. CASE key # k
        <5>1. claimed'[key] = claimed[key] /\ fails = 0
              BY <1>0, <3>1, <4>1
        <5>2. /\ \A ch \in Channels : \A i \in 1..Len(choices[ch]) :
                    choices[ch][i].key = key => choices[ch][i].up = claimed[key]
              /\ \A ch \in Channels : handing[ch].key = key => handing[ch].up = claimed[key]
              /\ \A i \in 1..Len(results) : results[i].key = key => results[i].up = claimed[key]
              BY <3>4, <5>1, Zenon DEF Agreed
        <5>3. ASSUME NEW ch \in Channels, NEW i \in 1..Len(choices'[ch]),
                     choices'[ch][i].key = key
              PROVE  choices'[ch][i].up = claimed[key]
          <6>1. choices'[ch][i] # m
                BY <3>2, <4>1, <5>3, Zenon
          <6>2. i \in 1..Len(choices[ch]) /\ choices'[ch][i] = choices[ch][i]
                BY <3>3, <6>1, Zenon
          <6>3. choices[ch][i].key = key => choices[ch][i].up = claimed[key]
                BY <5>2, <6>2, Zenon
          <6>4. QED
                BY <5>3, <6>2, <6>3, Zenon
        <5>4. QED
              BY <5>1, <5>2, <5>3, Zenon
      <4>2. CASE key = k
        <5>1. \A ch \in Channels : \A i \in 1..Len(choices[ch]) : choices[ch][i].up # NoCh
          <6>1. \A x \in Seq(Choices) : \A i \in 1..Len(x) : x[i] \in Choices
                OBVIOUS
          <6>2. \A ch \in Channels : choices[ch] \in Seq(Choices)
                BY <1>0, Zenon
          <6>3. \A x \in Choices : x.up # NoCh
                BY Zenon DEF Choices
          <6>4. QED
                BY <6>1, <6>2, <6>3, Zenon
        <5>2. \A ch \in Channels : handing[ch].key = key => handing[ch].up # NoCh
              BY <1>0, <3>4 DEF Results, NoPair
        <5>3. \A i \in 1..Len(results) : results[i].up # NoCh
          <6>1. \A i \in 1..Len(results) : results[i] \in Results
                BY <1>0
          <6>2. \A x \in Results : x.up # NoCh
                BY Zenon DEF Results
          <6>3. QED
                BY <6>1, <6>2, Zenon
        <5>4. claimed'[key] = c
              BY <1>0, <3>1, <4>2, Zenon
        <5>5. QED
              BY <2>2, <3>1, <3>2, <3>3, <3>4, <4>2, <5>1, <5>2, <5>3, <5>4, SMTT(30) DEF Agreed
      <4>3. QED
            BY <4>1, <4>2, Zenon
    <3>5. QED
          BY <3>1, <3>4 DEF Agreed
  <2>3. QED
        BY <2>1, <2>2, Zenon
<1>5. ASSUME NEW k \in Keys, WindowEnds(k) PROVE Agreed'
      BY <1>0, <1>5, Zenon DEF WindowEnds, channelVars, buildVars, Agreed
<1>6. ASSUME NEW c \in Channels, HandleSelectUplink(c) PROVE Agreed'
  <2>1. /\ key' = key /\ claimed' = claimed /\ results' = results
        /\ live' = live /\ srvLive' = srvLive /\ fails' = fails
        /\ choices' = [choices EXCEPT ![c] = Tail(@)] /\ choices[c] # <<>>
        BY <1>6, Zenon DEF HandleSelectUplink, channelVars, buildVars
  <2>2. ASSUME NEW ch \in Channels, NEW i \in 1..Len(choices'[ch])
        PROVE  \E j \in 1..Len(choices[ch]) : choices'[ch][i] = choices[ch][j]
    <3>1. \A t \in Seq(Choices) : t # <<>> =>
              \A j \in 1..Len(Tail(t)) : j + 1 \in 1..Len(t) /\ Tail(t)[j] = t[j + 1]
          OBVIOUS
    <3>2. CASE ch = c
          BY <1>0, <2>1, <2>2, <3>1, <3>2
    <3>3. CASE ch # c
          BY <1>0, <2>1, <2>2, <3>3, Zenon
    <3>4. QED
          BY <3>2, <3>3, Zenon
  <2>3. ASSUME key # NoKey, NEW ch \in Channels, handing'[ch].key = key
        PROVE  handing'[ch].up = claimed[key]
    <3>1. CASE handing'[ch] = handing[ch]
          BY <2>1, <2>3, <3>1, Zenon DEF Agreed
    <3>2. ASSUME NEW u \in Channels, NEW i \in 1..Len(choices[c]),
                 choices[c][i] = [key |-> key, up |-> u],
                 handing' = [handing EXCEPT ![c] = [key |-> key, up |-> u, down |-> c]]
          PROVE  handing'[ch].up = claimed[key]
      <4>1. u = claimed[key]
            BY <2>1, <2>3, <3>2 DEF Agreed
      <4>2. CASE ch = c
            BY <1>0, <3>2, <4>1, <4>2, Zenon
      <4>3. CASE ch # c
            BY <1>0, <3>1, <3>2, <4>3, Zenon
      <4>4. QED
            BY <4>2, <4>3, Zenon
    <3>3. RoundTypeOK /\ Round
          BY Zenon DEF RoundIInv, Round
    <3>4. QED
          BY <1>6, <3>1, <3>2, <3>3, AnswerPairs, Zenon
  <2>4. QED
        BY <2>1, <2>2, <2>3 DEF Agreed
<1>7. ASSUME NEW c \in Channels, HandlePrebindResult(c) PROVE Agreed'
  <2>1. /\ key' = key /\ claimed' = claimed /\ choices' = choices
        /\ live' = live /\ srvLive' = srvLive /\ fails' = fails
        BY <1>7, Zenon DEF HandlePrebindResult, channelVars, buildVars
  <2>2. handing[c] \in Results
        BY <1>0, <1>7, Zenon DEF HandlePrebindResult
  <2>3. \A i \in 1..Len(results') :
            results'[i] = handing[c] \/ (i \in 1..Len(results) /\ results'[i] = results[i])
    <3>1. results' = results \/ results' = Append(results, handing[c])
          BY <1>7, Zenon DEF HandlePrebindResult
    <3>2. results \in Seq(Results)
          BY <1>0, Zenon
    <3>3. QED
          BY <2>2, <3>1, <3>2
  <2>4. \A ch \in Channels : handing'[ch] = handing[ch] \/ handing'[ch].key = NoKey
        BY <1>0, <1>7, Zenon DEF HandlePrebindResult, NoPair
  <2>5. QED
        BY <2>1, <2>3, <2>4 DEF Agreed
<1>8. ASSUME NEW c \in Channels, ClientDown(c) \/ ServerDown(c) \/ Reconnect(c) PROVE FALSE
  <2>1. /\ fails = 0 => live = Channels /\ srvLive = Channels
        /\ fails \in Nat
        BY <1>0, Zenon DEF Agreed
  <2>2. CASE ClientDown(c)
        BY <2>1, <2>2 DEF ClientDown
  <2>3. CASE ServerDown(c)
        BY <2>1, <2>3 DEF ServerDown
  <2>4. CASE Reconnect(c)
        BY <2>1, <2>4, Zenon DEF Reconnect
  <2>5. QED
        BY <1>8, <2>2, <2>3, <2>4, Zenon
<1>9. ASSUME NEW c \in Channels, CleanupRound(c) PROVE Agreed'
      BY <1>9, Zenon DEF CleanupRound, buildVars, Agreed
<1>10. CASE UNCHANGED roundVars
       BY <1>10, Zenon DEF roundVars, channelVars, buildVars, Agreed
<1>11. QED
       BY <1>1, <1>2, <1>3, <1>4, <1>5, <1>6, <1>7, <1>8, <1>9, <1>10, Zenon
          DEF RoundNext, ChannelStep

\* While no connection has broken, the server's state of the round names the uplink
\* of the pair that BuildPair returns, for any channels and keys.
THEOREM UplinksAgree == RoundSpec => UplinkClaimed
<1> USE BuildPairAssumption
<1>1. RoundInit => Agreed
      BY Zenon DEF RoundInit, BuildInit, Agreed
<1>2. RoundIInv /\ Agreed /\ [RoundNext]_roundVars => Agreed'
      BY AgreedStep, Zenon
<1>3. ASSUME RoundIInv, Agreed, [RoundNext]_roundVars,
             NEW k \in Keys, made' # made, made'.key = k, fails = 0
      PROVE  claimed[k] = made'.up
  <2>1. made' # NoPair
        BY <1>3 DEF NoPair
  <2>2. TakeResult
        BY <1>3, <2>1, Zenon
           DEF RoundNext, ChannelStep, StartRound, RoundTimeout, HandlePrebindRequest, WindowEnds,
               HandleSelectUplink, HandlePrebindResult, ClientDown, CleanupRound, ServerDown,
               Reconnect, roundVars, buildVars
  <2>3. /\ made' = Head(results) /\ Head(results).key = key /\ key # NoKey
        /\ results # <<>> /\ results \in Seq(Results)
        BY <1>3, <2>2, Zenon DEF TakeResult, buildVars, RoundIInv, RoundTypeOK
  <2>4. Head(results) = results[1] /\ 1 \in 1..Len(results)
        BY <2>3
  <2>5. QED
        BY <1>3, <2>3, <2>4, Zenon DEF Agreed
<1>4. RoundIInv /\ Agreed /\ [RoundNext]_roundVars =>
          [\A k \in Keys : made' # made /\ made'.key = k /\ fails = 0
                              => claimed[k] = made'.up]_roundVars
      BY <1>3, Zenon
<1>5. QED
      BY <1>1, <1>2, <1>4, RoundInvariant, PTL DEF RoundSpec, UplinkClaimed

-----------------------------------------------------------------------------
\* The write queue

INSTANCE SequenceTheorems

Job == [data : BOOLEAN, by : Senders, n : Nat]

\* The queues, and what a sender has in its hands.
Queueing ==
    /\ n \in Queues /\ cur \in Queues \cup {NoQueue}
    /\ serve = "dial" => n < MaxSessions
    /\ q \in [Queues -> Seq(Job)]
    /\ at \in [Senders -> {"idle", "reserved", "send", "wait"}]
    /\ hold \in [Senders -> Queues]
    /\ begun \in [Senders -> Nat]
    /\ job \in [Senders -> Job \cup {NoJob}]
    /\ \A p \in Senders : at[p] # "idle" => job[p] \in Job /\ job[p].by = p /\ job[p].n = begun[p]

Bounded == \A i \in Queues : Len(q[i]) <= QueueCap

\* What a writeWorker has taken from its queue when it is at a step.
Working ==
    /\ sent \in [Sessions -> Seq(Job)] /\ batch \in [Sessions -> Seq(Job)]
    /\ pending \in [Sessions -> Seq(Job)]
    /\ w \in [Sessions -> {"none", "top", "agg", "write", "done"}]
    /\ \A s \in Sessions :
        /\ s > n => w[s] = "none"
        /\ w[s] \notin {"agg", "write"} => batch[s] = <<>>
        /\ w[s] = "agg" => batch[s] # <<>> /\ pending[s] = <<>>
        /\ Len(pending[s]) <= 1

\* A merged frame holds data of one connection.
OneConnection ==
    \A s \in Sessions : \A i \in 2..Len(batch[s]) :
        batch[s][i].data /\ batch[s][i].by = batch[s][1].by

\* The way of a frame through a session: queue, worker, connection.
Line(s) == sent[s] \o batch[s] \o pending[s] \o q[s]

\* The last frame of a sender that may be in a queue.
Latest(p) == IF at[p] = "idle" THEN begun[p] ELSE begun[p] - 1

Lined == \A s \in Sessions :
            /\ InOrder(Line(s))
            /\ \A i \in 1..Len(Line(s)) : Line(s)[i].n <= Latest(Line(s)[i].by)

Flow == Queueing /\ Working
WireIInv == Flow /\ OneConnection /\ Lined
ByteIInv == Flow /\ Bounded /\ globalQueueBytes \in Nat /\ ClientBytesAccounted

-----------------------------------------------------------------------------
\* Sequences of frames

\* The first part of an ordered line is ordered.
LEMMA FirstPart ==
    ASSUME NEW a \in Seq(Job), NEW b \in Seq(Job), InOrder(a \o b)
    PROVE  InOrder(a)
<1>1. /\ Len(a \o b) = Len(a) + Len(b) /\ Len(a) \in Nat /\ Len(b) \in Nat
      /\ \A i \in 1..Len(a) : i \in 1..Len(a \o b) /\ (a \o b)[i] = a[i]
      BY ConcatProperties, LenProperties
<1>2. QED
      BY <1>1, Zenon DEF InOrder

\* A frame later than those of its sender is added at the end.
LEMMA LaterFrame ==
    ASSUME NEW a \in Seq(Job), NEW j \in Job, InOrder(a),
           \A i \in 1..Len(a) : a[i].by = j.by => a[i].n < j.n
    PROVE  InOrder(Append(a, j))
<1> DEFINE b == Append(a, j)
<1>1. /\ Len(a) \in Nat /\ Len(b) = Len(a) + 1
      /\ \A i \in 1..Len(a) : b[i] = a[i]
      /\ b[Len(a) + 1] = j
      BY AppendProperties, LenProperties
<1> HIDE DEF b
<1>2. ASSUME NEW i \in 1..Len(b), NEW k \in 1..Len(b), i < k, b[i].by = b[k].by
      PROVE  b[i].n < b[k].n
  <2>1. CASE k = Len(a) + 1
        BY <1>1, <1>2, <2>1
  <2>2. CASE k # Len(a) + 1
        BY <1>1, <1>2, <2>2 DEF InOrder
  <2>3. QED
        BY <2>1, <2>2, Zenon
<1>3. QED
      BY <1>2, Zenon DEF InOrder, b

\* Three parts of a line may be joined in either order.
LEMMA Grouped ==
    ASSUME NEW a \in Seq(Job), NEW b \in Seq(Job), NEW c \in Seq(Job)
    PROVE  (a \o b) \o c = a \o (b \o c)
BY ConcatAssociative

\* A frame moves one station on, and the line stays the same: from the queue to an empty
\* station, from the queue to the end of a merged frame, or from the pending place.
LEMMA Moves ==
    ASSUME NEW a \in Seq(Job), NEW b \in Seq(Job), NEW d \in Seq(Job), d # <<>>
    PROVE  /\ a \o b \o <<Head(d)>> \o Tail(d) = a \o b \o <<>> \o d
           /\ a \o <<Head(d)>> \o <<>> \o Tail(d) = a \o <<>> \o <<>> \o d
           /\ a \o Append(b, Head(d)) \o <<>> \o Tail(d) = a \o b \o <<>> \o d
<1>1. /\ Head(d) \in Job /\ Tail(d) \in Seq(Job) /\ <<Head(d)>> \in Seq(Job)
      /\ a \o b \in Seq(Job) /\ <<>> \in Seq(Job)
      BY HeadTailProperties, ConcatProperties
<1>2. <<Head(d)>> \o Tail(d) = d
      BY <1>1
<1>3. \A c \in Seq(Job) : (c \o <<Head(d)>>) \o Tail(d) = c \o d
  <2> DEFINE e == <<Head(d)>>
             f == Tail(d)
  <2>1. e \in Seq(Job) /\ f \in Seq(Job)
        BY <1>1, Zenon
  <2> HIDE DEF e, f
  <2>2. ASSUME NEW c \in Seq(Job) PROVE (c \o e) \o f = c \o (e \o f)
        BY <2>1, Grouped, ZenonT(30)
  <2>3. QED
        BY <1>2, <2>2, Zenon DEF e, f
<1>4. \A c \in Seq(Job) : c \o <<>> = c /\ c \o <<Head(d)>> \in Seq(Job)
      BY <1>1, ConcatEmptySeq, ConcatProperties, Zenon
<1>5. a \o b \o <<Head(d)>> \o Tail(d) = a \o b \o <<>> \o d
      BY <1>1, <1>3, <1>4, Zenon
<1>6. a \o <<Head(d)>> \o <<>> \o Tail(d) = a \o <<>> \o <<>> \o d
      BY <1>3, <1>4, SMTT(30)
<1>7. a \o Append(b, Head(d)) = (a \o b) \o <<Head(d)>>
      BY <1>1, AppendIsConcat, Grouped
<1>8. QED
      BY <1>1, <1>3, <1>4, <1>5, <1>6, <1>7, Zenon

\* A frame at the end of the last part is at the end of the whole.
LEMMA AtTheEnd ==
    ASSUME NEW a \in Seq(Job), NEW b \in Seq(Job), NEW j \in Job
    PROVE  a \o Append(b, j) = Append(a \o b, j)
<1>1. <<j>> \in Seq(Job) /\ a \o b \in Seq(Job)
      BY ConcatProperties
<1>2. Append(b, j) = b \o <<j>>
      BY AppendIsConcat, Zenon
<1>3. a \o (b \o <<j>>) = (a \o b) \o <<j>>
      BY <1>1, Grouped, Zenon
<1> DEFINE c == a \o b
<1>4. c \in Seq(Job)
      BY <1>1, Zenon
<1> HIDE DEF c
<1>5. Append(c, j) = c \o <<j>>
      BY <1>4, AppendIsConcat, Zenon
<1>6. QED
      BY <1>2, <1>3, <1>5, Zenon DEF c

\* A sequence of at most one frame.
LEMMA OneFrame ==
    ASSUME NEW a \in Seq(Job), Len(a) <= 1, a # <<>>
    PROVE  a = <<Head(a)>> /\ Head(a) \in Job
<1>0. Len(a) \in Nat \ {0}
      BY EmptySeq, Zenon
<1>1. Len(a) = 1 /\ Head(a) = a[1] /\ a[1] \in Job
      BY <1>0, SMTT(30)
<1>2. <<Head(a)>> \in Seq(Job) /\ Len(<<Head(a)>>) = 1 /\ <<Head(a)>>[1] = a[1]
      BY <1>1
<1>3. QED
      BY <1>1, <1>2, SeqEqual

-----------------------------------------------------------------------------
\* Where frames are

\* The senders keep the shape of the queues, and touch no worker.
LEMMA SenderFlow ==
    ASSUME Flow, NEW p \in Senders, Sender(p)
    PROVE  Flow'
<1> USE DEF loop, work, send, Finished
<1>0. Queueing /\ Working
      BY Zenon DEF Flow
<1>1. UNCHANGED <<n, serve, cur, sent, batch, pending, w>>
      BY Zenon DEF Sender, Reserve, Lookup, Enqueue, GiveUp
<1>2. Working'
      BY <1>0, <1>1, Zenon DEF Working
<1>3. CASE Reserve(p)
  <2>1. PICK d \in BOOLEAN :
           job' = [job EXCEPT ![p] = [data |-> d, by |-> p, n |-> begun[p] + 1]]
        BY <1>3, Zenon DEF Reserve
  <2>2. /\ begun' = [begun EXCEPT ![p] = @ + 1] /\ at' = [at EXCEPT ![p] = "reserved"]
        /\ UNCHANGED <<q, hold>>
        BY <1>3, Zenon DEF Reserve
  <2> DEFINE j == [data |-> d, by |-> p, n |-> begun[p] + 1]
  <2>3. j \in Job /\ j.by = p /\ j.n = begun[p] + 1
        BY <1>0 DEF Job, Queueing
  <2>4. /\ job' = [job EXCEPT ![p] = j] /\ job' \in [Senders -> Job \cup {NoJob}]
        BY <1>0, <2>1, <2>3, Zenon DEF Queueing
  <2> HIDE DEF j
  <2>5. begun' \in [Senders -> Nat] /\ at' \in [Senders -> {"idle", "reserved", "send", "wait"}]
        BY <1>0, <2>2 DEF Queueing
  <2>6. \A r \in Senders : at'[r] # "idle" =>
            job'[r] \in Job /\ job'[r].by = r /\ job'[r].n = begun'[r]
        BY <1>0, <2>2, <2>3, <2>4, Zenon DEF Queueing
  <2>7. QED
        BY <1>0, <1>1, <1>2, <2>2, <2>4, <2>5, <2>6, Zenon DEF Flow, Queueing
<1>4. ASSUME Finished(p), begun' = begun, q' \in [Queues -> Seq(Job)]
      PROVE  Flow'
  <2>1. 0 \in Queues
        BY ClientQueueAssumption DEF Queues
  <2>2. /\ hold' \in [Senders -> Queues] /\ job' \in [Senders -> Job \cup {NoJob}]
        /\ at' \in [Senders -> {"idle", "reserved", "send", "wait"}]
        BY <1>0, <1>4, <2>1, Zenon DEF Queueing
  <2>3. \A r \in Senders : at'[r] # "idle" => at[r] # "idle" /\ job'[r] = job[r]
        BY <1>0, <1>4, Zenon DEF Queueing
  <2>4. QED
        BY <1>0, <1>1, <1>2, <1>4, <2>2, <2>3, Zenon DEF Flow, Queueing
<1>5. CASE Lookup(p)
  <2>1. CASE cur = NoQueue
        BY <1>0, <1>4, <1>5, <2>1, Zenon DEF Lookup, Queueing
  <2>2. CASE cur # NoQueue
        BY <1>0, <1>1, <1>2, <1>5, <2>2, ZenonT(30) DEF Lookup, Flow, Queueing
  <2>3. QED
        BY <2>1, <2>2, Zenon
<1>6. CASE GiveUp(p)
      BY <1>0, <1>4, <1>6, Zenon DEF GiveUp, Queueing
<1>7. CASE Enqueue(p)
  <2>1. CASE UNCHANGED <<q, hold, job>> /\ (at' = at \/ at' = [at EXCEPT ![p] = "wait"])
    <3>1. at[p] # "idle" /\ begun' = begun
          BY <1>7, Zenon DEF Enqueue
    <3>2. QED
          BY <1>0, <1>1, <1>2, <2>1, <3>1, Zenon DEF Flow, Queueing
  <2>2. CASE Finished(p) /\ q' = [q EXCEPT ![hold[p]] = Append(@, job[p])]
    <3>1. at[p] # "idle" /\ begun' = begun
          BY <1>7, Zenon DEF Enqueue
    <3>2. job[p] \in Job /\ hold[p] \in Queues
          BY <1>0, <3>1, Zenon DEF Queueing
    <3>3. q' \in [Queues -> Seq(Job)]
          BY <1>0, <2>2, <3>2 DEF Queueing
    <3>4. QED
          BY <1>4, <2>2, <3>1, <3>3, Zenon
  <2>3. QED
        BY <1>7, <2>1, <2>2, Zenon DEF Enqueue
<1>8. QED
      BY <1>3, <1>5, <1>6, <1>7, Zenon DEF Sender

\* The stations of a session, and its line, when one of its steps is taken: a frame
\* moves on, or the worker ends and what it had not written is dropped.
LEMMA WorkerLine ==
    ASSUME Flow, NEW s \in Sessions, Worker(s)
    PROVE  /\ Line(s)' = Line(s) \/ Line(s)' = sent[s]
           /\ \A r \in Sessions \ {s} : Line(r)' = Line(r)
<1> USE DEF loop, work, send
<1>0. Queueing /\ Working
      BY Zenon DEF Flow
<1>1. /\ q \in [Queues -> Seq(Job)] /\ sent \in [Sessions -> Seq(Job)]
      /\ batch \in [Sessions -> Seq(Job)] /\ pending \in [Sessions -> Seq(Job)]
      /\ s \in Queues /\ Sessions \subseteq Queues
      BY <1>0, ClientQueueAssumption, SMTT(30) DEF Queueing, Working, Sessions, Queues
<1>2. /\ q[s] \in Seq(Job) /\ sent[s] \in Seq(Job) /\ batch[s] \in Seq(Job)
      /\ pending[s] \in Seq(Job)
      BY <1>1, Zenon
<1>3. \A r \in Sessions \ {s} :
         q'[r] = q[r] /\ sent'[r] = sent[r] /\ batch'[r] = batch[r] /\ pending'[r] = pending[r]
      BY <1>1, Zenon DEF Worker, Take, Aggregate, WriteFrame, WriteFails, WorkerStops, Exit, BeginFrame
<1>4. \A r \in Sessions \ {s} : Line(r)' = Line(r)
      BY <1>3, Zenon DEF Line
<1>5. CASE Take(s)
  <2>1. sent' = sent /\ batch[s] = <<>>
        BY <1>0, <1>5, Zenon DEF Take, BeginFrame, Working
  <2>2. CASE pending[s] # <<>>
    <3>1. /\ batch'[s] = <<Head(pending[s])>> /\ pending'[s] = <<>> /\ q'[s] = q[s]
          BY <1>1, <1>5, <2>2, Zenon DEF Take, BeginFrame
    <3>2. pending[s] = <<Head(pending[s])>>
          BY <1>0, <1>2, <2>2, OneFrame, Zenon DEF Working
    <3>3. /\ sent[s] \o pending[s] \in Seq(Job)
          /\ sent[s] \o <<>> = sent[s]
          /\ (sent[s] \o pending[s]) \o <<>> = sent[s] \o pending[s]
          BY <1>2, ConcatProperties, ConcatEmptySeq, Zenon
    <3>4. QED
          BY <1>4, <2>1, <3>1, <3>2, <3>3, Zenon DEF Line
  <2>3. CASE pending[s] = <<>>
    <3>1. /\ batch'[s] = <<Head(q[s])>> /\ pending'[s] = <<>> /\ q'[s] = Tail(q[s]) /\ q[s] # <<>>
          BY <1>1, <1>5, <2>3, Zenon DEF Take, BeginFrame
    <3>2. sent[s] \o <<Head(q[s])>> \o <<>> \o Tail(q[s]) = sent[s] \o <<>> \o <<>> \o q[s]
          BY <1>2, <3>1, Moves, ZenonT(30)
    <3>3. Line(s)' = Line(s)
          BY <2>1, <2>3, <3>1, <3>2, Zenon DEF Line
    <3>4. QED
          BY <1>4, <3>3, Zenon
  <2>4. QED
        BY <2>2, <2>3, Zenon
<1>6. CASE Aggregate(s)
  <2>1. sent' = sent /\ pending[s] = <<>>
        BY <1>0, <1>6, Zenon DEF Aggregate, Working
  <2>2. CASE UNCHANGED <<q, batch, pending>>
        BY <1>4, <2>1, <2>2, Zenon DEF Line
  <2>3. CASE /\ q[s] # <<>> /\ q' = [q EXCEPT ![s] = Tail(@)] /\ pending' = pending
             /\ batch' = [batch EXCEPT ![s] = Append(@, Head(q[s]))]
    <3>1. q'[s] = Tail(q[s]) /\ batch'[s] = Append(batch[s], Head(q[s])) /\ pending'[s] = <<>>
          BY <1>1, <2>1, <2>3, Zenon
    <3>2. sent[s] \o Append(batch[s], Head(q[s])) \o <<>> \o Tail(q[s])
             = sent[s] \o batch[s] \o <<>> \o q[s]
          BY <1>2, <2>3, Moves, ZenonT(30)
    <3>3. Line(s)' = Line(s)
          BY <2>1, <3>1, <3>2, Zenon DEF Line
    <3>4. QED
          BY <1>4, <3>3, Zenon
  <2>4. CASE /\ q[s] # <<>> /\ q' = [q EXCEPT ![s] = Tail(@)] /\ batch' = batch
             /\ pending' = [pending EXCEPT ![s] = <<Head(q[s])>>]
    <3>1. q'[s] = Tail(q[s]) /\ pending'[s] = <<Head(q[s])>>
          BY <1>1, <2>4, Zenon
    <3>2. sent[s] \o batch[s] \o <<Head(q[s])>> \o Tail(q[s])
             = sent[s] \o batch[s] \o <<>> \o q[s]
          BY <1>2, <2>4, Moves, ZenonT(30)
    <3>3. Line(s)' = Line(s)
          BY <2>1, <2>4, <3>1, <3>2, Zenon DEF Line
    <3>4. QED
          BY <1>4, <3>3, Zenon
  <2>5. QED
        BY <1>6, <2>2, <2>3, <2>4, Zenon DEF Aggregate
<1>7. CASE WriteFrame(s)
  <2>1. sent'[s] = sent[s] \o batch[s] /\ batch'[s] = <<>> /\ UNCHANGED <<q, pending>>
        BY <1>1, <1>7, Zenon DEF WriteFrame
  <2>2. (sent[s] \o batch[s]) \o <<>> = sent[s] \o batch[s]
        BY <1>2, ConcatProperties, ConcatEmptySeq, Zenon
  <2>3. QED
        BY <1>4, <2>1, <2>2, Zenon DEF Line
<1>8. CASE WriteFails(s) \/ WorkerStops(s)
  <2>1. sent' = sent /\ batch'[s] = <<>> /\ pending'[s] = <<>> /\ q'[s] = <<>>
        BY <1>1, <1>8, Zenon DEF WriteFails, WorkerStops, Exit
  <2>2. sent[s] \o <<>> = sent[s]
        BY <1>2, ConcatEmptySeq, Zenon
  <2>3. QED
        BY <1>4, <2>1, <2>2, Zenon DEF Line
<1>9. QED
      BY <1>5, <1>6, <1>7, <1>8, Zenon DEF Worker

\* The step of a worker keeps the shape of its stations, and what it merges is data of
\* one connection.
LEMMA WorkerFlow ==
    ASSUME Flow, NEW s \in Sessions, Worker(s)
    PROVE  Flow' /\ (OneConnection => OneConnection')
<1> USE DEF loop, work, send
<1> DEFINE At == {"none", "top", "agg", "write", "done"}
           Fits(b, p, step) ==
              /\ b \in Seq(Job) /\ p \in Seq(Job) /\ step \in At /\ Len(p) <= 1
              /\ step \notin {"agg", "write"} => b = <<>>
              /\ step = "agg" => b # <<>> /\ p = <<>>
           Pure(b) == \A i \in 2..Len(b) : b[i].data /\ b[i].by = b[1].by
<1>0. Queueing /\ Working
      BY Zenon DEF Flow
<1>1. /\ q \in [Queues -> Seq(Job)] /\ sent \in [Sessions -> Seq(Job)]
      /\ batch \in [Sessions -> Seq(Job)] /\ pending \in [Sessions -> Seq(Job)]
      /\ s \in Queues /\ w \in [Sessions -> At]
      BY <1>0, ClientQueueAssumption, SMTT(30) DEF Queueing, Working, Sessions, Queues
<1>2. /\ q[s] \in Seq(Job) /\ sent[s] \in Seq(Job) /\ batch[s] \in Seq(Job)
      /\ pending[s] \in Seq(Job) /\ Len(pending[s]) <= 1 /\ s <= n
      /\ s \in Nat /\ n \in Nat /\ <<>> \in Seq(Job)
  <2>1. w[s] # "none"
        BY <1>1, Zenon DEF Worker, Take, Aggregate, WriteFrame, WriteFails, WorkerStops
  <2>2. s \in Nat /\ n \in Nat
        BY <1>0, ClientQueueAssumption DEF Queueing, Sessions, Queues
  <2>3. QED
        BY <1>0, <1>1, <2>1, <2>2 DEF Working
<1>3. UNCHANGED <<n, cur, serve, at, hold, begun, job>>
      BY Zenon DEF Worker, Take, Aggregate, WriteFrame, WriteFails, WorkerStops, Exit, BeginFrame
<1>4. ASSUME NEW b, NEW p, NEW step, NEW d \in Seq(Job), NEW o \in Seq(Job), Fits(b, p, step),
             batch' = [batch EXCEPT ![s] = b], pending' = [pending EXCEPT ![s] = p],
             w' = [w EXCEPT ![s] = step], q' = [q EXCEPT ![s] = d],
             sent' = [sent EXCEPT ![s] = o], Pure(batch[s]) => Pure(b)
      PROVE  Flow' /\ (OneConnection => OneConnection')
  <2>1. /\ batch' \in [Sessions -> Seq(Job)] /\ pending' \in [Sessions -> Seq(Job)]
        /\ w' \in [Sessions -> At] /\ q' \in [Queues -> Seq(Job)] /\ sent' \in [Sessions -> Seq(Job)]
        BY <1>1, <1>4, Zenon
  <2>2. /\ batch'[s] = b /\ pending'[s] = p /\ w'[s] = step
        /\ \A r \in Sessions \ {s} :
              batch'[r] = batch[r] /\ pending'[r] = pending[r] /\ w'[r] = w[r]
        BY <1>1, <1>4, Zenon
  <2>3. Queueing'
        BY <1>0, <1>3, <2>1, Zenon DEF Queueing
  <2>4. ~(s > n)
        BY <1>2
  <2>5. Working'
    <3>1. ASSUME NEW r \in Sessions
          PROVE  /\ r > n' => w'[r] = "none"
                 /\ w'[r] \notin {"agg", "write"} => batch'[r] = <<>>
                 /\ w'[r] = "agg" => batch'[r] # <<>> /\ pending'[r] = <<>>
                 /\ Len(pending'[r]) <= 1
      <4>1. CASE r = s
            BY <1>3, <1>4, <2>2, <2>4, <4>1, Zenon
      <4>2. CASE r # s
            BY <1>0, <1>3, <2>2, <4>2, Zenon DEF Working
      <4>3. QED
            BY <4>1, <4>2, Zenon
    <3>2. QED
          BY <2>1, <3>1, Zenon DEF Working
  <2>6. ASSUME OneConnection PROVE OneConnection'
    <3>1. Pure(b)
          BY <1>4, <2>6, Zenon DEF OneConnection
    <3>2. QED
          BY <2>2, <2>6, <3>1, SMTT(30) DEF OneConnection
  <2>7. QED
        BY <2>3, <2>5, <2>6, Zenon DEF Flow
<1>5. CASE Take(s)
  <2>1. ASSUME NEW j \in Job
        PROVE  Fits(<<j>>, <<>>, IF j.data THEN "agg" ELSE "write") /\ Pure(<<j>>)
        BY <1>2
  <2>2. sent' = [sent EXCEPT ![s] = sent[s]]
        BY <1>1, <1>5, Zenon DEF Take, BeginFrame
  <2>3. CASE pending[s] # <<>>
    <3> DEFINE j == Head(pending[s])
    <3>1. j \in Job
          BY <1>2, <2>3
    <3>2. /\ batch' = [batch EXCEPT ![s] = <<j>>] /\ pending' = [pending EXCEPT ![s] = <<>>]
          /\ w' = [w EXCEPT ![s] = IF j.data THEN "agg" ELSE "write"]
          /\ q' = [q EXCEPT ![s] = q[s]]
          BY <1>1, <1>5, <2>3, Zenon DEF Take, BeginFrame
    <3> HIDE DEF j
    <3>3. QED
          BY <1>2, <1>4, <2>1, <2>2, <3>1, <3>2, Zenon
  <2>4. CASE pending[s] = <<>>
    <3> DEFINE j == Head(q[s])
    <3>1. j \in Job /\ Tail(q[s]) \in Seq(Job)
          BY <1>2, <1>5, <2>4 DEF Take
    <3>2. /\ batch' = [batch EXCEPT ![s] = <<j>>] /\ pending' = [pending EXCEPT ![s] = <<>>]
          /\ w' = [w EXCEPT ![s] = IF j.data THEN "agg" ELSE "write"]
          /\ q' = [q EXCEPT ![s] = Tail(q[s])]
          BY <1>1, <1>5, <2>4 DEF Take, BeginFrame
    <3> HIDE DEF j
    <3>3. QED
          BY <1>2, <1>4, <2>1, <2>2, <3>1, <3>2, ZenonT(30)
  <2>5. QED
        BY <2>3, <2>4, Zenon
<1>6. CASE Aggregate(s)
  <2>1. /\ sent' = [sent EXCEPT ![s] = sent[s]] /\ batch[s] # <<>> /\ pending[s] = <<>>
        /\ w[s] = "agg"
        BY <1>0, <1>1, <1>6, Zenon DEF Aggregate, Working
  <2>2. CASE q[s] = <<>>
    <3>1. /\ batch' = [batch EXCEPT ![s] = batch[s]] /\ pending' = [pending EXCEPT ![s] = <<>>]
          /\ w' = [w EXCEPT ![s] = "write"] /\ q' = [q EXCEPT ![s] = q[s]]
          BY <1>1, <1>6, <2>1, <2>2 DEF Aggregate
    <3>2. Fits(batch[s], <<>>, "write")
          BY <1>2
    <3>3. QED
          BY <1>2, <1>4, <2>1, <3>1, <3>2, Zenon
  <2>3. CASE q[s] # <<>> /\ Merges(s, Head(q[s]))
    <3> DEFINE b == Append(batch[s], Head(q[s]))
    <3>1. Head(q[s]) \in Job /\ Tail(q[s]) \in Seq(Job)
          BY <1>2, <2>3
    <3>2. /\ b \in Seq(Job) /\ b # <<>> /\ Len(b) = Len(batch[s]) + 1
          /\ \A i \in 1..Len(batch[s]) : b[i] = batch[s][i]
          /\ b[Len(batch[s]) + 1] = Head(q[s]) /\ Len(batch[s]) \in Nat \ {0}
          BY <1>2, <2>1, <3>1, AppendProperties, EmptySeq, SMTT(30)
    <3>3. /\ batch' = [batch EXCEPT ![s] = b] /\ pending' = [pending EXCEPT ![s] = <<>>]
          /\ w' = [w EXCEPT ![s] = "agg"] /\ q' = [q EXCEPT ![s] = Tail(q[s])]
          BY <1>1, <1>6, <2>1, <2>3, SMTT(30) DEF Aggregate
    <3>4. Head(q[s]).data /\ Head(q[s]).by = batch[s][1].by
          BY <2>3, Zenon DEF Merges
    <3> HIDE DEF b
    <3>5. Fits(b, <<>>, "agg") /\ (Pure(batch[s]) => Pure(b))
      <4>1. Fits(b, <<>>, "agg")
            BY <1>2, <3>2
      <4>2. ASSUME Pure(batch[s]), NEW i \in 2..Len(b)
            PROVE  b[i].data /\ b[i].by = b[1].by
        <5>1. b[1] = batch[s][1]
              BY <3>2
        <5>2. CASE i = Len(batch[s]) + 1
              BY <3>2, <3>4, <5>1, <5>2, Zenon
        <5>3. CASE i # Len(batch[s]) + 1
          <6>1. i \in 2..Len(batch[s]) /\ i \in 1..Len(batch[s])
                BY <3>2, <5>3
          <6>2. QED
                BY <3>2, <4>2, <5>1, <6>1, Zenon
        <5>4. QED
              BY <5>2, <5>3, Zenon
      <4>3. QED
            BY <4>1, <4>2, Zenon
    <3>6. QED
          BY <1>2, <1>4, <2>1, <3>1, <3>3, <3>5, Zenon
  <2>4. CASE q[s] # <<>> /\ ~Merges(s, Head(q[s]))
    <3>1. Head(q[s]) \in Job /\ Tail(q[s]) \in Seq(Job)
          BY <1>2, <2>4
    <3>2. /\ batch' = [batch EXCEPT ![s] = batch[s]]
          /\ pending' = [pending EXCEPT ![s] = <<Head(q[s])>>]
          /\ w' = [w EXCEPT ![s] = "write"] /\ q' = [q EXCEPT ![s] = Tail(q[s])]
          BY <1>1, <1>6, <2>1, <2>4, Zenon DEF Aggregate
    <3>3. Fits(batch[s], <<Head(q[s])>>, "write")
          BY <1>2, <3>1
    <3>4. QED
          BY <1>2, <1>4, <2>1, <3>1, <3>2, <3>3, Zenon
  <2>5. QED
        BY <2>2, <2>3, <2>4, Zenon
<1>7. CASE WriteFrame(s)
  <2>1. /\ sent' = [sent EXCEPT ![s] = sent[s] \o batch[s]] /\ batch' = [batch EXCEPT ![s] = <<>>]
        /\ pending' = [pending EXCEPT ![s] = pending[s]] /\ w' = [w EXCEPT ![s] = "top"]
        /\ q' = [q EXCEPT ![s] = q[s]]
        BY <1>1, <1>7, Zenon DEF WriteFrame
  <2>2. sent[s] \o batch[s] \in Seq(Job) /\ Fits(<<>>, pending[s], "top") /\ Pure(<<>>)
        BY <1>2
  <2>3. QED
        BY <1>2, <1>4, <2>1, <2>2, Zenon
<1>8. CASE WriteFails(s) \/ WorkerStops(s)
  <2>1. /\ sent' = [sent EXCEPT ![s] = sent[s]] /\ batch' = [batch EXCEPT ![s] = <<>>]
        /\ pending' = [pending EXCEPT ![s] = <<>>] /\ w' = [w EXCEPT ![s] = "done"]
        /\ q' = [q EXCEPT ![s] = <<>>]
        BY <1>1, <1>8, Zenon DEF WriteFails, WorkerStops, Exit
  <2>2. Fits(<<>>, <<>>, "done") /\ Pure(<<>>)
        BY <1>2
  <2>3. QED
        BY <1>2, <1>4, <2>1, <2>2, Zenon
<1>9. QED
      BY <1>5, <1>6, <1>7, <1>8, Zenon DEF Worker

\* The dial loop and the shutdown move no frame; a new session begins with an idle worker.
LEMMA LoopFlow ==
    ASSUME Flow, DialAgain \/ Connect \/ Disconnect \/ Shutdown \/ UNCHANGED queueVars
    PROVE  /\ Flow'
           /\ UNCHANGED <<q, batch, pending, sent, at, hold, begun, job, globalQueueBytes>>
<1> USE DEF loop, work, send
<1>0. Queueing /\ Working
      BY Zenon DEF Flow
<1>1. UNCHANGED <<q, batch, pending, sent, at, hold, begun, job, globalQueueBytes>>
      BY Zenon DEF DialAgain, Connect, Disconnect, Shutdown, queueVars
<1>2. CASE Connect
  <2>1. /\ n' = n + 1 /\ cur' = n + 1 /\ serve' = "serve" /\ n \in Nat /\ n < MaxSessions
        /\ MaxSessions \in Nat /\ w' = [w EXCEPT ![n + 1] = "top"]
        BY <1>0, <1>2, ClientQueueAssumption DEF Connect, Queueing, Queues
  <2>2. n + 1 \in Queues /\ n + 1 \in Sessions
        BY <2>1 DEF Queues, Sessions
  <2>3. Queueing'
        BY <1>0, <1>1, <2>1, <2>2, Zenon DEF Queueing
  <2>4. \A r \in Sessions : r \in Nat /\ (r > n + 1 => r > n)
        BY <2>1 DEF Sessions
  <2>5. Working'
        BY <1>0, <1>1, <2>1, <2>2, <2>4 DEF Working
  <2>6. QED
        BY <1>1, <2>3, <2>5, Zenon DEF Flow
<1>3. CASE DialAgain \/ Disconnect \/ Shutdown \/ UNCHANGED queueVars
  <2>1. n' = n /\ w' = w /\ (cur' = cur \/ cur' = NoQueue)
        BY <1>3, Zenon DEF DialAgain, Disconnect, Shutdown, queueVars
  <2>2. serve' = "dial" => n < MaxSessions
        BY <1>0, <1>3, Zenon DEF DialAgain, Disconnect, Shutdown, queueVars, Queueing
  <2>3. QED
        BY <1>0, <1>1, <2>1, <2>2, Zenon DEF Flow, Queueing, Working
<1>4. QED
      BY <1>2, <1>3, Zenon

-----------------------------------------------------------------------------
\* The order on the wire

\* The line of a session is a sequence of frames, and begins with what was written.
LEMMA LineIs ==
    ASSUME Flow, NEW s \in Sessions
    PROVE  /\ Line(s) \in Seq(Job) /\ sent[s] \in Seq(Job)
           /\ \E rest \in Seq(Job) : Line(s) = sent[s] \o rest
           /\ \E rest \in Seq(Job) : Line(s) = (sent[s] \o batch[s] \o pending[s]) \o rest
           /\ sent[s] \o batch[s] \o pending[s] \in Seq(Job)
<1>1. /\ q[s] \in Seq(Job) /\ sent[s] \in Seq(Job) /\ batch[s] \in Seq(Job)
      /\ pending[s] \in Seq(Job)
  <2>1. s \in Queues
        BY ClientQueueAssumption DEF Sessions, Queues
  <2>2. QED
        BY <2>1, Zenon DEF Flow, Queueing, Working
<1> DEFINE a == sent[s]
           b == batch[s]
           c == pending[s]
           d == q[s]
           e == b \o c
<1> HIDE DEF a, b, c, d
<1>2. a \in Seq(Job) /\ b \in Seq(Job) /\ c \in Seq(Job) /\ d \in Seq(Job)
      BY <1>1, Zenon DEF a, b, c, d
<1>3. /\ a \o b \in Seq(Job) /\ a \o b \o c \in Seq(Job) /\ a \o b \o c \o d \in Seq(Job)
      /\ b \o c \in Seq(Job) /\ (b \o c) \o d \in Seq(Job)
      BY <1>2, ConcatProperties, Zenon
<1>4. (a \o b) \o c = a \o (b \o c)
      BY <1>2, Grouped, SMTT(30)
<1>5. (a \o (b \o c)) \o d = a \o ((b \o c) \o d)
  <2>1. e \in Seq(Job)
        BY <1>3, Zenon
  <2> HIDE DEF e
  <2>2. (a \o e) \o d = a \o (e \o d)
        BY <1>2, <2>1, Grouped, SMTT(30)
  <2>3. QED
        BY <2>2, Zenon DEF e
<1>6. a \o b \o c \o d = a \o ((b \o c) \o d)
      BY <1>4, <1>5, Zenon
<1>7. Line(s) = a \o b \o c \o d
      BY Zenon DEF Line, a, b, c, d
<1>8. sent[s] \o batch[s] \o pending[s] = a \o b \o c /\ sent[s] = a
      BY Zenon DEF a, b, c
<1>9. QED
      BY <1>2, <1>3, <1>6, <1>7, <1>8, Zenon

\* What is true of a line is true of its first part, while the senders go on.
LEMMA Shorter ==
    ASSUME NEW a \in Seq(Job), NEW b \in Seq(Job), InOrder(a \o b),
           \A i \in 1..Len(a \o b) : (a \o b)[i].n <= Latest((a \o b)[i].by)
    PROVE  InOrder(a) /\ \A i \in 1..Len(a) : a[i].n <= Latest(a[i].by)
<1>1. InOrder(a)
      BY FirstPart, Zenon
<1>2. \A i \in 1..Len(a) : i \in 1..Len(a \o b) /\ (a \o b)[i] = a[i]
      BY ConcatProperties, LenProperties
<1>3. QED
      BY <1>1, <1>2, Zenon

\* The line of a session and a sender's step: it stays, or the sender's frame is added
\* to it as the sender becomes idle.
LEMMA SenderLine ==
    ASSUME Flow, NEW p \in Senders, Sender(p), NEW s \in Sessions
    PROVE  \/ Line(s)' = Line(s)
           \/ /\ Line(s)' = Append(Line(s), job[p])
              /\ at[p] # "idle" /\ at'[p] = "idle" /\ begun' = begun
<1> USE DEF loop, work, send, Finished
<1>0. Queueing /\ Working /\ s \in Queues
      BY ClientQueueAssumption, SMTT(30) DEF Flow, Sessions, Queues
<1>1. UNCHANGED <<sent, batch, pending>>
      BY Zenon DEF Sender, Reserve, Lookup, Enqueue, GiveUp
<1>2. CASE q'[s] = q[s]
      BY <1>1, <1>2, Zenon DEF Line
<1>3. CASE q'[s] # q[s]
  <2>1. Enqueue(p)
        BY <1>3, Zenon DEF Sender, Reserve, Lookup, GiveUp
  <2>2. /\ q' = [q EXCEPT ![hold[p]] = Append(@, job[p])] /\ at[p] # "idle"
        /\ at' = [at EXCEPT ![p] = "idle"] /\ begun' = begun
        BY <1>3, <2>1, Zenon DEF Enqueue
  <2>3. q'[s] = Append(q[s], job[p]) /\ at'[p] = "idle" /\ job[p] \in Job
        BY <1>0, <1>3, <2>2, Zenon DEF Queueing
  <2> DEFINE c == sent[s] \o batch[s] \o pending[s]
  <2>4. c \in Seq(Job) /\ q[s] \in Seq(Job) /\ Line(s) = c \o q[s] /\ Line(s)' = c \o q'[s]
        BY <1>0, <1>1, LineIs, Zenon DEF Line, Queueing
  <2> HIDE DEF c
  <2>5. c \o Append(q[s], job[p]) = Append(c \o q[s], job[p])
        BY <2>3, <2>4, AtTheEnd, Zenon
  <2>6. QED
        BY <2>2, <2>3, <2>4, <2>5, Zenon
<1>4. QED
      BY <1>2, <1>3, Zenon

\* Every line stays in the order of its senders.
LEMMA LinedStep ==
    ASSUME WireIInv, [QueueNext]_queueVars
    PROVE  Lined'
<1> USE DEF loop, work, send, Finished
<1>0. Queueing /\ Working /\ Flow /\ Lined
      BY Zenon DEF WireIInv, Flow
<1>1. \A s \in Sessions : Line(s) \in Seq(Job) /\ sent[s] \in Seq(Job)
      BY <1>0, LineIs, Zenon
<1>2. ASSUME NEW s \in Sessions
      PROVE  \A i \in 1..Len(Line(s)) : Line(s)[i] \in Job
      BY <1>1, ElementOfSeq, Zenon
<1>3. ASSUME \A s \in Sessions : Line(s)' = Line(s) \/ Line(s)' = sent[s],
             UNCHANGED <<at, begun>>
      PROVE  Lined'
  <2>1. \A p : Latest(p)' = Latest(p)
        BY <1>3, Zenon DEF Latest
  <2>2. ASSUME NEW s \in Sessions
        PROVE  InOrder(sent[s]) /\ \A i \in 1..Len(sent[s]) : sent[s][i].n <= Latest(sent[s][i].by)
        BY <1>0, LineIs, Shorter, ZenonT(30) DEF Lined
  <2>3. ASSUME NEW s \in Sessions
        PROVE  /\ InOrder(Line(s)')
               /\ \A i \in 1..Len(Line(s)') : Line(s)'[i].n <= Latest(Line(s)'[i].by)
        BY <1>0, <1>3, <2>2, Zenon DEF Lined
  <2>4. QED
        BY <2>1, <2>3, Zenon DEF Lined, InOrder
<1>4. CASE DialAgain \/ Connect \/ Disconnect \/ Shutdown \/ UNCHANGED queueVars
  <2>1. UNCHANGED <<q, batch, pending, sent, at, begun>>
        BY <1>0, <1>4, LoopFlow, Zenon
  <2>2. QED
        BY <1>3, <2>1, Zenon DEF Line
<1>5. ASSUME NEW s \in Sessions, Worker(s)
      PROVE  Lined'
  <2>1. UNCHANGED <<at, begun>>
        BY <1>5, Zenon DEF Worker, Take, Aggregate, WriteFrame, WriteFails, WorkerStops, Exit, BeginFrame
  <2>2. QED
        BY <1>0, <1>3, <1>5, <2>1, WorkerLine, Zenon
<1>6. ASSUME NEW p \in Senders, Sender(p)
      PROVE  Lined'
  <2> DEFINE Top(r) == IF at'[r] = "idle" THEN begun'[r] ELSE begun'[r] - 1
  <2>1. ASSUME NEW r \in Senders
        PROVE  Latest(r) \in Int /\ Top(r) \in Int /\ Latest(r) <= Top(r)
    <3>1. Flow'
          BY <1>0, <1>6, SenderFlow, Zenon
    <3>2. begun[r] \in Nat /\ begun'[r] \in Nat
          BY <1>0, <3>1, Zenon DEF Flow, Queueing
    <3>3. \/ at'[r] = at[r] /\ begun'[r] = begun[r]
          \/ at[r] = "idle" /\ at'[r] = "reserved" /\ begun'[r] = begun[r] + 1
          \/ at[r] # "idle" /\ begun'[r] = begun[r]
      <4>1. CASE Reserve(p)
            BY <1>0, <4>1, Zenon DEF Reserve, Queueing
      <4>2. CASE Lookup(p) \/ Enqueue(p) \/ GiveUp(p)
            BY <1>0, <4>2, Zenon DEF Lookup, Enqueue, GiveUp, Queueing
      <4>3. QED
            BY <1>6, <4>1, <4>2, Zenon DEF Sender
    <3>4. QED
          BY <3>2, <3>3 DEF Latest
  <2> HIDE DEF Top
  <2>2. ASSUME NEW s \in Sessions
        PROVE  /\ InOrder(Line(s)')
               /\ \A i \in 1..Len(Line(s)') : Line(s)'[i].n <= Top(Line(s)'[i].by)
    <3> DEFINE a == Line(s)
    <3>1. /\ a \in Seq(Job) /\ InOrder(a) /\ Len(a) \in Nat
          /\ \A i \in 1..Len(a) : a[i] \in Job /\ a[i].n <= Latest(a[i].by)
          BY <1>0, <1>1, <1>2, LenProperties, Zenon DEF Lined
    <3>2. \A i \in 1..Len(a) : a[i].n <= Top(a[i].by)
          BY <2>1, <3>1, SMTT(30) DEF Job
    <3>3. CASE Line(s)' = a
          BY <3>1, <3>2, <3>3, Zenon
    <3>4. CASE /\ Line(s)' = Append(a, job[p]) /\ at[p] # "idle" /\ at'[p] = "idle"
               /\ begun' = begun
      <4>1. /\ job[p] \in Job /\ job[p].by = p /\ job[p].n = begun[p] /\ begun[p] \in Nat
            /\ Latest(p) = begun[p] - 1 /\ Top(p) = begun[p]
            BY <1>0, <3>4, Zenon DEF Queueing, Latest, Top
      <4>2. \A i \in 1..Len(a) : a[i].by = job[p].by => a[i].n < job[p].n
            BY <3>1, <4>1 DEF Job
      <4> DEFINE j == job[p]
      <4> HIDE DEF a, j
      <4>3. InOrder(Append(a, j))
            BY <3>1, <4>1, <4>2, LaterFrame, Zenon DEF j
      <4>4. /\ Len(Append(a, j)) = Len(a) + 1 /\ Append(a, j)[Len(a) + 1] = j
            /\ \A i \in 1..Len(a) : Append(a, j)[i] = a[i]
            BY <3>1, <4>1, AppendProperties DEF j
      <4>5. j.n <= Top(j.by)
            BY <4>1 DEF j
      <4>6. ASSUME NEW i \in 1..Len(Append(a, j))
            PROVE  Append(a, j)[i].n <= Top(Append(a, j)[i].by)
        <5>1. CASE i = Len(a) + 1
              BY <4>4, <4>5, <5>1, Zenon
        <5>2. CASE i # Len(a) + 1
          <6>1. i \in 1..Len(a)
                BY <3>1, <4>4, <5>2
          <6>2. QED
                BY <3>2, <4>4, <6>1, Zenon
        <5>3. QED
              BY <5>1, <5>2, Zenon
      <4>7. QED
            BY <3>4, <4>3, <4>6, Zenon DEF j
    <3>5. QED
          BY <1>0, <1>6, <3>3, <3>4, SenderLine, Zenon
  <2>3. QED
        BY <2>2, Zenon DEF Lined, InOrder, Latest, Top
<1>7. QED
      BY <1>4, <1>5, <1>6, Zenon DEF QueueNext

\* The initial state has neither frames nor sessions.
LEMMA FlowInitial ==
    ASSUME QueueInit
    PROVE  Flow /\ OneConnection /\ Lined /\ Bounded
<1>1. /\ n = 0 /\ cur = 0 /\ serve = "top" /\ 0 \in Queues /\ Sessions \subseteq Queues
      /\ QueueCap \in Nat
      BY ClientQueueAssumption DEF QueueInit, Queues, Sessions
<1>2. \A s \in Sessions : /\ sent[s] = <<>> /\ batch[s] = <<>> /\ pending[s] = <<>>
                          /\ q[s] = <<>> /\ w[s] = "none"
      BY <1>1, Zenon DEF QueueInit
<1>3. Queueing
      BY <1>1 DEF QueueInit, Queueing
<1>4. Working
      BY <1>1, <1>2 DEF QueueInit, Working
<1>5. \A s \in Sessions : Line(s) = <<>>
  <2>1. <<>> \o <<>> = <<>>
        BY ConcatEmptySeq, EmptySeq, Zenon
  <2>2. QED
        BY <1>2, <2>1, Zenon DEF Line
<1>6. OneConnection /\ Bounded
      BY <1>1, <1>2 DEF OneConnection, QueueInit, Bounded
<1>7. Lined
      BY <1>5 DEF Lined, InOrder
<1>8. QED
      BY <1>3, <1>4, <1>6, <1>7, Zenon DEF Flow

\* Every step keeps the shape of the queues and of the merged frames.
LEMMA FlowStep ==
    ASSUME Flow, [QueueNext]_queueVars
    PROVE  Flow' /\ (OneConnection => OneConnection')
<1>1. ASSUME NEW p \in Senders, Sender(p)
      PROVE  Flow' /\ (OneConnection => OneConnection')
  <2>1. batch' = batch
        BY <1>1, Zenon DEF Sender, Reserve, Lookup, Enqueue, GiveUp, work
  <2>2. QED
        BY <1>1, <2>1, SenderFlow, Zenon DEF OneConnection
<1>2. CASE DialAgain \/ Connect \/ Disconnect \/ Shutdown \/ UNCHANGED queueVars
      BY <1>2, LoopFlow, Zenon DEF OneConnection
<1>3. QED
      BY <1>1, <1>2, WorkerFlow, Zenon DEF QueueNext

\* On each connection the frames of a sender go out in the order in which it called
\* asyncWriteDirect, none twice, and writeWorker merges data of one connection only: for
\* any senders, sessions, queue lengths and frame sizes, through disconnects and shutdown.
THEOREM FramesInOrder == QueueSpec => []WireOrder
<1>1. QueueInit => WireIInv
      BY FlowInitial, Zenon DEF WireIInv
<1>2. WireIInv /\ [QueueNext]_queueVars => WireIInv'
      BY FlowStep, LinedStep, Zenon DEF WireIInv
<1>3. WireIInv => WireOrder
  <2>1. SUFFICES ASSUME WireIInv, NEW s \in Sessions
                 PROVE  InOrder(sent[s] \o batch[s] \o pending[s])
        BY Zenon DEF WireOrder, WireIInv, OneConnection
  <2>2. Flow /\ InOrder(Line(s))
        BY <2>1, Zenon DEF WireIInv, Lined
  <2>3. PICK rest \in Seq(Job) : Line(s) = (sent[s] \o batch[s] \o pending[s]) \o rest
        BY <2>1, <2>2, LineIs, Zenon
  <2>4. sent[s] \o batch[s] \o pending[s] \in Seq(Job)
        BY <2>1, <2>2, LineIs, Zenon
  <2>5. QED
        BY <2>2, <2>3, <2>4, FirstPart, Zenon
<1>4. QED
      BY <1>1, <1>2, <1>3, PTL DEF QueueSpec

-----------------------------------------------------------------------------
\* The byte count

INSTANCE FiniteSetTheorems

\* The counted frames are finitely many.
LEMMA Finite ==
    /\ IsFiniteSet(Reserving) /\ Cardinality(Reserving) \in Nat
    /\ IsFiniteSet(Queued) /\ Cardinality(Queued) \in Nat
<1>1. IsFiniteSet(Reserving)
      BY ClientQueueAssumption, FS_Subset, Zenon DEF Reserving
<1>2. 0 \in Int /\ 1 \in Int /\ MaxSessions \in Int /\ QueueCap \in Int
      BY ClientQueueAssumption
<1>3. IsFiniteSet(Queues) /\ IsFiniteSet(1..QueueCap)
      BY <1>2, FS_Interval, Zenon DEF Queues
<1>4. IsFiniteSet(Queues \X (1..QueueCap))
      BY <1>3, FS_Product, Zenon
<1>5. IsFiniteSet(Queued)
      BY <1>4, FS_Subset, Zenon DEF Queued
<1>6. QED
      BY <1>1, <1>5, FS_CardinalityType, Zenon

\* A sender reserves a byte.
LEMMA ReservingGrows ==
    ASSUME NEW p \in Senders, at[p] = "idle", at'[p] # "idle",
           \A r \in Senders \ {p} : at'[r] = at[r]
    PROVE  Cardinality(Reserving') = Cardinality(Reserving) + 1
<1>1. Reserving' = Reserving \cup {p} /\ p \notin Reserving
      BY Zenon DEF Reserving
<1>2. QED
      BY <1>1, Finite, FS_AddElement, Zenon

\* A sender is done with its reservation.
LEMMA ReservingShrinks ==
    ASSUME NEW p \in Senders, at[p] # "idle", at'[p] = "idle",
           \A r \in Senders \ {p} : at'[r] = at[r]
    PROVE  /\ Cardinality(Reserving) = Cardinality(Reserving') + 1
           /\ Cardinality(Reserving') \in Nat
<1>1. Reserving' = Reserving \ {p} /\ p \in Reserving
      BY Zenon DEF Reserving
<1>2. Cardinality(Reserving') = Cardinality(Reserving) - 1 /\ IsFiniteSet(Reserving')
      BY <1>1, Finite, FS_RemoveElement, Zenon
<1>3. Cardinality(Reserving') \in Nat
      BY <1>2, FS_CardinalityType, Zenon
<1>4. QED
      BY <1>2, <1>3, Finite

\* A frame is put in a queue that has room.
LEMMA QueuedGrows ==
    ASSUME Queueing, NEW i \in Queues, NEW j \in Job, Len(q[i]) < QueueCap,
           q' = [q EXCEPT ![i] = Append(@, j)]
    PROVE  Cardinality(Queued') = Cardinality(Queued) + 1
<1>1. /\ q[i] \in Seq(Job) /\ Len(q[i]) \in Nat /\ Len(q'[i]) = Len(q[i]) + 1
      /\ \A k \in Queues \ {i} : q'[k] = q[k]
      /\ QueueCap \in Nat
      BY ClientQueueAssumption DEF Queueing
<1> DEFINE c == <<i, Len(q[i]) + 1>>
<1>2. c \notin Queued
      BY <1>1 DEF Queued
<1>3. ASSUME NEW d \in Queues \X (1..QueueCap)
      PROVE  d[2] <= Len(q'[d[1]]) <=> d[2] <= Len(q[d[1]]) \/ d = c
  <2>1. d[1] \in Queues /\ d[2] \in Nat /\ d = <<d[1], d[2]>>
        BY <1>1
  <2>2. CASE d[1] = i
        BY <1>1, <2>1, <2>2, SMTT(30)
  <2>3. CASE d[1] # i
        BY <1>1, <2>1, <2>3, SMTT(30)
  <2>4. QED
        BY <2>2, <2>3, Zenon
<1>4. c \in Queues \X (1..QueueCap)
      BY <1>1
<1> HIDE DEF c
<1>5. Queued' = Queued \cup {c}
      BY <1>3, <1>4, Zenon DEF Queued
<1>6. QED
      BY <1>2, <1>5, Finite, FS_AddElement, Zenon

\* A queue gets shorter: one frame is taken, or all that is left is dropped.
LEMMA QueuedShrinks ==
    ASSUME Queueing, Bounded, NEW i \in Queues, NEW s \in Seq(Job), Len(s) <= Len(q[i]),
           q' = [q EXCEPT ![i] = s]
    PROVE  /\ Cardinality(Queued) = Cardinality(Queued') + (Len(q[i]) - Len(s))
           /\ Cardinality(Queued') \in Nat
<1> DEFINE a == Len(s) + 1
           b == Len(q[i])
           Gone == {i} \X (a..b)
<1>1. /\ q[i] \in Seq(Job) /\ b \in Nat /\ a \in Nat \ {0} /\ Len(q'[i]) = a - 1
      /\ \A k \in Queues \ {i} : q'[k] = q[k]
      /\ QueueCap \in Nat /\ b <= QueueCap /\ a <= b + 1
      BY ClientQueueAssumption, LenProperties DEF Queueing, Bounded
<1>2. ASSUME NEW d \in Queues \X (1..QueueCap)
      PROVE  d[2] <= Len(q[d[1]]) <=> d[2] <= Len(q'[d[1]]) \/ d \in Gone
  <2>1. d[1] \in Queues /\ d[2] \in Nat /\ d = <<d[1], d[2]>>
        BY <1>1
  <2>2. CASE d[1] = i
    <3>1. d \in Gone <=> d[2] >= a /\ d[2] <= b
          BY <1>1, <2>1, <2>2
    <3>2. QED
          BY <1>1, <2>1, <2>2, <3>1, SMTT(30)
  <2>3. CASE d[1] # i
    <3>1. d \notin Gone
          BY <2>1, <2>3, Zenon
    <3>2. QED
          BY <1>1, <2>1, <2>3, <3>1, Zenon
  <2>4. QED
        BY <2>2, <2>3, Zenon
<1>3. Gone \subseteq Queues \X (1..QueueCap)
      BY <1>1
<1>4. Gone \cap Queued' = {}
      BY <1>1 DEF Queued
<1>5. /\ IsFiniteSet(a..b) /\ Cardinality(a..b) = b - a + 1
  <2>1. a \in Int /\ b \in Int
        BY <1>1
  <2> HIDE DEF a, b
  <2>2. IsFiniteSet(a..b) /\ Cardinality(a..b) = IF a > b THEN 0 ELSE b - a + 1
        BY <2>1, FS_Interval, Zenon
  <2>3. QED
        BY <1>1, <2>1, <2>2, SMTT(30)
<1>6. IsFiniteSet(Gone) /\ Cardinality(Gone) = b - a + 1
  <2>1. IsFiniteSet({i}) /\ Cardinality({i}) = 1
        BY FS_Singleton, Zenon
  <2> HIDE DEF a, b
  <2>2. IsFiniteSet(Gone) /\ Cardinality(Gone) = Cardinality({i}) * Cardinality(a..b)
        BY <1>5, <2>1, FS_Product, Zenon
  <2>3. QED
        BY <1>1, <1>5, <2>1, <2>2, SMTT(30)
<1> HIDE DEF Gone
<1>7. Queued = Queued' \cup Gone
      BY <1>2, <1>3, Zenon DEF Queued
<1>8. IsFiniteSet(Queued') /\ Cardinality(Queued') \in Nat
      BY <1>7, Finite, FS_Subset, FS_CardinalityType, SMTT(30)
<1>9. Cardinality(Queued) = Cardinality(Queued') + Cardinality(Gone) - Cardinality(Queued' \cap Gone)
      BY <1>6, <1>7, <1>8, FS_Union, Zenon
<1>10. Cardinality(Queued' \cap Gone) = 0
      BY <1>4, FS_EmptySet, Zenon
<1>11. QED
      BY <1>1, <1>6, <1>8, <1>9, <1>10, SMTT(30)

\* The count follows the reservations and the queues: it grows by one with them, it
\* shrinks by what they lose, or it stays.
LEMMA Counts ==
    ASSUME ByteIInv, Cardinality(Reserving') \in Nat, Cardinality(Queued') \in Nat,
           NEW k \in Nat,
           \/ /\ globalQueueBytes' = globalQueueBytes + k
              /\ Cardinality(Reserving') + Cardinality(Queued')
                    = Cardinality(Reserving) + Cardinality(Queued) + k
           \/ /\ globalQueueBytes' = Released(k)
              /\ Cardinality(Reserving) + Cardinality(Queued)
                    = Cardinality(Reserving') + Cardinality(Queued') + k
    PROVE  ClientBytesAccounted' /\ globalQueueBytes' \in Nat
<1>1. /\ globalQueueBytes \in Nat
      /\ globalQueueBytes = Cardinality(Reserving) + Cardinality(Queued)
      /\ Cardinality(Reserving) \in Nat /\ Cardinality(Queued) \in Nat
      BY Finite, Zenon DEF ByteIInv, ClientBytesAccounted
<1>2. /\ globalQueueBytes' = Cardinality(Reserving') + Cardinality(Queued')
      /\ globalQueueBytes' \in Nat
      BY <1>1 DEF Released
<1>3. QED
      BY <1>2, Zenon DEF ClientBytesAccounted

\* A step that leaves the queues alone, and nobody begins or ends a reservation.
LEMMA SameCount ==
    ASSUME ByteIInv, q' = q, globalQueueBytes' = globalQueueBytes,
           \A p \in Senders : at'[p] = "idle" <=> at[p] = "idle"
    PROVE  ClientBytesAccounted' /\ globalQueueBytes' \in Nat /\ Bounded'
<1>1. Reserving' = Reserving /\ Queued' = Queued
      BY Zenon DEF Reserving, Queued
<1>2. QED
      BY <1>1, Zenon DEF ByteIInv, ClientBytesAccounted, Bounded

\* asyncWriteDirect: reserveQueueBytes, the enqueue, and releaseQueueBytes on its ways out.
LEMMA SenderCounts ==
    ASSUME ByteIInv, NEW p \in Senders, Sender(p)
    PROVE  ClientBytesAccounted' /\ globalQueueBytes' \in Nat /\ Bounded'
<1> USE DEF loop, work, send, Finished
<1>0. /\ Flow /\ Queueing /\ Bounded /\ globalQueueBytes \in Nat
      /\ at \in [Senders -> {"idle", "reserved", "send", "wait"}]
      /\ Cardinality(Reserving) \in Nat /\ Cardinality(Queued) \in Nat
      BY Finite, Zenon DEF ByteIInv, Flow, Queueing
<1>1. CASE Reserve(p)
  <2>1. /\ q' = q /\ globalQueueBytes' = globalQueueBytes + 1 /\ at[p] = "idle"
        /\ at'[p] = "reserved" /\ \A r \in Senders \ {p} : at'[r] = at[r]
        BY <1>0, <1>1, Zenon DEF Reserve
  <2>2. Cardinality(Reserving') = Cardinality(Reserving) + 1
        BY <2>1, ReservingGrows, Zenon
  <2>3. Queued' = Queued /\ Bounded'
        BY <1>0, <2>1, Zenon DEF Queued, Bounded
  <2>4. QED
        BY <1>0, <2>1, <2>2, <2>3, Counts, SMTT(30)
<1>2. ASSUME at[p] # "idle", Finished(p), q' = q, globalQueueBytes' = Released(1)
      PROVE  ClientBytesAccounted' /\ globalQueueBytes' \in Nat /\ Bounded'
  <2>1. at'[p] = "idle" /\ \A r \in Senders \ {p} : at'[r] = at[r]
        BY <1>0, <1>2, Zenon
  <2>2. /\ Cardinality(Reserving) = Cardinality(Reserving') + 1
        /\ Cardinality(Reserving') \in Nat
        BY <1>2, <2>1, ReservingShrinks, Zenon
  <2>3. Queued' = Queued /\ Bounded'
        BY <1>0, <1>2, Zenon DEF Queued, Bounded
  <2>4. QED
        BY <1>0, <1>2, <2>2, <2>3, Counts, SMTT(30)
<1>3. CASE Lookup(p)
  <2>1. CASE cur = NoQueue
        BY <1>2, <1>3, <2>1, Zenon DEF Lookup
  <2>2. CASE cur # NoQueue
        BY <1>0, <1>3, <2>2, SameCount, Zenon DEF Lookup
  <2>3. QED
        BY <2>1, <2>2, Zenon
<1>4. CASE GiveUp(p)
      BY <1>2, <1>4, Zenon DEF GiveUp
<1>5. CASE Enqueue(p)
  <2>1. CASE q' = q /\ (at' = at \/ at' = [at EXCEPT ![p] = "wait"])
        BY <1>0, <1>5, <2>1, SameCount, Zenon DEF Enqueue
  <2>2. CASE /\ Len(q[hold[p]]) < QueueCap /\ Finished(p)
             /\ q' = [q EXCEPT ![hold[p]] = Append(@, job[p])]
    <3>1. /\ at[p] # "idle" /\ at'[p] = "idle" /\ \A r \in Senders \ {p} : at'[r] = at[r]
          /\ globalQueueBytes' = globalQueueBytes
          BY <1>0, <1>5, <2>2, Zenon DEF Enqueue
    <3>2. job[p] \in Job /\ hold[p] \in Queues
          BY <1>0, <3>1, Zenon DEF Queueing
    <3>3. /\ Cardinality(Reserving) = Cardinality(Reserving') + 1
          /\ Cardinality(Reserving') \in Nat
          BY <3>1, ReservingShrinks, Zenon
    <3>4. Cardinality(Queued') = Cardinality(Queued) + 1
          BY <1>0, <2>2, <3>2, QueuedGrows, Zenon
    <3>5. Bounded'
      <4>1. q[hold[p]] \in Seq(Job) /\ QueueCap \in Nat
            BY <1>0, <3>2, ClientQueueAssumption, Zenon DEF Queueing
      <4>2. /\ Len(q'[hold[p]]) = Len(q[hold[p]]) + 1 /\ Len(q[hold[p]]) \in Nat
            /\ \A i \in Queues : i # hold[p] => q'[i] = q[i]
            BY <1>0, <2>2, <3>2, <4>1, SMTT(30) DEF Queueing
      <4>3. Len(q'[hold[p]]) <= QueueCap
            BY <2>2, <4>1, <4>2, SMTT(30)
      <4>4. QED
            BY <1>0, <4>2, <4>3, Zenon DEF Bounded
    <3>6. globalQueueBytes' = globalQueueBytes + 0
          BY <1>0, <3>1
    <3>7. Cardinality(Reserving') + Cardinality(Queued')
             = Cardinality(Reserving) + Cardinality(Queued) + 0
          BY <1>0, <3>3, <3>4, SMTT(30)
    <3>8. Cardinality(Queued') \in Nat
          BY <1>0, <3>4
    <3>9. QED
          BY <3>3, <3>5, <3>6, <3>7, <3>8, Counts, ZenonT(30)
  <2>3. QED
        BY <1>5, <2>1, <2>2, Zenon DEF Enqueue
<1>6. QED
      BY <1>1, <1>3, <1>4, <1>5, Zenon DEF Sender

\* writeWorker releases the byte of a frame it takes, and at its end those of all frames
\* left in its queue.
LEMMA WorkerCounts ==
    ASSUME ByteIInv, NEW s \in Sessions, Worker(s)
    PROVE  ClientBytesAccounted' /\ globalQueueBytes' \in Nat /\ Bounded'
<1> USE DEF loop, work, send
<1>0. /\ Flow /\ Queueing /\ Bounded /\ globalQueueBytes \in Nat
      /\ q \in [Queues -> Seq(Job)] /\ s \in Queues /\ q[s] \in Seq(Job)
      /\ Cardinality(Reserving) \in Nat /\ Cardinality(Queued) \in Nat
  <2>1. s \in Queues
        BY ClientQueueAssumption DEF Sessions, Queues
  <2>2. QED
        BY <2>1, Finite, Zenon DEF ByteIInv, Flow, Queueing
<1>1. at' = at
      BY Zenon DEF Worker, Take, Aggregate, WriteFrame, WriteFails, WorkerStops, Exit, BeginFrame
<1>2. Reserving' = Reserving
      BY <1>1, Zenon DEF Reserving
<1>3. ASSUME NEW d \in Seq(Job), Len(d) <= Len(q[s]), q' = [q EXCEPT ![s] = d],
             globalQueueBytes' = Released(Len(q[s]) - Len(d))
      PROVE  ClientBytesAccounted' /\ globalQueueBytes' \in Nat /\ Bounded'
  <2>1. /\ Cardinality(Queued) = Cardinality(Queued') + (Len(q[s]) - Len(d))
        /\ Cardinality(Queued') \in Nat
        BY <1>0, <1>3, QueuedShrinks, Zenon
  <2>2. Len(d) \in Nat /\ Len(q[s]) \in Nat /\ Len(q[s]) - Len(d) \in Nat
        BY <1>0, <1>3, LenProperties, SMTT(30)
  <2>3. Cardinality(Reserving) + Cardinality(Queued)
           = Cardinality(Reserving') + Cardinality(Queued') + (Len(q[s]) - Len(d))
        BY <1>0, <1>2, <2>1, <2>2, SMTT(30)
  <2>4. Bounded'
    <3>1. q'[s] = d /\ \A i \in Queues : i # s => q'[i] = q[i]
          BY <1>0, <1>3, Zenon
    <3>2. Len(d) <= QueueCap
          BY <1>0, <1>3, <2>2, ClientQueueAssumption, SMTT(30) DEF Bounded
    <3>3. QED
          BY <1>0, <3>1, <3>2, Zenon DEF Bounded
  <2>5. QED
        BY <1>0, <1>2, <1>3, <2>1, <2>2, <2>3, <2>4, Counts, ZenonT(30)
<1>4. ASSUME q[s] # <<>>, q' = [q EXCEPT ![s] = Tail(@)], globalQueueBytes' = Released(1)
      PROVE  ClientBytesAccounted' /\ globalQueueBytes' \in Nat /\ Bounded'
  <2>1. /\ Tail(q[s]) \in Seq(Job) /\ Len(Tail(q[s])) = Len(q[s]) - 1 /\ Len(q[s]) \in Nat
        BY <1>0, <1>4, HeadTailProperties, LenProperties, Zenon
  <2>2. Len(Tail(q[s])) <= Len(q[s]) /\ Len(q[s]) - Len(Tail(q[s])) = 1
        BY <2>1
  <2>3. QED
        BY <1>3, <1>4, <2>1, <2>2, Zenon
<1>5. CASE Take(s)
  <2>1. CASE UNCHANGED <<q, globalQueueBytes>>
        BY <1>1, <2>1, SameCount, Zenon
  <2>2. CASE q[s] # <<>> /\ q' = [q EXCEPT ![s] = Tail(@)] /\ globalQueueBytes' = Released(1)
        BY <1>4, <2>2, Zenon
  <2>3. QED
        BY <1>5, <2>1, <2>2, Zenon DEF Take
<1>6. CASE Aggregate(s)
  <2>1. CASE UNCHANGED <<q, globalQueueBytes>>
        BY <1>1, <2>1, SameCount, Zenon
  <2>2. CASE q[s] # <<>> /\ q' = [q EXCEPT ![s] = Tail(@)] /\ globalQueueBytes' = Released(1)
        BY <1>4, <2>2, Zenon
  <2>3. QED
        BY <1>6, <2>1, <2>2, ZenonT(30) DEF Aggregate
<1>7. CASE WriteFrame(s)
      BY <1>1, <1>7, SameCount, Zenon DEF WriteFrame
<1>8. CASE WriteFails(s) \/ WorkerStops(s)
  <2>1. q' = [q EXCEPT ![s] = <<>>] /\ globalQueueBytes' = Released(Len(q[s]))
        BY <1>8, Zenon DEF WriteFails, WorkerStops, Exit
  <2>2. <<>> \in Seq(Job) /\ Len(<<>>) = 0 /\ Len(q[s]) \in Nat
        BY <1>0, EmptySeq, LenProperties, Zenon
  <2>3. Len(q[s]) - Len(<<>>) = Len(q[s]) /\ Len(<<>>) <= Len(q[s])
        BY <2>2
  <2>4. QED
        BY <1>3, <2>1, <2>2, <2>3, Zenon
<1>9. QED
      BY <1>5, <1>6, <1>7, <1>8, Zenon DEF Worker

\* globalQueueBytes of the client is exactly the frames that are reserved or queued, at
\* every moment, for any senders, sessions, queue lengths and limits: the dial loop, the
\* end of a worker and the shutdown neither release a byte twice nor forget one that is
\* in no queue, and releaseQueueBytes never has to clamp.
THEOREM ClientBytesAreAccounted == QueueSpec => []ClientBytesAccounted
<1>1. QueueInit => ByteIInv
  <2>1. SUFFICES ASSUME QueueInit PROVE ByteIInv
        BY Zenon
  <2>2. Reserving = {} /\ Queued = {}
        BY <2>1, ClientQueueAssumption DEF QueueInit, Reserving, Queued
  <2>3. Cardinality(Reserving) = 0 /\ Cardinality(Queued) = 0 /\ globalQueueBytes = 0
        BY <2>1, <2>2, FS_EmptySet, Zenon DEF QueueInit
  <2>4. ClientBytesAccounted /\ globalQueueBytes \in Nat
        BY <2>3 DEF ClientBytesAccounted
  <2>5. QED
        BY <2>1, <2>4, FlowInitial, Zenon DEF ByteIInv
<1>2. ByteIInv /\ [QueueNext]_queueVars => ByteIInv'
  <2>1. SUFFICES ASSUME ByteIInv, [QueueNext]_queueVars PROVE ByteIInv'
        BY Zenon
  <2>2. Flow /\ Flow'
        BY <2>1, FlowStep, Zenon DEF ByteIInv
  <2>3. CASE DialAgain \/ Connect \/ Disconnect \/ Shutdown \/ UNCHANGED queueVars
    <3>1. UNCHANGED <<q, at, globalQueueBytes>>
          BY <2>2, <2>3, LoopFlow, Zenon
    <3>2. QED
          BY <2>1, <2>2, <3>1, SameCount, Zenon DEF ByteIInv
  <2>4. ASSUME NEW p \in Senders, Sender(p) PROVE ByteIInv'
        BY <2>1, <2>2, <2>4, SenderCounts, Zenon DEF ByteIInv
  <2>5. ASSUME NEW s \in Sessions, Worker(s) PROVE ByteIInv'
        BY <2>1, <2>2, <2>5, WorkerCounts, Zenon DEF ByteIInv
  <2>6. QED
        BY <2>1, <2>3, <2>4, <2>5, Zenon DEF QueueNext
<1>3. ByteIInv => ClientBytesAccounted
      BY Zenon DEF ByteIInv
<1>4. QED
      BY <1>1, <1>2, <1>3, PTL DEF QueueSpec

=============================================================================
