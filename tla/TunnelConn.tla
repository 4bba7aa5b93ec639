----------------------------- MODULE TunnelConn -----------------------------
(***************************************************************************)
(* One TCP connection through the tunnel, both ends of it: the client that *)
(* dials and races the channels (pool.go, proxy_dialer.go) and the server  *)
(* that dials the target and forwards (handler.go, server_pool.go).        *)
(*                                                                         *)
(* Every channel is a FIFO in each direction.  The connect request goes    *)
(* out on all channels, or on one when a Hot Pair is used; the server      *)
(* creates a connection state for the first copy it handles and drops the  *)
(* others.  A state lives in p.conns under the connection's ID, so a state *)
(* created after the first one has been removed is a different object: it  *)
(* is named by the channel whose copy created it, which is its uplink.     *)
(*                                                                         *)
(* Payloads are numbered in the order the two ends produce them.  The      *)
(* target, and the application behind the stream, are external.            *)
(***************************************************************************)
EXTENDS ChannelWires

CONSTANTS
    PendingCap,     \* payloads that fit in pendingData
    Refused         \* whether the queue of the pair's uplink is full: a set of answers

ASSUME TunnelAssumption ==
    /\ PendingCap \in Nat
    /\ Refused \subseteq BOOLEAN /\ Refused # {}

VARIABLES
    \* client
    dial,           \* where DialStream is
    app,            \* what the application has done with the stream
    st,             \* clientConnState: [reg, uplink, downlink, pair, connected]
    sink,           \* the pipe into the stream is open
    wrote,          \* payloads written by the application
    got,            \* got[o]: payloads of target o that reached the stream
    \* server
    conns,          \* the state registered under the connection's ID
    obj,            \* ServerConnState per creating channel
    read,           \* read[o]: payloads read from target o
    tgt             \* tgt[o]: payloads written to target o

clientVars == <<dial, app, st, sink, wrote, got>>
serverVars == <<conns, obj, read, tgt>>
vars == <<clientVars, serverVars, wires>>

Uplinked == [t : {"connect", "close"}] \cup [t : {"data"}, n : 1..MaxUp]
            \cup [t : {"selectDownlink"}, ch : Channels]
Downlinked == [t : {"ok", "err", "close"}] \cup [t : {"selectUplink"}, ch : Channels]
              \cup [t : {"data"}, o : Channels, n : 1..MaxDown]
Stages == {"none", "announce", "check", "dial", "failed", "opened", "flush",
           "forward", "bye", "done"}

TypeOK ==
    /\ up \in [Channels -> Seq(Uplinked)]
    /\ down \in [Channels -> Seq(Downlinked)]
    /\ {cliUp, srvUp} \subseteq [Channels -> BOOLEAN]
    /\ dial \in {"idle", "sent", "wait", "open", "failed"}
    /\ app \in {"writing", "half", "closed"}
    /\ st \in [reg : BOOLEAN, uplink : Channels \cup {NoCh},
               downlink : Channels \cup {NoCh}, pair : BOOLEAN, connected : BOOLEAN]
    /\ sink \in BOOLEAN
    /\ wrote \in 0..MaxUp
    /\ got \in [Channels -> Seq(1..MaxDown)]
    /\ conns \in Channels \cup {NoCh}
    /\ obj \in [Channels -> [stage : Stages, closed : BOOLEAN,
                             conn : {"none", "open", "closed"},
                             downlink : Channels \cup {NoCh},
                             pending : Seq(1..MaxUp), flush : Seq(1..MaxUp)]]
    /\ read \in [Channels -> 0..MaxDown]
    /\ tgt \in [Channels -> Seq(1..MaxUp)]

Fresh(stage) == [stage |-> stage, closed |-> FALSE, conn |-> "none",
                 downlink |-> NoCh, pending |-> <<>>, flush |-> <<>>]

Init ==
    /\ WiresInit
    /\ dial = "idle" /\ app = "writing"
    /\ st = [reg |-> FALSE, uplink |-> NoCh, downlink |-> NoCh,
             pair |-> FALSE, connected |-> FALSE]
    /\ sink = TRUE
    /\ wrote = 0
    /\ got = [o \in Channels |-> <<>>]
    /\ conns = NoCh
    /\ obj = [o \in Channels |-> Fresh("none")]
    /\ read = [o \in Channels |-> 0]
    /\ tgt = [o \in Channels |-> <<>>]

-----------------------------------------------------------------------------
\* Sending

\* Client: the uplink when it is known, all channels otherwise
\* (GetUplinkChannel, then SendDataDirect or SendCloseDirect, or broadcastWrite).
SendUp(m) ==
    up' = Put(up, IF st.reg /\ st.uplink # NoCh
                  THEN {st.uplink} \cap OpenAt(cliUp) ELSE OpenAt(cliUp), <<m>>)

\* Server: sendDownlink finds the state by the connection's ID and uses its
\* downlink when it has one, and all channels of the client otherwise.
SendDownlink(s) ==
    LET S == IF conns = NoCh THEN {}
             ELSE IF obj[conns].downlink = NoCh THEN OpenAt(srvUp)
             ELSE {obj[conns].downlink} \cap OpenAt(srvUp)
    IN  down' = Put(down, S, s)

-----------------------------------------------------------------------------
\* Client: DialStream and the stream it returns

\* clientPool.Unregister closes the pipe into the stream and drops the state.
Gone(s) == [s EXCEPT !.reg = FALSE]

Unregister == st' = Gone(st) /\ sink' = (sink /\ ~st.reg)

\* registerAndBroadcastTCPWithPair.  With a pair the request is sent on its
\* uplink alone, and lost if that is not open; when the queue refuses it the
\* pair is dropped and all open channels are used.
Dial ==
    /\ dial = "idle"
    /\ \E refused \in Refused :
          LET hot == Pair # NoPair /\ ~refused
              S == IF hot THEN {Pair.up} \cap OpenAt(cliUp) ELSE OpenAt(cliUp)
          IN  /\ up' = Put(up, S, <<[t |-> "connect"]>>)
              /\ st' = [reg |-> hot \/ S # {}, uplink |-> IF hot THEN Pair.up ELSE NoCh,
                        downlink |-> NoCh, pair |-> hot, connected |-> FALSE]
              /\ sink' = (hot \/ S # {})
    /\ dial' = "sent"
    /\ UNCHANGED <<app, wrote, got, serverVars, down, cliUp, srvUp>>

\* DialStream looks the state up again; when it is gone by now it does not
\* wait and reports success.
DialLookup ==
    /\ dial = "sent"
    /\ dial' = IF st.reg THEN "wait" ELSE "open"
    /\ UNCHANGED <<app, st, sink, wrote, got, serverVars, wires>>

DialConnected ==
    /\ dial = "wait" /\ st.connected
    /\ dial' = "open"
    /\ UNCHANGED <<app, st, sink, wrote, got, serverVars, wires>>

\* The timeout, or the end of the caller's context.
DialTimeout ==
    /\ dial = "wait"
    /\ dial' = "failed"
    /\ Unregister
    /\ UNCHANGED <<app, wrote, got, serverVars, wires>>

Write ==
    /\ dial = "open" /\ app = "writing" /\ wrote < MaxUp
    /\ wrote' = wrote + 1
    /\ SendUp([t |-> "data", n |-> wrote'])
    /\ UNCHANGED <<dial, app, st, sink, got, serverVars, down, cliUp, srvUp>>

CloseWrite ==
    /\ dial = "open" /\ app = "writing"
    /\ app' = "half"
    /\ SendUp([t |-> "close"])
    /\ UNCHANGED <<dial, st, sink, wrote, got, serverVars, down, cliUp, srvUp>>

\* Faulty form: nothing is sent once the state is gone.
CloseQuiet ==
    /\ dial = "open" /\ app # "closed"
    /\ app' = "closed"
    /\ IF st.reg THEN SendUp([t |-> "close"]) ELSE UNCHANGED up
    /\ Unregister
    /\ UNCHANGED <<dial, wrote, got, serverVars, down, cliUp, srvUp>>

Close ==
    /\ dial = "open" /\ app # "closed"
    /\ app' = "closed"
    /\ SendUp([t |-> "close"])
    /\ Unregister
    /\ UNCHANGED <<dial, wrote, got, serverVars, down, cliUp, srvUp>>

-----------------------------------------------------------------------------
\* Client: handleChannel

\* The next frame of channel ch.
Received(ch, type) ==
    /\ cliUp[ch] /\ down[ch] # <<>> /\ Head(down[ch]).t = type
    /\ down' = [down EXCEPT ![ch] = Tail(@)]

\* noteUplink keeps the first uplink.
NoteUplink(s, ch) ==
    IF s.reg /\ s.uplink = NoCh THEN [s EXCEPT !.uplink = ch] ELSE s

\* selectDownlink: the channel that is the downlink from now on; the pair's
\* when there is one, else the first channel that asks.
Choose(s, ch) ==
    IF ~s.reg THEN NoCh
    ELSE IF s.downlink # NoCh THEN s.downlink
    ELSE IF s.pair THEN Pair.down ELSE ch

\* MsgSelectUplink.  The choice of a downlink is reported over the uplink.
HandleSelectUplink(ch) ==
    /\ Received(ch, "selectUplink")
    /\ LET u == Head(down[ch]).ch
           chosen == Choose(st, ch)
       IN  /\ st' = [NoteUplink(st, u) EXCEPT !.downlink =
                         IF st.reg THEN chosen ELSE @]
           /\ up' = IF st.reg /\ chosen # st.downlink /\ cliUp[u]
                    THEN Put(up, {u}, <<[t |-> "selectDownlink", ch |-> chosen]>>)
                    ELSE up
    /\ UNCHANGED <<dial, app, sink, wrote, got, serverVars, cliUp, srvUp>>

\* MsgConnStatus.
HandleConnStatus(ch) ==
    /\ \/ /\ Received(ch, "ok")
          /\ st' = [st EXCEPT !.connected = @ \/ st.reg]
          /\ UNCHANGED sink
       \/ Received(ch, "err") /\ Unregister
    /\ UNCHANGED <<dial, app, wrote, got, serverVars, up, cliUp, srvUp>>

\* Faulty form: data is taken from every channel.
HandleDataAny(ch) ==
    /\ Received(ch, "data")
    /\ LET m == Head(down[ch])
       IN  IF st.reg THEN got' = [got EXCEPT ![m.o] = Append(@, m.n)] ELSE UNCHANGED got
    /\ UNCHANGED <<dial, app, st, sink, wrote, serverVars, up, cliUp, srvUp>>

\* MsgTCPData: only the downlink counts; the first data frame may choose it.
HandleData(ch) ==
    /\ Received(ch, "data")
    /\ LET m == Head(down[ch])
           chosen == Choose(st, ch)
       IN  /\ st' = [st EXCEPT !.downlink = IF st.reg THEN chosen ELSE @]
           /\ got' = IF chosen = ch THEN [got EXCEPT ![m.o] = Append(@, m.n)] ELSE got
    /\ UNCHANGED <<dial, app, sink, wrote, serverVars, up, cliUp, srvUp>>

\* MsgTCPClose.
HandleClose(ch) ==
    /\ Received(ch, "close")
    /\ st' = Gone(NoteUplink(st, ch))
    /\ sink' = (sink /\ ~st.reg)
    /\ UNCHANGED <<dial, app, wrote, got, serverVars, up, cliUp, srvUp>>

-----------------------------------------------------------------------------
\* Server: handleMessage

\* The next frame of channel ch; its reader is busy while it announces.
Arrived(ch, type) ==
    /\ srvUp[ch] /\ obj[ch].stage # "announce"
    /\ up[ch] # <<>> /\ Head(up[ch]).t = type
    /\ up' = [up EXCEPT ![ch] = Tail(@)]

\* unregisterConn: the state leaves the table, is marked closed, and its
\* connection to the target, if there is one, is closed.
Shut(r) == [r EXCEPT !.closed = TRUE, !.conn = IF @ = "open" THEN "closed" ELSE @]

UnregisterConn(objs) ==
    /\ conns' = NoCh
    /\ obj' = IF conns = NoCh THEN objs ELSE [objs EXCEPT ![conns] = Shut(@)]

At(o, stage) == [obj EXCEPT ![o].stage = stage]

\* handleTCPConnect: the first copy creates the state, later ones are dropped.
HandleTCPConnect(ch) ==
    /\ Arrived(ch, "connect")
    /\ IF conns = NoCh
       THEN conns' = ch /\ obj' = [obj EXCEPT ![ch] = Fresh("announce")]
       ELSE UNCHANGED <<conns, obj>>
    /\ UNCHANGED <<read, tgt, clientVars, down, cliUp, srvUp>>

\* Its second half: a known pair presets the downlink, otherwise the uplink is
\* broadcast; then connectTarget is started.
Announce(ch) ==
    /\ obj[ch].stage = "announce"
    /\ \E known \in PairKnown :
          LET promoted == Pair # NoPair /\ known /\ ch = Pair.up /\ srvUp[Pair.down]
          IN  /\ obj' = [obj EXCEPT ![ch].stage = "check",
                                    ![ch].downlink = IF promoted THEN Pair.down ELSE @]
              /\ IF promoted THEN UNCHANGED down
                 ELSE SendDownlink(<<[t |-> "selectUplink", ch |-> ch]>>)
    /\ UNCHANGED <<conns, read, tgt, clientVars, up, cliUp, srvUp>>

\* Faulty form: payloads of every channel are taken.
HandleTCPDataAny(ch) ==
    /\ Arrived(ch, "data")
    /\ LET n == Head(up[ch]).n
           o == conns
       IN  \/ /\ o = NoCh
              /\ UNCHANGED <<conns, obj, tgt>>
           \/ /\ o # NoCh /\ obj[o].conn = "none"
              /\ obj' = [obj EXCEPT ![o].pending = Append(@, n)]
              /\ UNCHANGED <<conns, tgt>>
           \/ /\ o # NoCh /\ obj[o].conn = "open"
              /\ tgt' = [tgt EXCEPT ![o] = Append(@, n)]
              /\ UNCHANGED <<conns, obj>>
    /\ UNCHANGED <<read, clientVars, down, cliUp, srvUp>>

\* handleTCPData: kept until the target is connected, written to it after; a
\* payload from a channel that is not the uplink is dropped.  A write to the
\* target may fail.
HandleTCPData(ch) ==
    /\ Arrived(ch, "data")
    /\ LET n == Head(up[ch]).n
           r == obj[ch]
       IN  \/ /\ conns # ch
              /\ UNCHANGED <<conns, obj, tgt>>
           \/ /\ conns = ch /\ r.conn = "none" /\ Len(r.pending) < PendingCap
              /\ obj' = [obj EXCEPT ![ch].pending = Append(@, n)]
              /\ UNCHANGED <<conns, tgt>>
           \/ /\ conns = ch /\ r.conn = "open"
              /\ tgt' = [tgt EXCEPT ![ch] = Append(@, n)]
              /\ UNCHANGED <<conns, obj>>
           \/ /\ conns = ch
              /\ r.conn # "none" \/ Len(r.pending) >= PendingCap
              /\ UnregisterConn(obj)
              /\ UNCHANGED tgt
    /\ UNCHANGED <<read, clientVars, down, cliUp, srvUp>>

\* Faulty form: the sender's channel is taken for the chosen one.
HandleSelectDownlinkSender(ch) ==
    /\ Arrived(ch, "selectDownlink")
    /\ obj' = IF conns = ch /\ obj[ch].downlink = NoCh
              THEN [obj EXCEPT ![ch].downlink = ch] ELSE obj
    /\ UNCHANGED <<conns, read, tgt, clientVars, down, cliUp, srvUp>>

\* handleSelectDownlink: from the uplink, for an open channel, once.
HandleSelectDownlink(ch) ==
    /\ Arrived(ch, "selectDownlink")
    /\ LET d == Head(up[ch]).ch
       IN  obj' = IF conns = ch /\ srvUp[d] /\ obj[ch].downlink = NoCh
                  THEN [obj EXCEPT ![ch].downlink = d] ELSE obj
    /\ UNCHANGED <<conns, read, tgt, clientVars, down, cliUp, srvUp>>

HandleTCPClose(ch) ==
    /\ Arrived(ch, "close")
    /\ UnregisterConn(obj)
    /\ UNCHANGED <<read, tgt, clientVars, down, cliUp, srvUp>>

-----------------------------------------------------------------------------
\* Server: connectTarget

ConnectCheck(o) ==
    /\ obj[o].stage = "check"
    /\ obj' = At(o, IF obj[o].closed THEN "done" ELSE "dial")
    /\ UNCHANGED <<conns, read, tgt, clientVars, wires>>

\* The dial fails: the client is told twice, then the ID is deleted.
ConnectFails(o) ==
    /\ obj[o].stage = "dial"
    /\ obj' = At(o, "failed")
    /\ SendDownlink(<<[t |-> "err"], [t |-> "close"]>>)
    /\ UNCHANGED <<conns, read, tgt, clientVars, up, cliUp, srvUp>>

ForgetFailed(o) ==
    /\ obj[o].stage = "failed"
    /\ obj' = At(o, "done")
    /\ conns' = NoCh
    /\ UNCHANGED <<read, tgt, clientVars, wires>>

\* The dial succeeds: unless the state has been closed meanwhile, the
\* connection is published and the kept payloads are taken out.
Connected(o) ==
    /\ obj[o].stage = "dial"
    /\ obj' = IF obj[o].closed THEN At(o, "done")
              ELSE [obj EXCEPT ![o].stage = "opened", ![o].conn = "open",
                               ![o].flush = obj[o].pending, ![o].pending = <<>>]
    /\ UNCHANGED <<conns, read, tgt, clientVars, wires>>

ReportOK(o) ==
    /\ obj[o].stage = "opened"
    /\ obj' = At(o, "flush")
    /\ SendDownlink(<<[t |-> "ok"]>>)
    /\ UNCHANGED <<conns, read, tgt, clientVars, up, cliUp, srvUp>>

\* The kept payloads are written one by one, outside the lock.
Flush(o) ==
    /\ obj[o].stage = "flush"
    /\ \/ /\ obj[o].flush = <<>>
          /\ obj' = At(o, "forward")
          /\ UNCHANGED <<conns, tgt>>
       \/ /\ obj[o].flush # <<>> /\ obj[o].conn = "open"
          /\ tgt' = [tgt EXCEPT ![o] = Append(@, Head(obj[o].flush))]
          /\ obj' = [obj EXCEPT ![o].flush = Tail(@)]
          /\ UNCHANGED conns
       \/ /\ obj[o].flush # <<>>
          /\ UnregisterConn([obj EXCEPT ![o].stage = "done", ![o].flush = <<>>])
          /\ UNCHANGED tgt
    /\ UNCHANGED <<read, clientVars, wires>>

-----------------------------------------------------------------------------
\* Server: forwardTargetToClient

Forward(o) ==
    /\ obj[o].stage = "forward" /\ obj[o].conn = "open" /\ read[o] < MaxDown
    /\ read' = [read EXCEPT ![o] = @ + 1]
    /\ SendDownlink(<<[t |-> "data", o |-> o, n |-> read[o] + 1]>>)
    /\ UNCHANGED <<conns, obj, tgt, clientVars, up, cliUp, srvUp>>

\* Read fails: the target has closed, or unregisterConn has.  The deferred
\* calls run last in, first out: unregisterConn, then the notice.
ForwardEnds(o) ==
    /\ obj[o].stage = "forward"
    /\ UnregisterConn(At(o, "bye"))
    /\ UNCHANGED <<read, tgt, clientVars, wires>>

SendBye(o) ==
    /\ obj[o].stage = "bye"
    /\ obj' = At(o, "done")
    /\ SendDownlink(<<[t |-> "close"]>>)
    /\ UNCHANGED <<conns, read, tgt, clientVars, up, cliUp, srvUp>>

-----------------------------------------------------------------------------
\* A channel fails: each side notices by itself, stops reading and writing
\* there, and cleanupChannel ends the connections that use it.

CleanupClient(ch) ==
    /\ cliUp[ch] /\ MayFail(ch)
    /\ cliUp' = [cliUp EXCEPT ![ch] = FALSE]
    /\ down' = [down EXCEPT ![ch] = <<>>]
    /\ IF ch \in {st.uplink, st.downlink} THEN Unregister ELSE UNCHANGED <<st, sink>>
    /\ UNCHANGED <<dial, app, wrote, got, serverVars, up, srvUp>>

CleanupServer(ch) ==
    /\ srvUp[ch] /\ MayFail(ch) /\ obj[ch].stage # "announce"
    /\ srvUp' = [srvUp EXCEPT ![ch] = FALSE]
    /\ up' = [up EXCEPT ![ch] = <<>>]
    /\ IF conns # NoCh /\ ch \in {conns, obj[conns].downlink}
       THEN UnregisterConn(obj) ELSE UNCHANGED <<conns, obj>>
    /\ UNCHANGED <<read, tgt, clientVars, down, cliUp>>

-----------------------------------------------------------------------------
ClientReads(ch) ==
    \/ HandleSelectUplink(ch) \/ HandleConnStatus(ch)
    \/ HandleData(ch) \/ HandleClose(ch)

ServerReads(ch) ==
    \/ HandleTCPConnect(ch) \/ HandleTCPData(ch)
    \/ HandleSelectDownlink(ch) \/ HandleTCPClose(ch)

ConnectTarget(o) ==
    \/ ConnectCheck(o) \/ ConnectFails(o) \/ ForgetFailed(o) \/ Connected(o)
    \/ ReportOK(o) \/ Flush(o)

Next ==
    \/ Dial \/ DialLookup \/ DialConnected \/ DialTimeout
    \/ Write \/ CloseWrite \/ Close
    \/ \E ch \in Channels :
          \/ ClientReads(ch) \/ CleanupClient(ch)
          \/ ServerReads(ch) \/ Announce(ch) \/ CleanupServer(ch)
          \/ ConnectTarget(ch)
          \/ Forward(ch) \/ ForwardEnds(ch) \/ SendBye(ch)

Spec == Init /\ [][Next]_vars

\* The goroutines run, every frame is delivered while its channel is open, a
\* dial ends, the deadline on a broken channel makes both ends notice, and a
\* read of a connection closed locally fails.  The application need not write
\* or close, and the target need not send or close.
FairSpec ==
    /\ Spec
    /\ WF_vars(DialLookup) /\ WF_vars(DialConnected \/ DialTimeout)
    /\ \A ch \in Channels :
          /\ WF_vars(ClientReads(ch)) /\ WF_vars(ServerReads(ch))
          /\ WF_vars(~srvUp[ch] /\ CleanupClient(ch))
          /\ WF_vars(~cliUp[ch] /\ CleanupServer(ch))
          /\ WF_vars(Announce(ch)) /\ WF_vars(ConnectTarget(ch))
          /\ WF_vars(obj[ch].conn = "closed" /\ ForwardEnds(ch))
          /\ WF_vars(SendBye(ch))

-----------------------------------------------------------------------------
\* Properties

\* The states the server has made for the connection.
Dialled == {o \in Channels : obj[o].stage # "none"}

\* The two ends agree on the downlink: once the server has one for the only state
\* it made, it is the channel the client takes data from or, when it is a pair's
\* and the client has chosen none yet, the only one data will come from.
\* Otherwise the client would drop every payload (selectDownlink and
\* handleSelectDownlink, over the race of the channels).
RouteAgreement ==
    \A o \in Channels : LET d == obj[o].downlink IN
        Dialled = {o} /\ d # NoCh =>
            \/ st.downlink = d
            \/ st.downlink = NoCh /\ Pair # NoPair /\ d = Pair.down

\* No target is given a payload twice, whatever was broadcast; and while the
\* client has the connection registered and the target was dialled once, the
\* target has the first payloads the application wrote, in the order it wrote
\* them (handleTCPData takes them from the uplink only; connectTarget writes the
\* kept ones).  A late copy of the request that dials again gets the rest.
UplinkOnce ==
    \A o \in Channels : \A i, j \in 1..Len(tgt[o]) :
        /\ i # j => tgt[o][i] # tgt[o][j]
        /\ st.reg /\ Dialled = {o} => tgt[o][i] = i

\* The targets besides which another one was dialled.
Redialled == {o \in Channels : Dialled \ {o} # {}}

Downlink == INSTANCE ByteStream
            WITH Streams <- Channels, produced <- read, delivered <- got, broken <- Redialled

\* Of each target connection the stream receives the payloads in order and without
\* duplicates, although a payload travels on every channel until a downlink is
\* chosen, and it receives a prefix unless a late copy of the request dialled
\* again (forwardTargetToClient to handleChannel).
DownlinkStream == Downlink!Spec

\* Not kept, with three channels: the stream receives a prefix in any case.  A dial
\* that fails after its connection was removed deletes the ID of the next one
\* (handler.go:109), whose payloads are lost until a third copy registers the ID
\* and are sent on from there.
WholeStream == \A o \in Channels : \A i \in 1..Len(got[o]) : got[o][i] = i

\* What the server has read from a target reaches the stream, unless the
\* connection ends at the client or a channel fails: no choice of routes the two
\* ends can make leaves the client deaf (sendDownlink to handleChannel's
\* getDownlink check).
Delivered ==
    \A o \in Channels : \A n \in 1..MaxDown :
        read[o] >= n ~> Len(got[o]) >= n \/ ~st.reg \/ Failed # {}

\* When the application closes the stream, the server's connection to the
\* target is closed as well (pipeStream.Close to unregisterConn).
ClosePropagates ==
    app = "closed" ~> \A o \in Channels : obj[o].conn # "open"

\* handler.go:42: the first copy to arrive takes the connection and the others
\* are dropped, so one connect request dials the target at most once.
\* Not kept: a copy that arrives after the connection was removed dials again.
SingleDial ==
    Cardinality({o \in Dialled : obj[o].stage \notin {"announce", "check"}}) <= 1

\* handler.go:341: when the target ends the connection, the client is told, so
\* that no connection stays half open.  Not kept: the deferred unregisterConn runs
\* first, and sendDownlink finds no state to send the close by.
TargetCloseReaches ==
    \A o \in Channels :
        obj[o].stage = "bye" /\ app = "writing" ~> ~st.reg \/ app # "writing"

\* server_pool_test.go:508-512: payloads that arrive before the target is
\* connected are kept in the order they arrived in, so that the target gets
\* them in the order the application wrote them.  Not kept: connectTarget lets
\* later payloads pass before it writes the ones it kept.
UplinkInOrder ==
    \A o \in Channels : \A i, j \in 1..Len(tgt[o]) : i < j => tgt[o][i] < tgt[o][j]

\* proxy_dialer.go:96-99: after CloseWrite the stream still receives, until the
\* server sends MsgTCPClose too, so that the reader does not block for ever
\* without an end of file.  Not kept: the server ends the connection silently.
HalfCloseEnds == app = "half" ~> (~sink \/ app = "closed")

=============================================================================
