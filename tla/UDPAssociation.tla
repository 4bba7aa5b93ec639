--------------------------- MODULE UDPAssociation ---------------------------
(***************************************************************************)
(* One UDP association, both ends of it: the client's channel object       *)
(* (proxy_dialer.go poolUDPChannel) with its entry in the pool (pool.go),  *)
(* and the server's socket and forwarder (handler.go).  The first datagram *)
(* starts the race of the channels; datagrams are broadcast until the      *)
(* uplink is known.  Datagrams may be lost at either end, which is what    *)
(* UDP promises; their addresses are left out, and so are the filters of   *)
(* Send, which drop a datagram before anything else happens.               *)
(*                                                                         *)
(* An association is stopped through a sync.Once by the application, or by *)
(* the goroutine of a channel, which reads frames and, when the channel    *)
(* fails, cleans up.  Server states are named by the channel whose request *)
(* created them, which is their uplink.  The client's handler of           *)
(* MsgUDPClose is left out: the server never sends one.                    *)
(***************************************************************************)
EXTENDS ChannelWires

VARIABLES
    \* client
    st,             \* clientConnState: [reg, sink, uplink, downlink]
    raceOn,
    done,           \* the channel c.done is closed
    once,           \* c.once: "free", the goroutine inside, or "over"
    pc,             \* where each goroutine is
    sent,           \* datagrams sent by the application
    got,            \* responses queued for the application
    \* server
    conns,          \* the state registered under the connection's ID
    sock,           \* the socket of each state
    dlink,          \* its downlink
    reader,         \* where each channel's reader is in handleUDPConnect
    fwd,            \* its forwardUDPToClient is running
    replied,        \* responses of the target so far
    tgt             \* datagrams written to the target

udpClient == <<st, raceOn, done, once, pc, sent, got>>
udpServer == <<conns, sock, dlink, reader, fwd, replied, tgt>>
udpVars == <<udpClient, udpServer, wires>>

\* Send runs in "sender", Close in "app"; each channel has its own goroutine.
Goroutines == Channels \cup {"sender", "app"}

UdpTypeOK ==
    /\ st \in [reg : BOOLEAN, sink : BOOLEAN,
               uplink : Channels \cup {NoCh}, downlink : Channels \cup {NoCh}]
    /\ {raceOn, done} \subseteq BOOLEAN
    /\ once \in Goroutines \cup {"free", "over"}
    /\ pc \in [Goroutines -> {"idle", "race", "route", "unregister", "stop", "cleanup",
                              "inside", "stuck"}]
    /\ sent \in 0..MaxUp
    /\ got \in Seq(Channels \X (1..MaxDown))
    /\ conns \in Channels \cup {NoCh}
    /\ sock \in [Channels -> {"none", "open", "closed"}]
    /\ dlink \in [Channels -> Channels \cup {NoCh}]
    /\ reader \in [Channels -> {"idle", "socket", "store", "announce"}]
    /\ fwd \in [Channels -> BOOLEAN]
    /\ replied \in [Channels -> 0..MaxDown]
    /\ tgt \in [Channels -> Seq(1..MaxUp)]

\* DialUDP has registered the association.
UdpInit ==
    /\ WiresInit
    /\ st = [reg |-> TRUE, sink |-> TRUE, uplink |-> NoCh, downlink |-> NoCh]
    /\ raceOn = FALSE /\ done = FALSE /\ once = "free"
    /\ pc = [g \in Goroutines |-> "idle"]
    /\ sent = 0 /\ got = <<>>
    /\ conns = NoCh
    /\ sock = [ch \in Channels |-> "none"]
    /\ dlink = [ch \in Channels |-> NoCh]
    /\ reader = [ch \in Channels |-> "idle"]
    /\ fwd = [ch \in Channels |-> FALSE]
    /\ replied = [ch \in Channels |-> 0]
    /\ tgt = [ch \in Channels |-> <<>>]

-----------------------------------------------------------------------------
\* Client: Send

\* Send looks at c.done, and at raceOn.
Send ==
    /\ pc["sender"] = "idle" /\ ~done /\ sent < MaxUp
    /\ raceOn' = TRUE
    /\ pc' = [pc EXCEPT !["sender"] = IF raceOn THEN "route" ELSE "race"]
    /\ UNCHANGED <<st, done, once, sent, got, udpServer, wires>>

\* StartUDPRace makes a new state when there is none, without a sink; when no
\* channel takes the request the state is unregistered.
StartUDPRace ==
    /\ pc["sender"] = "race"
    /\ st' = [reg |-> TRUE, sink |-> st.reg /\ st.sink, uplink |-> NoCh, downlink |-> NoCh]
    /\ up' = Put(up, OpenAt(cliUp), <<[t |-> "connect"]>>)
    /\ pc' = [pc EXCEPT !["sender"] = IF OpenAt(cliUp) = {} THEN "unregister" ELSE "route"]
    /\ UNCHANGED <<raceOn, done, once, sent, got, udpServer, down, cliUp, srvUp>>

\* The datagram goes out on the uplink, or on every channel.
Route ==
    /\ pc["sender"] = "route"
    /\ sent' = sent + 1
    /\ LET known == st.reg /\ st.uplink # NoCh
           S == IF known THEN {st.uplink} \cap OpenAt(cliUp) ELSE OpenAt(cliUp)
       IN  up' = Put(up, S, <<[t |-> "data", n |-> sent']>>)
    /\ pc' = [pc EXCEPT !["sender"] = "idle"]
    /\ UNCHANGED <<st, raceOn, done, once, got, udpServer, down, cliUp, srvUp>>

-----------------------------------------------------------------------------
\* Client: stop, and Unregister, which call each other

Close ==
    /\ pc["app"] = "idle" /\ once # "over"
    /\ pc' = [pc EXCEPT !["app"] = "stop"]
    /\ UNCHANGED <<st, raceOn, done, once, sent, got, udpServer, wires>>

\* stop enters its sync.Once: it closes c.done and tells the server, if the uplink
\* is known.  A goroutine that finds the Once over returns; cleanupChannel goes on
\* to Unregister.
Stop(g) ==
    /\ pc[g] \in {"stop", "cleanup"}
    /\ \/ /\ once = "free" /\ once' = g /\ done' = TRUE
          /\ up' = IF st.reg /\ st.uplink # NoCh
                   THEN Put(up, {st.uplink} \cap OpenAt(cliUp), <<[t |-> "close"]>>) ELSE up
          /\ pc' = [pc EXCEPT ![g] = "inside"]
       \/ /\ once = "over"
          /\ pc' = [pc EXCEPT ![g] = IF @ = "cleanup" THEN "unregister" ELSE "idle"]
          /\ UNCHANGED <<once, done, up>>
    /\ UNCHANGED <<st, raceOn, sent, got, udpServer, down, cliUp, srvUp>>

\* Unregister, called inside the Once: it removes the state and closes its sink,
\* which is this association, so stop is called again and waits for itself.
UnregisterInside(g) ==
    /\ pc[g] = "inside"
    /\ st' = [st EXCEPT !.reg = FALSE]
    /\ IF st.reg /\ st.sink
       THEN pc' = [pc EXCEPT ![g] = "stuck"] /\ UNCHANGED once
       ELSE pc' = [pc EXCEPT ![g] = "idle"] /\ once' = "over"
    /\ UNCHANGED <<raceOn, done, sent, got, udpServer, wires>>

\* Unregister, called from outside.
Unregister(g) ==
    /\ pc[g] = "unregister"
    /\ st' = [st EXCEPT !.reg = FALSE]
    /\ pc' = [pc EXCEPT ![g] = IF st.reg /\ st.sink THEN "stop" ELSE "idle"]
    /\ UNCHANGED <<raceOn, done, once, sent, got, udpServer, wires>>

-----------------------------------------------------------------------------
\* Client: handleChannel

Received(ch, type) ==
    /\ cliUp[ch] /\ pc[ch] = "idle" /\ down[ch] # <<>> /\ Head(down[ch]).t = type
    /\ down' = [down EXCEPT ![ch] = Tail(@)]

\* MsgSelectUplink: noteUplink, selectDownlink, and the choice is reported on the
\* uplink that the frame names.
HandleSelectUplink(ch) ==
    /\ Received(ch, "selectUplink")
    /\ LET u == Head(down[ch]).ch
           won == st.reg /\ st.downlink = NoCh
       IN  /\ st' = IF st.reg THEN [st EXCEPT !.uplink = IF @ = NoCh THEN u ELSE @,
                                              !.downlink = IF won THEN ch ELSE @] ELSE st
           /\ up' = IF won /\ cliUp[u] THEN Put(up, {u}, <<[t |-> "selectDownlink", ch |-> ch]>>)
                    ELSE up
    /\ UNCHANGED <<raceOn, done, once, pc, sent, got, udpServer, cliUp, srvUp>>

\* Faulty form: responses are taken from every channel.
HandleResponseAny(ch) ==
    /\ Received(ch, "data")
    /\ got' = IF st.reg /\ st.sink THEN Append(got, Head(down[ch]).n) ELSE got
    /\ UNCHANGED <<st, raceOn, done, once, pc, sent, up, udpServer, cliUp, srvUp>>

\* MsgUDPData: only the downlink counts.  A response may choose it; that choice is
\* reported on its own channel.  handleUDPResponse drops what finds the queue full,
\* or the association done.
HandleResponse(ch) ==
    /\ Received(ch, "data")
    /\ LET won == st.reg /\ st.downlink = NoCh
           taken == won \/ (st.reg /\ st.downlink = ch)
       IN  /\ st' = [st EXCEPT !.downlink = IF won THEN ch ELSE @]
           /\ up' = IF won THEN Put(up, {ch}, <<[t |-> "selectDownlink", ch |-> ch]>>) ELSE up
           /\ \/ taken /\ st.sink /\ got' = Append(got, Head(down[ch]).n)
              \/ UNCHANGED got
    /\ UNCHANGED <<raceOn, done, once, pc, sent, udpServer, cliUp, srvUp>>

\* MsgConnStatus with an error.
HandleError(ch) ==
    /\ Received(ch, "err")
    /\ pc' = [pc EXCEPT ![ch] = "unregister"]
    /\ UNCHANGED <<st, raceOn, done, once, sent, got, up, udpServer, cliUp, srvUp>>

\* The channel fails at the client; cleanupChannel ends what uses it.
CleanupClient(ch) ==
    /\ cliUp[ch] /\ pc[ch] = "idle" /\ MayFail(ch)
    /\ cliUp' = [cliUp EXCEPT ![ch] = FALSE]
    /\ down' = [down EXCEPT ![ch] = <<>>]
    /\ pc' = [pc EXCEPT ![ch] = IF ~st.reg \/ ch \notin {st.uplink, st.downlink} THEN "idle"
                                ELSE IF st.sink THEN "cleanup" ELSE "unregister"]
    /\ UNCHANGED <<st, raceOn, done, once, sent, got, up, udpServer, srvUp>>

-----------------------------------------------------------------------------
\* Server

\* sendDownlink: to the downlink of the registered state, or to every channel.
SendDownlink(m) ==
    LET S == IF conns = NoCh THEN {}
             ELSE IF dlink[conns] = NoCh THEN OpenAt(srvUp)
             ELSE {dlink[conns]} \cap OpenAt(srvUp)
    IN  down' = Put(down, S, <<m>>)

\* The next frame of a channel whose reader is not in handleUDPConnect.
Arrived(ch, type) ==
    /\ srvUp[ch] /\ reader[ch] = "idle" /\ up[ch] # <<>> /\ Head(up[ch]).t = type
    /\ up' = [up EXCEPT ![ch] = Tail(@)]

At(ch, where) == [reader EXCEPT ![ch] = where]

\* unregisterConn, of the state that is registered, whichever it is.
UnregisterConn ==
    /\ conns' = NoCh
    /\ sock' = [o \in Channels |-> IF o = conns THEN "closed" ELSE sock[o]]

\* handleUDPConnect: a first look at the table,
HandleUDPConnect(ch) ==
    /\ Arrived(ch, "connect")
    /\ reader' = At(ch, IF conns = NoCh THEN "socket" ELSE "idle")
    /\ UNCHANGED <<conns, sock, dlink, fwd, replied, tgt, udpClient, down, cliUp, srvUp>>

\* a socket without the lock, or an error, which is sent in the name of the state
\* that another copy may have registered meanwhile,
ListenUDP(ch) ==
    /\ reader[ch] = "socket"
    /\ \/ /\ sock' = [sock EXCEPT ![ch] = "open"]
          /\ reader' = At(ch, "store") /\ UNCHANGED down
       \/ /\ SendDownlink([t |-> "err"])
          /\ reader' = At(ch, "idle") /\ UNCHANGED sock
    /\ UNCHANGED <<conns, dlink, fwd, replied, tgt, udpClient, up, cliUp, srvUp>>

\* Faulty form: no second look.
StoreStateBlind(ch) ==
    /\ reader[ch] = "store"
    /\ conns' = ch /\ reader' = At(ch, "announce") /\ UNCHANGED sock
    /\ UNCHANGED <<dlink, fwd, replied, tgt, udpClient, wires>>

\* a second look: the state is stored, or the socket closed again,
StoreState(ch) ==
    /\ reader[ch] = "store"
    /\ IF conns = NoCh
       THEN conns' = ch /\ reader' = At(ch, "announce") /\ UNCHANGED sock
       ELSE /\ sock' = [sock EXCEPT ![ch] = "closed"]
            /\ reader' = At(ch, "idle") /\ UNCHANGED conns
    /\ UNCHANGED <<dlink, fwd, replied, tgt, udpClient, wires>>

\* and the uplink is announced and the forwarder started.
AnnounceUplink(ch) ==
    /\ reader[ch] = "announce"
    /\ SendDownlink([t |-> "selectUplink", ch |-> ch])
    /\ fwd' = [fwd EXCEPT ![ch] = TRUE]
    /\ reader' = At(ch, "idle")
    /\ UNCHANGED <<conns, sock, dlink, replied, tgt, udpClient, up, cliUp, srvUp>>

\* handleUDPData: from the uplink only, and if the address resolves.
HandleDatagram(ch) ==
    /\ Arrived(ch, "data")
    /\ \/ conns = ch /\ tgt' = [tgt EXCEPT ![ch] = Append(@, Head(up[ch]).n)]
       \/ UNCHANGED tgt
    /\ UNCHANGED <<conns, sock, dlink, reader, fwd, replied, udpClient, down, cliUp, srvUp>>

\* Faulty form: the channel that carried the choice is taken for the choice.
HandleSelectDownlinkCarrier(ch) ==
    /\ Arrived(ch, "selectDownlink")
    /\ dlink' = IF conns = ch /\ dlink[ch] = NoCh THEN [dlink EXCEPT ![ch] = ch] ELSE dlink
    /\ UNCHANGED <<conns, sock, reader, fwd, replied, tgt, udpClient, down, cliUp, srvUp>>

\* handleSelectDownlink: from the uplink, for an open channel, once.
HandleSelectDownlink(ch) ==
    /\ Arrived(ch, "selectDownlink")
    /\ LET d == Head(up[ch]).ch
       IN  dlink' = IF conns = ch /\ srvUp[d] /\ dlink[ch] = NoCh
                    THEN [dlink EXCEPT ![ch] = d] ELSE dlink
    /\ UNCHANGED <<conns, sock, reader, fwd, replied, tgt, udpClient, down, cliUp, srvUp>>

HandleUDPClose(ch) ==
    /\ Arrived(ch, "close")
    /\ UnregisterConn
    /\ UNCHANGED <<dlink, reader, fwd, replied, tgt, udpClient, down, cliUp, srvUp>>

\* forwardUDPToClient: a response of the target.
ForwardUDP(o) ==
    /\ fwd[o] /\ sock[o] = "open" /\ replied[o] < MaxDown
    /\ replied' = [replied EXCEPT ![o] = @ + 1]
    /\ SendDownlink([t |-> "data", n |-> <<o, replied'[o]>>])
    /\ UNCHANGED <<conns, sock, dlink, reader, fwd, tgt, udpClient, up, cliUp, srvUp>>

\* Its read fails, because the socket is closed or at the deadline (udpReadTimeout),
\* and it unregisters the connection's ID.
ForwardUDPEnds(o) ==
    /\ fwd[o]
    /\ fwd' = [fwd EXCEPT ![o] = FALSE]
    /\ UnregisterConn
    /\ UNCHANGED <<dlink, reader, replied, tgt, udpClient, wires>>

\* The channel fails at the server; its reader may be in handleUDPConnect.
CleanupServer(ch) ==
    /\ srvUp[ch] /\ MayFail(ch)
    /\ srvUp' = [srvUp EXCEPT ![ch] = FALSE]
    /\ up' = [up EXCEPT ![ch] = <<>>]
    /\ IF conns # NoCh /\ ch \in {conns, dlink[conns]} THEN UnregisterConn
       ELSE UNCHANGED <<conns, sock>>
    /\ UNCHANGED <<dlink, reader, fwd, replied, tgt, udpClient, down, cliUp>>

-----------------------------------------------------------------------------
ClientSide(ch) ==
    \/ HandleSelectUplink(ch)
    \/ HandleResponse(ch)
    \/ HandleError(ch)
    \/ CleanupClient(ch)

ServerReads(ch) ==
    \/ HandleUDPConnect(ch) \/ ListenUDP(ch) \/ StoreState(ch) \/ AnnounceUplink(ch)
    \/ HandleDatagram(ch) \/ HandleSelectDownlink(ch) \/ HandleUDPClose(ch)

UdpNext ==
    \/ Send \/ StartUDPRace \/ Route \/ Close
    \/ \E g \in Goroutines : Stop(g) \/ UnregisterInside(g) \/ Unregister(g)
    \/ \E ch \in Channels : \/ ClientSide(ch) \/ ServerReads(ch)
                            \/ ForwardUDP(ch) \/ ForwardUDPEnds(ch) \/ CleanupServer(ch)

UdpSpec == UdpInit /\ [][UdpNext]_udpVars

-----------------------------------------------------------------------------
\* No socket is lost between the copies of a request: an open one belongs to the
\* registered state, which has or is about to get the forwarder whose read deadline
\* ends it, or to a reader that is about to store it or to close it.
SocketsHeld ==
    \A o \in Channels :
        sock[o] = "open" => \/ reader[o] = "store"
                            \/ conns = o /\ (reader[o] = "announce" \/ fwd[o])

\* Datagrams are broadcast before the routes are known, and yet none is written to
\* the target twice by one socket, and no response reaches the application twice.
DatagramsOnce ==
    /\ \A o \in Channels : \A i, j \in DOMAIN tgt[o] : tgt[o][i] = tgt[o][j] => i = j
    /\ \A i, j \in DOMAIN got : got[i] = got[j] => i = j

\* The two ends agree on the downlink: whichever of its sockets the server keeps, and
\* whatever report of the client reached it, a downlink it goes by is the client's.
UdpRoutes == \A o \in Channels : dlink[o] # NoCh => dlink[o] = st.downlink

\* Not kept: stopping an association ends (pool_test.go:143 expects Unregister "to
\* return promptly for UDP association").  stop calls Unregister inside its Once,
\* and Unregister calls stop.  A channel that cleans up is then never dialled again.
StopReturns == \A g \in Goroutines : pc[g] # "stuck"

\* Not kept: a stopped association leaves no state behind.  A Send that has passed
\* the check of c.done starts the race, which makes the state anew.
NoStateLeft == done /\ (\A g \in Goroutines : pc[g] \in {"idle", "stuck"}) => ~st.reg

=============================================================================
