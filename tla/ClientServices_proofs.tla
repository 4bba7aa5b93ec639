----------------------- MODULE ClientServices_proofs ------------------------
(***************************************************************************)
(* What uses the channels: UDP associations (UDPAssociation), the          *)
(* listeners of reverse mode (ReverseListeners), the framing of messages   *)
(* (Codec), and the loops that dial the channels (DialLoop).               *)
(*                                                                         *)
(* SocketsHeld, DatagramsOnce and UdpRoutes hold for any channels and      *)
(* bounds: no socket of the server is lost between the copies of a request *)
(* and the forwarders, no datagram is delivered twice, and the two ends    *)
(* agree on the downlink. ListenersReclaimed holds for any channels,       *)
(* listeners and limits, RoundTrip for any widths of the fields and any    *)
(* lengths of the parts, RetryPace and LoadsExact for any channels, nodes  *)
(* and limits.                                                             *)
(***************************************************************************)
EXTENDS UDPAssociation, ReverseListeners, Codec, DialLoop, TLAPS

-----------------------------------------------------------------------------
\* UDP associations

\* What the proof needs to know of the server's variables.
ServerTables ==
    /\ conns \in Channels \cup {NoCh}
    /\ sock \in [Channels -> {"none", "open", "closed"}]
    /\ reader \in [Channels -> {"idle", "socket", "store", "announce"}]
    /\ fwd \in [Channels -> BOOLEAN]

UdpIInv == ServerTables /\ SocketsHeld

\* The variables that SocketsHeld depends on.
socketVars == <<conns, sock, reader, fwd>>

\* After DialUDP the server has no socket.
LEMMA UdpInitial == UdpInit => UdpIInv
BY Zenon DEF UdpInit, UdpIInv, ServerTables, SocketsHeld

\* unregisterConn closes the socket of the state it removes, and no other: what is open
\* after it is in the hands of a reader that has yet to store it.
LEMMA UnregisterKeeps ==
    ASSUME UdpIInv, UnregisterConn
    PROVE  /\ conns' = NoCh
           /\ sock' \in [Channels -> {"none", "open", "closed"}]
           /\ \A o \in Channels : sock'[o] = "open" => reader[o] = "store"
BY Zenon DEF UdpIInv, ServerTables, SocketsHeld, UnregisterConn

\* The client's steps, the datagrams and the choice of a downlink leave the sockets alone.
LEMMA SocketsUntouched == UdpIInv /\ UNCHANGED socketVars => UdpIInv'
BY Zenon DEF UdpIInv, ServerTables, SocketsHeld, socketVars

\* The client has no hand on the server's variables.
LEMMA ClientStep ==
    ASSUME UNCHANGED udpServer
    PROVE  UNCHANGED socketVars
BY Zenon DEF udpServer, socketVars

\* Each step of handleUDPConnect, of a close, of a forwarder and of a cleanup keeps the
\* invariant.
LEMMA ServerStep ==
    ASSUME UdpIInv, NEW ch \in Channels,
           \/ ServerReads(ch) \/ ForwardUDP(ch) \/ ForwardUDPEnds(ch) \/ CleanupServer(ch)
    PROVE  UdpIInv'
<1>1. CASE HandleUDPConnect(ch)
      <2>1. /\ reader[ch] = "idle" /\ UNCHANGED <<conns, sock, fwd>>
            /\ reader' = [reader EXCEPT ![ch] = IF conns = NoCh THEN "socket" ELSE "idle"]
            BY <1>1, Zenon DEF HandleUDPConnect, Arrived, At
      <2>2. QED
            BY <2>1, Zenon DEF UdpIInv, ServerTables, SocketsHeld
<1>2. CASE ListenUDP(ch)
      <2>1. /\ reader[ch] = "socket" /\ UNCHANGED <<conns, fwd>>
            /\ \/ /\ sock' = [sock EXCEPT ![ch] = "open"]
                  /\ reader' = [reader EXCEPT ![ch] = "store"]
               \/ /\ UNCHANGED sock
                  /\ reader' = [reader EXCEPT ![ch] = "idle"]
            BY <1>2, Zenon DEF ListenUDP, At
      <2>2. QED
            BY <2>1, Zenon DEF UdpIInv, ServerTables, SocketsHeld
<1>3. CASE StoreState(ch)
      <2>1. CASE conns = NoCh
            <3>1. /\ conns' = ch /\ UNCHANGED <<sock, fwd>>
                  /\ reader' = [reader EXCEPT ![ch] = "announce"]
                  BY <1>3, <2>1, Zenon DEF StoreState, At
            <3>2. QED
                  BY <2>1, <3>1, WiresAssumption, Zenon DEF UdpIInv, ServerTables, SocketsHeld
      <2>2. CASE conns # NoCh
            <3>1. /\ sock' = [sock EXCEPT ![ch] = "closed"] /\ UNCHANGED <<conns, fwd>>
                  /\ reader' = [reader EXCEPT ![ch] = "idle"]
                  BY <1>3, <2>2, Zenon DEF StoreState, At
            <3>2. QED
                  BY <3>1, Zenon DEF UdpIInv, ServerTables, SocketsHeld
      <2>3. QED
            BY <2>1, <2>2, Zenon
<1>4. CASE AnnounceUplink(ch)
      <2>1. /\ reader[ch] = "announce" /\ UNCHANGED <<conns, sock>>
            /\ fwd' = [fwd EXCEPT ![ch] = TRUE]
            /\ reader' = [reader EXCEPT ![ch] = "idle"]
            BY <1>4, Zenon DEF AnnounceUplink, At
      <2>2. QED
            BY <2>1, Zenon DEF UdpIInv, ServerTables, SocketsHeld
<1>5. CASE HandleDatagram(ch) \/ HandleSelectDownlink(ch) \/ ForwardUDP(ch)
      <2>1. UNCHANGED socketVars
            BY <1>5, Zenon DEF HandleDatagram, HandleSelectDownlink, ForwardUDP, socketVars
      <2>2. QED
            BY <2>1, SocketsUntouched, Zenon
<1>6. CASE HandleUDPClose(ch)
      <2>1. UnregisterConn /\ UNCHANGED <<reader, fwd>>
            BY <1>6, Zenon DEF HandleUDPClose
      <2>2. QED
            BY <2>1, UnregisterKeeps, Zenon DEF UdpIInv, ServerTables, SocketsHeld
<1>7. CASE ForwardUDPEnds(ch)
      <2>1. UnregisterConn /\ UNCHANGED reader /\ fwd' = [fwd EXCEPT ![ch] = FALSE]
            BY <1>7, Zenon DEF ForwardUDPEnds
      <2>2. QED
            BY <2>1, UnregisterKeeps, Zenon DEF UdpIInv, ServerTables, SocketsHeld
<1>8. CASE CleanupServer(ch)
      <2>1. UNCHANGED <<reader, fwd>> /\ (UnregisterConn \/ UNCHANGED <<conns, sock>>)
            BY <1>8, Zenon DEF CleanupServer
      <2>2. CASE UnregisterConn
            BY <2>1, <2>2, UnregisterKeeps, Zenon DEF UdpIInv, ServerTables, SocketsHeld
      <2>3. CASE UNCHANGED <<conns, sock>>
            BY <2>1, <2>3, SocketsUntouched, Zenon DEF socketVars
      <2>4. QED
            BY <2>1, <2>2, <2>3, Zenon
<1>9. QED
      BY <1>1, <1>2, <1>3, <1>4, <1>5, <1>6, <1>7, <1>8, Zenon DEF ServerReads

\* Every step, of either end, keeps the invariant.
LEMMA SocketStep == UdpIInv /\ [UdpNext]_udpVars => UdpIInv'
<1> SUFFICES ASSUME UdpIInv, [UdpNext]_udpVars PROVE UdpIInv'
    BY Zenon
<1>1. CASE Send \/ StartUDPRace \/ Route \/ Close
      <2>1. UNCHANGED udpServer
            BY <1>1, Zenon DEF Send, StartUDPRace, Route, Close
      <2>2. QED
            BY <2>1, ClientStep, SocketsUntouched, Zenon
<1>2. ASSUME NEW g \in Goroutines, Stop(g) \/ UnregisterInside(g) \/ Unregister(g)
      PROVE  UdpIInv'
      <2>1. UNCHANGED udpServer
            BY <1>2, Zenon DEF Stop, UnregisterInside, Unregister
      <2>2. QED
            BY <2>1, ClientStep, SocketsUntouched, Zenon
<1>3. ASSUME NEW ch \in Channels, ClientSide(ch)
      PROVE  UdpIInv'
      <2>1. UNCHANGED udpServer
            BY <1>3, Zenon DEF ClientSide, HandleSelectUplink, HandleResponse, HandleError,
                        CleanupClient
      <2>2. QED
            BY <2>1, ClientStep, SocketsUntouched, Zenon
<1>4. ASSUME NEW ch \in Channels,
             \/ ServerReads(ch) \/ ForwardUDP(ch)
             \/ ForwardUDPEnds(ch) \/ CleanupServer(ch)
      PROVE  UdpIInv'
      BY <1>4, ServerStep, Zenon
<1>5. CASE UNCHANGED udpVars
      BY <1>5, ClientStep, SocketsUntouched, Zenon DEF udpVars
<1>6. QED
      BY <1>1, <1>2, <1>3, <1>4, <1>5, Zenon DEF UdpNext

\* Sockets are opened outside the lock by every copy of a UDP request, and closed by
\* ID: whatever the copies, closes, forwarders and failures, an open socket belongs to
\* the registered state and its forwarder, or to the reader that opened it.
THEOREM SocketsAreHeld == UdpSpec => []SocketsHeld
<1>1. UdpIInv => SocketsHeld
      BY Zenon DEF UdpIInv
<1>2. QED
      BY UdpInitial, SocketStep, <1>1, PTL DEF UdpSpec

-----------------------------------------------------------------------------
\* Datagrams on a channel and beyond it

IsData(f) == f.t = "data"

\* Of the datagrams in U, each is at most once among the frames s of a channel and
\* those delivered from it, d.
Once(s, d, U) ==
    /\ \A i \in 1..Len(d) : d[i] \in U
    /\ \A i, j \in 1..Len(d) : d[i] = d[j] => i = j
    /\ \A i \in 1..Len(s) : IsData(s[i]) =>
          s[i].n \in U /\ \A j \in 1..Len(d) : d[j] # s[i].n
    /\ \A i, j \in 1..Len(s) : IsData(s[i]) /\ IsData(s[j]) /\ s[i].n = s[j].n => i = j

\* A frame is taken from the channel, and its datagram delivered or dropped.
LEMMA OnceTaken ==
    ASSUME NEW S, NEW s \in Seq(S), s # <<>>, NEW D, NEW d \in Seq(D), NEW U, Once(s, d, U)
    PROVE  /\ Once(Tail(s), d, U)
           /\ IsData(Head(s)) /\ Head(s).n \in D => Once(Tail(s), Append(d, Head(s).n), U)
<1>1. /\ Len(Tail(s)) \in Nat /\ Len(d) \in Nat /\ Head(s) = s[1] /\ 1 \in 1..Len(s)
      /\ \A i \in 1..Len(Tail(s)) : i + 1 \in 1..Len(s) /\ Tail(s)[i] = s[i + 1] /\ i + 1 # 1
      OBVIOUS
<1>2. Once(Tail(s), d, U)
  <2> DEFINE t == Tail(s)
  <2>0. \A i \in 1..Len(t) : i + 1 \in 1..Len(s) /\ t[i] = s[i + 1]
        BY <1>1, Zenon
  <2> HIDE DEF t
  <2>1. \A i \in 1..Len(t) : IsData(t[i]) =>
            t[i].n \in U /\ \A j \in 1..Len(d) : d[j] # t[i].n
        BY <2>0, Zenon DEF Once
  <2>2. ASSUME NEW i \in 1..Len(t), NEW j \in 1..Len(t),
               IsData(t[i]), IsData(t[j]), t[i].n = t[j].n
        PROVE  i = j
    <3>1. i + 1 = j + 1
          BY <2>0, <2>2, Zenon DEF Once
    <3>2. QED
          BY <3>1
  <2>3. QED
        BY <2>1, <2>2, Zenon DEF Once, t
<1>3. ASSUME IsData(Head(s)), Head(s).n \in D
      PROVE  Once(Tail(s), Append(d, Head(s).n), U)
  <2> DEFINE x == Head(s).n
             e == Append(d, x)
  <2>1. /\ Len(e) = Len(d) + 1 /\ e[Len(d) + 1] = x
        /\ \A i \in 1..Len(d) : e[i] = d[i]
        BY <1>3
  <2>2. x \in U /\ \A j \in 1..Len(d) : d[j] # x
        BY <1>1, <1>3 DEF Once
  <2>3. \A i \in 1..Len(Tail(s)) : IsData(Tail(s)[i]) => Tail(s)[i].n # x
        BY <1>1, <1>3, Zenon DEF Once
  <2> HIDE DEF x, e
  <2>4. \A i \in 1..Len(e) : i = Len(d) + 1 \/ i \in 1..Len(d)
        BY <1>1, <2>1
  <2>5. \A i \in 1..Len(e) : e[i] \in U
        BY <2>1, <2>2, <2>4, Zenon DEF Once
  <2>6. \A i, j \in 1..Len(e) : e[i] = e[j] => i = j
        BY <2>1, <2>2, <2>4 DEF Once
  <2>7. \A i \in 1..Len(Tail(s)) : IsData(Tail(s)[i]) =>
            Tail(s)[i].n \in U /\ \A j \in 1..Len(e) : e[j] # Tail(s)[i].n
        BY <1>2, <2>1, <2>3, <2>4, Zenon DEF Once
  <2>8. QED
        BY <1>2, <2>5, <2>6, <2>7, Zenon DEF Once, e, x
<1>4. QED
      BY <1>2, <1>3, Zenon

\* A frame is put on the channel; its datagram, if it is one, is new.
LEMMA OncePut ==
    ASSUME NEW S, NEW s \in Seq(S), NEW f \in S, NEW D, NEW d \in Seq(D), NEW U, NEW V,
           Once(s, d, U), U \subseteq V, IsData(f) => f.n \in V \ U
    PROVE  Once(s \o <<f>>, d, V)
<1> DEFINE e == s \o <<f>>
<1>1. /\ Len(e) = Len(s) + 1 /\ e[Len(s) + 1] = f /\ Len(s) \in Nat
      /\ \A i \in 1..Len(s) : e[i] = s[i]
      OBVIOUS
<1> HIDE DEF e
<1>2. \A i \in 1..Len(e) : i = Len(s) + 1 \/ i \in 1..Len(s)
      BY <1>1
<1>3. \A i \in 1..Len(e) : IsData(e[i]) =>
          e[i].n \in V /\ \A j \in 1..Len(d) : d[j] # e[i].n
      BY <1>1, <1>2, Zenon DEF Once
<1>4. \A i, j \in 1..Len(e) : IsData(e[i]) /\ IsData(e[j]) /\ e[i].n = e[j].n => i = j
      BY <1>1, <1>2 DEF Once
<1>5. QED
      BY <1>3, <1>4, Zenon DEF Once, e

\* Time passes, or the channel fails and its frames are lost.
LEMMA OnceLater ==
    ASSUME NEW s, NEW d, NEW U, NEW V, Once(s, d, U), U \subseteq V
    PROVE  Once(s, d, V) /\ Once(<<>>, d, V)
BY DEF Once

-----------------------------------------------------------------------------
\* Datagrams of the association

UpFrames == [t : {"connect", "close"}] \cup [t : {"data"}, n : Nat]
            \cup [t : {"selectDownlink"}, ch : Channels]
DownFrames == [t : {"err"}] \cup [t : {"selectUplink"}, ch : Channels]
              \cup [t : {"data"}, n : Channels \X Nat]

DataTypes ==
    /\ up \in [Channels -> Seq(UpFrames)] /\ down \in [Channels -> Seq(DownFrames)]
    /\ sent \in Nat /\ replied \in [Channels -> Nat]
    /\ tgt \in [Channels -> Seq(Nat)] /\ got \in Seq(Channels \X Nat)
    /\ st \in [reg : BOOLEAN, sink : BOOLEAN,
               uplink : Channels \cup {NoCh}, downlink : Channels \cup {NoCh}]
    /\ DOMAIN pc = Goroutines

\* Until StartUDPRace, which makes the client's state anew, the server is idle and
\* nothing is on its way.
Early == ~raceOn \/ pc["sender"] = "race"

Untouched ==
    /\ pc["sender"] = "race" => raceOn
    /\ Early =>
             /\ pc["sender"] # "route" /\ st.uplink = NoCh /\ conns = NoCh
             /\ \A ch \in Channels : /\ up[ch] = <<>> /\ down[ch] = <<>>
                                     /\ reader[ch] = "idle" /\ ~fwd[ch]
             /\ got = <<>>

\* The datagrams sent, and the responses of the targets, so far.
Sent == 1..sent
Replies == {x \in Channels \X Nat : x[2] \in 1..replied[x[1]]}

\* Datagrams towards each target.
OnceUp == \A ch \in Channels : Once(up[ch], tgt[ch], Sent)

\* Responses: all that were delivered came from the one downlink.
OnceDown ==
    /\ Once(<<>>, got, Replies)
    /\ \A ch \in Channels : Once(down[ch], IF st.downlink = ch THEN got ELSE <<>>, Replies)
    /\ st.downlink = NoCh => got = <<>>

DataIInv == UdpIInv /\ DataTypes /\ Untouched /\ OnceUp /\ OnceDown

\* DialUDP has sent nothing.
LEMMA DataInitial == UdpInit => DataIInv
<1> SUFFICES ASSUME UdpInit PROVE DataIInv
    BY Zenon
<1> USE WiresAssumption DEF UdpInit, WiresInit
<1>1. DataTypes
      BY DEF DataTypes
<1>2. Untouched
      BY Zenon DEF Untouched, Goroutines
<1>3. OnceUp /\ OnceDown
      BY DEF OnceUp, OnceDown, Once
<1>4. QED
      BY <1>1, <1>2, <1>3, UdpInitial, Zenon DEF DataIInv

\* Frames put on channels keep the channels sequences of frames.
LEMMA PutType ==
    ASSUME NEW F, NEW w \in [Channels -> Seq(F)], NEW S, NEW f \in F
    PROVE  Put(w, S, <<f>>) \in [Channels -> Seq(F)]
<1>1. \A s \in Seq(F) : s \o <<f>> \in Seq(F)
      OBVIOUS
<1>2. QED
      BY <1>1, Zenon DEF Put

\* Frames put on channels by the client: the datagram of Route, or others.
LEMMA UpPut ==
    ASSUME DataIInv, NEW S, NEW f \in UpFrames,
           up' = Put(up, S, <<f>>), tgt' = tgt,
           IF IsData(f) THEN sent' = sent + 1 /\ f.n = sent + 1 ELSE sent' = sent
    PROVE  OnceUp' /\ up' \in [Channels -> Seq(UpFrames)]
<1>1. sent \in Nat /\ up \in [Channels -> Seq(UpFrames)] /\ tgt \in [Channels -> Seq(Nat)]
      BY Zenon DEF DataIInv, DataTypes
<1>2. Sent \subseteq Sent' /\ (IsData(f) => f.n \in Sent' \ Sent)
      BY <1>1 DEF Sent
<1>3. ASSUME NEW ch \in Channels PROVE Once(up[ch], tgt[ch], Sent)'
  <2>1. up'[ch] = up[ch] \o <<f>> \/ up'[ch] = up[ch]
        BY Zenon DEF Put
  <2>2. Once(up[ch], tgt[ch], Sent) /\ up[ch] \in Seq(UpFrames) /\ tgt[ch] \in Seq(Nat)
        BY <1>1, Zenon DEF DataIInv, OnceUp
  <2>3. Once(up[ch] \o <<f>>, tgt[ch], Sent')
        BY <1>2, <2>2, OncePut, Zenon
  <2>4. Once(up[ch], tgt[ch], Sent')
        BY <1>2, <2>2, OnceLater, Zenon
  <2>5. Once(up'[ch], tgt'[ch], Sent')
        BY <2>1, <2>3, <2>4, Zenon
  <2>6. QED
        BY <2>5, Zenon DEF Once, IsData
<1>4. up' \in [Channels -> Seq(UpFrames)]
      BY <1>1, PutType, Zenon
<1>5. QED
      BY <1>3, <1>4, Zenon DEF OnceUp

\* A frame taken by a reader of the server, and handleUDPData.
LEMMA UpTaken ==
    ASSUME DataIInv, NEW ch \in Channels, up[ch] # <<>>,
           up' = [up EXCEPT ![ch] = Tail(@)], sent' = sent,
           \/ tgt' = tgt
           \/ IsData(Head(up[ch])) /\ tgt' = [tgt EXCEPT ![ch] = Append(@, Head(up[ch]).n)]
    PROVE  /\ OnceUp' /\ up' \in [Channels -> Seq(UpFrames)]
           /\ tgt' \in [Channels -> Seq(Nat)]
<1> DEFINE x == Head(up[ch]).n
<1>1. /\ up \in [Channels -> Seq(UpFrames)] /\ tgt \in [Channels -> Seq(Nat)]
      /\ up[ch] \in Seq(UpFrames) /\ tgt[ch] \in Seq(Nat)
      BY Zenon DEF DataIInv, DataTypes
<1>2. Tail(up[ch]) \in Seq(UpFrames) /\ Head(up[ch]) \in UpFrames
      BY <1>1
<1>3. IsData(Head(up[ch])) => x \in Nat
      BY <1>2, Zenon DEF UpFrames, IsData
<1>4. IsData(Head(up[ch])) => Append(tgt[ch], x) \in Seq(Nat)
      BY <1>1, <1>3
<1>5. /\ Once(Tail(up[ch]), tgt[ch], Sent)
      /\ IsData(Head(up[ch])) => Once(Tail(up[ch]), Append(tgt[ch], x), Sent)
  <2>1. Once(up[ch], tgt[ch], Sent)
        BY Zenon DEF DataIInv, OnceUp
  <2>2. QED
        BY <1>1, <1>3, <2>1, OnceTaken, Zenon
<1>6. Sent' = Sent
      BY Zenon DEF Sent
<1> HIDE DEF x
<1>7. /\ up' \in [Channels -> Seq(UpFrames)] /\ tgt' \in [Channels -> Seq(Nat)]
      BY <1>1, <1>2, <1>4, Zenon DEF x
<1>8. ASSUME NEW c \in Channels PROVE Once(up'[c], tgt'[c], Sent')
  <2>1. CASE c # ch
        BY <1>1, <1>6, <2>1, Zenon DEF DataIInv, OnceUp
  <2>2. CASE c = ch
        BY <1>1, <1>5, <1>6, <2>2, Zenon DEF x
  <2>3. QED
        BY <2>1, <2>2, Zenon
<1>9. QED
      BY <1>7, <1>8, Zenon DEF OnceUp, Once, IsData

\* Frames put on channels by the server: a response, or others.
LEMMA DownPut ==
    ASSUME DataIInv, NEW S, NEW f \in DownFrames,
           down' = Put(down, S, <<f>>), got' = got, st'.downlink = st.downlink,
           IF IsData(f)
           THEN \E o \in Channels : /\ f.n = <<o, replied[o] + 1>>
                                    /\ replied' = [replied EXCEPT ![o] = @ + 1]
           ELSE replied' = replied
    PROVE  OnceDown' /\ down' \in [Channels -> Seq(DownFrames)]
<1>1. /\ replied \in [Channels -> Nat] /\ down \in [Channels -> Seq(DownFrames)]
      /\ got \in Seq(Channels \X Nat)
      BY Zenon DEF DataIInv, DataTypes
<1>2. Replies \subseteq Replies' /\ (IsData(f) => f.n \in Replies' \ Replies)
  <2>1. CASE ~IsData(f)
        BY <2>1, Zenon DEF Replies
  <2>2. ASSUME IsData(f), NEW o \in Channels, f.n = <<o, replied[o] + 1>>,
               replied' = [replied EXCEPT ![o] = @ + 1]
        PROVE  Replies \subseteq Replies' /\ f.n \in Replies' \ Replies
    <3>1. replied[o] \in Nat /\ replied'[o] = replied[o] + 1
          BY <1>1, <2>2, Zenon
    <3>2. \A c \in Channels : c # o => replied'[c] = replied[c]
          BY <1>1, <2>2, Zenon
    <3>3. f.n \in Channels \X Nat /\ f.n[1] = o /\ f.n[2] = replied[o] + 1
          BY <2>2, <3>1
    <3>4. f.n \in Replies' \ Replies
          BY <3>1, <3>3 DEF Replies
    <3>5. ASSUME NEW x \in Channels \X Nat, x[2] \in 1..replied[x[1]]
          PROVE  x[2] \in 1..replied'[x[1]]
      <4>1. x[1] \in Channels /\ x[2] \in Nat
            BY Zenon
      <4>2. CASE x[1] = o
            BY <3>1, <3>5, <4>1, <4>2
      <4>3. CASE x[1] # o
            BY <3>2, <3>5, <4>1, <4>3, Zenon
      <4>4. QED
            BY <4>2, <4>3, Zenon
    <3>6. QED
          BY <3>4, <3>5, Zenon DEF Replies
  <2>3. QED
        BY <2>1, <2>2, Zenon
<1> DEFINE D(c) == IF st.downlink = c THEN got ELSE <<>>
<1>3. ASSUME NEW c \in Channels PROVE Once(down'[c], D(c), Replies')
  <2>1. down'[c] = down[c] \o <<f>> \/ down'[c] = down[c]
        BY Zenon DEF Put
  <2>2. Once(down[c], D(c), Replies)
        BY Zenon DEF DataIInv, OnceDown
  <2>3. down[c] \in Seq(DownFrames) /\ D(c) \in Seq(Channels \X Nat)
        BY <1>1
  <2> HIDE DEF D
  <2>4. Once(down[c] \o <<f>>, D(c), Replies')
        BY <1>2, <2>2, <2>3, OncePut, Zenon
  <2>5. Once(down[c], D(c), Replies')
        BY <1>2, <2>2, OnceLater, Zenon
  <2>6. QED
        BY <2>1, <2>4, <2>5, Zenon
<1>4. Once(<<>>, got, Replies')
  <2>1. Once(<<>>, got, Replies)
        BY Zenon DEF DataIInv, OnceDown
  <2>2. QED
        BY <1>2, <2>1, OnceLater, Zenon
<1>5. down' \in [Channels -> Seq(DownFrames)]
      BY <1>1, PutType, Zenon
<1>6. st'.downlink = NoCh => got' = <<>>
      BY Zenon DEF DataIInv, OnceDown
<1>7. QED
      BY <1>3, <1>4, <1>5, <1>6 DEF OnceDown, Once, IsData

\* A frame taken by the client: it may choose the downlink, and its datagram is
\* delivered only on the downlink.
LEMMA DownTaken ==
    ASSUME DataIInv, NEW ch \in Channels, down[ch] # <<>>,
           down' = [down EXCEPT ![ch] = Tail(@)], replied' = replied,
           st'.downlink = st.downlink \/ (st.downlink = NoCh /\ st'.downlink = ch),
           \/ got' = got
           \/ /\ IsData(Head(down[ch])) /\ st'.downlink = ch
              /\ got' = Append(got, Head(down[ch]).n)
    PROVE  /\ OnceDown' /\ down' \in [Channels -> Seq(DownFrames)]
           /\ got' \in Seq(Channels \X Nat)
<1> USE WiresAssumption
<1> DEFINE x == Head(down[ch]).n
           Ids == Channels \X Nat
<1>1. /\ down \in [Channels -> Seq(DownFrames)] /\ down[ch] \in Seq(DownFrames)
      /\ got \in Seq(Ids)
      BY Zenon DEF DataIInv, DataTypes
<1>2. Tail(down[ch]) \in Seq(DownFrames) /\ Head(down[ch]) \in DownFrames
      BY <1>1
<1>3. IsData(Head(down[ch])) => x \in Ids
      BY <1>2, Zenon DEF DownFrames, IsData
<1> HIDE DEF Ids
<1>4. IsData(Head(down[ch])) => Append(got, x) \in Seq(Ids)
      BY <1>1, <1>3
<1>5. \A c \in Channels : Once(down[c], IF st'.downlink = c THEN got ELSE <<>>, Replies)
  <2>1. CASE st'.downlink = st.downlink
        BY <2>1, Zenon DEF DataIInv, OnceDown
  <2>2. CASE st.downlink = NoCh
        BY <2>2, Zenon DEF DataIInv, OnceDown
  <2>3. QED
        BY <2>1, <2>2, Zenon
<1>6. Replies' = Replies
      BY Zenon DEF Replies
<1>7. down' \in [Channels -> Seq(DownFrames)] /\ got' \in Seq(Ids)
      BY <1>1, <1>2, <1>4, Zenon
<1>8. \A c \in Channels : down'[c] = IF c = ch THEN Tail(down[ch]) ELSE down[c]
      BY <1>1, Zenon
<1>9. CASE got' = got
  <2>1. ASSUME NEW c \in Channels
        PROVE  Once(down'[c], IF st'.downlink = c THEN got ELSE <<>>, Replies)
    <3> DEFINE d == IF st'.downlink = c THEN got ELSE <<>>
    <3>1. Once(down[c], d, Replies) /\ d \in Seq(Ids)
          BY <1>1, <1>5
    <3> HIDE DEF d
    <3>2. CASE c = ch
          BY <1>1, <1>8, <3>1, <3>2, OnceTaken, Zenon DEF d
    <3>3. CASE c # ch
          BY <1>8, <3>1, <3>3, Zenon DEF d
    <3>4. QED
          BY <3>2, <3>3, Zenon
  <2>2. Once(<<>>, got, Replies) /\ (st'.downlink = NoCh => got = <<>>)
        BY Zenon DEF DataIInv, OnceDown
  <2>3. /\ \A c \in Channels : Once(down'[c], IF st'.downlink = c THEN got' ELSE <<>>, Replies')
        /\ Once(<<>>, got', Replies') /\ (st'.downlink = NoCh => got' = <<>>)
        BY <1>6, <1>9, <2>1, <2>2, Zenon
  <2>4. QED
        BY <1>7, <2>3, Zenon DEF OnceDown, Once, IsData, Ids
<1>10. CASE IsData(Head(down[ch])) /\ st'.downlink = ch /\ got' = Append(got, x)
  <2>1. Once(down[ch], got, Replies)
        BY <1>5, <1>10, Zenon
  <2>2. Once(Tail(down[ch]), got', Replies)
        BY <1>1, <1>3, <1>10, <2>1, OnceTaken, Zenon
  <2>3. Once(<<>>, got', Replies)
        BY <2>2, OnceLater, Zenon
  <2>4. ASSUME NEW c \in Channels
        PROVE  Once(down'[c], IF st'.downlink = c THEN got' ELSE <<>>, Replies)
    <3>1. CASE c = ch
          BY <1>8, <1>10, <2>2, <3>1, Zenon
    <3>2. CASE c # ch
          BY <1>5, <1>8, <1>10, <3>2, Zenon
    <3>3. QED
          BY <3>1, <3>2, Zenon
  <2>5. st'.downlink # NoCh
        BY <1>10, Zenon
  <2>6. QED
        BY <1>6, <1>7, <2>3, <2>4, <2>5, ZenonT(30) DEF OnceDown, Once, IsData, Ids
<1>11. QED
       BY <1>9, <1>10, Zenon

\* Nothing new for the server.
LEMMA UpSame ==
    ASSUME DataIInv, up' = up, tgt' = tgt, sent' = sent
    PROVE  OnceUp' /\ up' \in [Channels -> Seq(UpFrames)]
<1>1. up \in [Channels -> Seq(UpFrames)] /\ OnceUp /\ Sent' = Sent
      BY Zenon DEF DataIInv, DataTypes, Sent
<1>2. QED
      BY <1>1, ZenonT(30) DEF OnceUp, Once, IsData

\* The server gives up a channel, and what was on its way there.
LEMMA UpCleared ==
    ASSUME DataIInv, NEW ch \in Channels, up' = [up EXCEPT ![ch] = <<>>],
           tgt' = tgt, sent' = sent
    PROVE  OnceUp' /\ up' \in [Channels -> Seq(UpFrames)]
<1>1. up \in [Channels -> Seq(UpFrames)] /\ Sent' = Sent /\ <<>> \in Seq(UpFrames)
      BY DEF DataIInv, DataTypes, Sent
<1>2. ASSUME NEW c \in Channels PROVE Once(up'[c], tgt[c], Sent)
  <2>1. Once(up[c], tgt[c], Sent)
        BY Zenon DEF DataIInv, OnceUp
  <2>2. Once(<<>>, tgt[c], Sent)
        BY <2>1, OnceLater, Zenon
  <2>3. up'[c] = up[c] \/ up'[c] = <<>>
        BY <1>1, Zenon
  <2>4. QED
        BY <2>1, <2>2, <2>3, Zenon
<1>3. up' \in [Channels -> Seq(UpFrames)]
      BY <1>1, Zenon
<1>4. \A c \in Channels : Once(up'[c], tgt'[c], Sent')
      BY <1>1, <1>2, Zenon
<1>5. QED
      BY <1>3, <1>4, Zenon DEF OnceUp, Once, IsData

\* Nothing new for the client.
LEMMA DownSame ==
    ASSUME DataIInv, down' = down, got' = got, replied' = replied,
           st'.downlink = st.downlink
    PROVE  OnceDown' /\ down' \in [Channels -> Seq(DownFrames)]
<1>1. down \in [Channels -> Seq(DownFrames)] /\ OnceDown /\ Replies' = Replies
      BY Zenon DEF DataIInv, DataTypes, Replies
<1>2. QED
      BY <1>1 DEF OnceDown, Once, IsData

\* The client gives up a channel, and what was on its way there.
LEMMA DownCleared ==
    ASSUME DataIInv, NEW ch \in Channels, down' = [down EXCEPT ![ch] = <<>>],
           got' = got, replied' = replied, st' = st
    PROVE  OnceDown' /\ down' \in [Channels -> Seq(DownFrames)]
<1>1. /\ down \in [Channels -> Seq(DownFrames)] /\ Replies' = Replies
      /\ <<>> \in Seq(DownFrames)
      BY DEF DataIInv, DataTypes, Replies
<1>2. ASSUME NEW c \in Channels
      PROVE  Once(down'[c], IF st.downlink = c THEN got ELSE <<>>, Replies)
  <2>1. Once(down[c], IF st.downlink = c THEN got ELSE <<>>, Replies)
        BY Zenon DEF DataIInv, OnceDown
  <2>2. Once(<<>>, IF st.downlink = c THEN got ELSE <<>>, Replies)
        BY <2>1, OnceLater, Zenon
  <2>3. down'[c] = down[c] \/ down'[c] = <<>>
        BY <1>1, Zenon
  <2>4. QED
        BY <2>1, <2>2, <2>3, Zenon
<1>3. Once(<<>>, got, Replies) /\ (st.downlink = NoCh => got = <<>>)
      BY Zenon DEF DataIInv, OnceDown
<1>4. down' \in [Channels -> Seq(DownFrames)]
      BY <1>1, Zenon
<1>5. \A c \in Channels : Once(down'[c], IF st'.downlink = c THEN got' ELSE <<>>, Replies')
      BY <1>1, <1>2, Zenon
<1>6. Once(<<>>, got', Replies') /\ (st'.downlink = NoCh => got' = <<>>)
      BY <1>1, <1>3, Zenon
<1>7. QED
      BY <1>4, <1>5, <1>6, Zenon DEF OnceDown, Once, IsData

-----------------------------------------------------------------------------
\* The steps

\* The parts of DataIInv that the lemmas above do not give.
OtherTypes ==
    /\ sent \in Nat /\ replied \in [Channels -> Nat]
    /\ tgt \in [Channels -> Seq(Nat)] /\ got \in Seq(Channels \X Nat)
    /\ st \in [reg : BOOLEAN, sink : BOOLEAN,
               uplink : Channels \cup {NoCh}, downlink : Channels \cup {NoCh}]
    /\ DOMAIN pc = Goroutines

Flow == OnceUp /\ OnceDown /\ DataTypes

\* Both directions and the types, put together.
LEMMA Together ==
    ASSUME OnceUp', up' \in [Channels -> Seq(UpFrames)],
           OnceDown', down' \in [Channels -> Seq(DownFrames)], OtherTypes'
    PROVE  Flow'
BY Zenon DEF Flow, OtherTypes, DataTypes

\* The client's own steps: Send, Close and the ways to stop.
LEMMA AppFlow ==
    ASSUME DataIInv,
           \/ Send \/ StartUDPRace \/ Route \/ Close
           \/ \E g \in Goroutines : Stop(g) \/ UnregisterInside(g) \/ Unregister(g)
    PROVE  Flow'
<1>0. OtherTypes
      BY Zenon DEF DataIInv, DataTypes, OtherTypes
<1>1. ASSUME \/ Send \/ Close
             \/ \E g \in Goroutines : UnregisterInside(g) \/ Unregister(g)
      PROVE  Flow'
  <2>1. /\ up' = up /\ down' = down /\ sent' = sent /\ got' = got
        /\ replied' = replied /\ tgt' = tgt
        /\ DOMAIN pc' = DOMAIN pc /\ (st' = st \/ st' = [st EXCEPT !.reg = FALSE])
        BY <1>1, Zenon DEF Send, Close, UnregisterInside, Unregister, udpServer, wires
  <2>2. st' \in [reg : BOOLEAN, sink : BOOLEAN,
                 uplink : Channels \cup {NoCh}, downlink : Channels \cup {NoCh}]
        /\ st'.downlink = st.downlink
        BY <1>0, <2>1, Zenon DEF OtherTypes
  <2>3. OtherTypes'
        BY <1>0, <2>1, <2>2, Zenon DEF OtherTypes
  <2>4. QED
        BY <2>1, <2>2, <2>3, UpSame, DownSame, Together, Zenon
<1>2. CASE StartUDPRace
  <2> DEFINE f == [t |-> "connect"]
  <2>1. /\ up' = Put(up, OpenAt(cliUp), <<f>>) /\ down' = down /\ sent' = sent /\ got' = got
        /\ replied' = replied /\ tgt' = tgt /\ DOMAIN pc' = DOMAIN pc
        /\ st' = [reg |-> TRUE, sink |-> st.reg /\ st.sink, uplink |-> NoCh, downlink |-> NoCh]
        /\ pc["sender"] = "race"
        BY <1>2, Zenon DEF StartUDPRace, udpServer
  <2>2. f \in UpFrames /\ ~IsData(f)
        BY Zenon DEF UpFrames, IsData
  <2> HIDE DEF f
  <2>3. OnceUp' /\ up' \in [Channels -> Seq(UpFrames)]
        BY <2>1, <2>2, UpPut, Zenon
  <2>4. got = <<>>
        BY <2>1, Zenon DEF DataIInv, Untouched, Early
  <2>5. st'.downlink = NoCh /\ OtherTypes'
    <3>1. st.reg \in BOOLEAN /\ st.sink \in BOOLEAN
          BY <1>0, Zenon DEF OtherTypes
    <3>2. st' \in [reg : BOOLEAN, sink : BOOLEAN,
                   uplink : Channels \cup {NoCh}, downlink : Channels \cup {NoCh}]
          BY <2>1, <3>1, Zenon
    <3>3. QED
          BY <1>0, <2>1, <3>2, Zenon DEF OtherTypes
  <2>6. OnceDown' /\ down' \in [Channels -> Seq(DownFrames)]
    <3>1. Replies' = Replies
          BY <2>1, Zenon DEF Replies
    <3>2. \A c \in Channels : Once(down[c], <<>>, Replies)
          BY <2>4, Zenon DEF DataIInv, OnceDown
    <3>3. Once(<<>>, <<>>, Replies)
          BY DEF Once
    <3>4. \A c \in Channels : Once(down'[c], IF st'.downlink = c THEN got' ELSE <<>>, Replies')
          BY <2>1, <2>4, <3>1, <3>2, Zenon
    <3>5. Once(<<>>, got', Replies') /\ (st'.downlink = NoCh => got' = <<>>)
          BY <2>1, <2>4, <3>1, <3>3, Zenon
    <3>6. down' \in [Channels -> Seq(DownFrames)]
          BY <2>1, Zenon DEF DataIInv, DataTypes
    <3>7. QED
          BY <3>4, <3>5, <3>6, Zenon DEF OnceDown, Once, IsData
  <2>7. QED
        BY <2>3, <2>5, <2>6, Together, Zenon
<1>3. CASE Route
  <2> DEFINE f == [t |-> "data", n |-> sent + 1]
  <2>1. /\ \E S : up' = Put(up, S, <<f>>)
        /\ down' = down /\ sent' = sent + 1 /\ got' = got /\ replied' = replied
        /\ tgt' = tgt /\ DOMAIN pc' = DOMAIN pc /\ st' = st
        BY <1>3, Zenon DEF Route, udpServer
  <2>2. f \in UpFrames /\ IsData(f) /\ f.n = sent + 1
        BY <1>0 DEF UpFrames, IsData, OtherTypes
  <2> HIDE DEF f
  <2>3. OnceUp' /\ up' \in [Channels -> Seq(UpFrames)]
        BY <2>1, <2>2, UpPut, Zenon
  <2>4. OtherTypes'
        BY <1>0, <2>1 DEF OtherTypes
  <2>5. QED
        BY <2>1, <2>3, <2>4, DownSame, Together, Zenon
<1>4. ASSUME NEW g \in Goroutines, Stop(g) PROVE Flow'
  <2> DEFINE f == [t |-> "close"]
  <2>1. /\ up' = up \/ \E S : up' = Put(up, S, <<f>>)
        /\ down' = down /\ sent' = sent /\ got' = got /\ replied' = replied
        /\ tgt' = tgt /\ DOMAIN pc' = DOMAIN pc /\ st' = st
        BY <1>4, Zenon DEF Stop, udpServer
  <2>2. f \in UpFrames /\ ~IsData(f)
        BY Zenon DEF UpFrames, IsData
  <2> HIDE DEF f
  <2>3. OnceUp' /\ up' \in [Channels -> Seq(UpFrames)]
        BY <2>1, <2>2, UpPut, UpSame, Zenon
  <2>4. OtherTypes'
        BY <1>0, <2>1, Zenon DEF OtherTypes
  <2>5. QED
        BY <2>1, <2>3, <2>4, DownSame, Together, Zenon
<1>5. QED
      BY <1>1, <1>2, <1>3, <1>4, Zenon

\* The choice of a downlink, as the client reports it.
LEMMA ReportIs ==
    ASSUME NEW ch \in Channels
    PROVE  /\ [t |-> "selectDownlink", ch |-> ch] \in UpFrames
           /\ ~IsData([t |-> "selectDownlink", ch |-> ch])
BY Zenon DEF UpFrames, IsData

\* The client's handlers of a channel's frames, and of its failure.
LEMMA ClientFlow ==
    ASSUME DataIInv, NEW ch \in Channels, ClientSide(ch)
    PROVE  Flow'
<1> USE WiresAssumption
<1> DEFINE States == [reg : BOOLEAN, sink : BOOLEAN,
                      uplink : Channels \cup {NoCh}, downlink : Channels \cup {NoCh}]
<1>0. OtherTypes /\ st \in States /\ down[ch] \in Seq(DownFrames)
      BY Zenon DEF DataIInv, DataTypes, OtherTypes
<1>1. CASE HandleSelectUplink(ch)
  <2> DEFINE u == Head(down[ch]).ch
             f == [t |-> "selectDownlink", ch |-> ch]
  <2>1. /\ down[ch] # <<>> /\ Head(down[ch]).t = "selectUplink"
        /\ down' = [down EXCEPT ![ch] = Tail(@)]
        /\ sent' = sent /\ got' = got /\ replied' = replied /\ tgt' = tgt /\ pc' = pc
        /\ up' = Put(up, {u}, <<f>>) \/ up' = up
        BY <1>1, Zenon DEF HandleSelectUplink, Received, udpServer
  <2>2. st' = IF st.reg THEN [st EXCEPT !.uplink = IF @ = NoCh THEN u ELSE @,
                                !.downlink = IF st.reg /\ st.downlink = NoCh THEN ch ELSE @] ELSE st
        BY <1>1, Zenon DEF HandleSelectUplink
  <2>3. u \in Channels
    <3>1. Head(down[ch]) \in DownFrames
          BY <1>0, <2>1
    <3>2. QED
          BY <2>1, <3>1, Zenon DEF DownFrames
  <2> HIDE DEF u
  <2>4. /\ st' \in States
        /\ st'.downlink = st.downlink \/ (st.downlink = NoCh /\ st'.downlink = ch)
        BY <1>0, <2>2, <2>3, Zenon
  <2>5. f \in UpFrames /\ ~IsData(f)
        BY ReportIs, Zenon
  <2> HIDE DEF f
  <2>6. OnceUp' /\ up' \in [Channels -> Seq(UpFrames)]
        BY <2>1, <2>5, UpPut, UpSame, Zenon
  <2>7. OnceDown' /\ down' \in [Channels -> Seq(DownFrames)]
        BY <2>1, <2>4, DownTaken, Zenon
  <2>8. OtherTypes'
        BY <1>0, <2>1, <2>4, Zenon DEF OtherTypes
  <2>9. QED
        BY <2>6, <2>7, <2>8, Together, Zenon
<1>2. CASE HandleResponse(ch)
  <2> DEFINE f == [t |-> "selectDownlink", ch |-> ch]
  <2>1. /\ down[ch] # <<>> /\ IsData(Head(down[ch]))
        /\ down' = [down EXCEPT ![ch] = Tail(@)]
        /\ sent' = sent /\ replied' = replied /\ tgt' = tgt /\ pc' = pc
        /\ up' = Put(up, {ch}, <<f>>) \/ up' = up
        BY <1>2, Zenon DEF HandleResponse, Received, udpServer, IsData
  <2>2. st' = [st EXCEPT !.downlink = IF st.reg /\ st.downlink = NoCh THEN ch ELSE @]
        BY <1>2, Zenon DEF HandleResponse
  <2>3. \/ got' = got
        \/ /\ (st.reg /\ st.downlink = NoCh) \/ (st.reg /\ st.downlink = ch)
           /\ got' = Append(got, Head(down[ch]).n)
        BY <1>2, Zenon DEF HandleResponse
  <2>4. /\ st' \in States
        /\ st'.downlink = st.downlink \/ (st.downlink = NoCh /\ st'.downlink = ch)
        /\ (st.reg /\ st.downlink = NoCh) \/ (st.reg /\ st.downlink = ch)
           => st'.downlink = ch
        BY <1>0, <2>2, Zenon
  <2>5. f \in UpFrames /\ ~IsData(f)
        BY ReportIs, Zenon
  <2> HIDE DEF f, States
  <2>6. OnceUp' /\ up' \in [Channels -> Seq(UpFrames)]
        BY <2>1, <2>5, UpPut, UpSame, Zenon
  <2>7. /\ OnceDown' /\ down' \in [Channels -> Seq(DownFrames)]
        /\ got' \in Seq(Channels \X Nat)
        BY <2>1, <2>3, <2>4, DownTaken, Zenon
  <2>8. OtherTypes'
        BY <1>0, <2>1, <2>4, <2>7, Zenon DEF OtherTypes, States
  <2>9. QED
        BY <2>6, <2>7, <2>8, Together, Zenon
<1>3. CASE HandleError(ch)
  <2>1. /\ down[ch] # <<>> /\ down' = [down EXCEPT ![ch] = Tail(@)] /\ up' = up
        /\ sent' = sent /\ got' = got /\ replied' = replied /\ tgt' = tgt
        /\ st' = st /\ DOMAIN pc' = DOMAIN pc
        BY <1>3, Zenon DEF HandleError, Received, udpServer
  <2>2. OtherTypes'
        BY <1>0, <2>1, Zenon DEF OtherTypes
  <2>3. OnceDown' /\ down' \in [Channels -> Seq(DownFrames)]
        BY <2>1, DownTaken, Zenon
  <2>4. QED
        BY <2>1, <2>2, <2>3, UpSame, Together, Zenon
<1>4. CASE CleanupClient(ch)
  <2>1. /\ down' = [down EXCEPT ![ch] = <<>>] /\ up' = up
        /\ sent' = sent /\ got' = got /\ replied' = replied /\ tgt' = tgt
        /\ st' = st /\ DOMAIN pc' = DOMAIN pc
        BY <1>4, Zenon DEF CleanupClient, udpServer
  <2>2. OtherTypes'
        BY <1>0, <2>1, Zenon DEF OtherTypes
  <2>3. QED
        BY <2>1, <2>2, UpSame, DownCleared, Together, Zenon
<1>5. QED
      BY <1>1, <1>2, <1>3, <1>4, Zenon DEF ClientSide

\* The server's steps.
LEMMA ServerFlow ==
    ASSUME DataIInv, NEW ch \in Channels,
           \/ ServerReads(ch) \/ ForwardUDP(ch) \/ ForwardUDPEnds(ch) \/ CleanupServer(ch)
    PROVE  Flow'
<1>0. OtherTypes
      BY Zenon DEF DataIInv, DataTypes, OtherTypes
<1>1. sent' = sent /\ got' = got /\ st' = st /\ pc' = pc
      BY Zenon DEF ServerReads, HandleUDPConnect, ListenUDP, StoreState, AnnounceUplink,
             HandleDatagram, HandleSelectDownlink, HandleUDPClose, ForwardUDP,
             ForwardUDPEnds, CleanupServer, udpClient
<1>2. CASE \/ HandleUDPConnect(ch) \/ HandleDatagram(ch) \/ HandleSelectDownlink(ch)
           \/ HandleUDPClose(ch)
  <2>1. /\ up[ch] # <<>> /\ up' = [up EXCEPT ![ch] = Tail(@)] /\ down' = down
        /\ replied' = replied
        /\ \/ tgt' = tgt
           \/ IsData(Head(up[ch])) /\ tgt' = [tgt EXCEPT ![ch] = Append(@, Head(up[ch]).n)]
        BY <1>2, Zenon DEF HandleUDPConnect, HandleDatagram, HandleSelectDownlink, HandleUDPClose,
                    Arrived, IsData
  <2>2. /\ OnceUp' /\ up' \in [Channels -> Seq(UpFrames)]
        /\ tgt' \in [Channels -> Seq(Nat)]
        BY <1>1, <2>1, UpTaken, Zenon
  <2>3. OtherTypes'
        BY <1>0, <1>1, <2>1, <2>2, Zenon DEF OtherTypes
  <2>4. QED
        BY <1>1, <2>1, <2>2, <2>3, DownSame, Together, Zenon
<1>3. CASE StoreState(ch) \/ ForwardUDPEnds(ch)
  <2>1. up' = up /\ down' = down /\ replied' = replied /\ tgt' = tgt
        BY <1>3, Zenon DEF StoreState, ForwardUDPEnds, wires
  <2>2. OtherTypes'
        BY <1>0, <1>1, <2>1, Zenon DEF OtherTypes
  <2>3. QED
        BY <1>1, <2>1, <2>2, UpSame, DownSame, Together, Zenon
<1>4. CASE ListenUDP(ch) \/ AnnounceUplink(ch)
  <2>1. /\ up' = up /\ replied' = replied /\ tgt' = tgt
        /\ \/ down' = down
           \/ \E S : down' = Put(down, S, <<[t |-> "err"]>>)
           \/ \E S : down' = Put(down, S, <<[t |-> "selectUplink", ch |-> ch]>>)
        BY <1>4, Zenon DEF ListenUDP, AnnounceUplink, SendDownlink
  <2>2. [t |-> "err"] \in DownFrames /\ ~IsData([t |-> "err"])
        BY Zenon DEF DownFrames, IsData
  <2>3. /\ [t |-> "selectUplink", ch |-> ch] \in DownFrames
        /\ ~IsData([t |-> "selectUplink", ch |-> ch])
        BY Zenon DEF DownFrames, IsData
  <2>4. OnceDown' /\ down' \in [Channels -> Seq(DownFrames)]
        BY <1>1, <2>1, <2>2, <2>3, DownPut, DownSame, Zenon
  <2>5. OtherTypes'
        BY <1>0, <1>1, <2>1, Zenon DEF OtherTypes
  <2>6. QED
        BY <1>1, <2>1, <2>4, <2>5, UpSame, Together, Zenon
<1>5. CASE ForwardUDP(ch)
  <2> DEFINE f == [t |-> "data", n |-> <<ch, replied[ch] + 1>>]
  <2>1. /\ up' = up /\ replied' = [replied EXCEPT ![ch] = @ + 1] /\ tgt' = tgt
        /\ \E S : down' = Put(down, S, <<[t |-> "data", n |-> <<ch, replied'[ch]>>]>>)
        BY <1>5, Zenon DEF ForwardUDP, SendDownlink
  <2>2. replied \in [Channels -> Nat]
        BY <1>0, Zenon DEF OtherTypes
  <2>3. replied'[ch] = replied[ch] + 1 /\ replied' \in [Channels -> Nat]
        BY <2>1, <2>2
  <2>4. \E S : down' = Put(down, S, <<f>>)
        BY <2>1, <2>3, Zenon
  <2>5. f \in DownFrames /\ IsData(f) /\ f.n = <<ch, replied[ch] + 1>>
        BY <2>2 DEF DownFrames, IsData
  <2> HIDE DEF f
  <2>6. OnceDown' /\ down' \in [Channels -> Seq(DownFrames)]
        BY <1>1, <2>1, <2>4, <2>5, DownPut, Zenon
  <2>7. OtherTypes'
        BY <1>0, <1>1, <2>1, <2>3, Zenon DEF OtherTypes
  <2>8. QED
        BY <1>1, <2>1, <2>6, <2>7, UpSame, Together, Zenon
<1>6. CASE CleanupServer(ch)
  <2>1. /\ up' = [up EXCEPT ![ch] = <<>>] /\ down' = down
        /\ replied' = replied /\ tgt' = tgt
        BY <1>6, Zenon DEF CleanupServer
  <2>2. OtherTypes'
        BY <1>0, <1>1, <2>1, Zenon DEF OtherTypes
  <2>3. QED
        BY <1>1, <2>1, <2>2, UpCleared, DownSame, Together, Zenon
<1>7. QED
      BY <1>2, <1>3, <1>4, <1>5, <1>6, Zenon DEF ServerReads

\* The race starts once, and what is done to the association before leaves nothing on
\* the channels.
LEMMA UntouchedStep ==
    ASSUME DataIInv, UdpNext
    PROVE  Untouched'
<1> USE DEF Untouched, Early
<1>0. /\ Untouched /\ DOMAIN pc = Goroutines /\ "sender" \in Goroutines
      /\ up \in [Channels -> Seq(UpFrames)] /\ down \in [Channels -> Seq(DownFrames)]
      BY Zenon DEF DataIInv, DataTypes, Goroutines
<1>1. CASE Send
      BY <1>0, <1>1, Zenon DEF Send, udpServer, wires
<1>2. CASE StartUDPRace
      BY <1>0, <1>2, Zenon DEF StartUDPRace
<1>3. CASE Route
      BY <1>0, <1>3, Zenon DEF Route
<1>4. CASE Close
      BY <1>0, <1>4, Zenon DEF Close, udpServer, wires
<1>5. ASSUME NEW g \in Goroutines, Stop(g) PROVE Untouched'
  <2>1. /\ UNCHANGED <<st, raceOn, got, conns, reader, fwd, down>>
        /\ Early => up' = up
        BY <1>0, <1>5, Zenon DEF Stop, udpServer
  <2>2. /\ pc'["sender"] = "race" => pc["sender"] = "race"
        /\ pc'["sender"] = "route" => pc["sender"] = "route"
        BY <1>0, <1>5, Zenon DEF Stop
  <2>3. QED
        BY <1>0, <2>1, <2>2, Zenon
<1>6. ASSUME NEW g \in Goroutines, UnregisterInside(g) \/ Unregister(g) PROVE Untouched'
  <2>1. /\ UNCHANGED <<raceOn, got, conns, reader, fwd, down, up>>
        /\ st' = [st EXCEPT !.reg = FALSE]
        BY <1>6, Zenon DEF UnregisterInside, Unregister, udpServer, wires
  <2>2. /\ pc'["sender"] = "race" => pc["sender"] = "race"
        /\ pc'["sender"] = "route" => pc["sender"] = "route"
        BY <1>0, <1>6, Zenon DEF UnregisterInside, Unregister
  <2>3. st'.uplink = st.uplink
        BY <2>1, Zenon DEF DataIInv, DataTypes
  <2>4. QED
        BY <1>0, <2>1, <2>2, <2>3, Zenon
<1>7. ASSUME NEW ch \in Channels, ClientSide(ch) PROVE Untouched'
  <2>1. /\ raceOn' = raceOn /\ UNCHANGED <<conns, reader, fwd>>
        /\ Early => UNCHANGED <<st, got, up>> /\ down' = [down EXCEPT ![ch] = <<>>]
        BY <1>0, <1>7, Zenon DEF ClientSide, HandleSelectUplink, HandleResponse, HandleError,
                          CleanupClient, Received, udpServer
  <2>2. /\ pc'["sender"] = "race" => pc["sender"] = "race"
        /\ pc'["sender"] = "route" => pc["sender"] = "route"
        BY <1>0, <1>7, Zenon DEF ClientSide, HandleSelectUplink, HandleResponse, HandleError,
                          CleanupClient
  <2>3. QED
        BY <1>0, <2>1, <2>2, Zenon
<1>8. ASSUME NEW ch \in Channels,
             \/ ServerReads(ch) \/ ForwardUDP(ch) \/ ForwardUDPEnds(ch) \/ CleanupServer(ch)
      PROVE  Untouched'
  <2>1. UNCHANGED <<st, raceOn, pc, got>>
        BY <1>8, Zenon DEF ServerReads, HandleUDPConnect, ListenUDP, StoreState, AnnounceUplink,
             HandleDatagram, HandleSelectDownlink, HandleUDPClose, ForwardUDP,
             ForwardUDPEnds, CleanupServer, udpClient
  <2>2. Early => /\ UNCHANGED <<conns, reader, fwd, down>>
                 /\ up' = [up EXCEPT ![ch] = <<>>]
        BY <1>0, <1>8, Zenon
           DEF ServerReads, HandleUDPConnect, ListenUDP, StoreState, AnnounceUplink,
               HandleDatagram, HandleSelectDownlink, HandleUDPClose, ForwardUDP,
               ForwardUDPEnds, CleanupServer, Arrived, UnregisterConn
  <2>3. QED
        BY <1>0, <2>1, <2>2, Zenon
<1>9. QED
      BY <1>1, <1>2, <1>3, <1>4, <1>5, <1>6, <1>7, <1>8, Zenon DEF UdpNext

\* Every step keeps DataIInv.
LEMMA DataStep == DataIInv /\ [UdpNext]_udpVars => DataIInv'
<1> SUFFICES ASSUME DataIInv, [UdpNext]_udpVars PROVE DataIInv'
    BY Zenon
<1>1. UdpIInv'
      BY SocketStep, Zenon DEF DataIInv
<1>2. CASE UdpNext
  <2>1. Flow'
        BY <1>2, AppFlow, ClientFlow, ServerFlow, Zenon DEF UdpNext
  <2>2. Untouched'
        BY <1>2, UntouchedStep, Zenon
  <2>3. QED
        BY <1>1, <2>1, <2>2, Zenon DEF Flow, DataIInv
<1>3. CASE UNCHANGED udpVars
  <2>1. DataTypes' /\ Untouched'
        BY <1>3, Zenon DEF DataIInv, DataTypes, Untouched, Early, udpVars, udpClient, udpServer, wires
  <2>2. OnceUp' /\ OnceDown'
        BY <1>3, UpSame, DownSame, Zenon DEF udpVars, udpClient, udpServer, wires
  <2>3. QED
        BY <1>1, <2>1, <2>2, Zenon DEF DataIInv
<1>4. QED
      BY <1>2, <1>3, Zenon

\* DatagramsOnce: although datagrams and responses are broadcast while the routes are
\* open, none is written to the target twice by one socket, and none reaches the
\* application twice.
THEOREM DatagramsAreOnce == UdpSpec => []DatagramsOnce
<1>1. DataIInv => DatagramsOnce
  <2> SUFFICES ASSUME DataIInv PROVE DatagramsOnce
      BY Zenon
  <2>1. ASSUME NEW o \in Channels
        PROVE  \A i, j \in DOMAIN tgt[o] : tgt[o][i] = tgt[o][j] => i = j
    <3>1. DOMAIN tgt[o] = 1..Len(tgt[o])
          BY DEF DataIInv, DataTypes
    <3>2. QED
          BY <3>1, Zenon DEF DataIInv, OnceUp, Once
  <2>2. \A i, j \in DOMAIN got : got[i] = got[j] => i = j
    <3>1. DOMAIN got = 1..Len(got)
          BY DEF DataIInv, DataTypes
    <3>2. QED
          BY <3>1, Zenon DEF DataIInv, OnceDown, Once
  <2>3. QED
        BY <2>1, <2>2, Zenon DEF DatagramsOnce
<1>2. QED
      BY DataInitial, DataStep, <1>1, PTL DEF UdpSpec

-----------------------------------------------------------------------------
\* The downlink

\* Among the frames s of a channel, every report of a downlink names d.
Told(s, d) == \A i \in 1..Len(s) : s[i].t = "selectDownlink" => s[i].ch = d

\* Reports, and the choices the server made from them, are the client's choice, which
\* it has not made before the race.
Chosen ==
    /\ dlink \in [Channels -> Channels \cup {NoCh}]
    /\ UdpRoutes
    /\ \A ch \in Channels : Told(up[ch], st.downlink)
    /\ Early => st.downlink = NoCh

RouteIInv == DataIInv /\ Chosen

\* Frames leave a channel at its head, or all at once when it fails.
LEMMA ToldTaken ==
    ASSUME NEW S, NEW s \in Seq(S), NEW d, Told(s, d)
    PROVE  /\ Told(<<>>, d)
           /\ s # <<>> => Told(Tail(s), d)
           /\ s # <<>> /\ Head(s).t = "selectDownlink" => Head(s).ch = d
BY DEF Told

\* A frame is put on channels: it reports d, or is no report.
LEMMA ToldPut ==
    ASSUME NEW F, NEW w \in [Channels -> Seq(F)], NEW S, NEW f \in F, NEW d,
           \A ch \in Channels : Told(w[ch], d),
           f.t = "selectDownlink" => f.ch = d
    PROVE  \A ch \in Channels : Told(Put(w, S, <<f>>)[ch], d)
<1> SUFFICES ASSUME NEW ch \in Channels PROVE Told(Put(w, S, <<f>>)[ch], d)
    BY Zenon
<1>1. Put(w, S, <<f>>)[ch] = w[ch] \o <<f>> \/ Put(w, S, <<f>>)[ch] = w[ch]
      BY Zenon DEF Put
<1>2. Told(w[ch] \o <<f>>, d)
  <2> DEFINE s == w[ch]
             e == s \o <<f>>
  <2>1. /\ Len(e) = Len(s) + 1 /\ e[Len(s) + 1] = f /\ Len(s) \in Nat
        /\ \A i \in 1..Len(s) : e[i] = s[i]
        OBVIOUS
  <2>2. Told(s, d)
        BY Zenon
  <2> HIDE DEF s, e
  <2>3. \A i \in 1..Len(e) : i = Len(s) + 1 \/ i \in 1..Len(s)
        BY <2>1
  <2>4. Told(e, d)
        BY <2>1, <2>2, <2>3, Zenon DEF Told
  <2>5. QED
        BY <2>4, Zenon DEF e, s
<1>3. QED
      BY <1>1, <1>2, Zenon

\* Until the client has chosen there is no report, and no choice of the server.
LEMMA NoReport ==
    ASSUME RouteIInv, st.downlink = NoCh, NEW d
    PROVE  /\ \A ch \in Channels : dlink[ch] = NoCh
           /\ \A ch \in Channels : Told(up[ch], d)
<1>1. \A ch \in Channels : dlink[ch] = NoCh
      BY Zenon DEF RouteIInv, Chosen, UdpRoutes
<1>2. ASSUME NEW ch \in Channels, NEW i \in 1..Len(up[ch]),
             up[ch][i].t = "selectDownlink"
      PROVE  FALSE
  <2>1. up[ch] \in Seq(UpFrames)
        BY Zenon DEF RouteIInv, DataIInv, DataTypes
  <2>2. up[ch][i] \in UpFrames
        BY <2>1
  <2>3. up[ch][i].ch \in Channels
        BY <1>2, <2>2, Zenon DEF UpFrames
  <2>4. up[ch][i].ch = NoCh
        BY <1>2, Zenon DEF RouteIInv, Chosen, Told
  <2>5. QED
        BY <2>3, <2>4, WiresAssumption, Zenon
<1>3. QED
      BY <1>1, <1>2, Zenon DEF Told

\* The steps of the client.
LEMMA ClientRoutes ==
    ASSUME RouteIInv, UNCHANGED dlink,
           up \in [Channels -> Seq(UpFrames)],
           \/ st'.downlink = st.downlink
           \/ st.downlink = NoCh,
           \/ up' = up
           \/ \E S : \E f \in UpFrames :
                 /\ up' = Put(up, S, <<f>>)
                 /\ f.t = "selectDownlink" => f.ch = st'.downlink,
           Early' => st'.downlink = NoCh
    PROVE  Chosen'
<1> DEFINE d == st'.downlink
<1>1. \A ch \in Channels : Told(up[ch], d)
  <2>1. CASE st'.downlink = st.downlink
        BY <2>1, Zenon DEF RouteIInv, Chosen
  <2>2. CASE st.downlink = NoCh
        BY <2>2, NoReport, Zenon
  <2>3. QED
        BY <2>1, <2>2, Zenon
<1>2. \A ch \in Channels : dlink[ch] # NoCh => dlink[ch] = d
  <2>1. CASE st'.downlink = st.downlink
        BY <2>1, Zenon DEF RouteIInv, Chosen, UdpRoutes
  <2>2. CASE st.downlink = NoCh
        BY <2>2, NoReport, Zenon
  <2>3. QED
        BY <2>1, <2>2, Zenon
<1> HIDE DEF d
<1>3. \A ch \in Channels : Told(up'[ch], d)
  <2>1. ASSUME NEW S, NEW f \in UpFrames, up' = Put(up, S, <<f>>),
               f.t = "selectDownlink" => f.ch = d
        PROVE  \A ch \in Channels : Told(up'[ch], d)
        BY <1>1, <2>1, ToldPut, Zenon
  <2>2. QED
        BY <1>1, <2>1, Zenon DEF d
<1>4. dlink' \in [Channels -> Channels \cup {NoCh}] /\ UdpRoutes'
      BY <1>2, Zenon DEF RouteIInv, Chosen, UdpRoutes, d
<1>5. QED
      BY <1>3, <1>4, Zenon DEF Chosen, Told, d

\* The steps of the server: a frame is taken, and may decide a downlink.
LEMMA ServerRoutes ==
    ASSUME RouteIInv, UNCHANGED <<st, raceOn, pc>>, NEW ch \in Channels,
           up \in [Channels -> Seq(UpFrames)],
           \/ up' = up
           \/ up' = [up EXCEPT ![ch] = <<>>]
           \/ up[ch] # <<>> /\ up' = [up EXCEPT ![ch] = Tail(@)],
           \/ dlink' = dlink
           \/ /\ up[ch] # <<>> /\ Head(up[ch]).t = "selectDownlink"
              /\ dlink' = [dlink EXCEPT ![ch] = Head(up[ch]).ch]
    PROVE  Chosen'
<1>1. /\ Told(<<>>, st.downlink)
      /\ up[ch] # <<>> => Told(Tail(up[ch]), st.downlink)
      /\ up[ch] # <<>> /\ Head(up[ch]).t = "selectDownlink" => Head(up[ch]).ch = st.downlink
  <2>1. up[ch] \in Seq(UpFrames) /\ Told(up[ch], st.downlink)
        BY Zenon DEF RouteIInv, Chosen
  <2>2. QED
        BY <2>1, ToldTaken, Zenon
<1>2. \A c \in Channels : Told(up'[c], st.downlink)
      BY <1>1, Zenon DEF RouteIInv, Chosen
<1>3. dlink' \in [Channels -> Channels \cup {NoCh}]
  <2>1. st.downlink \in Channels \cup {NoCh}
        BY Zenon DEF RouteIInv, DataIInv, DataTypes
  <2>2. QED
        BY <1>1, <2>1, Zenon DEF RouteIInv, Chosen
<1>4. \A c \in Channels : dlink'[c] # NoCh => dlink'[c] = st.downlink
      BY <1>1, Zenon DEF RouteIInv, Chosen, UdpRoutes
<1>5. (Early => st.downlink = NoCh)'
      BY Zenon DEF RouteIInv, Chosen, Early
<1>6. QED
      BY <1>2, <1>3, <1>4, <1>5, Zenon DEF Chosen, UdpRoutes, Told

\* Every step keeps the reports and the choices together.
LEMMA RouteStep == RouteIInv /\ [UdpNext]_udpVars => RouteIInv'
<1> SUFFICES ASSUME RouteIInv, [UdpNext]_udpVars PROVE RouteIInv'
    BY Zenon
<1>0. /\ up \in [Channels -> Seq(UpFrames)] /\ down \in [Channels -> Seq(DownFrames)]
      /\ DOMAIN pc = Goroutines /\ Untouched /\ sent \in Nat
      /\ st \in [reg : BOOLEAN, sink : BOOLEAN,
                 uplink : Channels \cup {NoCh}, downlink : Channels \cup {NoCh}]
      BY Zenon DEF RouteIInv, DataIInv, DataTypes
<1>1. DataIInv'
      BY DataStep, Zenon DEF RouteIInv
<1>2. Early => st.downlink = NoCh
      BY Zenon DEF RouteIInv, Chosen
<1>3. CASE Send \/ Close
  <2>1. UNCHANGED <<up, st, dlink>>
        BY <1>3, Zenon DEF Send, Close, udpServer, wires
  <2>2. Early' => Early
    <3>1. CASE Send
          BY <1>0, <3>1, Zenon DEF Send, Early, Goroutines
    <3>2. CASE Close
          BY <1>0, <3>2, Zenon DEF Close, Early, Goroutines
    <3>3. QED
          BY <1>3, <3>1, <3>2, Zenon
  <2>3. QED
        BY <1>0, <1>1, <1>2, <2>1, <2>2, ClientRoutes, Zenon DEF RouteIInv
<1>4. CASE StartUDPRace
  <2> DEFINE f == [t |-> "connect"]
  <2>1. /\ up' = Put(up, OpenAt(cliUp), <<f>>) /\ dlink' = dlink /\ st'.downlink = NoCh
        /\ Early
        BY <1>4, Zenon DEF StartUDPRace, udpServer, Early
  <2>2. f \in UpFrames /\ f.t # "selectDownlink"
        BY Zenon DEF UpFrames
  <2> HIDE DEF f
  <2>3. Chosen'
        BY <1>0, <1>2, <2>1, <2>2, ClientRoutes, Zenon
  <2>4. QED
        BY <1>1, <2>3, Zenon DEF RouteIInv
<1>5. CASE Route
  <2> DEFINE f == [t |-> "data", n |-> sent + 1]
  <2>1. /\ \E S : up' = Put(up, S, <<f>>)
        /\ UNCHANGED <<st, dlink>> /\ (Early' => Early)
        BY <1>0, <1>5 DEF Route, udpServer, Early
  <2>2. f \in UpFrames /\ f.t # "selectDownlink"
        BY <1>0 DEF UpFrames
  <2> HIDE DEF f
  <2>3. Chosen'
        BY <1>0, <1>2, <2>1, <2>2, ClientRoutes, Zenon
  <2>4. QED
        BY <1>1, <2>3, Zenon DEF RouteIInv
<1>6. ASSUME NEW g \in Goroutines, Stop(g) PROVE RouteIInv'
  <2> DEFINE f == [t |-> "close"]
  <2>1. /\ up' = up \/ \E S : up' = Put(up, S, <<f>>)
        /\ UNCHANGED <<st, dlink, raceOn>>
        BY <1>6, Zenon DEF Stop, udpServer
  <2>2. pc'["sender"] = "race" => pc["sender"] = "race"
        BY <1>0, <1>6, Zenon DEF Stop, Goroutines
  <2>3. f \in UpFrames /\ f.t # "selectDownlink"
        BY Zenon DEF UpFrames
  <2> HIDE DEF f
  <2>4. Early' => Early
        BY <2>1, <2>2, Zenon DEF Early
  <2>5. Chosen'
        BY <1>0, <1>2, <2>1, <2>3, <2>4, ClientRoutes, Zenon
  <2>6. QED
        BY <1>1, <2>5, Zenon DEF RouteIInv
<1>7. ASSUME NEW g \in Goroutines, UnregisterInside(g) \/ Unregister(g) PROVE RouteIInv'
  <2>1. /\ st' = [st EXCEPT !.reg = FALSE] /\ UNCHANGED <<up, dlink, raceOn>>
        BY <1>7, Zenon DEF UnregisterInside, Unregister, udpServer, wires
  <2>2. pc'["sender"] = "race" => pc["sender"] = "race"
        BY <1>0, <1>7, Zenon DEF UnregisterInside, Unregister, Goroutines
  <2>3. st'.downlink = st.downlink
        BY <1>0, <2>1, Zenon
  <2>4. Early' => Early
        BY <2>1, <2>2, Zenon DEF Early
  <2>5. Chosen'
        BY <1>0, <1>2, <2>1, <2>3, <2>4, ClientRoutes, Zenon
  <2>6. QED
        BY <1>1, <2>5, Zenon DEF RouteIInv
<1>8. ASSUME NEW ch \in Channels, ClientSide(ch) PROVE RouteIInv'
  <2> DEFINE f == [t |-> "selectDownlink", ch |-> ch]
  <2>1. /\ UNCHANGED <<dlink, raceOn>>
        /\ \/ up' = up /\ st'.downlink = st.downlink
           \/ up' = up /\ st.downlink = NoCh
           \/ /\ \E S : up' = Put(up, S, <<f>>)
              /\ st.downlink = NoCh /\ st'.downlink = ch
    <3>1. CASE HandleSelectUplink(ch)
          BY <1>0, <3>1, Zenon DEF HandleSelectUplink, udpServer
    <3>2. CASE HandleResponse(ch)
          BY <1>0, <3>2, Zenon DEF HandleResponse, udpServer
    <3>3. CASE HandleError(ch) \/ CleanupClient(ch)
          BY <3>3, Zenon DEF HandleError, CleanupClient, udpServer
    <3>4. QED
          BY <1>8, <3>1, <3>2, <3>3, Zenon DEF ClientSide
  <2>2. Early' => st'.downlink = NoCh
    <3>1. /\ pc'["sender"] = "race" => pc["sender"] = "race"
          BY <1>0, <1>8, ZenonT(30) DEF ClientSide, HandleSelectUplink, HandleResponse, HandleError,
                            CleanupClient, Goroutines
    <3>2. Early' => Early
          BY <2>1, <3>1, Zenon DEF Early
    <3>3. Early => st' = st
          BY <1>0, <1>8, Zenon DEF ClientSide, HandleSelectUplink, HandleResponse, HandleError,
                            CleanupClient, Received, Untouched
    <3>4. QED
          BY <1>2, <3>2, <3>3, Zenon
  <2>3. f \in UpFrames /\ f.ch = ch
        BY Zenon DEF UpFrames
  <2> HIDE DEF f
  <2>4. Chosen'
        BY <1>0, <2>1, <2>2, <2>3, ClientRoutes, Zenon
  <2>5. QED
        BY <1>1, <2>4, Zenon DEF RouteIInv
<1>9. ASSUME NEW ch \in Channels,
             \/ ServerReads(ch) \/ ForwardUDP(ch) \/ ForwardUDPEnds(ch) \/ CleanupServer(ch)
      PROVE  RouteIInv'
  <2>1. UNCHANGED <<st, raceOn, pc>>
        BY <1>9, Zenon DEF ServerReads, HandleUDPConnect, ListenUDP, StoreState, AnnounceUplink,
             HandleDatagram, HandleSelectDownlink, HandleUDPClose, ForwardUDP,
             ForwardUDPEnds, CleanupServer, udpClient
  <2>2. /\ \/ up' = up
           \/ up' = [up EXCEPT ![ch] = <<>>]
           \/ up[ch] # <<>> /\ up' = [up EXCEPT ![ch] = Tail(@)]
        /\ \/ dlink' = dlink
           \/ /\ up[ch] # <<>> /\ Head(up[ch]).t = "selectDownlink"
              /\ dlink' = [dlink EXCEPT ![ch] = Head(up[ch]).ch]
        BY <1>9, Zenon DEF ServerReads, HandleUDPConnect, ListenUDP, StoreState, AnnounceUplink,
             HandleDatagram, HandleSelectDownlink, HandleUDPClose, ForwardUDP,
             ForwardUDPEnds, CleanupServer, Arrived, wires
  <2>3. QED
        BY <1>0, <1>1, <2>1, <2>2, ServerRoutes, Zenon DEF RouteIInv
<1>10. CASE UNCHANGED udpVars
  <2>1. UNCHANGED <<up, st, dlink, raceOn, pc>>
        BY <1>10, Zenon DEF udpVars, udpClient, udpServer, wires
  <2>2. QED
        BY <1>0, <1>1, <1>2, <2>1, ClientRoutes, Zenon DEF RouteIInv, Early
<1>11. QED
       BY <1>3, <1>4, <1>5, <1>6, <1>7, <1>8, <1>9, <1>10, Zenon DEF UdpNext

\* Every copy of a UDP request may make a state of its own at the server, and the client
\* may choose its downlink from an announcement or from a response: whichever socket the
\* server goes by, the downlink it was told of is the one the client listens to.
THEOREM DownlinksAgree == UdpSpec => []UdpRoutes
<1>1. UdpInit => RouteIInv
  <2> SUFFICES ASSUME UdpInit PROVE RouteIInv
      BY Zenon
  <2>1. Chosen
        BY DEF Chosen, UdpInit, WiresInit, UdpRoutes, Told
  <2>2. QED
        BY <2>1, DataInitial, Zenon DEF RouteIInv
<1>2. RouteIInv => UdpRoutes
      BY Zenon DEF RouteIInv, Chosen
<1>3. QED
      BY <1>1, <1>2, RouteStep, PTL DEF UdpSpec

-----------------------------------------------------------------------------
\* Reverse listeners

\* What the proof needs to know of the variables' types.
Counted ==
    /\ leaving \in Nat
    /\ asks \in [ListenChannels -> Seq(SpecSet)]
    /\ handling \in [ListenChannels -> SpecSet \cup {NoSpec}]

\* A reader that is not late has its channel: cleanupChannel makes the others late.
ReadersPresent == \A ch \in ListenChannels : handling[ch] # NoSpec => ch \in present

ListenIInv == Counted /\ ReadersPresent /\ ListenersReclaimed

\* A new server has no listener, and no reader at work.
LEMMA ListenInitial == ListenInit => ListenIInv
BY DEF ListenInit, ListenIInv, Counted, ReadersPresent, ListenersReclaimed

\* One step of either side keeps the invariant.
LEMMA ListenStep == ListenIInv /\ [ListenNext]_listenVars => ListenIInv'
<1> SUFFICES ASSUME ListenIInv, [ListenNext]_listenVars PROVE ListenIInv'
    BY Zenon
<1> USE DEF ListenIInv, Counted, ReadersPresent, ListenersReclaimed
<1>1. CASE CheckReverseRegFatal
      BY <1>1, Zenon DEF CheckReverseRegFatal
<1>2. CASE ShutdownClient
      BY <1>2 DEF ShutdownClient
<1>3. ASSUME NEW ch \in ListenChannels, ReverseOnChannelReady(ch) PROVE ListenIInv'
      BY <1>3, ListenAssumption, Zenon DEF ReverseOnChannelReady
<1>4. ASSUME NEW ch \in ListenChannels, HandleReverseListenResult(ch) PROVE ListenIInv'
      BY <1>4, Zenon DEF HandleReverseListenResult
<1>5. ASSUME NEW ch \in ListenChannels, ClientLoses(ch) PROVE ListenIInv'
      BY <1>5, Zenon DEF ClientLoses
<1>6. ASSUME NEW ch \in ListenChannels, ReadRequest(ch) PROVE ListenIInv'
      <2>1. ch \in present /\ present' = present /\ leaving' = leaving
            BY <1>6, Zenon DEF ReadRequest
      <2>2. handling' = [handling EXCEPT ![ch] = Head(asks[ch])]
            BY <1>6, Zenon DEF ReadRequest
      <2>3. Head(asks[ch]) \in SpecSet /\ Tail(asks[ch]) \in Seq(SpecSet)
            BY <1>6 DEF ReadRequest
      <2>4. QED
            BY <1>6, <2>1, <2>2, <2>3, Zenon DEF ReadRequest
<1>7. ASSUME NEW ch \in ListenChannels, HandleRequest(ch) PROVE ListenIInv'
      BY <1>7, ListenAssumption, Zenon DEF HandleRequest
<1>8. ASSUME NEW ch \in ListenChannels, CleanupChannel(ch) PROVE ListenIInv'
      BY <1>8 DEF CleanupChannel
<1>9. ASSUME NEW r \in late, HandleLateRequest(r) PROVE ListenIInv'
      BY <1>9, Zenon DEF HandleLateRequest
<1>10. CASE UNCHANGED listenVars
      BY <1>10, Zenon DEF listenVars
<1>11. QED
      BY <1>1, <1>2, <1>3, <1>4, <1>5, <1>6, <1>7, <1>8, <1>9, <1>10, Zenon DEF ListenNext

\* cleanupChannel and ShutdownClient: a client that is gone leaves no listener behind,
\* unless a late reader opened one, for any number of channels and returns.
THEOREM ListenersAreReclaimed == ListenSpec => []ListenersReclaimed
<1>1. ListenIInv => ListenersReclaimed
      BY Zenon DEF ListenIInv
<1>2. QED
      BY ListenInitial, ListenStep, <1>1, PTL DEF ListenSpec

-----------------------------------------------------------------------------
\* The codec

Body(m) == CutID(m.id) \o m.meta \o m.payload

\* What is on the wire is a beginning of the encoded frame, with its whole header.
Wired ==
    /\ wire \in [idLen : Nat, metaLen : Nat, payloadLen : Nat, body : Seq(Bytes)]
    /\ Len(wire.body) <= Len(Body(msg))
    /\ \A i \in 1..Len(wire.body) : wire.body[i] = Body(msg)[i]
    /\ cut <=> Len(wire.body) < Len(Body(msg))
    /\ wire.idLen = Len(CutID(msg.id))
    /\ wire.metaLen = Len(msg.meta) % MetaMod
    /\ wire.payloadLen = Len(msg.payload) % PayloadMod

CodecIInv ==
    /\ msg.id \in Seq(Bytes) /\ msg.meta \in Seq(Bytes) /\ msg.payload \in Seq(Bytes)
    /\ msg = [id |-> msg.id, meta |-> msg.meta, payload |-> msg.payload]
    /\ cut \in BOOLEAN
    /\ IF result = "none" THEN ~cut ELSE Wired
    /\ result = "decoded" => LengthValid(wire)
    /\ result = "refused" => ~LengthValid(wire)

\* The ID as it is sent is a sequence of bytes again.
LEMMA CutIDType == \A id \in Seq(Bytes) : CutID(id) \in Seq(Bytes)
<1> SUFFICES ASSUME NEW id \in Seq(Bytes) PROVE CutID(id) \in Seq(Bytes)
    BY Zenon
<1>1. MaxID \in Nat
      BY CodecAssumption, Zenon
<1>2. CASE Len(id) > MaxID
  <2>1. \A i \in 1..MaxID : id[i] \in Bytes
        BY <1>1, <1>2
  <2>2. SubSeq(id, 1, MaxID) \in Seq(Bytes)
        BY <1>1, <2>1
  <2>3. QED
        BY <1>2, <2>2, Zenon DEF CutID
<1>3. QED
      BY <1>2, Zenon DEF CutID

\* The bytes of a frame: the ID, the metadata and the payload, each at its place.
LEMMA BodyParts ==
    ASSUME NEW m, m.id \in Seq(Bytes), m.meta \in Seq(Bytes), m.payload \in Seq(Bytes)
    PROVE  LET a == CutID(m.id)
           IN  /\ a \in Seq(Bytes) /\ Body(m) \in Seq(Bytes)
               /\ Len(Body(m)) = Len(a) + Len(m.meta) + Len(m.payload)
               /\ \A i \in 1..Len(a) : Body(m)[i] = a[i]
               /\ \A i \in 1..Len(m.meta) : Body(m)[Len(a) + i] = m.meta[i]
               /\ \A i \in 1..Len(m.payload) :
                     Body(m)[Len(a) + Len(m.meta) + i] = m.payload[i]
<1> DEFINE a == CutID(m.id)
           b == m.meta
           c == m.payload
<1>1. a \in Seq(Bytes)
      BY CutIDType, Zenon
<1>2. b \in Seq(Bytes) /\ c \in Seq(Bytes) /\ Body(m) = (a \o b) \o c
      BY Zenon DEF Body
<1> HIDE DEF a, b, c
<1>3. /\ a \o b \in Seq(Bytes) /\ Len(a \o b) = Len(a) + Len(b)
      /\ \A i \in 1..Len(a) + Len(b) : (a \o b)[i] = IF i <= Len(a) THEN a[i] ELSE b[i - Len(a)]
      BY <1>1, <1>2
<1>4. /\ Body(m) \in Seq(Bytes) /\ Len(Body(m)) = Len(a) + Len(b) + Len(c)
      /\ \A i \in 1..Len(a) + Len(b) + Len(c) :
            Body(m)[i] = IF i <= Len(a) + Len(b) THEN (a \o b)[i] ELSE c[i - (Len(a) + Len(b))]
      BY <1>2, <1>3
<1>5. Len(a) \in Nat /\ Len(b) \in Nat /\ Len(c) \in Nat
      BY <1>1, <1>2
<1>6. \A i \in 1..Len(a) : Body(m)[i] = a[i]
      BY <1>3, <1>4, <1>5
<1>7. ASSUME NEW i \in 1..Len(b) PROVE Body(m)[Len(a) + i] = b[i]
      BY <1>3, <1>4, <1>5
<1>8. ASSUME NEW i \in 1..Len(c) PROVE Body(m)[Len(a) + Len(b) + i] = c[i]
  <2> DEFINE k == Len(a) + Len(b)
  <2>1. k \in Nat /\ k + i \in 1..Len(a) + Len(b) + Len(c) /\ ~(k + i <= k) /\ (k + i) - k = i
        BY <1>5
  <2>2. Body(m)[k + i] = IF k + i <= k THEN (a \o b)[k + i] ELSE c[(k + i) - k]
        BY <1>4, <2>1, Zenon
  <2> HIDE DEF k
  <2>3. Body(m)[k + i] = c[i]
        BY <2>1, <2>2, Zenon
  <2>4. QED
        BY <2>3, Zenon DEF k
<1>9. QED
      BY <1>1, <1>4, <1>6, <1>7, <1>8, Zenon DEF a, b, c

\* A piece of a sequence that agrees with t throughout is t.
LEMMA PieceIs ==
    ASSUME NEW s \in Seq(Bytes), NEW t \in Seq(Bytes), NEW n \in Nat,
           n + Len(t) <= Len(s), \A i \in 1..Len(t) : s[n + i] = t[i]
    PROVE  SubSeq(s, n + 1, n + Len(t)) = t
<1>1. Len(t) \in Nat /\ n + 1 \in Int /\ n + Len(t) \in Int
      OBVIOUS
<1>2. \A i \in n + 1..n + Len(t) : s[i] \in Bytes
      BY <1>1
<1>3. /\ SubSeq(s, n + 1, n + Len(t)) \in Seq(Bytes)
      /\ Len(SubSeq(s, n + 1, n + Len(t))) =
            IF n + 1 <= n + Len(t) THEN n + Len(t) - (n + 1) + 1 ELSE 0
      /\ \A i \in 1..n + Len(t) - (n + 1) + 1 :
            SubSeq(s, n + 1, n + Len(t))[i] = s[n + 1 + i - 1]
      BY <1>1, <1>2
<1>4. Len(SubSeq(s, n + 1, n + Len(t))) = Len(t)
      BY <1>1, <1>3
<1>5. \A i \in 1..Len(t) : SubSeq(s, n + 1, n + Len(t))[i] = t[i]
      BY <1>1, <1>3
<1>6. QED
      BY <1>3, <1>4, <1>5

\* A sequence of bytes has a length.
LEMMA Length == \A s \in Seq(Bytes) : Len(s) \in Nat
OBVIOUS

\* Sequences with the same bytes at the same places are the same.
LEMMA SameBytes ==
    ASSUME NEW s \in Seq(Bytes), NEW t \in Seq(Bytes), Len(s) = Len(t),
           \A i \in 1..Len(s) : s[i] = t[i]
    PROVE  s = t
OBVIOUS

\* Start: any message of bytes, and nothing on the wire.
LEMMA CodecInitial == CodecInit => CodecIInv
<1> SUFFICES ASSUME CodecInit PROVE CodecIInv
    BY Zenon
<1>1. \A p \in Parts : p \in Seq(Bytes)
  <2>1. ASSUME NEW k \in 0..MaxPart, NEW p \in [1..k -> Bytes] PROVE p \in Seq(Bytes)
    <3>1. k \in Nat
          BY CodecAssumption
    <3>2. QED
          BY <3>1
  <2>2. QED
        BY <2>1, Zenon DEF Parts
<1>2. msg \in [id : Parts, meta : Parts, payload : Parts]
      BY Zenon DEF CodecInit, Messages
<1>3. msg = [id |-> msg.id, meta |-> msg.meta, payload |-> msg.payload]
      BY <1>2, Zenon
<1>4. QED
      BY <1>1, <1>2, <1>3, Zenon DEF CodecInit, CodecIInv

\* EncodeMessage puts the whole frame on the wire, losing a byte of it leaves a
\* beginning, and DecodeMessage looks at its length.
LEMMA CodecStep == CodecIInv /\ [CodecNext]_codecVars => CodecIInv'
<1> SUFFICES ASSUME CodecIInv, [CodecNext]_codecVars PROVE CodecIInv'
    BY Zenon
<1>0. Body(msg) \in Seq(Bytes) /\ CutID(msg.id) \in Seq(Bytes)
      BY BodyParts, Zenon DEF CodecIInv
<1>1. CASE Encode
  <2>1. /\ wire' = EncodeMessage(msg) /\ msg' = msg /\ cut' = cut /\ ~cut
        /\ result' = "sent"
        BY <1>1, Zenon DEF Encode, CodecIInv
  <2>2. /\ Len(CutID(msg.id)) \in Nat
        /\ Len(msg.meta) % MetaMod \in Nat /\ Len(msg.payload) % PayloadMod \in Nat
        BY <1>0, CodecAssumption DEF CodecIInv
  <2>3. /\ wire' = [idLen |-> Len(CutID(msg.id)), metaLen |-> Len(msg.meta) % MetaMod,
                    payloadLen |-> Len(msg.payload) % PayloadMod, body |-> Body(msg)]
        BY <2>1, Zenon DEF EncodeMessage, Body
  <2>4. Len(Body(msg)) \in Nat
        BY <1>0
  <2>5. Wired'
        BY <1>0, <2>1, <2>2, <2>3, <2>4 DEF Wired
  <2>6. QED
        BY <2>1, <2>5, Zenon DEF CodecIInv
<1>2. CASE CutShort
  <2> DEFINE n == Len(wire.body) - 1
             t == SubSeq(wire.body, 1, n)
  <2>1. /\ result = "sent" /\ result' = "sent" /\ msg' = msg /\ cut' = TRUE /\ Wired
        /\ wire' = [wire EXCEPT !.body = t] /\ wire.body # <<>> /\ wire.body \in Seq(Bytes)
        BY <1>2, Zenon DEF CutShort, CodecIInv, Wired
  <2>2. n \in Nat /\ n < Len(wire.body) /\ \A i \in 1..n : wire.body[i] \in Bytes
        BY <2>1
  <2>3. /\ t \in Seq(Bytes) /\ Len(t) = n
        /\ \A i \in 1..n : t[i] = wire.body[i]
    <3>1. /\ t \in Seq(Bytes) /\ Len(t) = IF 1 <= n THEN n - 1 + 1 ELSE 0
          /\ \A i \in 1..n - 1 + 1 : t[i] = wire.body[1 + i - 1]
          BY <2>2
    <3>2. QED
          BY <2>2, <3>1
  <2> HIDE DEF t
  <2>4. /\ wire' \in [idLen : Nat, metaLen : Nat, payloadLen : Nat, body : Seq(Bytes)]
        /\ wire'.body = t /\ wire'.idLen = wire.idLen
        /\ wire'.metaLen = wire.metaLen /\ wire'.payloadLen = wire.payloadLen
        BY <2>1, <2>3, Zenon DEF Wired
  <2>5. Wired'
    <3>1. \A i \in 1..n : t[i] = Body(msg)[i]
          BY <2>1, <2>2, <2>3 DEF Wired
    <3>2. n < Len(Body(msg)) /\ n <= Len(Body(msg))
          BY <1>0, <2>1, <2>2 DEF Wired
    <3> HIDE DEF n
    <3>3. QED
          BY <2>1, <2>3, <2>4, <3>1, <3>2, Zenon DEF Wired
  <2>6. QED
        BY <2>1, <2>5, Zenon DEF CodecIInv
<1>3. CASE Decode
      BY <1>3, Zenon DEF Decode, CodecIInv, Wired, LengthValid, Body, CutID
<1>4. CASE UNCHANGED codecVars
      BY <1>4, Zenon DEF codecVars, CodecIInv, Wired, LengthValid, Body, CutID
<1>5. QED
      BY <1>1, <1>2, <1>3, <1>4, Zenon DEF CodecNext

\* A length that fits its field is written there as it is.
LEMMA Fitting == \A n \in Nat, w \in Nat \ {0} : n < w => n % w = n
OBVIOUS

\* The invariant says that the lengths of a header that fits split the frame where
\* EncodeMessage joined it.
LEMMA Split ==
    ASSUME CodecIInv, Fits
    PROVE  RoundTrip
<1> DEFINE a == CutID(msg.id)
           b == msg.meta
           c == msg.payload
           f == Body(msg)
<1>1. /\ a \in Seq(Bytes) /\ b \in Seq(Bytes) /\ c \in Seq(Bytes) /\ f \in Seq(Bytes)
      /\ Len(f) = Len(a) + Len(b) + Len(c)
      /\ \A i \in 1..Len(a) : f[i] = a[i]
      /\ \A i \in 1..Len(b) : f[Len(a) + i] = b[i]
      /\ \A i \in 1..Len(c) : f[Len(a) + Len(b) + i] = c[i]
      BY BodyParts, Zenon DEF CodecIInv
<1>2. Len(b) % MetaMod = Len(b) /\ Len(c) % PayloadMod = Len(c)
  <2>1. Len(b) \in Nat /\ Len(c) \in Nat /\ MetaMod \in Nat \ {0} /\ PayloadMod \in Nat \ {0}
        BY <1>1, CodecAssumption
  <2>2. Len(b) < MetaMod /\ Len(c) < PayloadMod
        BY Zenon DEF Fits
  <2>3. QED
        BY <2>1, <2>2, Fitting, Zenon
<1>3. ASSUME result \in {"decoded", "refused"}
      PROVE  /\ LengthValid(wire) <=> Len(f) <= Len(wire.body)
             /\ Len(wire.body) <= Len(f) /\ Len(wire.body) \in Nat /\ Len(f) \in Nat
             /\ cut <=> Len(wire.body) < Len(f)
             /\ wire.idLen = Len(a) /\ wire.metaLen = Len(b) /\ wire.payloadLen = Len(c)
             /\ wire.body \in Seq(Bytes)
  <2>1. Wired
        BY <1>3, Zenon DEF CodecIInv
  <2>2. /\ wire.idLen = Len(a) /\ wire.metaLen = Len(b) /\ wire.payloadLen = Len(c)
        /\ wire.body \in Seq(Bytes)
        BY <1>2, <2>1, Zenon DEF Wired
  <2>3. /\ Len(wire.body) <= Len(f) /\ (cut <=> Len(wire.body) < Len(f))
        BY <2>1, Zenon DEF Wired
  <2>4. Len(wire.body) \in Nat /\ Len(f) \in Nat
        BY <1>1, <2>2, Length, Zenon
  <2>5. LengthValid(wire) <=> Len(f) <= Len(wire.body)
        BY <1>1, <2>2, Zenon DEF LengthValid
  <2>6. QED
        BY <2>2, <2>3, <2>4, <2>5, Zenon
<1>4. ASSUME result = "refused" PROVE cut
      BY <1>3, <1>4 DEF CodecIInv
<1>5. ASSUME result = "decoded"
      PROVE  ~cut /\ DecodeMessage(wire) = [msg EXCEPT !.id = CutID(@)]
  <2>1. ~cut /\ Len(wire.body) = Len(f)
        BY <1>3, <1>5 DEF CodecIInv
  <2>2. wire.body = f
    <3>1. \A i \in 1..Len(wire.body) : wire.body[i] = f[i]
          BY <1>5, Zenon DEF CodecIInv, Wired
    <3>2. QED
          BY <1>1, <1>3, <1>5, <2>1, <3>1, SameBytes, Zenon
  <2> HIDE DEF a, b, c, f
  <2>3. Len(a) \in Nat /\ Len(b) \in Nat /\ Len(c) \in Nat
        BY <1>1
  <2>4. SubSeq(f, 1, Len(a)) = a
    <3>1. SubSeq(f, 0 + 1, 0 + Len(a)) = a
      <4>1. 0 \in Nat /\ 0 + Len(a) <= Len(f) /\ \A i \in 1..Len(a) : f[0 + i] = a[i]
            BY <1>1, <2>3
      <4>2. QED
            BY <1>1, <4>1, PieceIs, Zenon
    <3>2. QED
          BY <2>3, <3>1
  <2>5. SubSeq(f, Len(a) + 1, Len(a) + Len(b)) = b
    <3>1. Len(a) + Len(b) <= Len(f)
          BY <1>1, <2>3
    <3>2. QED
          BY <1>1, <2>3, <3>1, PieceIs, Zenon
  <2>6. SubSeq(f, Len(a) + Len(b) + 1, Len(a) + Len(b) + Len(c)) = c
    <3>1. Len(a) + Len(b) \in Nat /\ Len(a) + Len(b) + Len(c) <= Len(f)
          BY <1>1, <2>3
    <3>2. QED
          BY <1>1, <3>1, PieceIs, Zenon
  <2>7. DecodeMessage(wire) = [id |-> a, meta |-> b, payload |-> c]
        BY <1>3, <1>5, <2>2, <2>4, <2>5, <2>6, Zenon DEF DecodeMessage
  <2>8. [msg EXCEPT !.id = CutID(@)] = [id |-> a, meta |-> b, payload |-> c]
        BY DEF CodecIInv, a, b, c
  <2>9. QED
        BY <2>1, <2>7, <2>8, Zenon
<1>6. QED
      BY <1>4, <1>5, Zenon DEF RoundTrip

\* A frame is decoded to the message that was encoded, and a frame that lost bytes is
\* refused, for any widths of the length fields and any lengths that fit them.
THEOREM RoundTrips == CodecSpec => []RoundTrip
<1>1. CodecIInv => RoundTrip
      BY Split, Zenon DEF RoundTrip
<1>2. QED
      BY <1>1, CodecInitial, CodecStep, PTL DEF CodecSpec

-----------------------------------------------------------------------------
\* The dial loops

INSTANCE FiniteSetTheorems

\* The channels that hold node n: the set that LoadsExact counts.
Holders(n) == {ch \in DialChannels :
                 loop[ch].at \in {"serving", "cleanup"} /\ loop[ch].ip = n}

LoopTypes ==
    /\ loop \in [DialChannels -> Loops]
    /\ rushed \in [DialChannels -> Nat]

\* The short waits are bounded by the failures counted since the last connection.
PaceIInv ==
    /\ LoopTypes
    /\ \A ch \in DialChannels : rushed[ch] <= loop[ch].fails
    /\ RetryPace

LoadIInv == load \in [Nodes -> Nat] /\ LoadsExact

\* The limits, one by one, and the values that a reset gives to what they bound.
LEMMA Limits ==
    /\ {MaxRetries, MaxFastRetry, BaseDelay, MaxDelay} \subseteq Nat
    /\ FastRetryAttempts \in Nat /\ 0 < MaxFastRetry
    /\ 0 \in 0..MaxRetries /\ 0 \in 0..FastRetryAttempts /\ 0 \in 0..MaxFastRetry
    /\ {BaseDelay, MaxDelay} \subseteq BaseDelay..MaxDelay
BY DialAssumption

\* Start: no channel has waited, and none holds a node.
LEMMA DialInitial == DialInit => PaceIInv /\ LoadIInv
<1> SUFFICES ASSUME DialInit PROVE PaceIInv /\ LoadIInv
    BY Zenon
<1> USE DialAssumption
<1>1. PaceIInv
      BY DEF DialInit, PaceIInv, LoopTypes, Loops, RetryPace
<1>2. \A n \in Nodes : Holders(n) = {}
      BY DEF DialInit, Holders
<1>3. LoadIInv
      BY <1>2, FS_EmptySet, Zenon DEF DialInit, LoadIInv, LoadsExact, Holders
<1>4. QED
      BY <1>1, <1>3, Zenon

\* A step of one loop, as its effect on that loop's record and short waits.
LEMMA PaceOfOneLoop ==
    ASSUME PaceIInv, NEW ch \in DialChannels, NEW l \in Loops, NEW r \in Nat,
           loop' = [loop EXCEPT ![ch] = l], rushed' = [rushed EXCEPT ![ch] = r],
           r <= l.fails, r < MaxFastRetry, l.slow => l.delay = MaxDelay
    PROVE  PaceIInv'
BY Zenon DEF PaceIInv, LoopTypes, RetryPace

\* Every step of dialAndServe keeps the bound on the short waits.
LEMMA PaceStep == PaceIInv /\ [DialNext]_dialVars => PaceIInv'
<1> SUFFICES ASSUME PaceIInv, [DialNext]_dialVars PROVE PaceIInv'
    BY Zenon
<1>0. ASSUME NEW ch \in DialChannels
      PROVE  /\ loop[ch] \in Loops /\ rushed[ch] \in Nat
             /\ rushed[ch] <= loop[ch].fails /\ rushed[ch] < MaxFastRetry
             /\ loop[ch].slow => loop[ch].delay = MaxDelay
             /\ rushed = [rushed EXCEPT ![ch] = rushed[ch]]
      BY Zenon DEF PaceIInv, LoopTypes, RetryPace
<1>1. CASE CancelContext \/ UNCHANGED dialVars
      BY <1>1, Zenon DEF CancelContext, dialVars, PaceIInv, LoopTypes, RetryPace
<1>2. ASSUME NEW ch \in DialChannels, Attempt(ch) PROVE PaceIInv'
      <2> DEFINE l == loop[ch]
                 slows == l.retries >= MaxRetries /\ ~l.slow
      <2>1. PICK n \in IF l.first THEN {NoNode} ELSE SelectNodeExcluding({l.lastIP, l.ip}) :
                loop' = [loop EXCEPT ![ch] =
                   [l EXCEPT !.at = "dial", !.first = FALSE,
                             !.ip = IF n = NoNode THEN @ ELSE n,
                             !.slow = @ \/ slows,
                             !.retries = IF slows THEN 0 ELSE @,
                             !.delay = IF slows THEN MaxDelay ELSE @]]
            BY <1>2, Zenon DEF Attempt
      <2>2. n \in Nodes \cup {NoNode}
            BY <2>1, Zenon DEF SelectNodeExcluding
      <2> DEFINE m == [l EXCEPT !.at = "dial", !.first = FALSE,
                                !.ip = IF n = NoNode THEN @ ELSE n,
                                !.slow = @ \/ slows,
                                !.retries = IF slows THEN 0 ELSE @,
                                !.delay = IF slows THEN MaxDelay ELSE @]
      <2>3. m \in Loops /\ m.fails = l.fails /\ (m.slow => m.delay = MaxDelay)
            <3>1. /\ l \in Loops /\ (l.slow => l.delay = MaxDelay)
                  /\ (IF n = NoNode THEN l.ip ELSE n) \in Nodes
                  /\ (IF slows THEN 0 ELSE l.retries) \in 0..MaxRetries
                  /\ (IF slows THEN MaxDelay ELSE l.delay) \in BaseDelay..MaxDelay
                  /\ (l.slow \/ slows) \in BOOLEAN
                  BY <1>0, <2>2, Limits, Zenon DEF Loops
            <3> HIDE DEF slows
            <3>2. QED
                  BY <3>1, Zenon DEF Loops
      <2>4. rushed' = [rushed EXCEPT ![ch] = rushed[ch]]
            BY <1>0, <1>2, Zenon DEF Attempt
      <2>5. loop' = [loop EXCEPT ![ch] = m]
            BY <2>1, Zenon
      <2> HIDE DEF m
      <2>6. QED
            BY <1>0, <2>3, <2>4, <2>5, PaceOfOneLoop, Zenon
<1>3. ASSUME NEW ch \in DialChannels, DialFails(ch) PROVE PaceIInv'
      <2> DEFINE l == loop[ch]
                 fails == Least(l.fails + 1, MaxFastRetry)
                 hurry == ~l.slow /\ fails < MaxFastRetry /\ l.fast < FastRetryAttempts
                 slower == Least((l.delay * 3) \div 2, MaxDelay)
                 m == [l EXCEPT !.at = IF hurry THEN "short" ELSE "long",
                                !.retries = Least(@ + 1, MaxRetries), !.fails = fails,
                                !.fast = IF hurry THEN @ + 1 ELSE 0,
                                !.delay = IF hurry THEN @ ELSE slower]
                 r == IF hurry THEN rushed[ch] + 1 ELSE rushed[ch]
      <2>1. loop' = [loop EXCEPT ![ch] = m] /\ rushed' = [rushed EXCEPT ![ch] = r]
            BY <1>3, Zenon DEF DialFails
      <2>2. /\ fails \in 0..MaxFastRetry /\ l.fails <= fails
            /\ hurry => fails = l.fails + 1
            /\ Least(l.retries + 1, MaxRetries) \in 0..MaxRetries
            BY <1>0, Limits DEF Loops, Least
      <2>3. /\ slower \in BaseDelay..MaxDelay
            /\ l.delay = MaxDelay => slower = MaxDelay
            BY <1>0, DialAssumption DEF Loops, Least
      <2>4. m \in Loops /\ m.fails = fails /\ (m.slow => m.delay = MaxDelay)
            <3> HIDE DEF fails, slower
            <3>1. l \in Loops /\ (l.slow => l.delay = MaxDelay)
                  BY <1>0, Zenon
            <3>2. hurry => ~l.slow /\ l.fast + 1 \in 0..FastRetryAttempts
                  BY <3>1, Limits DEF Loops
            <3>3. /\ (IF hurry THEN l.fast + 1 ELSE 0) \in 0..FastRetryAttempts
                  /\ (IF hurry THEN l.delay ELSE slower) \in BaseDelay..MaxDelay
                  /\ l.slow => (IF hurry THEN l.delay ELSE slower) = MaxDelay
                  BY <2>3, <3>1, <3>2, Limits, Zenon DEF Loops
            <3> HIDE DEF hurry
            <3>4. QED
                  BY <2>2, <3>1, <3>3, Zenon DEF Loops
      <2>5. r \in Nat /\ r <= fails /\ r < MaxFastRetry
            <3>1. CASE hurry
                  BY <1>0, <2>2, <3>1, Limits, SMTT(30) DEF Loops
            <3>2. CASE ~hurry
                  BY <1>0, <2>2, <3>2, Limits, SMTT(30) DEF Loops
            <3>3. QED
                  BY <3>1, <3>2, Zenon
      <2> HIDE DEF m, r, fails
      <2>6. QED
            BY <2>1, <2>4, <2>5, PaceOfOneLoop, Zenon
<1>4. ASSUME NEW ch \in DialChannels, DialSucceeds(ch) PROVE PaceIInv'
      <2> DEFINE m == [loop[ch] EXCEPT !.at = "serving", !.lastIP = loop[ch].ip,
                          !.slow = FALSE, !.retries = 0, !.fast = 0, !.fails = 0,
                          !.delay = BaseDelay]
      <2>1. loop' = [loop EXCEPT ![ch] = m] /\ rushed' = [rushed EXCEPT ![ch] = 0]
            BY <1>4, Zenon DEF DialSucceeds
      <2>2. m \in Loops /\ m.fails = 0 /\ ~m.slow
            BY <1>0, Limits, ZenonT(30) DEF Loops
      <2> HIDE DEF m
      <2>3. 0 \in Nat /\ 0 <= m.fails /\ 0 < MaxFastRetry /\ (m.slow => m.delay = MaxDelay)
            BY <2>2, Limits
      <2>4. QED
            BY <2>1, <2>2, <2>3, PaceOfOneLoop, Zenon
<1>5. ASSUME NEW ch \in DialChannels,
             Disconnect(ch) \/ Release(ch) \/ WaitOver(ch) \/ LoopExit(ch)
      PROVE  PaceIInv'
      <2>1. PICK where \in {"cleanup", "pause", "top", "over"} :
                loop' = [loop EXCEPT ![ch] = [loop[ch] EXCEPT !.at = where]]
            BY <1>5, Zenon DEF Disconnect, Release, WaitOver, LoopExit
      <2> DEFINE m == [loop[ch] EXCEPT !.at = where]
      <2>2. m \in Loops /\ m.fails = loop[ch].fails /\ (m.slow => m.delay = MaxDelay)
            BY <1>0, Zenon DEF Loops
      <2>3. rushed' = [rushed EXCEPT ![ch] = rushed[ch]]
            BY <1>0, <1>5, Zenon DEF Disconnect, Release, WaitOver, LoopExit
      <2> HIDE DEF m
      <2>4. QED
            BY <1>0, <2>1, <2>2, <2>3, PaceOfOneLoop, Zenon DEF m
<1>6. QED
      BY <1>1, <1>2, <1>3, <1>4, <1>5, Zenon DEF DialNext

\* The sets that LoadsExact counts are finite.
LEMMA HoldersFinite ==
    ASSUME NEW n
    PROVE  IsFiniteSet(Holders(n)) /\ Cardinality(Holders(n)) \in Nat
BY DialAssumption, FS_Subset, FS_CardinalityType, Zenon DEF Holders

\* LoadsExact in terms of the holders, now and after a step.
LEMMA LoadCounts ==
    /\ LoadIInv <=> /\ load \in [Nodes -> Nat]
                    /\ \A n \in Nodes : load[n] = Cardinality(Holders(n))
    /\ LoadIInv' <=> /\ load' \in [Nodes -> Nat]
                     /\ \A n \in Nodes : load'[n] = Cardinality(Holders(n)')
BY Zenon DEF LoadIInv, LoadsExact, Holders

\* A channel that holds nothing takes node n: one more holder of n, and no change for
\* the others.
LEMMA HolderAdded ==
    ASSUME PaceIInv, LoadIInv, NEW ch \in DialChannels, DialSucceeds(ch)
    PROVE  LoadIInv'
<1>0. PICK n \in Nodes : n = loop[ch].ip
      BY Zenon DEF PaceIInv, LoopTypes, Loops
<1>1. /\ ch \notin Holders(n)
      /\ loop'[ch].at = "serving" /\ loop'[ch].ip = n
      /\ \A o \in DialChannels \ {ch} : loop'[o] = loop[o]
      /\ load' = [load EXCEPT ![n] = @ + 1]
      <2>1. loop \in [DialChannels -> Loops] /\ loop[ch] \in Loops /\ loop[ch].at = "dial"
            BY Zenon DEF PaceIInv, LoopTypes, DialSucceeds
      <2>2. ch \notin Holders(n)
            BY <2>1, Zenon DEF Loops, Holders
      <2>3. /\ loop'[ch] = [loop[ch] EXCEPT !.at = "serving", !.lastIP = n, !.slow = FALSE,
                              !.retries = 0, !.fast = 0, !.fails = 0, !.delay = BaseDelay]
            /\ \A o \in DialChannels \ {ch} : loop'[o] = loop[o]
            /\ load' = [load EXCEPT ![n] = @ + 1]
            BY <1>0, <2>1, Zenon DEF DialSucceeds
      <2>4. loop'[ch].at = "serving" /\ loop'[ch].ip = n
            BY <1>0, <2>1, <2>3, Zenon DEF Loops
      <2>5. QED
            BY <2>2, <2>3, <2>4, Zenon
<1>2. Holders(n)' = Holders(n) \cup {ch}
      BY <1>1, Zenon DEF Holders
<1>3. ASSUME NEW k \in Nodes, k # n PROVE Holders(k)' = Holders(k)
      BY <1>0, <1>1, <1>3 DEF Holders, DialSucceeds
<1>4. Cardinality(Holders(n)') = Cardinality(Holders(n)) + 1
      BY <1>1, <1>2, HoldersFinite, FS_AddElement, Zenon
<1>5. /\ load' \in [Nodes -> Nat] /\ load'[n] = load[n] + 1
      /\ \A k \in Nodes \ {n} : load'[k] = load[k]
      BY <1>1 DEF LoadIInv
<1>6. QED
      BY <1>3, <1>4, <1>5, LoadCounts, Zenon

\* A channel whose connection has been cleaned up gives its node back.
LEMMA HolderRemoved ==
    ASSUME PaceIInv, LoadIInv, NEW ch \in DialChannels, Release(ch)
    PROVE  LoadIInv'
<1>0. PICK n \in Nodes : n = loop[ch].ip
      BY Zenon DEF PaceIInv, LoopTypes, Loops
<1>1. /\ ch \in Holders(n) /\ loop'[ch].at = "pause"
      /\ \A o \in DialChannels \ {ch} : loop'[o] = loop[o]
      /\ load' = [load EXCEPT ![n] = IF @ > 1 THEN @ - 1 ELSE 0]
      BY <1>0, Zenon DEF PaceIInv, LoopTypes, Loops, Release, Holders
<1>2. Holders(n)' = Holders(n) \ {ch}
      BY <1>1, Zenon DEF Holders
<1>3. ASSUME NEW k \in Nodes, k # n PROVE Holders(k)' = Holders(k)
      BY <1>0, <1>1, <1>3, Zenon DEF Holders
<1>4. Cardinality(Holders(n)') = Cardinality(Holders(n)) - 1
      BY <1>1, <1>2, HoldersFinite, FS_RemoveElement, ZenonT(30)
<1>5. load[n] \in Nat /\ load[n] > 0
      <2>1. Holders(n) # {} /\ IsFiniteSet(Holders(n)) /\ Cardinality(Holders(n)) \in Nat
            BY <1>1, HoldersFinite, Zenon
      <2>2. Cardinality(Holders(n)) # 0
            BY <2>1, FS_EmptySet, Zenon
      <2>3. load[n] = Cardinality(Holders(n))
            BY <1>1, LoadCounts, Zenon
      <2>4. QED
            BY <2>1, <2>2, <2>3
<1>6. /\ load' \in [Nodes -> Nat] /\ load'[n] = load[n] - 1
      /\ \A k \in Nodes \ {n} : load'[k] = load[k]
      BY <1>1, <1>5 DEF LoadIInv
<1>7. QED
      BY <1>3, <1>4, <1>6, LoadCounts, Zenon

\* The other steps change neither the loads nor who holds a node.
LEMMA HoldersKept ==
    ASSUME LoadIInv, UNCHANGED load, \A n \in Nodes : Holders(n)' = Holders(n)
    PROVE  LoadIInv'
BY Zenon DEF LoadIInv, LoadsExact, Holders

\* Every step of dialAndServe keeps the loads exact.
LEMMA LoadStep == PaceIInv /\ LoadIInv /\ [DialNext]_dialVars => LoadIInv'
<1> SUFFICES ASSUME PaceIInv, LoadIInv, [DialNext]_dialVars PROVE LoadIInv'
    BY Zenon
<1>1. CASE CancelContext \/ UNCHANGED dialVars
      <2>1. UNCHANGED <<loop, load>>
            BY <1>1, Zenon DEF CancelContext, dialVars
      <2>2. QED
            BY <2>1, HoldersKept, Zenon DEF Holders
<1>2. ASSUME NEW ch \in DialChannels,
             \/ Attempt(ch) \/ DialFails(ch) \/ Disconnect(ch) \/ WaitOver(ch) \/ LoopExit(ch)
      PROVE  LoadIInv'
      <2>1. UNCHANGED load /\ \A o \in DialChannels \ {ch} : loop'[o] = loop[o]
            BY <1>2, Zenon DEF PaceIInv, LoopTypes, Attempt, DialFails, Disconnect, WaitOver, LoopExit
      <2>2. CASE Disconnect(ch)
            <3>1. loop[ch].at = "serving" /\ loop'[ch].at = "cleanup" /\ loop'[ch].ip = loop[ch].ip
                  BY <2>2, Zenon DEF PaceIInv, LoopTypes, Loops, Disconnect
            <3>2. QED
                  BY <2>1, <3>1, HoldersKept, Zenon DEF Holders
      <2>3. CASE Attempt(ch) \/ DialFails(ch) \/ WaitOver(ch) \/ LoopExit(ch)
            <3>1. loop[ch] \in Loops /\ loop \in [DialChannels -> Loops]
                  BY Zenon DEF PaceIInv, LoopTypes
            <3>2. /\ loop[ch].at \in {"top", "dial", "short", "long", "pause"}
                  /\ loop'[ch].at \in {"top", "dial", "short", "long", "over"}
                  <4>1. CASE Attempt(ch)
                        BY <3>1, <4>1 DEF Loops, Attempt
                  <4>2. CASE DialFails(ch)
                        BY <3>1, <4>2, Zenon DEF Loops, DialFails
                  <4>3. CASE WaitOver(ch) \/ LoopExit(ch)
                        BY <3>1, <4>3 DEF Loops, WaitOver, LoopExit
                  <4>4. QED
                        BY <2>3, <4>1, <4>2, <4>3, Zenon
            <3>3. \A n \in Nodes : Holders(n)' = Holders(n)
                  BY <2>1, <3>2, Zenon DEF Holders
            <3>4. QED
                  BY <2>1, <3>3, HoldersKept, Zenon
      <2>4. QED
            BY <1>2, <2>2, <2>3, Zenon
<1>3. QED
      BY <1>1, <1>2, HolderAdded, HolderRemoved, Zenon DEF DialNext

\* A channel without a connection waits briefly fewer than MaxFastRetry times, whatever
\* the attempts between the longer waits, and slow retries keep the longest delay: the
\* failures are counted across the longer waits that reset the fast attempts.
THEOREM RetriesArePaced == DialSpec => []RetryPace
<1>1. PaceIInv => RetryPace
      BY Zenon DEF PaceIInv
<1>2. QED
      BY DialInitial, PaceStep, <1>1, PTL DEF DialSpec

\* The load of a node is the number of channels connected through it, whatever the
\* order in which the loops connect, fail over to other nodes and are told to stop.
THEOREM LoadsAreExact == DialSpec => []LoadsExact
<1>1. LoadIInv => LoadsExact
      BY Zenon DEF LoadIInv
<1>2. QED
      BY DialInitial, PaceStep, LoadStep, <1>1, PTL DEF DialSpec

=============================================================================
