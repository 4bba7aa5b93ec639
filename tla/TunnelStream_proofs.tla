------------------------ MODULE TunnelStream_proofs -------------------------
(***************************************************************************)
(* What reaches the stream of a connection, for any channels, any Hot      *)
(* Pair, any number of payloads and any failures: a ByteStream of every    *)
(* target.                                                                 *)
(***************************************************************************)
EXTENDS TunnelConn_proofs

\* Payloads of a target rise on every channel and in the stream, and what is on the way
\* on the downlink is later than what has arrived.
InOrder ==
    \A o \in Channels :
        /\ Sorted(got[o]) /\ (st.downlink = NoCh => got[o] = <<>>)
        /\ \A j \in 1..Len(got[o]) : got[o][j] <= read[o]
        /\ \A c \in Channels :
              /\ Rising(down[c], DownData(o), 0, read[o])
              /\ st.downlink = c => Ahead(down[c], DownData(o), got[o])

\* The frames s hold all payloads of o from len on, up to all of them unless ex.
Holds(o, s, len, all, ex) ==
    \E m \in Nat : /\ Whole(s, DownData(o), len, m) /\ m <= all /\ len <= m
                   /\ m = all \/ ex

\* The server sends nothing more from o on channel c.
Excused(o, c) == ~srvUp[c] \/ conns # o \/ obj[o].downlink \notin {NoCh, c}

\* Nothing is missing of the only target, on a channel that the client may still take
\* data from, up to the point where the server stopped sending there.
Unbroken(o) ==
    /\ \A i \in 1..Len(got[o]) : got[o][i] = i
    /\ \A c \in Channels : st.reg /\ cliUp[c] /\ st.downlink \in {NoCh, c} =>
          Holds(o, down[c], Len(got[o]), read[o], Excused(o, c))

StreamIInv ==
    /\ RouteIInv /\ InOrder
    /\ \A o \in Channels : Dialled = {o} => Unbroken(o)

\* A frame that is no payload of a target.
LEMMA NoPayload ==
    /\ \A f : f.t # "data" => \A o : f \notin DownData(o)
    /\ \A f, o, p : f \in DownData(o) /\ f \in DownData(p) => o = p
    /\ \A o, n : n \in 1..MaxDown => [t |-> "data", o |-> o, n |-> n] \in DownData(o)
BY Zenon DEF DownData

\* Of the order of payloads, what a channel has when it is given other frames, or when
\* one that is no payload is taken.
LEMMA OrderKept ==
    ASSUME BaseInv, NEW o \in Channels, NEW c \in Channels,
           Rising(down[c], DownData(o), 0, read[o]), NEW s,
           \/ s = down[c] \/ s = <<>>
           \/ down[c] # <<>> /\ s = Tail(down[c])
           \/ \E t \in Seq(Downlinked) : s = down[c] \o t /\ \A i \in 1..Len(t) : t[i].t # "data"
    PROVE  /\ Rising(s, DownData(o), 0, read[o])
           /\ Ahead(down[c], DownData(o), got[o]) => Ahead(s, DownData(o), got[o])
<1>0. down[c] \in Seq(Downlinked) /\ read[o] \in Int
      BY BaseTypes DEF ServerTypes
<1>1. CASE s = <<>>
      BY <1>0, <1>1, Empty
<1>2. CASE down[c] # <<>> /\ s = Tail(down[c])
      BY <1>0, <1>2, Taken, Zenon
<1>3. ASSUME NEW t \in Seq(Downlinked), s = down[c] \o t, \A i \in 1..Len(t) : t[i].t # "data"
      PROVE  /\ Rising(s, DownData(o), 0, read[o])
             /\ Ahead(down[c], DownData(o), got[o]) => Ahead(s, DownData(o), got[o])
  <2>1. \A i \in 1..Len(t) : t[i] \notin DownData(o)
        BY <1>3, NoPayload, Zenon
  <2>2. QED
        BY <1>0, <1>3, <2>1, OthersPut, Zenon
<1>4. QED
      BY <1>1, <1>2, <1>3, Zenon

\* The same for what it holds of the only target.
LEMMA HoldsKept ==
    ASSUME NEW o, NEW w \in Seq(Downlinked), NEW len \in Nat, NEW all \in Nat, NEW ex \in BOOLEAN,
           Holds(o, w, len, all, ex), NEW s, NEW fx \in BOOLEAN, ex => fx,
           \/ s = w
           \/ w # <<>> /\ Head(w).t # "data" /\ s = Tail(w)
           \/ \E t \in Seq(Downlinked) : s = w \o t /\ \A i \in 1..Len(t) : t[i].t # "data"
    PROVE  Holds(o, s, len, all, fx)
<1>1. PICK m \in Nat : /\ Whole(w, DownData(o), len, m) /\ m <= all /\ len <= m
                       /\ m = all \/ ex
      BY Zenon DEF Holds
<1>2. Whole(s, DownData(o), len, m)
  <2>1. CASE w # <<>> /\ Head(w).t # "data" /\ s = Tail(w)
    <3>1. Head(w) \notin DownData(o)
          BY <2>1, NoPayload, Zenon
    <3>2. QED
          BY <1>1, <2>1, <3>1, Taken, Zenon
  <2>2. ASSUME NEW t \in Seq(Downlinked), s = w \o t, \A i \in 1..Len(t) : t[i].t # "data"
        PROVE  Whole(s, DownData(o), len, m)
    <3>1. \A i \in 1..Len(t) : t[i] \notin DownData(o)
          BY <2>2, NoPayload, Zenon
    <3>2. QED
          BY <1>1, <2>2, <3>1, OthersPut, Zenon
  <2>3. QED
        BY <1>1, <2>1, <2>2, Zenon
<1>3. QED
      BY <1>1, <1>2, Zenon DEF Holds

\* The server works.
LEMMA StreamWorks ==
    ASSUME StreamIInv, NEW ch \in Channels, Works(ch)
    PROVE  InOrder' /\ \A o \in Channels : Dialled' = {o} => Unbroken(o)'
<1>0. /\ BaseInv /\ ServerTypes /\ down \in [Channels -> Seq(Downlinked)]
      /\ srvUp \in [Channels -> BOOLEAN] /\ got \in [Channels -> Seq(1..MaxDown)]
      BY BaseTypes, Zenon DEF StreamIInv, RouteIInv
<1>1. /\ conns' \in {conns, NoCh} /\ \A x \in Channels : Kin(obj[x], obj'[x])
      /\ UNCHANGED clientVars /\ UNCHANGED cliUp
      /\ srvUp' = srvUp \/ srvUp' = [srvUp EXCEPT ![ch] = FALSE]
      /\ \/ read' = read /\ (down' = down \/ \E t \in Seq(Statuses) : down' = Put(down, Reach, t))
         \/ Forward(ch)
      BY <1>0, Work, Zenon
<1>2. /\ Dialled' = Dialled /\ UNCHANGED <<st, got, cliUp>>
      /\ \A o, c \in Channels : Excused(o, c) => Excused(o, c)'
  <2>1. Dialled' = Dialled /\ UNCHANGED <<st, got, cliUp>>
        BY <1>1, Zenon DEF Dialled, Kin, clientVars
  <2>2. \A c \in Channels : srvUp'[c] => srvUp[c]
        BY <1>0, <1>1, Zenon
  <2>3. \A o \in Channels : obj'[o].downlink = obj[o].downlink /\ (conns' = o => conns = o)
        BY <1>1, WiresAssumption, Zenon DEF Kin
  <2>4. QED
        BY <2>1, <2>2, <2>3, Zenon DEF Excused
<1>3. CASE read' = read /\ (down' = down \/ \E t \in Seq(Statuses) : down' = Put(down, Reach, t))
  <2>1. ASSUME NEW c \in Channels
        PROVE  \/ down'[c] = down[c]
               \/ \E t \in Seq(Downlinked) : down'[c] = down[c] \o t /\ \A i \in 1..Len(t) : t[i].t # "data"
    <3>1. CASE down' = down
          BY <3>1, Zenon
    <3>2. ASSUME NEW t \in Seq(Statuses), down' = Put(down, Reach, t)
          PROVE  \/ down'[c] = down[c]
                 \/ \E u \in Seq(Downlinked) : down'[c] = down[c] \o u /\ \A i \in 1..Len(u) : u[i].t # "data"
      <4>1. Statuses \subseteq Downlinked
            BY Zenon DEF Statuses, Downlinked
      <4>2. t \in Seq(Downlinked)
            BY <4>1, Wider, Zenon
      <4>3. \A i \in 1..Len(t) : t[i].t # "data"
        <5>1. \A i \in 1..Len(t) : t[i] \in Statuses
              BY FrameAt, Zenon
        <5>2. QED
              BY <5>1, Zenon DEF Statuses
      <4>4. down'[c] = down[c] \/ down'[c] = down[c] \o t
            BY <3>2, Zenon DEF Put
      <4>5. QED
            BY <4>2, <4>3, <4>4, Zenon
    <3>3. QED
          BY <1>3, <3>1, <3>2, Zenon
  <2>2. InOrder'
    <3>1. ASSUME NEW o \in Channels, NEW c \in Channels
          PROVE  /\ Rising(down'[c], DownData(o), 0, read[o])
                 /\ Ahead(down[c], DownData(o), got[o]) => Ahead(down'[c], DownData(o), got[o])
      <4>1. Rising(down[c], DownData(o), 0, read[o])
            BY Zenon DEF StreamIInv, InOrder
      <4>2. QED
            BY <1>0, <2>1, <4>1, OrderKept, Zenon
    <3>2. QED
          BY <1>2, <1>3, <3>1, Zenon DEF StreamIInv, InOrder
  <2>3. ASSUME NEW o \in Channels, Dialled' = {o} PROVE Unbroken(o)'
    <3>1. Unbroken(o)
          BY <1>2, <2>3, Zenon DEF StreamIInv
    <3>2. ASSUME NEW c \in Channels, Holds(o, down[c], Len(got[o]), read[o], Excused(o, c))
          PROVE  Holds(o, down'[c], Len(got[o]), read[o], Excused(o, c)')
      <4>1. down[c] \in Seq(Downlinked) /\ Len(got[o]) \in Nat /\ read[o] \in Nat
            BY <1>0 DEF ServerTypes
      <4>2. Excused(o, c) \in BOOLEAN /\ Excused(o, c)' \in BOOLEAN
            BY Zenon DEF Excused
      <4>3. QED
        <5> DEFINE e == Excused(o, c)
                   g == Excused(o, c)'
        <5>1. e \in BOOLEAN /\ g \in BOOLEAN /\ (e => g) /\ Holds(o, down[c], Len(got[o]), read[o], e)
              BY <1>2, <3>2, <4>2, Zenon
        <5>2. \/ down'[c] = down[c]
              \/ \E t \in Seq(Downlinked) : down'[c] = down[c] \o t /\ \A i \in 1..Len(t) : t[i].t # "data"
              BY <2>1, Zenon
        <5> HIDE DEF e, g
        <5>3. Holds(o, down'[c], Len(got[o]), read[o], g)
              BY <4>1, <5>1, <5>2, HoldsKept, ZenonT(30)
        <5>4. QED
              BY <5>3, Zenon DEF g
    <3>3. QED
          BY <1>2, <1>3, <3>1, <3>2, Zenon DEF Unbroken
  <2>4. QED
        BY <2>2, <2>3, Zenon
<1>4. CASE Forward(ch)
  <2> DEFINE f == [t |-> "data", o |-> ch, n |-> read[ch] + 1]
  <2>1. /\ obj[ch].stage = "forward" /\ read[ch] < MaxDown
        /\ read' = [read EXCEPT ![ch] = read[ch] + 1] /\ down' = Put(down, Reach, <<f>>)
        /\ UNCHANGED <<conns, obj, srvUp>>
        BY <1>4, Zenon DEF Forward, SendDownlink, Reach
  <2>2. read[ch] + 1 \in 1..MaxDown /\ read[ch] \in Nat
        BY <1>0, <2>1, WiresAssumption, SMTT(30) DEF ServerTypes
  <2>3. f \in Downlinked /\ f \in DownData(ch) /\ f.n = read[ch] + 1
        BY <2>2, Zenon DEF Downlinked, DownData
  <2>4. \A o \in Channels : o # ch => f \notin DownData(o)
        BY <2>3, NoPayload, Zenon
  <2> HIDE DEF f
  <2>5. \A c \in Channels : IF c \in Reach THEN down'[c] = down[c] \o <<f>> ELSE down'[c] = down[c]
        BY <2>1, Zenon DEF Put
  <2>6. \A o \in Channels : read'[o] = IF o = ch THEN read[ch] + 1 ELSE read[o]
        BY <1>0, <2>1, Zenon DEF ServerTypes
  <2>7. \A o, c \in Channels : read[o] \in Nat /\ down[c] \in Seq(Downlinked) /\ <<f>> \in Seq(Downlinked)
        BY <1>0, <2>3 DEF ServerTypes
  <2>8. InOrder'
    <3>1. ASSUME NEW o \in Channels, NEW c \in Channels
          PROVE  /\ Rising(down'[c], DownData(o), 0, read'[o])
                 /\ st.downlink = c => Ahead(down'[c], DownData(o), got[o])
      <4>1. /\ Rising(down[c], DownData(o), 0, read[o])
            /\ st.downlink = c => Ahead(down[c], DownData(o), got[o])
            BY Zenon DEF StreamIInv, InOrder
      <4>2. CASE c \notin Reach
        <5>1. Rising(down[c], DownData(o), 0, read'[o])
              BY <2>6, <2>7, <4>1 DEF Rising
        <5>2. QED
              BY <2>5, <4>1, <4>2, <5>1, Zenon
      <4>3. CASE c \in Reach /\ o # ch
        <5>1. \A i \in 1..Len(<<f>>) : <<f>>[i] \notin DownData(o)
              BY <2>4, <4>3
        <5>2. /\ Rising(down[c] \o <<f>>, DownData(o), 0, read[o])
              /\ st.downlink = c => Ahead(down[c] \o <<f>>, DownData(o), got[o])
              BY <2>7, <4>1, <5>1, OthersPut, Zenon
        <5>3. down'[c] = down[c] \o <<f>> /\ read'[o] = read[o]
              BY <2>5, <2>6, <4>3, Zenon
        <5>4. QED
              BY <5>2, <5>3, Zenon
      <4>4. CASE c \in Reach /\ o = ch
        <5>1. Rising(down[c] \o <<f>>, DownData(o), 0, read[o] + 1)
              BY <2>3, <2>7, <4>1, <4>4, NextPut, SMTT(30)
        <5>2. st.downlink = c => Ahead(down[c] \o <<f>>, DownData(o), got[o])
          <6> SUFFICES ASSUME st.downlink = c, NEW i \in 1..Len(down[c] \o <<f>>),
                              (down[c] \o <<f>>)[i] \in DownData(o), NEW j \in 1..Len(got[o])
                       PROVE  got[o][j] < (down[c] \o <<f>>)[i].n
              BY Zenon DEF Ahead
          <6>1. CASE i \in 1..Len(down[c])
                BY <2>7, <4>1, <6>1, Joined, SMTT(30) DEF Ahead
          <6>2. CASE ~(i \in 1..Len(down[c]))
            <7>1. (down[c] \o <<f>>)[i] = f
              <8>1. i - Len(down[c]) \in 1..Len(<<f>>) /\ (down[c] \o <<f>>)[i] = <<f>>[i - Len(down[c])]
                    BY <2>7, <6>2, Joined
              <8>2. QED
                    BY <8>1
            <7>2. got[o][j] <= read[o]
                  BY Zenon DEF StreamIInv, InOrder
            <7>3. got[o][j] \in 1..MaxDown
                  BY <1>0, FrameAt, Zenon
            <7>4. QED
                  BY <2>2, <2>3, <4>4, <7>1, <7>2, <7>3, SMTT(30)
          <6>3. QED
                BY <6>1, <6>2, Zenon
        <5>3. QED
              BY <2>5, <2>6, <4>4, <5>1, <5>2, Zenon
      <4>5. QED
            BY <4>2, <4>3, <4>4, Zenon
    <3>2. \A o \in Channels : \A j \in 1..Len(got[o]) : got[o][j] <= read'[o]
      <4>1. \A o \in Channels : \A j \in 1..Len(got[o]) : got[o][j] <= read[o] /\ got[o][j] \in Int
        <5>1. ASSUME NEW o \in Channels, NEW j \in 1..Len(got[o]) PROVE got[o][j] \in 1..MaxDown
              BY <1>0, FrameAt, Zenon
        <5>2. QED
              BY <5>1 DEF StreamIInv, InOrder
      <4>2. \A o \in Channels : read[o] \in Int /\ read[o] <= read'[o] /\ read'[o] \in Int
            BY <2>6, <2>7
      <4>3. QED
            BY <4>1, <4>2
    <3>3. QED
          BY <1>2, <3>1, <3>2, Zenon DEF StreamIInv, InOrder
  <2>9. ASSUME NEW o \in Channels, Dialled' = {o} PROVE Unbroken(o)'
    <3>1. o = ch /\ Unbroken(o)
          BY <1>2, <2>1, <2>9, Zenon DEF StreamIInv, Dialled
    <3>2. conns \in {o, NoCh}
          BY <1>0, <1>2, <2>9, Zenon DEF Dialled, BaseInv, Made, ServerTypes
    <3>3. ASSUME NEW c \in Channels, Holds(o, down[c], Len(got[o]), read[o], Excused(o, c))
          PROVE  Holds(o, down'[c], Len(got[o]), read[o] + 1, Excused(o, c)')
      <4>1. PICK m \in Nat : /\ Whole(down[c], DownData(o), Len(got[o]), m)
                             /\ m <= read[o] /\ Len(got[o]) <= m /\ (m = read[o] \/ Excused(o, c))
            BY <3>3, Zenon DEF Holds
      <4>2. Excused(o, c)' <=> Excused(o, c)
            BY <2>1, Zenon DEF Excused
      <4>3. CASE c \in Reach
        <5>1. ~Excused(o, c)
              BY <3>2, <4>3, WiresAssumption, Zenon DEF Reach, Excused, OpenAt
        <5>2. m = read[o] /\ Len(got[o]) \in Nat
              BY <1>0, <4>1, <5>1, SMTT(30)
        <5>3. Whole(down[c] \o <<f>>, DownData(o), Len(got[o]), m + 1)
              BY <2>3, <2>7, <3>1, <4>1, <5>2, NextPut, SMTT(30)
        <5>4. down'[c] = down[c] \o <<f>> /\ m + 1 \in Nat /\ Len(got[o]) <= m + 1 /\ m + 1 <= read[o] + 1
              BY <2>5, <4>1, <4>3, <5>2
        <5>5. QED
              BY <5>2, <5>3, <5>4, Zenon DEF Holds
      <4>4. CASE c \notin Reach
        <5>1. Excused(o, c)
              BY <3>2, <4>4, WiresAssumption, Zenon DEF Reach, Excused, OpenAt
        <5>2. m <= read[o] + 1 /\ down'[c] = down[c]
              BY <2>5, <2>7, <4>1, <4>4
        <5>3. QED
              BY <4>1, <4>2, <5>1, <5>2, Zenon DEF Holds
      <4>5. QED
            BY <4>3, <4>4, Zenon
    <3>4. read'[o] = read[o] + 1
          BY <2>6, <3>1, Zenon
    <3>5. QED
          BY <1>2, <3>1, <3>3, <3>4, Zenon DEF Unbroken
  <2>10. QED
        BY <2>8, <2>9, Zenon
<1>5. QED
      BY <1>1, <1>3, <1>4, Zenon

\* A step of Steps takes no payload, and drops the frames of a channel with the channel.
LEMMA StepFrames ==
    ASSUME BaseInv, Steps, NEW c \in Channels
    PROVE  /\ cliUp'[c] => cliUp[c]
           /\ \/ down'[c] = down[c]
              \/ down[c] # <<>> /\ Head(down[c]).t # "data" /\ down'[c] = Tail(down[c])
              \/ ~cliUp'[c] /\ down'[c] = <<>>
<1>0. down \in [Channels -> Seq(Downlinked)] /\ cliUp \in [Channels -> BOOLEAN]
      BY BaseTypes, Zenon
<1>1. CASE DialLookup \/ DialConnected \/ DialTimeout \/ Write \/ CloseWrite \/ Close
      BY <1>1, Zenon DEF DialLookup, DialConnected, DialTimeout, Write, CloseWrite, Close, wires
<1>2. ASSUME NEW ch \in Channels, HandleConnStatus(ch) \/ HandleClose(ch)
      PROVE  /\ cliUp' = cliUp /\ down[ch] # <<>> /\ Head(down[ch]).t # "data"
             /\ down' = [down EXCEPT ![ch] = Tail(@)]
      BY <1>2, Zenon DEF HandleConnStatus, HandleClose, Received
<1>3. ASSUME NEW ch \in Channels, CleanupClient(ch)
      PROVE  cliUp' = [cliUp EXCEPT ![ch] = FALSE] /\ down' = [down EXCEPT ![ch] = <<>>]
      BY <1>3, Zenon DEF CleanupClient
<1>4. CASE \E ch \in Channels : HandleConnStatus(ch) \/ HandleClose(ch)
      BY <1>0, <1>2, <1>4, Zenon
<1>5. CASE \E ch \in Channels : CleanupClient(ch)
      BY <1>0, <1>3, <1>5, Zenon
<1>6. QED
      BY <1>1, <1>4, <1>5, Zenon DEF Steps

\* The client does something other than choose a downlink.
LEMMA StreamSteps ==
    ASSUME StreamIInv, Steps
    PROVE  InOrder' /\ \A o \in Channels : Dialled' = {o} => Unbroken(o)'
<1>0. /\ BaseInv /\ ServerTypes /\ down \in [Channels -> Seq(Downlinked)]
      /\ got \in [Channels -> Seq(1..MaxDown)]
      BY BaseTypes, Zenon DEF StreamIInv, RouteIInv
<1>1. /\ UNCHANGED <<conns, obj, read, srvUp, got>>
      /\ st'.downlink = st.downlink /\ (st'.reg => st.reg)
      BY <1>0, Step, Zenon DEF serverVars
<1>2. ASSUME NEW o \in Channels, NEW c \in Channels
      PROVE  /\ Rising(down'[c], DownData(o), 0, read[o])
             /\ Ahead(down[c], DownData(o), got[o]) => Ahead(down'[c], DownData(o), got[o])
  <2>1. Rising(down[c], DownData(o), 0, read[o])
        BY Zenon DEF StreamIInv, InOrder
  <2>2. QED
        BY <1>0, <2>1, StepFrames, OrderKept, Zenon
<1>3. InOrder'
      BY <1>1, <1>2, Zenon DEF StreamIInv, InOrder
<1>4. ASSUME NEW o \in Channels, Dialled' = {o} PROVE Unbroken(o)'
  <2>1. Unbroken(o) /\ \A c \in Channels : Excused(o, c)' <=> Excused(o, c)
        BY <1>1, <1>4, Zenon DEF StreamIInv, Dialled, Excused
  <2>2. ASSUME NEW c \in Channels, cliUp'[c],
               Holds(o, down[c], Len(got[o]), read[o], Excused(o, c))
        PROVE  Holds(o, down'[c], Len(got[o]), read[o], Excused(o, c)')
    <3> DEFINE x == Excused(o, c)
    <3>1. down[c] \in Seq(Downlinked) /\ Len(got[o]) \in Nat /\ read[o] \in Nat
          BY <1>0 DEF ServerTypes
    <3>2. x \in BOOLEAN /\ Excused(o, c)' = x /\ Holds(o, down[c], Len(got[o]), read[o], x)
          BY <1>1, <2>2, Zenon DEF Excused
    <3>3. \/ down'[c] = down[c]
          \/ down[c] # <<>> /\ Head(down[c]).t # "data" /\ down'[c] = Tail(down[c])
          BY <1>0, <2>2, StepFrames, Zenon
    <3> HIDE DEF x
    <3>4. Holds(o, down'[c], Len(got[o]), read[o], x)
          BY <3>1, <3>2, <3>3, HoldsKept, Zenon
    <3>5. QED
          BY <3>2, <3>4, Zenon
  <2>3. \A c \in Channels : cliUp'[c] => cliUp[c]
        BY <1>0, StepFrames, Zenon
  <2>4. QED
        BY <1>1, <2>1, <2>2, <2>3, Zenon DEF Unbroken
<1>5. QED
      BY <1>3, <1>4, Zenon

\* The dial: nothing has been sent yet.
LEMMA StreamDial ==
    ASSUME StreamIInv, Dial
    PROVE  InOrder' /\ \A o \in Channels : Dialled' = {o} => Unbroken(o)'
<1>1. /\ st'.downlink = NoCh /\ dial = "idle"
      /\ UNCHANGED <<got, serverVars, down>>
      BY BaseDial, Zenon DEF StreamIInv, RouteIInv
<1>2. Silent /\ Dialled = {} /\ Dialled' = Dialled
      BY <1>1, Zenon DEF StreamIInv, RouteIInv, BaseInv, Made, Routed, serverVars, Dialled
<1>3. InOrder'
      BY <1>1, <1>2, Zenon DEF StreamIInv, InOrder, Silent, serverVars
<1>4. QED
      BY <1>2, <1>3, Zenon

\* The client is told of the uplink, and may choose the downlink.
LEMMA StreamSelect ==
    ASSUME StreamIInv, NEW ch \in Channels, HandleSelectUplink(ch)
    PROVE  InOrder' /\ \A o \in Channels : Dialled' = {o} => Unbroken(o)'
<1>0. /\ BaseInv /\ ServerTypes /\ down \in [Channels -> Seq(Downlinked)]
      /\ got \in [Channels -> Seq(1..MaxDown)] /\ st \in ConnStates
      BY BaseTypes, Zenon DEF StreamIInv, RouteIInv
<1>1. /\ UNCHANGED <<conns, obj, read, cliUp, srvUp, got>>
      /\ down[ch] # <<>> /\ Head(down[ch]).t # "data" /\ down' = [down EXCEPT ![ch] = Tail(@)]
      /\ st'.downlink = IF st.reg THEN Choose(st, ch) ELSE st.downlink
      /\ st'.reg = st.reg
      BY <1>0, BaseChoice, Zenon DEF serverVars
<1>2. /\ st.downlink # NoCh => st'.downlink = st.downlink
      /\ st.reg => st'.downlink # NoCh
      BY <1>0, <1>1, Choice, WiresAssumption, Zenon
<1>3. \A c \in Channels : \/ down'[c] = down[c]
                          \/ down[c] # <<>> /\ Head(down[c]).t # "data" /\ down'[c] = Tail(down[c])
      BY <1>0, <1>1, Zenon
<1>4. ASSUME NEW o \in Channels, NEW c \in Channels
      PROVE  /\ Rising(down'[c], DownData(o), 0, read[o])
             /\ Ahead(down[c], DownData(o), got[o]) => Ahead(down'[c], DownData(o), got[o])
  <2>1. Rising(down[c], DownData(o), 0, read[o])
        BY Zenon DEF StreamIInv, InOrder
  <2>2. QED
        BY <1>0, <1>3, <2>1, OrderKept, Zenon
<1>5. InOrder'
  <2>1. ASSUME NEW o \in Channels, NEW c \in Channels, st'.downlink = c
        PROVE  Ahead(down'[c], DownData(o), got[o])
    <3>1. CASE st.downlink = NoCh
      <4>1. got[o] = <<>>
            BY <3>1, Zenon DEF StreamIInv, InOrder
      <4>2. QED
            BY <4>1 DEF Ahead
    <3>2. CASE st.downlink # NoCh
          BY <1>2, <1>4, <2>1, <3>2, Zenon DEF StreamIInv, InOrder
    <3>3. QED
          BY <3>1, <3>2, Zenon
  <2>2. \A o \in Channels : st'.downlink = NoCh => got[o] = <<>>
        BY <1>2, Zenon DEF StreamIInv, InOrder
  <2>3. QED
        BY <1>1, <1>4, <2>1, <2>2, Zenon DEF StreamIInv, InOrder
<1>6. ASSUME NEW o \in Channels, Dialled' = {o} PROVE Unbroken(o)'
  <2>1. Unbroken(o)
        BY <1>1, <1>6, Zenon DEF StreamIInv, Dialled
  <2>2. ASSUME NEW c \in Channels,
               Holds(o, down[c], Len(got[o]), read[o], Excused(o, c))
        PROVE  Holds(o, down'[c], Len(got[o]), read[o], Excused(o, c)')
    <3> DEFINE x == Excused(o, c)
    <3>1. down[c] \in Seq(Downlinked) /\ Len(got[o]) \in Nat /\ read[o] \in Nat
          BY <1>0 DEF ServerTypes
    <3>2. x \in BOOLEAN /\ Excused(o, c)' = x /\ Holds(o, down[c], Len(got[o]), read[o], x)
          BY <1>1, <2>2, Zenon DEF Excused
    <3> HIDE DEF x
    <3>4. Holds(o, down'[c], Len(got[o]), read[o], x)
          BY <1>3, <3>1, <3>2, HoldsKept, Zenon
    <3>5. QED
          BY <3>2, <3>4, Zenon
  <2>3. QED
        BY <1>1, <1>2, <2>1, <2>2, Zenon DEF Unbroken
<1>7. QED
      BY <1>5, <1>6, Zenon

\* The payload the stream takes: it is later than those it has, and of the only target
\* it is the next.
LEMMA NextPayload ==
    ASSUME StreamIInv, NEW ch \in Channels, HandleData(ch), Choose(st, ch) = ch,
           NEW o \in Channels, NEW n \in 1..MaxDown,
           Head(down[ch]) = [t |-> "data", o |-> o, n |-> n]
    PROVE  /\ o \in Dialled /\ n <= read[o]
           /\ \A j \in 1..Len(got[o]) : got[o][j] < n
           /\ \A i \in 1..Len(Tail(down[ch])) : Tail(down[ch])[i] \in DownData(o) => n < Tail(down[ch])[i].n
           /\ Dialled = {o} => /\ n = Len(got[o]) + 1
                               /\ Holds(o, Tail(down[ch]), n, read[o], Excused(o, ch))
<1>0. /\ BaseInv /\ ServerTypes /\ down[ch] \in Seq(Downlinked)
      /\ got[o] \in Seq(1..MaxDown) /\ read[o] \in 0..MaxDown
      BY BaseTypes, Zenon DEF StreamIInv, RouteIInv, ServerTypes
<1>1. cliUp[ch] /\ down[ch] # <<>> /\ Head(down[ch]) \in DownData(o) /\ Head(down[ch]).n = n
      /\ Head(down[ch]) = down[ch][1] /\ 1 \in 1..Len(down[ch])
  <2>1. cliUp[ch] /\ down[ch] # <<>>
        BY Zenon DEF HandleData, Received
  <2>2. Head(down[ch]) = down[ch][1] /\ 1 \in 1..Len(down[ch])
        BY <1>0, <2>1, Rest, Zenon
  <2>3. Head(down[ch]) \in DownData(o) /\ Head(down[ch]).n = n
        BY DEF DownData
  <2>4. QED
        BY <2>1, <2>2, <2>3, Zenon
<1>2. st.reg /\ st.downlink \in {NoCh, ch}
      BY <1>0, Choice, WiresAssumption, Zenon
<1>3. Rising(down[ch], DownData(o), 0, read[o])
      BY Zenon DEF StreamIInv, InOrder
<1>4. /\ n <= read[o]
      /\ \A i \in 1..Len(Tail(down[ch])) : Tail(down[ch])[i] \in DownData(o) => n < Tail(down[ch])[i].n
      BY <1>0, <1>1, <1>3, NextTaken
<1>5. o \in Dialled
  <2>1. read[o] # 0
        BY <1>0, <1>4
  <2>2. QED
        BY <1>0, <2>1, Zenon DEF BaseInv, Made, Dialled
<1>6. \A j \in 1..Len(got[o]) : got[o][j] < n
  <2>1. CASE st.downlink = NoCh
    <3>1. got[o] = <<>>
          BY <2>1, Zenon DEF StreamIInv, InOrder
    <3>2. QED
          BY <3>1
  <2>2. CASE st.downlink = ch
        BY <1>1, <2>2 DEF StreamIInv, InOrder, Ahead
  <2>3. QED
        BY <1>2, <2>1, <2>2, Zenon
<1>7. ASSUME Dialled = {o}
      PROVE  n = Len(got[o]) + 1 /\ Holds(o, Tail(down[ch]), n, read[o], Excused(o, ch))
  <2>1. Holds(o, down[ch], Len(got[o]), read[o], Excused(o, ch))
        BY <1>1, <1>2, <1>7, Zenon DEF StreamIInv, Unbroken
  <2>2. PICK m \in Nat : /\ Whole(down[ch], DownData(o), Len(got[o]), m)
                         /\ m <= read[o] /\ Len(got[o]) <= m
                         /\ m = read[o] \/ Excused(o, ch)
        BY <2>1, Zenon DEF Holds
  <2>3. n = Len(got[o]) + 1 /\ Whole(Tail(down[ch]), DownData(o), n, m) /\ n <= m
    <3>1. Len(got[o]) \in Int /\ m \in Int
          BY <1>0
    <3>2. n = Len(got[o]) + 1 /\ Whole(Tail(down[ch]), DownData(o), Len(got[o]) + 1, m)
          BY <1>0, <1>1, <2>2, <3>1, NextTaken, Zenon
    <3>3. Rising(down[ch], DownData(o), Len(got[o]), m)
          BY <2>2, Zenon DEF Whole
    <3>4. n <= m
          BY <1>0, <1>1, <3>1, <3>3, NextTaken, Zenon
    <3>5. QED
          BY <3>2, <3>4, Zenon
  <2>4. QED
        BY <2>2, <2>3, Zenon DEF Holds
<1>8. QED
      BY <1>4, <1>5, <1>6, <1>7, Zenon

\* The client takes a payload, or drops it.
LEMMA StreamData ==
    ASSUME StreamIInv, NEW ch \in Channels, HandleData(ch)
    PROVE  InOrder' /\ \A o \in Channels : Dialled' = {o} => Unbroken(o)'
<1>0. /\ BaseInv /\ ServerTypes /\ down \in [Channels -> Seq(Downlinked)]
      /\ got \in [Channels -> Seq(1..MaxDown)] /\ st \in ConnStates
      BY BaseTypes, Zenon DEF StreamIInv, RouteIInv
<1>1. /\ UNCHANGED <<conns, obj, read, cliUp, srvUp>>
      /\ down[ch] # <<>> /\ down' = [down EXCEPT ![ch] = Tail(@)]
      /\ st'.downlink = IF st.reg THEN Choose(st, ch) ELSE st.downlink
      /\ st'.reg = st.reg
      /\ \E o \in Channels, n \in 1..MaxDown :
            /\ Head(down[ch]) = [t |-> "data", o |-> o, n |-> n]
            /\ got' = IF Choose(st, ch) = ch THEN [got EXCEPT ![o] = Append(@, n)] ELSE got
      BY <1>0, BaseChoice, Zenon DEF serverVars
<1>2. PICK o \in Channels, n \in 1..MaxDown :
            /\ Head(down[ch]) = [t |-> "data", o |-> o, n |-> n]
            /\ got' = IF Choose(st, ch) = ch THEN [got EXCEPT ![o] = Append(@, n)] ELSE got
      BY <1>1, Zenon
<1>3. /\ st.downlink # NoCh => st'.downlink = st.downlink
      /\ st.reg => st'.downlink # NoCh
      /\ Choose(st, ch) = ch => st.reg /\ st.downlink \in {NoCh, ch}
      BY <1>0, <1>1, Choice, WiresAssumption, Zenon
<1>4. \A c \in Channels : down'[c] = IF c = ch THEN Tail(down[ch]) ELSE down[c]
      BY <1>0, <1>1, Zenon
<1>5. \A p, c \in Channels : Excused(p, c)' <=> Excused(p, c)
      BY <1>1, Zenon DEF Excused
<1>6. ASSUME NEW p \in Channels, NEW c \in Channels
      PROVE  /\ Rising(down'[c], DownData(p), 0, read[p])
             /\ Ahead(down[c], DownData(p), got[p]) => Ahead(down'[c], DownData(p), got[p])
  <2>1. Rising(down[c], DownData(p), 0, read[p])
        BY Zenon DEF StreamIInv, InOrder
  <2>2. QED
        BY <1>0, <1>1, <1>4, <2>1, OrderKept, Zenon
<1>7. \A p, c \in Channels : st'.downlink = c => Ahead(down'[c], DownData(p), got[p])
  <2>1. SUFFICES ASSUME NEW p \in Channels, NEW c \in Channels, st'.downlink = c
                 PROVE  Ahead(down'[c], DownData(p), got[p])
        BY Zenon
  <2>2. CASE st.downlink = NoCh
    <3>1. got[p] = <<>>
          BY <2>2, Zenon DEF StreamIInv, InOrder
    <3>2. QED
          BY <3>1 DEF Ahead
  <2>3. CASE st.downlink # NoCh
        BY <1>3, <1>6, <2>1, <2>3, Zenon DEF StreamIInv, InOrder
  <2>4. QED
        BY <2>2, <2>3, Zenon
<1>8. CASE Choose(st, ch) # ch
  <2>1. got' = got
        BY <1>2, <1>8, Zenon
  <2>2. InOrder'
    <3>1. \A p \in Channels : st'.downlink = NoCh => got[p] = <<>>
          BY <1>3, Zenon DEF StreamIInv, InOrder
    <3>2. QED
          BY <1>1, <1>6, <1>7, <2>1, <3>1, Zenon DEF StreamIInv, InOrder
  <2>3. ASSUME NEW p \in Channels, Dialled' = {p} PROVE Unbroken(p)'
    <3>1. Unbroken(p)
          BY <1>1, <2>3, Zenon DEF StreamIInv, Dialled
    <3>2. ASSUME NEW c \in Channels, st'.reg, cliUp'[c], st'.downlink \in {NoCh, c}
          PROVE  Holds(p, down'[c], Len(got'[p]), read'[p], Excused(p, c)')
      <4>1. c # ch /\ st.downlink \in {NoCh, c} /\ st.reg /\ cliUp[c]
            BY <1>1, <1>3, <1>8, <3>2, Zenon
      <4>2. Holds(p, down[c], Len(got[p]), read[p], Excused(p, c))
            BY <3>1, <4>1, Zenon DEF Unbroken
      <4>3. Excused(p, c)' = Excused(p, c)
            BY <1>1, Zenon DEF Excused
      <4>4. QED
            BY <1>1, <1>4, <2>1, <4>1, <4>2, <4>3, Zenon
    <3>3. QED
          BY <2>1, <3>1, <3>2, Zenon DEF Unbroken
  <2>4. QED
        BY <2>2, <2>3, Zenon
<1>9. CASE Choose(st, ch) = ch
  <2>1. /\ st.reg /\ st'.downlink = ch /\ st.downlink \in {NoCh, ch}
        /\ got' = [got EXCEPT ![o] = Append(got[o], n)]
        BY <1>1, <1>2, <1>3, <1>9, Zenon
  <2>2. /\ o \in Dialled /\ n <= read[o]
        /\ \A j \in 1..Len(got[o]) : got[o][j] < n
        /\ \A i \in 1..Len(Tail(down[ch])) : Tail(down[ch])[i] \in DownData(o) => n < Tail(down[ch])[i].n
        /\ Dialled = {o} => /\ n = Len(got[o]) + 1
                            /\ Holds(o, Tail(down[ch]), n, read[o], Excused(o, ch))
        BY <1>2, <1>9, NextPayload, Zenon
  <2> DEFINE g == Append(got[o], n)
  <2>3. /\ got[o] \in Seq(1..MaxDown) /\ Len(got[o]) \in Nat /\ Len(g) = Len(got[o]) + 1
        /\ \A j \in 1..Len(g) : (j = Len(g) /\ g[j] = n) \/ (j \in 1..Len(got[o]) /\ g[j] = got[o][j])
        BY <1>0
  <2>4. \A p \in Channels : got'[p] = IF p = o THEN g ELSE got[p]
        BY <1>0, <2>1, Zenon
  <2>5. Sorted(g)
    <3>1. got[o] \in Seq(Int)
      <4>1. 1..MaxDown \subseteq Int
            BY WiresAssumption
      <4>2. QED
            BY <2>3, <4>1, Wider, Zenon
    <3>2. Sorted(got[o])
          BY Zenon DEF StreamIInv, InOrder
    <3>3. QED
          BY <2>2, <3>1, <3>2, SortedAppend, SMTT(30)
  <2>6. \A j \in 1..Len(g) : g[j] <= read[o]
        BY <2>2, <2>3, Zenon DEF StreamIInv, InOrder
  <2>7. Ahead(Tail(down[ch]), DownData(o), g)
    <3>1. Ahead(down'[ch], DownData(o), got[o])
          BY <1>7, <2>1, Zenon
    <3>2. \A i \in 1..Len(Tail(down[ch])) : Tail(down[ch])[i] \in DownData(o) =>
              \A j \in 1..Len(got[o]) : got[o][j] < Tail(down[ch])[i].n
          BY <1>4, <3>1, Zenon DEF Ahead
    <3> HIDE DEF g
    <3>3. QED
          BY <2>2, <2>3, <3>2, Zenon DEF Ahead
  <2> HIDE DEF g
  <2>8. InOrder'
    <3>1. \A p \in Channels : Sorted(got'[p]) /\ \A j \in 1..Len(got'[p]) : got'[p][j] <= read[p]
          BY <2>4, <2>5, <2>6, Zenon DEF StreamIInv, InOrder
    <3>2. \A p, c \in Channels : st'.downlink = c => Ahead(down'[c], DownData(p), got'[p])
          BY <1>4, <1>7, <2>1, <2>4, <2>7, SMTT(30)
    <3>3. st'.downlink # NoCh
          BY <2>1, WiresAssumption, Zenon
    <3>4. QED
          BY <1>1, <1>6, <3>1, <3>2, <3>3, Zenon DEF StreamIInv, InOrder
  <2>9. ASSUME NEW p \in Channels, Dialled' = {p} PROVE Unbroken(p)'
    <3>1. p = o /\ Dialled = {o} /\ Unbroken(o)
          BY <1>1, <2>2, <2>9, Zenon DEF StreamIInv, Dialled
    <3>2. \A i \in 1..Len(g) : g[i] = i
          BY <2>2, <2>3, <3>1, ZenonT(30) DEF Unbroken
    <3>3. Holds(o, down'[ch], Len(g), read[o], Excused(o, ch))
          BY <1>4, <2>2, <2>3, <3>1, Zenon
    <3>4. Excused(o, ch)' = Excused(o, ch)
          BY <1>1, Zenon DEF Excused
    <3>5. \A c \in Channels : st'.downlink \in {NoCh, c} => c = ch
          BY <2>1, WiresAssumption, Zenon
    <3>6. got'[o] = g /\ read' = read
          BY <1>1, <2>4, Zenon
    <3>7. QED
          BY <3>1, <3>2, <3>3, <3>4, <3>5, <3>6, Zenon DEF Unbroken
  <2>10. QED
        BY <2>8, <2>9, Zenon
<1>10. QED
      BY <1>8, <1>9, Zenon

\* The server makes a state, announces it, or takes a report.
LEMMA StreamServer ==
    ASSUME StreamIInv, NEW ch \in Channels,
           HandleTCPConnect(ch) \/ Announce(ch) \/ HandleSelectDownlink(ch)
    PROVE  InOrder' /\ \A o \in Channels : Dialled' = {o} => Unbroken(o)'
<1>0. /\ BaseInv /\ ServerTypes /\ down \in [Channels -> Seq(Downlinked)]
      /\ got \in [Channels -> Seq(1..MaxDown)]
      BY BaseTypes, Zenon DEF StreamIInv, RouteIInv
<1>1. ASSUME UNCHANGED <<st, got, cliUp, srvUp, read>>,
             \A c \in Channels : \/ down'[c] = down[c]
                                 \/ \E t \in Seq(Downlinked) :
                                       down'[c] = down[c] \o t /\ \A i \in 1..Len(t) : t[i].t # "data"
      PROVE  InOrder'
  <2>1. ASSUME NEW o \in Channels, NEW c \in Channels
        PROVE  /\ Rising(down'[c], DownData(o), 0, read[o])
               /\ Ahead(down[c], DownData(o), got[o]) => Ahead(down'[c], DownData(o), got[o])
    <3>1. Rising(down[c], DownData(o), 0, read[o])
          BY Zenon DEF StreamIInv, InOrder
    <3>2. QED
          BY <1>0, <1>1, <3>1, OrderKept, Zenon
  <2>2. QED
        BY <1>1, <2>1, Zenon DEF StreamIInv, InOrder
<1>2. ASSUME UNCHANGED <<st, got, cliUp, srvUp, read, conns>>, NEW o \in Channels, Dialled = {o},
             obj'[o].downlink = obj[o].downlink \/ obj[o].downlink = NoCh,
             \A c \in Channels : \/ down'[c] = down[c]
                                 \/ \E t \in Seq(Downlinked) :
                                       down'[c] = down[c] \o t /\ \A i \in 1..Len(t) : t[i].t # "data"
      PROVE  Unbroken(o)'
  <2>1. Unbroken(o)
        BY <1>2, Zenon DEF StreamIInv
  <2>2. ASSUME NEW c \in Channels, Holds(o, down[c], Len(got[o]), read[o], Excused(o, c))
        PROVE  Holds(o, down'[c], Len(got[o]), read[o], Excused(o, c)')
    <3> DEFINE x == Excused(o, c)
               y == Excused(o, c)'
    <3>1. down[c] \in Seq(Downlinked) /\ Len(got[o]) \in Nat /\ read[o] \in Nat
          BY <1>0 DEF ServerTypes
    <3>2. x \in BOOLEAN /\ y \in BOOLEAN /\ (x => y) /\ Holds(o, down[c], Len(got[o]), read[o], x)
          BY <1>2, <2>2, Zenon DEF Excused
    <3>3. \/ down'[c] = down[c]
          \/ \E t \in Seq(Downlinked) : down'[c] = down[c] \o t /\ \A i \in 1..Len(t) : t[i].t # "data"
          BY <1>2, Zenon
    <3> HIDE DEF x, y
    <3>4. Holds(o, down'[c], Len(got[o]), read[o], y)
          BY <3>1, <3>2, <3>3, HoldsKept, ZenonT(30)
    <3>5. QED
          BY <3>4, Zenon DEF y
  <2>3. QED
        BY <1>2, <2>1, <2>2, Zenon DEF Unbroken
<1>3. CASE HandleTCPConnect(ch)
  <2>1. /\ UNCHANGED <<st, got, cliUp, srvUp, read, down>> /\ obj[ch].stage = "none"
        /\ \/ UNCHANGED <<conns, obj>> /\ Dialled' = Dialled
           \/ Dialled' = Dialled \cup {ch}
        BY <1>0, <1>3, BaseConnect, Zenon DEF clientVars
  <2>2. InOrder'
        BY <1>1, <2>1, Zenon
  <2>3. ASSUME NEW o \in Channels, Dialled' = {o}, Dialled' = Dialled \cup {ch}
        PROVE  Unbroken(o)'
    <3>1. o = ch /\ Dialled = {}
          BY <2>1, <2>3, Zenon DEF Dialled
    <3>2. Silent /\ got[o] = <<>> /\ read[o] = 0
          BY <1>0, <2>1, <3>1, Zenon DEF StreamIInv, RouteIInv, Routed, Silent, InOrder, BaseInv, Made
    <3>3. \A x : Holds(o, <<>>, 0, 0, x)
      <4>1. Whole(<<>>, DownData(o), 0, 0)
            BY Empty
      <4>2. QED
            BY <4>1 DEF Holds
    <3>4. \A c \in Channels : down'[c] = <<>>
          BY <2>1, <3>2, Zenon DEF Silent
    <3>5. got'[o] = <<>> /\ read'[o] = 0 /\ Len(<<>>) = 0
          BY <2>1, <3>2, Zenon
    <3>6. QED
          BY <3>3, <3>4, <3>5 DEF Unbroken
  <2>4. QED
        BY <1>2, <2>1, <2>2, <2>3, Zenon
<1>4. CASE Announce(ch)
  <2>1. /\ UNCHANGED <<st, got, cliUp, srvUp, read, conns>> /\ Dialled' = Dialled
        /\ \A x \in Channels : x # ch => obj'[x] = obj[x]
        /\ obj[ch].stage = "announce"
        /\ \/ down' = down
           \/ /\ obj'[ch].downlink = obj[ch].downlink
              /\ down' = Put(down, Reach, <<[t |-> "selectUplink", ch |-> ch]>>)
        BY <1>0, <1>4, BaseAnnounce, Zenon DEF clientVars
  <2>2. \A c \in Channels : \/ down'[c] = down[c]
                            \/ \E t \in Seq(Downlinked) :
                                  down'[c] = down[c] \o t /\ \A i \in 1..Len(t) : t[i].t # "data"
    <3> DEFINE t == <<[t |-> "selectUplink", ch |-> ch]>>
    <3>1. t \in Seq(Downlinked) /\ \A i \in 1..Len(t) : t[i].t # "data"
          BY DEF Downlinked
    <3>2. \A c \in Channels : down'[c] = down[c] \/ down'[c] = down[c] \o t
          BY <2>1, Zenon DEF Put
    <3> HIDE DEF t
    <3>3. QED
          BY <3>1, <3>2, Zenon
  <2>3. ASSUME NEW o \in Channels, Dialled' = {o} PROVE Unbroken(o)'
    <3>1. Dialled = {o} /\ obj[o].downlink = NoCh
          BY <2>1, <2>3, Zenon DEF Dialled, StreamIInv, RouteIInv, Routed
    <3>2. QED
          BY <1>2, <2>1, <2>2, <3>1, Zenon
  <2>4. QED
        BY <1>1, <2>1, <2>2, <2>3, Zenon
<1>5. CASE HandleSelectDownlink(ch)
  <2>1. /\ UNCHANGED <<st, got, cliUp, srvUp, read, conns, down>> /\ Dialled' = Dialled
        /\ \A o \in Channels : obj'[o].downlink = obj[o].downlink \/ obj[o].downlink = NoCh
    <3>1. /\ UNCHANGED <<conns, read, tgt, clientVars, down, cliUp, srvUp>> /\ Dialled' = Dialled
          /\ \/ obj' = obj
             \/ \E d \in Channels :
                   obj[ch].downlink = NoCh /\ obj' = [obj EXCEPT ![ch].downlink = d]
          BY <1>0, <1>5, BaseReport, Zenon
    <3>2. QED
          BY <1>0, <3>1, Zenon DEF clientVars, ServerTypes
  <2>2. QED
        BY <1>1, <1>2, <2>1, Zenon
<1>6. QED
      BY <1>3, <1>4, <1>5, Zenon

\* No payload has been read.
LEMMA StreamInit == Init => StreamIInv
<1> SUFFICES ASSUME Init PROVE StreamIInv
    BY Zenon
<1>1. RouteIInv
      BY RouteInit, Zenon
<1>2. Dialled = {}
      BY Zenon DEF Dialled, Init, Fresh
<1>3. InOrder
  <2>1. \A o \in Channels : got[o] = <<>> /\ read[o] = 0 /\ \A c \in Channels : down[c] = <<>>
        BY Zenon DEF Init, WiresInit
  <2>2. \A o : Rising(<<>>, DownData(o), 0, 0) /\ Ahead(<<>>, DownData(o), <<>>)
        BY Empty
  <2>3. Sorted(<<>>) /\ \A j \in 1..Len(<<>>) : FALSE
        BY DEF Sorted
  <2>4. QED
        BY <2>1, <2>2, <2>3, Zenon DEF InOrder
<1>4. QED
      BY <1>1, <1>2, <1>3, Zenon DEF StreamIInv

\* Every step keeps the order of the payloads.
LEMMA StreamStep == StreamIInv /\ [Next]_vars => StreamIInv'
<1> SUFFICES ASSUME StreamIInv, [Next]_vars PROVE StreamIInv'
    BY Zenon
<1>1. RouteIInv'
      BY RouteStep, Zenon DEF StreamIInv
<1>2. InOrder' /\ \A o \in Channels : Dialled' = {o} => Unbroken(o)'
  <2>1. CASE UNCHANGED vars
    <3>1. UNCHANGED <<st, obj, conns, read, got, down, cliUp, srvUp>>
          BY <2>1, Zenon DEF vars, clientVars, serverVars, wires
    <3>2. InOrder'
          BY <3>1, Zenon DEF StreamIInv, InOrder
    <3>3. \A o \in Channels : Unbroken(o)' <=> Unbroken(o)
      <4>1. \A o, c \in Channels : Excused(o, c)' = Excused(o, c)
            BY <3>1, Zenon DEF Excused
      <4>2. QED
            BY <3>1, <4>1, Zenon DEF Unbroken
    <3>4. QED
          BY <3>1, <3>2, <3>3, Zenon DEF StreamIInv, Dialled
  <2>2. CASE Next
        BY <2>2, NextCases, StreamDial, StreamSteps, StreamSelect, StreamData, StreamServer, StreamWorks, Zenon
  <2>3. QED
        BY <2>1, <2>2, Zenon
<1>3. QED
      BY <1>1, <1>2, Zenon DEF StreamIInv

\* What a step does to a stream: nothing, one payload is read from the target, or one is
\* taken by the client.
LEMMA StreamMoves ==
    ASSUME StreamIInv, [Next]_vars
    PROVE  /\ Dialled \subseteq Dialled'
           /\ \/ read' = read /\ got' = got
              \/ Dialled' = Dialled /\ \E ch \in Channels : Forward(ch)
              \/ Dialled' = Dialled /\ \E ch \in Channels : HandleData(ch) /\ Choose(st, ch) = ch
<1>0. BaseInv
      BY Zenon DEF StreamIInv, RouteIInv
<1>1. CASE UNCHANGED vars
      BY <1>1, Zenon DEF vars, clientVars, serverVars, Dialled
<1>2. CASE Dial
      BY <1>0, <1>2, BaseDial, Zenon DEF serverVars, Dialled
<1>3. CASE Steps
      BY <1>0, <1>3, Step, Zenon DEF serverVars, Dialled
<1>4. ASSUME NEW ch \in Channels, HandleSelectUplink(ch)
      PROVE  read' = read /\ got' = got /\ Dialled' = Dialled
      BY <1>0, <1>4, BaseChoice, ZenonT(30) DEF serverVars, Dialled
<1>5. ASSUME NEW ch \in Channels, HandleData(ch)
      PROVE  /\ Dialled' = Dialled
             /\ read' = read /\ (Choose(st, ch) = ch \/ got' = got)
      BY <1>0, <1>5, BaseChoice, ZenonT(30) DEF serverVars, Dialled
<1>6. ASSUME NEW ch \in Channels,
             HandleTCPConnect(ch) \/ Announce(ch) \/ HandleSelectDownlink(ch)
      PROVE  read' = read /\ got' = got /\ Dialled \subseteq Dialled'
      BY <1>0, <1>6, BaseConnect, BaseAnnounce, BaseReport, Zenon DEF clientVars
<1>7. ASSUME NEW ch \in Channels, Works(ch)
      PROVE  got' = got /\ Dialled' = Dialled /\ (read' = read \/ Forward(ch))
      BY <1>0, <1>7, Work, Zenon DEF clientVars, Dialled, Kin
<1>8. QED
      BY <1>1, <1>2, <1>3, <1>4, <1>5, <1>6, <1>7, NextCases, Zenon

\* The two ends implement a stream of payloads: reading from the target produces one, the
\* client's taking it delivers it, and another state of the server may break it.
LEMMA StreamRefines ==
    ASSUME StreamIInv, [Next]_vars
    PROVE  [Downlink!Next]_<<read, got, Redialled>>
<1>0. /\ BaseInv /\ ServerTypes /\ got \in [Channels -> Seq(1..MaxDown)]
      BY BaseTypes, Zenon DEF StreamIInv, RouteIInv
<1>1. Dialled \subseteq Dialled'
      BY StreamMoves, Zenon
<1>2. Redialled \subseteq Redialled' /\ Redialled' \subseteq Channels
      BY <1>1, Zenon DEF Redialled
<1>3. CASE read' = read /\ got' = got
      BY <1>2, <1>3, Zenon DEF Downlink!Next, Downlink!Break
<1>4. ASSUME Dialled' = Dialled, NEW ch \in Channels, Forward(ch)
      PROVE  Downlink!Next
  <2>1. /\ read' = [read EXCEPT ![ch] = @ + 1] /\ got' = got
        BY <1>4, Zenon DEF Forward, clientVars
  <2>2. Redialled' = Redialled
        BY <1>4, Zenon DEF Redialled
  <2>3. QED
        BY <2>1, <2>2, Zenon DEF Downlink!Next, Downlink!Produce
<1>5. ASSUME Dialled' = Dialled, NEW ch \in Channels, HandleData(ch), Choose(st, ch) = ch
      PROVE  Downlink!Next
  <2>0. \E o \in Channels, n \in 1..MaxDown :
            /\ Head(down[ch]) = [t |-> "data", o |-> o, n |-> n]
            /\ got' = IF Choose(st, ch) = ch THEN [got EXCEPT ![o] = Append(@, n)] ELSE got
        BY <1>0, <1>5, BaseChoice, Zenon
  <2>1. PICK o \in Channels, n \in 1..MaxDown :
            /\ Head(down[ch]) = [t |-> "data", o |-> o, n |-> n]
            /\ got' = [got EXCEPT ![o] = Append(@, n)]
        BY <1>5, <2>0, Zenon
  <2>2. /\ o \in Dialled /\ n <= read[o]
        /\ \A j \in 1..Len(got[o]) : got[o][j] < n
        /\ Dialled = {o} => n = Len(got[o]) + 1
        BY <1>5, <2>1, NextPayload, Zenon
  <2>3. got[o] \in Seq(1..MaxDown) /\ read[o] \in 0..MaxDown
        BY <1>0, Zenon DEF ServerTypes
  <2> DEFINE new == IF got[o] = <<>> THEN 0 ELSE got[o][Len(got[o])]
  <2>4. new \in Int /\ new < n
    <3>1. CASE got[o] = <<>>
          BY <3>1
    <3>2. CASE got[o] # <<>>
      <4>1. Len(got[o]) \in 1..Len(got[o])
            BY <2>3, <3>2
      <4>2. got[o][Len(got[o])] \in 1..MaxDown
            BY <2>3, <4>1, FrameAt, Zenon
      <4>3. QED
            BY <2>2, <3>2, <4>1, <4>2
    <3>3. QED
          BY <3>1, <3>2, Zenon
  <2>5. o \in Redialled \/ n = new + 1
    <3>1. SUFFICES ASSUME Dialled = {o} PROVE n = new + 1
          BY <2>2, Zenon DEF Redialled
    <3>2. Unbroken(o) /\ n = Len(got[o]) + 1
          BY <2>2, <3>1, Zenon DEF StreamIInv
    <3>3. CASE got[o] = <<>>
          BY <3>2, <3>3, Zenon
    <3>4. CASE got[o] # <<>>
      <4>1. Len(got[o]) \in 1..Len(got[o])
            BY <2>3, <3>4
      <4>2. got[o][Len(got[o])] = Len(got[o])
            BY <3>2, <4>1, Zenon DEF Unbroken
      <4>3. QED
            BY <3>2, <3>4, <4>2, Zenon
    <3>5. QED
          BY <3>3, <3>4, Zenon
  <2>6. n \in new + 1 .. read[o]
        BY <2>2, <2>3, <2>4
  <2>7. Redialled' = Redialled /\ read' = read
        BY <1>0, <1>5, BaseChoice, Zenon DEF Redialled, serverVars
  <2>8. new = Downlink!Newest(got[o])
        BY Zenon DEF Downlink!Newest
  <2> HIDE DEF new
  <2>9. Downlink!Deliver(o)
        BY <2>1, <2>5, <2>6, <2>7, <2>8, Zenon DEF Downlink!Deliver
  <2>10. QED
        BY <2>9, Zenon DEF Downlink!Next
<1>6. QED
      BY <1>3, <1>4, <1>5, StreamMoves, Zenon

\* Of every target the client's stream is a ByteStream: in order, without duplicates, and
\* a prefix unless another state was made for the connection; for any channels, payloads
\* and failures (forwardTargetToClient, sendDownlink, handleChannel).
THEOREM StreamsDelivered == Spec => DownlinkStream
<1>1. Init => Downlink!Init
  <2>1. SUFFICES ASSUME Init PROVE Downlink!Init
        BY Zenon
  <2>2. Redialled = {}
        BY <2>1, Zenon DEF Redialled, Dialled, Init, Fresh
  <2>3. QED
        BY <2>1, <2>2, Zenon DEF Init, Downlink!Init
<1>2. StreamIInv /\ [Next]_vars => [Downlink!Next]_<<read, got, Redialled>>
      BY StreamRefines, Zenon
<1>3. QED
      BY <1>1, <1>2, StreamInit, StreamStep, PTL DEF Spec, DownlinkStream, Downlink!Spec

=============================================================================
