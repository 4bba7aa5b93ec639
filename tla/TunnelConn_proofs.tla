------------------------- MODULE TunnelConn_proofs --------------------------
(***************************************************************************)
(* The routes of a connection, for any channels, any Hot Pair, any number  *)
(* of payloads and any failures: the two ends agree on the downlink.       *)
(***************************************************************************)
EXTENDS TunnelConn, TLAPS

-----------------------------------------------------------------------------
\* The FIFOs of the channels

\* The payloads among the frames s are those of D; their numbers rise, and are above
\* lo and at most hi.
Rising(s, D, lo, hi) ==
    /\ \A i \in 1..Len(s) : s[i] \in D => s[i].n \in Int /\ lo < s[i].n /\ s[i].n <= hi
    /\ \A i, j \in 1..Len(s) : i < j /\ s[i] \in D /\ s[j] \in D => s[i].n < s[j].n

\* Moreover no number is missing.
Whole(s, D, lo, hi) ==
    /\ Rising(s, D, lo, hi)
    /\ \A n \in lo + 1 .. hi : \E i \in 1..Len(s) : s[i] \in D /\ s[i].n = n

\* Every payload among the frames is later than those of q.
Ahead(s, D, q) ==
    \A i \in 1..Len(s) : s[i] \in D => \A j \in 1..Len(q) : q[j] < s[i].n

\* A request can only be the first frame.
Requested(s) == \A i \in 1..Len(s) : s[i].t = "connect" => i = 1

\* Numbers in rising order.
Sorted(q) == \A i, j \in 1..Len(q) : i < j => q[i] < q[j]

\* What a channel holds after Put.
LEMMA PutAt ==
    ASSUME NEW w, NEW S, NEW t, NEW c \in Channels
    PROVE  Put(w, S, t)[c] = IF c \in S THEN w[c] \o t ELSE w[c]
BY Zenon DEF Put

\* Frames put on channels keep the channels sequences of frames.
LEMMA PutSeq ==
    ASSUME NEW F, NEW w \in [Channels -> Seq(F)], NEW S, NEW t \in Seq(F)
    PROVE  Put(w, S, t) \in [Channels -> Seq(F)]
<1>1. \A s \in Seq(F) : s \o t \in Seq(F)
      OBVIOUS
<1>2. QED
      BY <1>1, Zenon DEF Put

\* Frames of a kind are frames of a wider one.
LEMMA Wider ==
    ASSUME NEW F, NEW G, F \subseteq G, NEW s \in Seq(F)
    PROVE  s \in Seq(G)
OBVIOUS

\* Every frame of a sequence is of its kind.
LEMMA FrameAt ==
    ASSUME NEW F, NEW s \in Seq(F), NEW i \in 1..Len(s)
    PROVE  s[i] \in F
OBVIOUS

\* Where the frames of a sequence with one or more at its end are.
LEMMA Joined ==
    ASSUME NEW F, NEW s \in Seq(F), NEW t \in Seq(F)
    PROVE  /\ s \o t \in Seq(F) /\ Len(s \o t) = Len(s) + Len(t)
           /\ Len(s) \in Nat /\ Len(t) \in Nat
           /\ \A i \in 1..Len(s) : i \in 1..Len(s \o t) /\ (s \o t)[i] = s[i]
           /\ \A i \in 1..Len(s \o t) : ~(i \in 1..Len(s)) =>
                 i - Len(s) \in 1..Len(t) /\ (s \o t)[i] = t[i - Len(s)]
OBVIOUS

\* Where the frames of a tail were.
LEMMA Rest ==
    ASSUME NEW F, NEW s \in Seq(F), s # <<>>
    PROVE  /\ Tail(s) \in Seq(F) /\ Head(s) \in F /\ Head(s) = s[1] /\ 1 \in 1..Len(s)
           /\ \A i \in 1..Len(Tail(s)) : i + 1 \in 1..Len(s) /\ Tail(s)[i] = s[i + 1]
           /\ \A i \in 1..Len(s) : i # 1 => i - 1 \in 1..Len(Tail(s)) /\ Tail(s)[i - 1] = s[i]
OBVIOUS

\* Frames other than payloads are put on a channel.
LEMMA OthersPut ==
    ASSUME NEW F, NEW s \in Seq(F), NEW t \in Seq(F), NEW D,
           \A i \in 1..Len(t) : t[i] \notin D, NEW lo, NEW hi, NEW q
    PROVE  /\ Rising(s, D, lo, hi) => Rising(s \o t, D, lo, hi)
           /\ Whole(s, D, lo, hi) => Whole(s \o t, D, lo, hi)
           /\ Ahead(s, D, q) => Ahead(s \o t, D, q)
<1> DEFINE e == s \o t
<1>1. /\ \A i \in 1..Len(e) : e[i] \in D => i \in 1..Len(s) /\ e[i] = s[i]
      /\ \A i \in 1..Len(s) : i \in 1..Len(e) /\ e[i] = s[i]
      BY Joined
<1> HIDE DEF e
<1>2. Rising(s, D, lo, hi) => Rising(e, D, lo, hi)
      BY <1>1, Zenon DEF Rising
<1>3. Whole(s, D, lo, hi) => Whole(e, D, lo, hi)
      BY <1>1, <1>2, Zenon DEF Whole
<1>4. Ahead(s, D, q) => Ahead(e, D, q)
      BY <1>1, Zenon DEF Ahead
<1>5. QED
      BY <1>2, <1>3, <1>4, Zenon DEF e

\* The next payload is put on a channel.
LEMMA NextPut ==
    ASSUME NEW F, NEW s \in Seq(F), NEW D, NEW lo \in Int, NEW hi \in Int, lo <= hi,
           NEW f \in F, f \in D, f.n = hi + 1
    PROVE  /\ Rising(s, D, lo, hi) => Rising(s \o <<f>>, D, lo, hi + 1)
           /\ Whole(s, D, lo, hi) => Whole(s \o <<f>>, D, lo, hi + 1)
<1> DEFINE e == s \o <<f>>
           k == Len(s) + 1
<1>1. /\ Len(s) \in Nat /\ k \in 1..Len(e) /\ e[k] = f
      /\ \A i \in 1..Len(e) : i = k \/ (i \in 1..Len(s) /\ e[i] = s[i] /\ i < k)
      /\ \A i \in 1..Len(s) : i \in 1..Len(e) /\ e[i] = s[i]
      OBVIOUS
<1> HIDE DEF e, k
<1>2. ASSUME Rising(s, D, lo, hi) PROVE Rising(e, D, lo, hi + 1)
  <2>1. \A i \in 1..Len(e) : e[i] \in D =>
            e[i].n \in Int /\ lo < e[i].n /\ e[i].n <= hi + 1
        BY <1>1, <1>2 DEF Rising
  <2>2. \A i, j \in 1..Len(e) : i < j /\ e[i] \in D /\ e[j] \in D => e[i].n < e[j].n
    <3> SUFFICES ASSUME NEW i \in 1..Len(e), NEW j \in 1..Len(e), i < j, e[i] \in D, e[j] \in D
                 PROVE  e[i].n < e[j].n
        BY Zenon
    <3>1. i # k
          BY <1>1
    <3>2. i \in 1..Len(s) /\ e[i] = s[i] /\ s[i].n \in Int /\ s[i].n <= hi
          BY <1>1, <1>2, <3>1, Zenon DEF Rising
    <3>3. CASE j = k
          BY <1>1, <3>2, <3>3
    <3>4. CASE j # k
          BY <1>1, <1>2, <3>2, <3>4, Zenon DEF Rising
    <3>5. QED
          BY <3>3, <3>4, Zenon
  <2>3. QED
        BY <2>1, <2>2, Zenon DEF Rising
<1>3. ASSUME Whole(s, D, lo, hi) PROVE Whole(e, D, lo, hi + 1)
  <2>1. ASSUME NEW n \in lo + 1 .. hi + 1
        PROVE  \E i \in 1..Len(e) : e[i] \in D /\ e[i].n = n
    <3>1. CASE n = hi + 1
          BY <1>1, <3>1, Zenon
    <3>2. CASE n # hi + 1
      <4>1. n \in lo + 1 .. hi
            BY <3>2
      <4>2. QED
            BY <1>1, <1>3, <4>1, Zenon DEF Whole
    <3>3. QED
          BY <3>1, <3>2, Zenon
  <2>2. QED
        BY <1>2, <1>3, <2>1, Zenon DEF Whole
<1>4. QED
      BY <1>2, <1>3, Zenon DEF e

\* A frame that is no payload, or one that is not looked at any more, is taken.
LEMMA Taken ==
    ASSUME NEW F, NEW s \in Seq(F), s # <<>>, NEW D, NEW lo, NEW hi, NEW q
    PROVE  /\ Rising(s, D, lo, hi) => Rising(Tail(s), D, lo, hi)
           /\ Head(s) \notin D /\ Whole(s, D, lo, hi) => Whole(Tail(s), D, lo, hi)
           /\ Ahead(s, D, q) => Ahead(Tail(s), D, q)
<1> DEFINE t == Tail(s)
<1>1. /\ \A i \in 1..Len(t) : i + 1 \in 1..Len(s) /\ t[i] = s[i + 1]
      /\ \A i, j \in 1..Len(t) : i < j => i + 1 < j + 1
      /\ \A i \in 1..Len(s) : i # 1 => i - 1 \in 1..Len(t) /\ t[i - 1] = s[i]
      /\ Head(s) = s[1]
      BY Rest
<1> HIDE DEF t
<1>2. Rising(s, D, lo, hi) => Rising(t, D, lo, hi)
      BY <1>1, Zenon DEF Rising
<1>3. Head(s) \notin D /\ Whole(s, D, lo, hi) => Whole(t, D, lo, hi)
      BY <1>1, <1>2, SMTT(30) DEF Whole
<1>4. Ahead(s, D, q) => Ahead(t, D, q)
      BY <1>1, Zenon DEF Ahead
<1>5. QED
      BY <1>2, <1>3, <1>4, Zenon DEF t

\* A payload is taken: it is the next one, and the others come after it.
LEMMA NextTaken ==
    ASSUME NEW F, NEW s \in Seq(F), s # <<>>, NEW D, NEW lo \in Int, NEW hi \in Int,
           Head(s) \in D
    PROVE  /\ Rising(s, D, lo, hi) =>
                 /\ Head(s).n \in Int /\ lo < Head(s).n /\ Head(s).n <= hi
                 /\ \A i \in 1..Len(Tail(s)) : Tail(s)[i] \in D => Head(s).n < Tail(s)[i].n
           /\ Whole(s, D, lo, hi) => Head(s).n = lo + 1 /\ Whole(Tail(s), D, lo + 1, hi)
<1> DEFINE t == Tail(s)
           h == Head(s)
<1>1. /\ \A i \in 1..Len(t) : i + 1 \in 1..Len(s) /\ t[i] = s[i + 1] /\ 1 < i + 1
      /\ \A i, j \in 1..Len(t) : i < j => i + 1 < j + 1
      /\ \A i \in 1..Len(s) : i # 1 => i - 1 \in 1..Len(t) /\ t[i - 1] = s[i] /\ 1 < i
      /\ h = s[1] /\ 1 \in 1..Len(s)
      BY Rest
<1> HIDE DEF t, h
<1>2. ASSUME Rising(s, D, lo, hi)
      PROVE  /\ h.n \in Int /\ lo < h.n /\ h.n <= hi
             /\ \A i \in 1..Len(t) : t[i] \in D => h.n < t[i].n
  <2>1. s[1] \in D
        BY <1>1, Zenon DEF h
  <2>2. QED
        BY <1>1, <1>2, <2>1, Zenon DEF Rising
<1>3. ASSUME Whole(s, D, lo, hi)
      PROVE  h.n = lo + 1 /\ Whole(t, D, lo + 1, hi)
  <2>1. Rising(s, D, lo, hi) /\ Rising(t, D, lo, hi)
        BY <1>3, Taken, Zenon DEF Whole, t
  <2>2. /\ h.n \in Int /\ lo < h.n /\ h.n <= hi
        /\ \A i \in 1..Len(t) : t[i] \in D => h.n < t[i].n
        BY <1>2, <2>1, Zenon
  <2>3. h.n = lo + 1
    <3>1. lo + 1 \in lo + 1 .. hi
          BY <2>2
    <3>2. PICK i \in 1..Len(s) : s[i] \in D /\ s[i].n = lo + 1
          BY <1>3, <3>1, Zenon DEF Whole
    <3>3. CASE i = 1
          BY <1>1, <3>2, <3>3, Zenon
    <3>4. CASE i # 1
          BY <1>1, <2>2, <3>2, <3>4, SMTT(30)
    <3>5. QED
          BY <3>3, <3>4, Zenon
  <2>4. Rising(t, D, lo + 1, hi)
        BY <2>1, <2>2, <2>3, Zenon DEF Rising
  <2>5. ASSUME NEW n \in lo + 2 .. hi
        PROVE  \E i \in 1..Len(t) : t[i] \in D /\ t[i].n = n
    <3>1. n \in lo + 1 .. hi /\ n # lo + 1
          OBVIOUS
    <3>2. PICK i \in 1..Len(s) : s[i] \in D /\ s[i].n = n
          BY <1>3, <3>1, Zenon DEF Whole
    <3>3. i # 1
          BY <1>1, <2>3, <3>1, <3>2, Zenon
    <3>4. QED
          BY <1>1, <3>2, <3>3, Zenon
  <2>6. \A n \in (lo + 1) + 1 .. hi : \E i \in 1..Len(t) : t[i] \in D /\ t[i].n = n
        BY <2>5
  <2>7. QED
        BY <2>3, <2>4, <2>6, Zenon DEF Whole
<1>4. QED
      BY <1>2, <1>3, Zenon DEF t, h

\* A channel without payloads.
LEMMA Empty ==
    ASSUME NEW D, NEW lo \in Int, NEW hi \in Int, NEW q
    PROVE  Rising(<<>>, D, lo, hi) /\ Ahead(<<>>, D, q) /\ Whole(<<>>, D, lo, lo)
BY DEF Rising, Ahead, Whole

\* A request stays the first frame when others follow it, and is gone when it is taken.
LEMMA RequestMoves ==
    ASSUME NEW F, NEW s \in Seq(F), NEW t \in Seq(F), Requested(s)
    PROVE  /\ (\A i \in 1..Len(t) : t[i].t # "connect") => Requested(s \o t)
           /\ s # <<>> => \A i \in 1..Len(Tail(s)) : Tail(s)[i].t # "connect"
<1>1. ASSUME \A i \in 1..Len(t) : t[i].t # "connect" PROVE Requested(s \o t)
      BY <1>1, Joined DEF Requested
<1>2. ASSUME s # <<>> PROVE \A i \in 1..Len(Tail(s)) : Tail(s)[i].t # "connect"
  <2>1. \A i \in 1..Len(Tail(s)) : i + 1 \in 1..Len(s) /\ Tail(s)[i] = s[i + 1] /\ i + 1 # 1
        BY <1>2, Rest
  <2>2. QED
        BY <2>1, Zenon DEF Requested
<1>3. QED
      BY <1>1, <1>2, Zenon

\* A number is added to numbers in order.
LEMMA SortedAppend ==
    ASSUME NEW q \in Seq(Int), Sorted(q), NEW n \in Int, \A j \in 1..Len(q) : q[j] < n
    PROVE  Sorted(Append(q, n))
<1> DEFINE e == Append(q, n)
           k == Len(q) + 1
<1>1. /\ e[k] = n /\ \A i \in 1..Len(e) : i = k \/ (i \in 1..Len(q) /\ e[i] = q[i] /\ i < k)
      OBVIOUS
<1> HIDE DEF e, k
<1>2. \A i, j \in 1..Len(e) : i < j => i # k
      BY <1>1
<1>3. QED
      BY <1>1, <1>2, Zenon DEF Sorted, e

-----------------------------------------------------------------------------
\* The connection

\* Payloads, on the way to the target and back from target o.
UpData == [t : {"data"}, n : 1..MaxUp]
DownData(o) == [t : {"data"}, o : {o}, n : 1..MaxDown]

-----------------------------------------------------------------------------
\* Requests and states

\* A channel carries the request at most once, before anything else, and its copy of
\* the request makes a state at most once.
Requests ==
    /\ dial = "idle" => \A c \in Channels : up[c] = <<>>
    /\ \A c \in Channels :
          /\ Requested(up[c])
          /\ obj[c].stage # "none" => \A i \in 1..Len(up[c]) : up[c][i].t # "connect"

\* Nothing comes from a state that was not made, and the registered one was.
Made ==
    /\ dial = "idle" => Dialled = {} /\ ~st.reg
    /\ st.pair => Pair # NoPair
    /\ conns # NoCh => obj[conns].stage # "none"
    /\ \A o \in Channels : obj[o].stage = "none" =>
          /\ read[o] = 0 /\ tgt[o] = <<>>
          /\ obj[o].downlink = NoCh /\ obj[o].conn = "none"

BaseInv == TypeOK /\ Requests /\ Made

ConnStates == [reg : BOOLEAN, uplink : Channels \cup {NoCh},
               downlink : Channels \cup {NoCh}, pair : BOOLEAN, connected : BOOLEAN]
Objects == [stage : Stages, closed : BOOLEAN, conn : {"none", "open", "closed"},
            downlink : Channels \cup {NoCh},
            pending : Seq(1..MaxUp), flush : Seq(1..MaxUp)]

\* What an object of the server may become.
LEMMA ObjectTypes ==
    /\ \A stage \in Stages : Fresh(stage) \in Objects
    /\ \A r \in Objects : Shut(r) \in Objects
    /\ \A r \in Objects, stage \in Stages : [r EXCEPT !.stage = stage] \in Objects
<1>1. \A stage \in Stages : Fresh(stage) \in Objects
      BY DEF Objects, Fresh
<1>2. \A r \in Objects : Shut(r) \in Objects
      BY Zenon DEF Objects, Shut
<1>3. \A r \in Objects, stage \in Stages : [r EXCEPT !.stage = stage] \in Objects
      BY Zenon DEF Objects
<1>4. QED
      BY <1>1, <1>2, <1>3, Zenon

\* The server's variables keep their types.
ServerTypes ==
    /\ conns \in Channels \cup {NoCh} /\ obj \in [Channels -> Objects]
    /\ read \in [Channels -> 0..MaxDown] /\ tgt \in [Channels -> Seq(1..MaxUp)]

\* unregisterConn, of objects that have their types.
LEMMA UnregisterTypes ==
    ASSUME conns \in Channels \cup {NoCh}, NEW objs \in [Channels -> Objects],
           UnregisterConn(objs)
    PROVE  /\ conns' = NoCh /\ obj' \in [Channels -> Objects]
           /\ \A o \in Channels :
                 \/ obj'[o] = objs[o]
                 \/ o = conns /\ obj'[o] = Shut(objs[o])
<1>1. \A r \in Objects : Shut(r) \in Objects
      BY ObjectTypes, Zenon
<1>2. conns' = NoCh /\ obj' = IF conns = NoCh THEN objs ELSE [objs EXCEPT ![conns] = Shut(objs[conns])]
      BY Zenon DEF UnregisterConn
<1> HIDE DEF Objects
<1>3. CASE conns = NoCh
      BY <1>2, <1>3, Zenon
<1>4. CASE conns # NoCh
  <2>1. conns \in Channels /\ Shut(objs[conns]) \in Objects
        BY <1>1, <1>4, Zenon
  <2>2. obj' = [objs EXCEPT ![conns] = Shut(objs[conns])]
        BY <1>2, <1>4, Zenon
  <2>3. QED
        BY <1>2, <2>1, <2>2, Zenon
<1>5. QED
      BY <1>3, <1>4, Zenon

\* One object changes its stage.
LEMMA StageTypes ==
    ASSUME obj \in [Channels -> Objects], NEW o \in Channels, NEW stage \in Stages
    PROVE  /\ At(o, stage) \in [Channels -> Objects]
           /\ \A x \in Channels :
                 At(o, stage)[x] = IF x = o THEN [obj[o] EXCEPT !.stage = stage] ELSE obj[x]
<1>1. [obj[o] EXCEPT !.stage = stage] \in Objects
      BY ObjectTypes, Zenon
<1>2. At(o, stage) = [obj EXCEPT ![o] = [obj[o] EXCEPT !.stage = stage]]
      BY Zenon DEF At
<1> HIDE DEF Objects
<1>3. QED
      BY <1>1, <1>2, Zenon

\* The channels that sendDownlink uses.
Reach == IF conns = NoCh THEN {}
         ELSE IF obj[conns].downlink = NoCh THEN OpenAt(srvUp)
         ELSE {obj[conns].downlink} \cap OpenAt(srvUp)

\* Answers of the server that announce no uplink.
NotUplink == {f \in Downlinked : f.t # "selectUplink"}

\* The steps of the server that make no state and choose no downlink.
Works(ch) ==
    \/ HandleTCPData(ch) \/ HandleTCPClose(ch) \/ CleanupServer(ch)
    \/ ConnectTarget(ch) \/ Forward(ch) \/ ForwardEnds(ch) \/ SendBye(ch)

\* What such a step may do to an object,
Kin(r, q) ==
    /\ q.stage = "none" <=> r.stage = "none"
    /\ q.stage = "announce" <=> r.stage = "announce"
    /\ q.downlink = r.downlink
    /\ r.stage = "none" => q = r

\* and to the frames of channel ch.
Consumed(ch) ==
    \/ up' = up
    \/ up' = [up EXCEPT ![ch] = <<>>]
    \/ up[ch] # <<>> /\ Head(up[ch]).t # "connect" /\ up' = [up EXCEPT ![ch] = Tail(@)]

\* A state that is shut, or that moves on from a stage where it is made and announced.
LEMMA KinIs ==
    /\ \A r \in Objects : Kin(r, r)
    /\ \A r \in Objects : r.stage # "none" => Kin(r, Shut(r))
    /\ \A r \in Objects, stage \in Stages \ {"none", "announce"} :
          r.stage \notin {"none", "announce"} => Kin(r, [r EXCEPT !.stage = stage])
BY Zenon DEF Objects, Kin, Shut

\* Payloads are kept, or taken out to be written.
LEMMA Filled ==
    ASSUME NEW r \in Objects, r.stage # "none", NEW s \in Seq(1..MaxUp)
    PROVE  /\ [r EXCEPT !.pending = s] \in Objects /\ Kin(r, [r EXCEPT !.pending = s])
           /\ [r EXCEPT !.flush = s] \in Objects /\ Kin(r, [r EXCEPT !.flush = s])
           /\ r.stage # "announce" =>
                 LET q == [r EXCEPT !.stage = "done", !.flush = <<>>]
                     p == [r EXCEPT !.stage = "opened", !.conn = "open",
                                    !.flush = s, !.pending = <<>>]
                 IN  q \in Objects /\ Kin(r, q) /\ p \in Objects /\ Kin(r, p)
<1>1. <<>> \in Seq(1..MaxUp) /\ "done" \in Stages /\ "opened" \in Stages
      BY DEF Stages
<1>2. QED
      BY <1>1, Zenon DEF Objects, Kin

\* The next stage of an object, as a step of its own.
LEMMA Moved ==
    ASSUME ServerTypes, NEW o \in Channels, obj[o].stage \notin {"none", "announce"},
           NEW stage \in Stages \ {"none", "announce"}
    PROVE  /\ At(o, stage) \in [Channels -> Objects]
           /\ \A x \in Channels : Kin(obj[x], At(o, stage)[x])
<1>1. /\ At(o, stage) \in [Channels -> Objects]
      /\ \A x \in Channels :
            At(o, stage)[x] = IF x = o THEN [obj[o] EXCEPT !.stage = stage] ELSE obj[x]
      BY StageTypes, Zenon DEF ServerTypes
<1>2. \A x \in Channels : obj[x] \in Objects
      BY Zenon DEF ServerTypes
<1> HIDE DEF Objects
<1>3. QED
      BY <1>1, <1>2, KinIs

\* unregisterConn after such a change.
LEMMA Unregistered ==
    ASSUME ServerTypes, conns # NoCh => obj[conns].stage # "none",
           NEW objs \in [Channels -> Objects], \A x \in Channels : Kin(obj[x], objs[x]),
           UnregisterConn(objs)
    PROVE  /\ conns' = NoCh /\ obj' \in [Channels -> Objects]
           /\ \A x \in Channels : Kin(obj[x], obj'[x])
<1>1. /\ conns' = NoCh /\ obj' \in [Channels -> Objects]
      /\ \A o \in Channels :
            \/ obj'[o] = objs[o]
            \/ o = conns /\ obj'[o] = Shut(objs[o])
      BY UnregisterTypes, Zenon DEF ServerTypes
<1>2. ASSUME NEW x \in Channels PROVE Kin(obj[x], obj'[x])
  <2>1. CASE obj'[x] = objs[x]
        BY <2>1, Zenon
  <2>2. CASE x = conns /\ obj'[x] = Shut(objs[x])
    <3>1. obj[x].stage # "none" /\ objs[x].stage # "none"
          BY <2>2, WiresAssumption, Zenon DEF Kin
    <3>2. Kin(objs[x], Shut(objs[x]))
          BY <3>1, KinIs, Zenon
    <3>3. QED
          BY <2>2, <3>1, <3>2, Zenon DEF Kin
  <2>3. QED
        BY <1>1, <2>1, <2>2, Zenon
<1>3. QED
      BY <1>1, <1>2, Zenon

\* BaseInv says that the server's variables have their types.
LEMMA BaseTypes ==
    ASSUME BaseInv
    PROVE  /\ ServerTypes /\ (conns # NoCh => obj[conns].stage # "none")
           /\ up \in [Channels -> Seq(Uplinked)] /\ down \in [Channels -> Seq(Downlinked)]
           /\ cliUp \in [Channels -> BOOLEAN] /\ srvUp \in [Channels -> BOOLEAN]
           /\ st \in ConnStates /\ wrote \in 0..MaxUp
           /\ got \in [Channels -> Seq(1..MaxDown)]
BY Zenon DEF BaseInv, TypeOK, ServerTypes, Objects, ConnStates, Made

\* What the server answers when it makes no state.
Statuses == [t : {"ok", "err", "close"}]

\* What a step of Works does.
LEMMA Work ==
    ASSUME BaseInv, NEW ch \in Channels, Works(ch)
    PROVE  /\ conns' \in {conns, NoCh} /\ obj' \in [Channels -> Objects]
           /\ \A x \in Channels : Kin(obj[x], obj'[x])
           /\ UNCHANGED clientVars /\ UNCHANGED cliUp /\ Consumed(ch)
           /\ srvUp' = srvUp \/ srvUp' = [srvUp EXCEPT ![ch] = FALSE]
           /\ \/ read' = read /\ (down' = down \/ \E t \in Seq(Statuses) : down' = Put(down, Reach, t))
              \/ Forward(ch)
           /\ down' = down \/ obj[ch].stage \notin {"none", "announce"}
           /\ tgt' = tgt \/ /\ obj[ch].stage # "none"
                            /\ \E n \in 1..MaxUp : tgt' = [tgt EXCEPT ![ch] = Append(@, n)]
<1>0. /\ ServerTypes /\ (conns # NoCh => obj[conns].stage # "none")
      /\ obj[ch] \in Objects /\ up[ch] \in Seq(Uplinked)
      /\ obj \in [Channels -> Objects] /\ conns \in Channels \cup {NoCh}
      BY BaseTypes, Zenon DEF ServerTypes
<1>1. \A x \in Channels : Kin(obj[x], obj[x])
      BY <1>0, KinIs, Zenon
<1>2. UnregisterConn(obj) => /\ conns' = NoCh /\ obj' \in [Channels -> Objects]
                             /\ \A x \in Channels : Kin(obj[x], obj'[x])
      BY <1>0, <1>1, Unregistered, Zenon
<1>3. CASE HandleTCPData(ch)
  <2> DEFINE n == Head(up[ch]).n
  <2>1. /\ up[ch] # <<>> /\ Head(up[ch]).t = "data" /\ up' = [up EXCEPT ![ch] = Tail(@)]
        /\ UNCHANGED <<read, clientVars, down, cliUp, srvUp>>
        BY <1>3, Zenon DEF HandleTCPData, Arrived
  <2>2. n \in 1..MaxUp
    <3>1. Head(up[ch]) \in Uplinked
          BY <1>0, <2>1
    <3>2. QED
          BY <2>1, <3>1, Zenon DEF Uplinked
  <2> HIDE DEF n
  <2>3. \/ UNCHANGED <<conns, obj, tgt>>
        \/ /\ obj' = [obj EXCEPT ![ch].pending = Append(@, n)] /\ conns = ch
           /\ UNCHANGED <<conns, tgt>>
        \/ conns = ch /\ tgt' = [tgt EXCEPT ![ch] = Append(@, n)] /\ UNCHANGED <<conns, obj>>
        \/ UnregisterConn(obj) /\ UNCHANGED tgt
        BY <1>3, Zenon DEF HandleTCPData, n
  <2>4. CASE UNCHANGED <<conns, obj, tgt>>
        BY <1>0, <1>1, <2>1, <2>4, Zenon DEF Consumed
  <2>5. CASE /\ obj' = [obj EXCEPT ![ch].pending = Append(@, n)] /\ conns = ch
             /\ UNCHANGED <<conns, tgt>>
    <3> DEFINE r == [obj[ch] EXCEPT !.pending = Append(obj[ch].pending, n)]
    <3>0. obj[ch].pending \in Seq(1..MaxUp)
          BY <1>0, Zenon DEF Objects
    <3>00. Append(obj[ch].pending, n) \in Seq(1..MaxUp)
          BY <2>2, <3>0
    <3>2. obj' = [obj EXCEPT ![ch] = r] /\ obj[ch].stage # "none"
          BY <1>0, <2>5, WiresAssumption, Zenon
    <3>1. r \in Objects /\ Kin(obj[ch], r)
          BY <1>0, <3>00, <3>2, Filled, Zenon
    <3> HIDE DEF r, Objects
    <3>3. /\ obj' \in [Channels -> Objects] /\ \A x \in Channels : Kin(obj[x], obj'[x])
          BY <1>0, <1>1, <3>1, <3>2, Zenon
    <3>4. QED
          BY <2>1, <2>5, <3>3, Zenon DEF Consumed
  <2>6. CASE conns = ch /\ tgt' = [tgt EXCEPT ![ch] = Append(@, n)] /\ UNCHANGED <<conns, obj>>
    <3>1. obj[ch].stage # "none"
          BY <1>0, <2>6, WiresAssumption, Zenon
    <3>2. QED
          BY <1>0, <1>1, <2>1, <2>2, <2>6, <3>1, Zenon DEF Consumed
  <2>7. CASE UnregisterConn(obj) /\ UNCHANGED tgt
        BY <1>2, <2>1, <2>7, Zenon DEF Consumed
  <2>8. QED
        BY <2>3, <2>4, <2>5, <2>6, <2>7, Zenon
<1>4. CASE HandleTCPClose(ch)
  <2>1. /\ up[ch] # <<>> /\ Head(up[ch]).t = "close" /\ up' = [up EXCEPT ![ch] = Tail(@)]
        /\ UNCHANGED <<read, tgt, clientVars, down, cliUp, srvUp>> /\ UnregisterConn(obj)
        BY <1>4, Zenon DEF HandleTCPClose, Arrived
  <2>2. QED
        BY <1>2, <2>1, Zenon DEF Consumed
<1>5. CASE CleanupServer(ch)
  <2>1. /\ up' = [up EXCEPT ![ch] = <<>>] /\ srvUp' = [srvUp EXCEPT ![ch] = FALSE]
        /\ UNCHANGED <<read, tgt, clientVars, down, cliUp>>
        /\ UnregisterConn(obj) \/ UNCHANGED <<conns, obj>>
        BY <1>5, Zenon DEF CleanupServer
  <2>2. QED
        BY <1>0, <1>1, <1>2, <2>1, Zenon DEF Consumed
<1>6. CASE ConnectTarget(ch) \/ Forward(ch) \/ ForwardEnds(ch) \/ SendBye(ch)
  <2>1. /\ UNCHANGED <<clientVars, up, cliUp, srvUp>>
        BY <1>6, Zenon DEF ConnectTarget, ConnectCheck, ConnectFails, ForgetFailed, Connected,
                    ReportOK, Flush, Forward, ForwardEnds, SendBye, wires
  <2>2. obj[ch].stage \notin {"none", "announce"}
        BY <1>6, Zenon DEF ConnectTarget, ConnectCheck, ConnectFails, ForgetFailed, Connected,
                    ReportOK, Flush, Forward, ForwardEnds, SendBye
  <2>3. \A stage \in Stages \ {"none", "announce"} :
            /\ At(ch, stage) \in [Channels -> Objects]
            /\ \A x \in Channels : Kin(obj[x], At(ch, stage)[x])
        BY <1>0, <2>2, Moved, Zenon
  <2>4. {"check", "dial", "failed", "opened", "flush", "forward", "bye", "done"}
            \subseteq Stages \ {"none", "announce"}
        BY Zenon DEF Stages
  <2>5. CASE ConnectCheck(ch)
    <3>1. /\ obj' = At(ch, "done") \/ obj' = At(ch, "dial")
          /\ UNCHANGED <<conns, read, tgt, down>>
          BY <2>5, Zenon DEF ConnectCheck, wires
    <3>2. QED
          BY <2>1, <2>2, <2>3, <2>4, <3>1, Zenon DEF Consumed
  <2>6. CASE ConnectFails(ch)
    <3>1. /\ obj' = At(ch, "failed") /\ UNCHANGED <<conns, read, tgt>>
          /\ down' = Put(down, Reach, <<[t |-> "err"], [t |-> "close"]>>)
          BY <2>6, Zenon DEF ConnectFails, SendDownlink, Reach
    <3>2. <<[t |-> "err"], [t |-> "close"]>> \in Seq(Statuses)
          BY DEF Statuses
    <3>3. QED
          BY <2>1, <2>2, <2>3, <2>4, <3>1, <3>2, Zenon DEF Consumed
  <2>7. CASE ForgetFailed(ch)
    <3>1. obj' = At(ch, "done") /\ conns' = NoCh /\ UNCHANGED <<read, tgt, down>>
          BY <2>7, Zenon DEF ForgetFailed, wires
    <3>2. QED
          BY <2>1, <2>2, <2>3, <2>4, <3>1, Zenon DEF Consumed
  <2>8. CASE Connected(ch)
    <3> DEFINE r == [obj[ch] EXCEPT !.stage = "opened", !.conn = "open",
                                    !.flush = obj[ch].pending, !.pending = <<>>]
    <3>1. /\ obj' = At(ch, "done") \/ obj' = [obj EXCEPT ![ch] = r]
          /\ UNCHANGED <<conns, read, tgt, down>>
          BY <1>0, <2>8, Zenon DEF Connected, wires
    <3>20. obj[ch].pending \in Seq(1..MaxUp)
          BY <1>0, Zenon DEF Objects
    <3>2. r \in Objects /\ Kin(obj[ch], r)
          BY <1>0, <2>2, <3>20, Filled, Zenon
    <3> HIDE DEF r, Objects
    <3>3. /\ obj' \in [Channels -> Objects] /\ \A x \in Channels : Kin(obj[x], obj'[x])
          BY <1>0, <1>1, <2>3, <2>4, <3>1, <3>2, Zenon
    <3>4. QED
          BY <2>1, <2>2, <3>1, <3>3, Zenon DEF Consumed
  <2>9. CASE ReportOK(ch)
    <3>1. /\ obj' = At(ch, "flush") /\ UNCHANGED <<conns, read, tgt>>
          /\ down' = Put(down, Reach, <<[t |-> "ok"]>>)
          BY <2>9, Zenon DEF ReportOK, SendDownlink, Reach
    <3>2. <<[t |-> "ok"]>> \in Seq(Statuses)
          BY DEF Statuses
    <3>3. QED
          BY <2>1, <2>2, <2>3, <2>4, <3>1, <3>2, Zenon DEF Consumed
  <2>10. CASE Flush(ch)
    <3> DEFINE r == [obj[ch] EXCEPT !.flush = Tail(obj[ch].flush)]
               q == [obj[ch] EXCEPT !.stage = "done", !.flush = <<>>]
               objs == [obj EXCEPT ![ch] = q]
    <3>1. UNCHANGED <<read, down>>
          BY <2>10, Zenon DEF Flush, wires
    <3>2. \/ obj' = At(ch, "forward") /\ UNCHANGED <<conns, tgt>>
          \/ /\ obj[ch].flush # <<>> /\ obj' = [obj EXCEPT ![ch] = r] /\ UNCHANGED conns
             /\ tgt' = [tgt EXCEPT ![ch] = Append(@, Head(obj[ch].flush))]
          \/ obj[ch].flush # <<>> /\ UnregisterConn(objs) /\ UNCHANGED tgt
          BY <1>0, <2>10, Zenon DEF Flush
    <3>3. obj[ch].flush \in Seq(1..MaxUp)
          BY <1>0, Zenon DEF Objects
    <3>6. obj[ch].flush # <<>> =>
              Head(obj[ch].flush) \in 1..MaxUp /\ Tail(obj[ch].flush) \in Seq(1..MaxUp)
          BY <3>3, Rest, ZenonT(30)
    <3>4. obj[ch].flush # <<>> => r \in Objects /\ Kin(obj[ch], r)
          BY <1>0, <2>2, <3>6, Filled, Zenon
    <3>5. q \in Objects /\ Kin(obj[ch], q)
          BY <1>0, <2>2, <3>3, Filled, Zenon
    <3> HIDE DEF r, q, Objects
    <3>7. objs \in [Channels -> Objects] /\ \A x \in Channels : Kin(obj[x], objs[x])
          BY <1>0, <1>1, <3>5, Zenon
    <3> HIDE DEF objs
    <3>8. UnregisterConn(objs) => /\ conns' = NoCh /\ obj' \in [Channels -> Objects]
                                  /\ \A x \in Channels : Kin(obj[x], obj'[x])
          BY <1>0, <3>7, Unregistered, Zenon
    <3>9. /\ conns' \in {conns, NoCh} /\ obj' \in [Channels -> Objects]
          /\ \A x \in Channels : Kin(obj[x], obj'[x])
          BY <1>0, <1>1, <2>3, <2>4, <3>2, <3>4, <3>8, Zenon
    <3>10. tgt' = tgt \/ \E n \in 1..MaxUp : tgt' = [tgt EXCEPT ![ch] = Append(@, n)]
          BY <3>2, <3>6, Zenon
    <3>11. QED
          BY <2>1, <2>2, <3>1, <3>9, <3>10, Zenon DEF Consumed
  <2>11. CASE Forward(ch)
    <3>1. UNCHANGED <<conns, obj, tgt>>
          BY <2>11, Zenon DEF Forward
    <3>2. QED
          BY <1>0, <1>1, <2>1, <2>2, <2>11, <3>1, Zenon DEF Consumed
  <2>12. CASE ForwardEnds(ch)
    <3>1. UnregisterConn(At(ch, "bye")) /\ UNCHANGED <<read, tgt, down>>
          BY <2>12, Zenon DEF ForwardEnds, wires
    <3>2. /\ conns' = NoCh /\ obj' \in [Channels -> Objects]
          /\ \A x \in Channels : Kin(obj[x], obj'[x])
          BY <1>0, <2>3, <2>4, <3>1, Unregistered, Zenon
    <3>3. QED
          BY <2>1, <2>2, <3>1, <3>2, Zenon DEF Consumed
  <2>13. CASE SendBye(ch)
    <3>1. /\ obj' = At(ch, "done") /\ UNCHANGED <<conns, read, tgt>>
          /\ down' = Put(down, Reach, <<[t |-> "close"]>>)
          BY <2>13, Zenon DEF SendBye, SendDownlink, Reach
    <3>2. <<[t |-> "close"]>> \in Seq(Statuses)
          BY DEF Statuses
    <3>3. QED
          BY <2>1, <2>2, <2>3, <2>4, <3>1, <3>2, Zenon DEF Consumed
  <2>14. QED
        BY <1>6, <2>5, <2>6, <2>7, <2>8, <2>9, <2>10, <2>11, <2>12, <2>13, Zenon DEF ConnectTarget
<1>7. QED
      BY <1>3, <1>4, <1>5, <1>6, Zenon DEF Works

\* The client's variables have their types.
ClientTypes ==
    /\ dial \in {"idle", "sent", "wait", "open", "failed"}
    /\ app \in {"writing", "half", "closed"}
    /\ st \in ConnStates /\ sink \in BOOLEAN /\ wrote \in 0..MaxUp
    /\ got \in [Channels -> Seq(1..MaxDown)] /\ cliUp \in [Channels -> BOOLEAN]

\* Frames of the client that are neither the request nor a report.
Plain == {f \in Uplinked : f.t \notin {"connect", "selectDownlink"}}

\* What a step of the client may do to the frames of the server.
Lowered ==
    \/ down' = down
    \/ \E ch \in Channels : down' = [down EXCEPT ![ch] = <<>>]
    \/ \E ch \in Channels : down[ch] # <<>> /\ down' = [down EXCEPT ![ch] = Tail(@)]

\* The steps of the client that make no request and choose no downlink.
Steps ==
    \/ DialLookup \/ DialConnected \/ DialTimeout \/ Write \/ CloseWrite \/ Close
    \/ \E ch \in Channels : HandleConnStatus(ch) \/ HandleClose(ch) \/ CleanupClient(ch)

\* What the state of the client may become.
LEMMA StateTypes ==
    /\ \A s \in ConnStates : /\ Gone(s) \in ConnStates /\ ~Gone(s).reg
                             /\ Gone(s).downlink = s.downlink /\ Gone(s).pair = s.pair
                             /\ Gone(s).connected = s.connected /\ Gone(s).uplink = s.uplink
    /\ \A s \in ConnStates, ch \in Channels :
          LET n == NoteUplink(s, ch)
          IN  /\ n \in ConnStates /\ n.reg = s.reg /\ n.downlink = s.downlink
              /\ n.pair = s.pair /\ n.connected = s.connected
              /\ n.uplink = IF s.reg /\ s.uplink = NoCh THEN ch ELSE s.uplink
    /\ \A s \in ConnStates, b \in BOOLEAN : [s EXCEPT !.connected = b] \in ConnStates
    /\ \A s \in ConnStates, d \in Channels \cup {NoCh} : [s EXCEPT !.downlink = d] \in ConnStates
<1>1. \A s \in ConnStates : /\ Gone(s) \in ConnStates /\ ~Gone(s).reg
                            /\ Gone(s).downlink = s.downlink /\ Gone(s).pair = s.pair
                            /\ Gone(s).connected = s.connected /\ Gone(s).uplink = s.uplink
      BY Zenon DEF ConnStates, Gone
<1>2. \A s \in ConnStates, ch \in Channels :
          LET n == NoteUplink(s, ch)
          IN  /\ n \in ConnStates /\ n.reg = s.reg /\ n.downlink = s.downlink
              /\ n.pair = s.pair /\ n.connected = s.connected
              /\ n.uplink = IF s.reg /\ s.uplink = NoCh THEN ch ELSE s.uplink
      BY ZenonT(30) DEF ConnStates, NoteUplink
<1>3. \A s \in ConnStates, b \in BOOLEAN : [s EXCEPT !.connected = b] \in ConnStates
      BY Zenon DEF ConnStates
<1>4. \A s \in ConnStates, d \in Channels \cup {NoCh} : [s EXCEPT !.downlink = d] \in ConnStates
      BY Zenon DEF ConnStates
<1>5. QED
      BY <1>1, <1>2, <1>3, <1>4, Zenon

\* What a step of Steps does.
LEMMA Step ==
    ASSUME BaseInv, Steps
    PROVE  /\ ClientTypes' /\ UNCHANGED serverVars /\ UNCHANGED <<srvUp, got>> /\ Lowered
           /\ st'.downlink = st.downlink /\ st'.pair = st.pair /\ (st'.reg => st.reg)
           /\ dial' = "idle" <=> dial = "idle"
           /\ st'.connected = st.connected \/ \E ch \in Channels : down[ch] # <<>>
           /\ \/ up' = up
              \/ dial = "open" /\ \E S \in SUBSET Channels, m \in Plain : up' = Put(up, S, <<m>>)
<1>0. ClientTypes /\ st \in ConnStates /\ wrote \in 0..MaxUp
      BY BaseTypes, Zenon DEF BaseInv, TypeOK, ClientTypes
<1>1. ASSUME NEW m, SendUp(m) PROVE \E S \in SUBSET Channels : up' = Put(up, S, <<m>>)
  <2> DEFINE S == IF st.reg /\ st.uplink # NoCh
                  THEN {st.uplink} \cap OpenAt(cliUp) ELSE OpenAt(cliUp)
  <2>1. S \in SUBSET Channels /\ up' = Put(up, S, <<m>>)
        BY <1>1, Zenon DEF SendUp, OpenAt
  <2>2. QED
        BY <2>1, Zenon
<1>2. Unregister => /\ st' = Gone(st) /\ Gone(st) \in ConnStates /\ ~Gone(st).reg
                    /\ Gone(st).downlink = st.downlink /\ Gone(st).pair = st.pair
                    /\ Gone(st).connected = st.connected /\ sink' \in BOOLEAN
      BY <1>0, StateTypes, Zenon DEF Unregister
<1>3. [t |-> "close"] \in Plain
      BY Zenon DEF Plain, Uplinked
<1> USE DEF wires, ClientTypes
<1> HIDE DEF ConnStates
<1>4. CASE DialLookup \/ DialConnected
      BY <1>0, <1>4, Zenon DEF DialLookup, DialConnected, Lowered
<1>5. CASE DialTimeout
      BY <1>0, <1>2, <1>5, Zenon DEF DialTimeout, Lowered
<1>6. CASE Write
  <2>1. wrote' = wrote + 1 /\ wrote < MaxUp /\ SendUp([t |-> "data", n |-> wrote'])
        /\ UNCHANGED <<dial, app, st, sink, got, serverVars, down, cliUp, srvUp>> /\ dial = "open"
        BY <1>6, Zenon DEF Write
  <2>2. wrote' \in 1..MaxUp
        BY <1>0, <2>1, WiresAssumption
  <2>3. [t |-> "data", n |-> wrote'] \in Plain
        BY <2>2, Zenon DEF Plain, Uplinked
  <2>4. \E S \in SUBSET Channels : up' = Put(up, S, <<[t |-> "data", n |-> wrote']>>)
        BY <1>1, <2>1, Zenon
  <2>5. \E S \in SUBSET Channels, m \in Plain : up' = Put(up, S, <<m>>)
        BY <2>3, <2>4, Zenon
  <2>6. wrote' \in 0..MaxUp
        BY <2>2
  <2>7. QED
        BY <1>0, <2>1, <2>5, <2>6, Zenon DEF Lowered
<1>7. CASE CloseWrite
  <2>1. \E S \in SUBSET Channels, m \in Plain : up' = Put(up, S, <<m>>)
        BY <1>1, <1>3, <1>7, Zenon DEF CloseWrite
  <2>2. QED
        BY <1>0, <1>7, <2>1, Zenon DEF CloseWrite, Lowered
<1>8. CASE Close
  <2>1. \E S \in SUBSET Channels, m \in Plain : up' = Put(up, S, <<m>>)
        BY <1>1, <1>3, <1>8, Zenon DEF Close
  <2>2. /\ dial = "open" /\ app' = "closed" /\ Unregister
        /\ UNCHANGED <<dial, wrote, got, serverVars, down, cliUp, srvUp>>
        BY <1>8, Zenon DEF Close
  <2>3. QED
        BY <1>0, <1>2, <2>1, <2>2, Zenon DEF Lowered
<1>9. ASSUME NEW ch \in Channels, HandleConnStatus(ch) \/ HandleClose(ch)
      PROVE  /\ ClientTypes' /\ UNCHANGED serverVars /\ UNCHANGED <<srvUp, got, dial, up>>
             /\ down[ch] # <<>> /\ down' = [down EXCEPT ![ch] = Tail(@)]
             /\ st'.downlink = st.downlink /\ st'.pair = st.pair /\ (st'.reg => st.reg)
  <2>1. CASE HandleConnStatus(ch)
    <3>1. /\ UNCHANGED <<dial, app, wrote, got, serverVars, up, cliUp, srvUp>>
          /\ down[ch] # <<>> /\ down' = [down EXCEPT ![ch] = Tail(@)]
          /\ \/ st' = [st EXCEPT !.connected = st.connected \/ st.reg] /\ UNCHANGED sink
             \/ Unregister
          BY <2>1, Zenon DEF HandleConnStatus, Received
    <3>2. (st.connected \/ st.reg) \in BOOLEAN
          BY Zenon
    <3>3. [st EXCEPT !.connected = st.connected \/ st.reg] \in ConnStates
          BY <1>0, <3>2, StateTypes, Zenon
    <3>4. LET s == [st EXCEPT !.connected = st.connected \/ st.reg]
          IN  s.downlink = st.downlink /\ s.pair = st.pair /\ s.reg = st.reg
          BY <1>0, Zenon DEF ConnStates
    <3>5. CASE st' = [st EXCEPT !.connected = st.connected \/ st.reg] /\ UNCHANGED sink
          BY <1>0, <3>1, <3>3, <3>4, <3>5, Zenon
    <3>6. CASE Unregister
          BY <1>0, <1>2, <3>1, <3>6, Zenon
    <3>7. QED
          BY <3>1, <3>5, <3>6, Zenon
  <2>2. CASE HandleClose(ch)
    <3>1. /\ UNCHANGED <<dial, app, wrote, got, serverVars, up, cliUp, srvUp>>
          /\ down[ch] # <<>> /\ down' = [down EXCEPT ![ch] = Tail(@)]
          /\ st' = Gone(NoteUplink(st, ch)) /\ sink' = (sink /\ ~st.reg)
          BY <2>2, Zenon DEF HandleClose, Received
    <3>2. /\ st' \in ConnStates /\ st'.downlink = st.downlink /\ st'.pair = st.pair /\ ~st'.reg
          BY <1>0, <3>1, StateTypes
    <3>3. sink' \in BOOLEAN
          BY <3>1, Zenon
    <3>4. QED
          BY <1>0, <3>1, <3>2, <3>3, Zenon
  <2>3. QED
        BY <1>9, <2>1, <2>2, Zenon
<1>10. ASSUME NEW ch \in Channels, CleanupClient(ch)
       PROVE  /\ ClientTypes' /\ UNCHANGED serverVars /\ UNCHANGED <<srvUp, got, dial, up>>
              /\ down' = [down EXCEPT ![ch] = <<>>] /\ st'.connected = st.connected
              /\ st'.downlink = st.downlink /\ st'.pair = st.pair /\ (st'.reg => st.reg)
  <2>1. /\ UNCHANGED <<dial, app, wrote, got, serverVars, up, srvUp>>
        /\ down' = [down EXCEPT ![ch] = <<>>] /\ cliUp' = [cliUp EXCEPT ![ch] = FALSE]
        /\ Unregister \/ UNCHANGED <<st, sink>>
        BY <1>10, Zenon DEF CleanupClient
  <2>2. cliUp' \in [Channels -> BOOLEAN]
        BY <1>0, <2>1, Zenon
  <2>3. QED
        BY <1>0, <1>2, <2>1, <2>2, Zenon
<1>11. CASE \E ch \in Channels : HandleConnStatus(ch) \/ HandleClose(ch)
      BY <1>9, <1>11, Zenon DEF Lowered
<1>12. CASE \E ch \in Channels : CleanupClient(ch)
      BY <1>10, <1>12, Zenon DEF Lowered
<1>13. QED
      BY <1>4, <1>5, <1>6, <1>7, <1>8, <1>11, <1>12, Zenon DEF Steps

\* Where the frames of a channel are after the server took from channel ch.
LEMMA ConsumedAt ==
    ASSUME up \in [Channels -> Seq(Uplinked)], NEW ch \in Channels,
           \/ up' = up
           \/ up' = [up EXCEPT ![ch] = <<>>]
           \/ up[ch] # <<>> /\ up' = [up EXCEPT ![ch] = Tail(@)]
    PROVE  /\ up' \in [Channels -> Seq(Uplinked)]
           /\ \A c \in Channels : up'[c] = up[c] \/ up'[c] = <<>>
                                  \/ (c = ch /\ up[c] # <<>> /\ up'[c] = Tail(up[c]))
<1>1. up[ch] # <<>> => Tail(up[ch]) \in Seq(Uplinked)
      BY Rest, Zenon
<1>2. <<>> \in Seq(Uplinked)
      OBVIOUS
<1> HIDE DEF Uplinked
<1>3. QED
      BY <1>1, <1>2, Zenon

\* The same for the client.
LEMMA LoweredAt ==
    ASSUME down \in [Channels -> Seq(Downlinked)], Lowered
    PROVE  /\ down' \in [Channels -> Seq(Downlinked)]
           /\ \A c \in Channels : down'[c] = down[c] \/ down'[c] = <<>>
                                  \/ (down[c] # <<>> /\ down'[c] = Tail(down[c]))
<1>1. \A c \in Channels : down[c] # <<>> => Tail(down[c]) \in Seq(Downlinked)
      BY Rest, Zenon
<1>2. <<>> \in Seq(Downlinked)
      OBVIOUS
<1> HIDE DEF Downlinked
<1>3. QED
      BY <1>1, <1>2, Zenon DEF Lowered

\* Frames that are taken leave Requests as it is.
LEMMA RequestsTaken ==
    ASSUME BaseInv, up' \in [Channels -> Seq(Uplinked)], dial' = "idle" => dial = "idle",
           \A c \in Channels : up'[c] = up[c] \/ up'[c] = <<>>
                               \/ (up[c] # <<>> /\ up'[c] = Tail(up[c])),
           \A c \in Channels : obj'[c].stage # "none" =>
               obj[c].stage # "none" \/ (up[c] # <<>> /\ up'[c] = Tail(up[c]))
    PROVE  Requests'
<1>1. dial' = "idle" => \A c \in Channels : up'[c] = <<>>
      BY Zenon DEF BaseInv, Requests
<1>2. ASSUME NEW c \in Channels
      PROVE  /\ Requested(up'[c])
             /\ obj'[c].stage # "none" => \A i \in 1..Len(up'[c]) : up'[c][i].t # "connect"
  <2>1. up[c] \in Seq(Uplinked) /\ Requested(up[c])
        BY BaseTypes, Zenon DEF BaseInv, Requests
  <2>2. CASE up[c] # <<>> /\ up'[c] = Tail(up[c])
    <3>1. \A i \in 1..Len(Tail(up[c])) : Tail(up[c])[i].t # "connect"
          BY <2>1, <2>2, RequestMoves, Zenon
    <3>2. QED
          BY <2>2, <3>1, Zenon DEF Requested
  <2>3. CASE up'[c] = <<>>
        BY <2>3 DEF Requested
  <2>4. CASE up'[c] = up[c] /\ ~(up[c] # <<>> /\ up'[c] = Tail(up[c]))
        BY <2>1, <2>4, Zenon DEF BaseInv, Requests
  <2>5. QED
        BY <2>2, <2>3, <2>4, Zenon
<1>3. QED
      BY <1>1, <1>2, Zenon DEF Requests

\* Frames that are sent after the request leave Requests as it is.
LEMMA RequestsSent ==
    ASSUME BaseInv, dial # "idle", dial' # "idle", NEW S \in SUBSET Channels, NEW m \in Uplinked,
           m.t # "connect", up' = Put(up, S, <<m>>), obj' = obj
    PROVE  Requests' /\ up' \in [Channels -> Seq(Uplinked)]
<1>0. up \in [Channels -> Seq(Uplinked)] /\ <<m>> \in Seq(Uplinked)
      BY BaseTypes
<1>1. up' \in [Channels -> Seq(Uplinked)]
      BY <1>0, PutSeq, Zenon
<1>2. ASSUME NEW c \in Channels
      PROVE  /\ Requested(up'[c])
             /\ obj'[c].stage # "none" => \A i \in 1..Len(up'[c]) : up'[c][i].t # "connect"
  <2>1. up[c] \in Seq(Uplinked) /\ Requested(up[c])
        BY <1>0, Zenon DEF BaseInv, Requests
  <2>2. up'[c] = up[c] \/ up'[c] = up[c] \o <<m>>
        BY Zenon DEF Put
  <2>3. CASE up'[c] = up[c]
        BY <2>1, <2>3, Zenon DEF BaseInv, Requests
  <2>4. CASE up'[c] = up[c] \o <<m>>
    <3>1. \A i \in 1..Len(<<m>>) : <<m>>[i].t # "connect"
          OBVIOUS
    <3>2. Requested(up[c] \o <<m>>)
          BY <1>0, <2>1, <3>1, RequestMoves, Zenon
    <3>3. ASSUME obj'[c].stage # "none", NEW i \in 1..Len(up[c] \o <<m>>)
          PROVE  (up[c] \o <<m>>)[i].t # "connect"
      <4>1. \A k \in 1..Len(up[c]) : up[c][k].t # "connect"
            BY <3>3, Zenon DEF BaseInv, Requests
      <4>2. CASE i \in 1..Len(up[c])
            BY <1>0, <2>1, <4>1, <4>2, Joined
      <4>3. CASE ~(i \in 1..Len(up[c]))
        <5>1. i - Len(up[c]) \in 1..Len(<<m>>) /\ (up[c] \o <<m>>)[i] = <<m>>[i - Len(up[c])]
              BY <1>0, <2>1, <4>3, Joined
        <5>2. QED
              BY <3>1, <5>1, Zenon
      <4>4. QED
            BY <4>2, <4>3, Zenon
    <3>4. QED
          BY <2>4, <3>2, <3>3, Zenon
  <2>5. QED
        BY <2>2, <2>3, <2>4, Zenon
<1>3. QED
      BY <1>1, <1>2, Zenon DEF Requests

\* The types of the two ends and of the channels are those of TypeOK.
LEMMA Typed ==
    ClientTypes /\ ServerTypes /\ up \in [Channels -> Seq(Uplinked)]
    /\ down \in [Channels -> Seq(Downlinked)] /\ srvUp \in [Channels -> BOOLEAN] <=> TypeOK
<1>1. ClientTypes /\ ServerTypes /\ up \in [Channels -> Seq(Uplinked)]
      /\ down \in [Channels -> Seq(Downlinked)] /\ srvUp \in [Channels -> BOOLEAN] => TypeOK
      BY Zenon DEF ClientTypes, ServerTypes, TypeOK, Objects, ConnStates
<1>2. TypeOK => ClientTypes /\ ServerTypes /\ up \in [Channels -> Seq(Uplinked)]
      /\ down \in [Channels -> Seq(Downlinked)] /\ srvUp \in [Channels -> BOOLEAN]
      BY Zenon DEF ClientTypes, ServerTypes, TypeOK, Objects, ConnStates
<1>3. QED
      BY <1>1, <1>2, Zenon

\* What the server sends has its type.
LEMMA Answered ==
    ASSUME down \in [Channels -> Seq(Downlinked)], NEW S, NEW t \in Seq(Downlinked),
           down' = Put(down, S, t)
    PROVE  down' \in [Channels -> Seq(Downlinked)]
BY PutSeq, Zenon

-----------------------------------------------------------------------------
\* BaseInv is inductive

\* A step of Works.
LEMMA BaseWorks ==
    ASSUME BaseInv, NEW ch \in Channels, Works(ch)
    PROVE  BaseInv'
<1>1. /\ conns' \in {conns, NoCh} /\ obj' \in [Channels -> Objects]
      /\ \A x \in Channels : Kin(obj[x], obj'[x])
      /\ UNCHANGED clientVars /\ UNCHANGED cliUp /\ Consumed(ch)
      /\ srvUp' = srvUp \/ srvUp' = [srvUp EXCEPT ![ch] = FALSE]
      /\ \/ read' = read /\ (down' = down \/ \E t \in Seq(Statuses) : down' = Put(down, Reach, t))
         \/ Forward(ch)
      /\ tgt' = tgt \/ /\ obj[ch].stage # "none"
                       /\ \E n \in 1..MaxUp : tgt' = [tgt EXCEPT ![ch] = Append(@, n)]
      BY Work, Zenon
<1>2. ServerTypes /\ up \in [Channels -> Seq(Uplinked)] /\ down \in [Channels -> Seq(Downlinked)]
      /\ ClientTypes /\ srvUp \in [Channels -> BOOLEAN]
      BY Typed, Zenon DEF BaseInv
<1>3. /\ up' \in [Channels -> Seq(Uplinked)]
      /\ \A c \in Channels : up'[c] = up[c] \/ up'[c] = <<>>
                             \/ (c = ch /\ up[c] # <<>> /\ up'[c] = Tail(up[c]))
      BY <1>1, <1>2, ConsumedAt, Zenon DEF Consumed
<1>4. Requests'
  <2>1. dial' = dial /\ \A c \in Channels : obj'[c].stage # "none" => obj[c].stage # "none"
        BY <1>1, Zenon DEF clientVars, Kin
  <2>2. QED
        BY <1>3, <2>1, RequestsTaken, Zenon
<1>5. /\ read' \in [Channels -> 0..MaxDown] /\ down' \in [Channels -> Seq(Downlinked)]
      /\ \A o \in Channels : obj[o].stage = "none" => read'[o] = read[o]
  <2>1. CASE read' = read /\ down' = down
        BY <1>2, <2>1, Zenon DEF ServerTypes
  <2>2. ASSUME read' = read, NEW t \in Seq(Statuses), down' = Put(down, Reach, t)
        PROVE  down' \in [Channels -> Seq(Downlinked)]
    <3>1. t \in Seq(Downlinked)
      <4>1. Statuses \subseteq Downlinked
            BY Zenon DEF Statuses, Downlinked
      <4>2. QED
            BY <4>1, Wider, Zenon
    <3>2. QED
          BY <1>2, <2>2, <3>1, Answered, Zenon
  <2>3. CASE Forward(ch)
    <3> DEFINE f == [t |-> "data", o |-> ch, n |-> read[ch] + 1]
    <3>1. /\ obj[ch].stage = "forward" /\ read[ch] < MaxDown /\ read' = [read EXCEPT ![ch] = read[ch] + 1]
          /\ down' = Put(down, Reach, <<f>>)
          BY <2>3, Zenon DEF Forward, SendDownlink, Reach
    <3>2. read[ch] + 1 \in 1..MaxDown /\ read[ch] + 1 \in 0..MaxDown
          BY <1>2, <3>1, WiresAssumption, SMTT(30) DEF ServerTypes
    <3>3. f \in Downlinked
          BY <3>2, Zenon DEF Downlinked
    <3>4. <<f>> \in Seq(Downlinked)
          BY <3>3
    <3> HIDE DEF f
    <3>5. down' \in [Channels -> Seq(Downlinked)]
          BY <1>2, <3>1, <3>4, Answered, Zenon
    <3>6. QED
          BY <1>2, <3>1, <3>2, <3>5, Zenon DEF ServerTypes
  <2>4. QED
        BY <1>1, <1>2, <2>1, <2>2, <2>3, Zenon DEF ServerTypes
<1>6. tgt' \in [Channels -> Seq(1..MaxUp)] /\ \A o \in Channels : obj[o].stage = "none" => tgt'[o] = tgt[o]
  <2>1. \A n \in 1..MaxUp : Append(tgt[ch], n) \in Seq(1..MaxUp)
        BY <1>2 DEF ServerTypes
  <2>2. QED
        BY <1>1, <1>2, <2>1, ZenonT(30) DEF ServerTypes
<1>7. ServerTypes' /\ srvUp' \in [Channels -> BOOLEAN] /\ ClientTypes'
  <2>1. ServerTypes'
        BY <1>1, <1>2, <1>5, <1>6, Zenon DEF ServerTypes
  <2>2. srvUp' \in [Channels -> BOOLEAN]
        BY <1>1, <1>2, Zenon
  <2>3. ClientTypes'
        BY <1>1, <1>2, Zenon DEF ClientTypes, clientVars
  <2>4. QED
        BY <2>1, <2>2, <2>3, Zenon
<1>8. TypeOK'
      BY <1>3, <1>5, <1>7, Zenon DEF TypeOK, ClientTypes, ServerTypes, Objects, ConnStates
<1>9. Made'
  <2>1. Made /\ st' = st /\ dial' = dial /\ Dialled' = Dialled
        BY <1>1, Zenon DEF BaseInv, clientVars, Dialled, Kin
  <2>2. conns' # NoCh => obj'[conns'].stage # "none"
        BY <1>1, <2>1, <1>2, Zenon DEF Made, Kin, ServerTypes
  <2>3. ASSUME NEW o \in Channels, obj'[o].stage = "none"
        PROVE  /\ read'[o] = 0 /\ tgt'[o] = <<>>
               /\ obj'[o].downlink = NoCh /\ obj'[o].conn = "none"
    <3>1. obj[o].stage = "none" /\ obj'[o] = obj[o]
          BY <1>1, <2>3, Zenon DEF Kin
    <3>2. QED
          BY <1>5, <1>6, <2>1, <3>1, Zenon DEF Made
  <2>4. QED
        BY <2>1, <2>2, <2>3, Zenon DEF Made
<1>10. QED
      BY <1>4, <1>8, <1>9, Zenon DEF BaseInv

\* A step of Steps.
LEMMA BaseSteps ==
    ASSUME BaseInv, Steps
    PROVE  BaseInv'
<1>1. /\ ClientTypes' /\ UNCHANGED serverVars /\ UNCHANGED <<srvUp, got>> /\ Lowered
      /\ st'.downlink = st.downlink /\ st'.pair = st.pair /\ (st'.reg => st.reg)
      /\ dial' = "idle" <=> dial = "idle"
      /\ \/ up' = up
         \/ dial = "open" /\ \E S \in SUBSET Channels, m \in Plain : up' = Put(up, S, <<m>>)
      BY Step, Zenon
<1>2. ServerTypes /\ up \in [Channels -> Seq(Uplinked)] /\ down \in [Channels -> Seq(Downlinked)]
      /\ ClientTypes /\ srvUp \in [Channels -> BOOLEAN]
      BY Typed, Zenon DEF BaseInv
<1>3. Requests' /\ up' \in [Channels -> Seq(Uplinked)]
  <2>1. CASE up' = up
        BY <1>1, <1>2, <2>1, RequestsTaken, Zenon DEF serverVars
  <2>2. ASSUME dial = "open", NEW S \in SUBSET Channels, NEW m \in Plain, up' = Put(up, S, <<m>>)
        PROVE  Requests' /\ up' \in [Channels -> Seq(Uplinked)]
    <3>1. m \in Uplinked /\ m.t # "connect"
          BY Zenon DEF Plain
    <3>2. dial # "idle" /\ dial' # "idle" /\ obj' = obj
          BY <1>1, <2>2, Zenon DEF serverVars
    <3>3. QED
          BY <2>2, <3>1, <3>2, RequestsSent, Zenon
  <2>3. QED
        BY <1>1, <2>1, <2>2, Zenon
<1>4. TypeOK'
  <2>1. ServerTypes' /\ srvUp' \in [Channels -> BOOLEAN]
        BY <1>1, <1>2, Zenon DEF ServerTypes, serverVars
  <2>2. down' \in [Channels -> Seq(Downlinked)]
        BY <1>1, <1>2, LoweredAt, Zenon
  <2>3. QED
        BY <1>1, <1>3, <2>1, <2>2, Zenon
           DEF TypeOK, ClientTypes, ServerTypes, Objects, ConnStates
<1>5. Made'
      BY <1>1, Zenon DEF BaseInv, Made, Dialled, serverVars
<1>6. QED
      BY <1>3, <1>4, <1>5, Zenon DEF BaseInv

\* Dial.
LEMMA BaseDial ==
    ASSUME BaseInv, Dial
    PROVE  /\ BaseInv' /\ st'.downlink = NoCh /\ ~st'.connected /\ dial = "idle"
           /\ \E S \in SUBSET Channels : up' = Put(up, S, <<[t |-> "connect"]>>)
           /\ UNCHANGED <<app, wrote, got, serverVars, down, cliUp, srvUp>>
<1>0. ServerTypes /\ up \in [Channels -> Seq(Uplinked)] /\ down \in [Channels -> Seq(Downlinked)]
      /\ ClientTypes /\ srvUp \in [Channels -> BOOLEAN]
      BY Typed, Zenon DEF BaseInv
<1>1. PICK refused \in Refused :
          LET hot == Pair # NoPair /\ ~refused
              S == IF hot THEN {Pair.up} \cap OpenAt(cliUp) ELSE OpenAt(cliUp)
          IN  /\ up' = Put(up, S, <<[t |-> "connect"]>>)
              /\ st' = [reg |-> hot \/ S # {}, uplink |-> IF hot THEN Pair.up ELSE NoCh,
                        downlink |-> NoCh, pair |-> hot, connected |-> FALSE]
              /\ sink' = (hot \/ S # {})
      BY Zenon DEF Dial
<1> DEFINE hot == Pair # NoPair /\ ~refused
           S == IF hot THEN {Pair.up} \cap OpenAt(cliUp) ELSE OpenAt(cliUp)
<1>2. /\ up' = Put(up, S, <<[t |-> "connect"]>>)
      /\ st' = [reg |-> hot \/ S # {}, uplink |-> IF hot THEN Pair.up ELSE NoCh,
                downlink |-> NoCh, pair |-> hot, connected |-> FALSE]
      /\ sink' = (hot \/ S # {})
      BY <1>1, Zenon
<1>3. /\ dial = "idle" /\ dial' = "sent"
      /\ UNCHANGED <<app, wrote, got, serverVars, down, cliUp, srvUp>>
      BY Zenon DEF Dial
<1>4. S \in SUBSET Channels /\ sink' \in BOOLEAN
      BY <1>2, Zenon DEF OpenAt
<1>5. st' \in ConnStates /\ (st'.pair => Pair # NoPair) /\ st'.downlink = NoCh /\ ~st'.connected
      BY <1>2, WiresAssumption, Zenon DEF ConnStates
<1> HIDE DEF S, hot
<1>6. <<[t |-> "connect"]>> \in Seq(Uplinked)
      BY DEF Uplinked
<1>7. up' \in [Channels -> Seq(Uplinked)]
      BY <1>0, <1>2, <1>6, PutSeq, Zenon
<1>8. \A c \in Channels : up'[c] = <<>> \/ up'[c] = <<[t |-> "connect"]>>
  <2>1. \A c \in Channels : up[c] = <<>>
        BY <1>3, Zenon DEF BaseInv, Requests
  <2>2. \A c \in Channels : up'[c] = up[c] \/ up'[c] = up[c] \o <<[t |-> "connect"]>>
        BY <1>2, Zenon DEF Put
  <2>3. <<>> \o <<[t |-> "connect"]>> = <<[t |-> "connect"]>>
        OBVIOUS
  <2>4. QED
        BY <2>1, <2>2, <2>3, Zenon
<1>9. \A c \in Channels : obj[c].stage = "none"
      BY <1>3, Zenon DEF BaseInv, Made, Dialled
<1>10. Requests'
  <2>1. \A c \in Channels : Requested(up'[c])
        BY <1>8 DEF Requested
  <2>2. QED
        BY <1>3, <1>9, <2>1, Zenon DEF Requests, serverVars
<1>11. TypeOK'
      BY <1>0, <1>3, <1>4, <1>5, <1>7, Zenon
         DEF TypeOK, ClientTypes, ServerTypes, Objects, ConnStates, serverVars
<1>12. Made'
      BY <1>3, <1>5, Zenon DEF BaseInv, Made, serverVars, Dialled
<1>13. QED
      BY <1>2, <1>3, <1>4, <1>5, <1>10, <1>11, <1>12, Zenon DEF BaseInv

\* The choice of a downlink: the one the client has, the pair's, or the channel itself.
LEMMA Choice ==
    ASSUME BaseInv, NEW ch \in Channels
    PROVE  /\ Choose(st, ch) = NoCh <=> ~st.reg
           /\ st.reg => Choose(st, ch) \in Channels
           /\ st.reg /\ st.downlink # NoCh => Choose(st, ch) = st.downlink
           /\ st.reg /\ st.downlink = NoCh => /\ st.pair => Pair # NoPair /\ Choose(st, ch) = Pair.down
                                              /\ ~st.pair => Choose(st, ch) = ch
<1>1. st \in ConnStates /\ (st.pair => Pair # NoPair)
      BY BaseTypes, Zenon DEF BaseInv, Made
<1>2. QED
      BY <1>1, WiresAssumption, Zenon DEF Choose, ConnStates

\* MsgSelectUplink and MsgTCPData, at the client.
LEMMA BaseChoice ==
    ASSUME BaseInv, NEW ch \in Channels, HandleSelectUplink(ch) \/ HandleData(ch)
    PROVE  /\ BaseInv' /\ UNCHANGED <<dial, app, sink, wrote, serverVars, cliUp, srvUp>>
           /\ down[ch] # <<>> /\ Head(down[ch]) \in Downlinked
           /\ down' = [down EXCEPT ![ch] = Tail(@)]
           /\ st'.downlink = IF st.reg THEN Choose(st, ch) ELSE st.downlink
           /\ st'.reg = st.reg /\ st'.pair = st.pair /\ st'.connected = st.connected
           /\ HandleSelectUplink(ch) =>
                 /\ Head(down[ch]).t = "selectUplink" /\ got' = got
                 /\ \/ up' = up
                    \/ \E u \in Channels :
                          /\ st.reg /\ Choose(st, ch) # st.downlink
                          /\ up' = Put(up, {u}, <<[t |-> "selectDownlink", ch |-> Choose(st, ch)]>>)
           /\ HandleData(ch) =>
                 /\ up' = up /\ st'.uplink = st.uplink
                 /\ \E o \in Channels, n \in 1..MaxDown :
                       /\ Head(down[ch]) = [t |-> "data", o |-> o, n |-> n]
                       /\ got' = IF Choose(st, ch) = ch THEN [got EXCEPT ![o] = Append(@, n)] ELSE got
<1>0. ServerTypes /\ up \in [Channels -> Seq(Uplinked)] /\ down \in [Channels -> Seq(Downlinked)]
      /\ ClientTypes /\ srvUp \in [Channels -> BOOLEAN] /\ st \in ConnStates
      BY Typed, BaseTypes, Zenon DEF BaseInv
<1>1. /\ down[ch] # <<>> /\ down' = [down EXCEPT ![ch] = Tail(@)]
      /\ UNCHANGED <<dial, app, sink, wrote, serverVars, cliUp, srvUp>>
      BY Zenon DEF HandleSelectUplink, HandleData, Received
<1>2. Head(down[ch]) \in Downlinked /\ down' \in [Channels -> Seq(Downlinked)]
  <2>1. down[ch] \in Seq(Downlinked)
        BY <1>0, Zenon
  <2>2. Head(down[ch]) \in Downlinked
        BY <1>1, <2>1, Rest, Zenon
  <2>3. Lowered
        BY <1>1, Zenon DEF Lowered
  <2>4. QED
        BY <1>0, <2>2, <2>3, LoweredAt, Zenon
<1> DEFINE chosen == Choose(st, ch)
<1>3. /\ chosen = NoCh <=> ~st.reg
      /\ st.reg => chosen \in Channels
      BY Choice, Zenon
<1> HIDE DEF chosen
<1>4. CASE HandleSelectUplink(ch)
  <2> DEFINE u == Head(down[ch]).ch
  <2>1. /\ Head(down[ch]).t = "selectUplink" /\ got' = got
        /\ st' = [NoteUplink(st, u) EXCEPT !.downlink = IF st.reg THEN chosen ELSE @]
        /\ up' = IF st.reg /\ chosen # st.downlink /\ cliUp[u]
                 THEN Put(up, {u}, <<[t |-> "selectDownlink", ch |-> chosen]>>) ELSE up
        BY <1>4, Zenon DEF HandleSelectUplink, Received, chosen
  <2>2. u \in Channels
        BY <1>2, <2>1, Zenon DEF Downlinked
  <2> HIDE DEF u
  <2>3. /\ NoteUplink(st, u) \in ConnStates /\ NoteUplink(st, u).reg = st.reg
        /\ NoteUplink(st, u).downlink = st.downlink /\ NoteUplink(st, u).pair = st.pair
        /\ NoteUplink(st, u).connected = st.connected
        BY <1>0, <2>2, StateTypes, Zenon
  <2>4. /\ st' \in ConnStates /\ st'.reg = st.reg /\ st'.pair = st.pair
        /\ st'.connected = st.connected
        /\ st'.downlink = IF st.reg THEN chosen ELSE st.downlink
        BY <1>3, <2>1, <2>3, Zenon DEF ConnStates
  <2>5. Requests' /\ up' \in [Channels -> Seq(Uplinked)]
    <3>1. CASE up' = up
          BY <1>0, <1>1, <3>1, RequestsTaken, Zenon DEF serverVars
    <3>2. CASE st.reg /\ up' = Put(up, {u}, <<[t |-> "selectDownlink", ch |-> chosen]>>)
      <4> DEFINE m == [t |-> "selectDownlink", ch |-> chosen]
      <4>1. m \in Uplinked /\ m.t # "connect" /\ up' = Put(up, {u}, <<m>>)
            BY <1>3, <3>2, Zenon DEF Uplinked
      <4>2. dial # "idle" /\ dial' # "idle" /\ obj' = obj /\ {u} \in SUBSET Channels
            BY <1>1, <2>2, <3>2, Zenon DEF BaseInv, Made, serverVars
      <4> HIDE DEF m
      <4>3. QED
            BY <4>1, <4>2, RequestsSent, Zenon
    <3>3. QED
          BY <2>1, <3>1, <3>2, Zenon
  <2>6. TypeOK'
        BY <1>0, <1>1, <1>2, <2>1, <2>4, <2>5, Zenon
           DEF TypeOK, ClientTypes, ServerTypes, Objects, ConnStates, serverVars
  <2>7. Made'
        BY <1>1, <2>4, Zenon DEF BaseInv, Made, serverVars, Dialled
  <2>8. BaseInv' /\ ~HandleData(ch)
        BY <2>1, <2>5, <2>6, <2>7, Zenon DEF BaseInv, HandleData, Received
  <2>9. QED
        BY <1>1, <1>2, <2>1, <2>2, <2>4, <2>8, Zenon DEF chosen
<1>5. CASE HandleData(ch)
  <2> DEFINE o == Head(down[ch]).o
             n == Head(down[ch]).n
  <2>1. /\ Head(down[ch]).t = "data" /\ up' = up
        /\ st' = [st EXCEPT !.downlink = IF st.reg THEN chosen ELSE st.downlink]
        /\ got' = IF chosen = ch THEN [got EXCEPT ![o] = Append(@, n)] ELSE got
        BY <1>5, Zenon DEF HandleData, Received, chosen
  <2>2. o \in Channels /\ n \in 1..MaxDown /\ Head(down[ch]) = [t |-> "data", o |-> o, n |-> n]
        BY <1>2, <2>1, Zenon DEF Downlinked
  <2> HIDE DEF o, n
  <2>3. /\ st' \in ConnStates /\ st'.reg = st.reg /\ st'.pair = st.pair
        /\ st'.connected = st.connected /\ st'.uplink = st.uplink
        /\ st'.downlink = IF st.reg THEN chosen ELSE st.downlink
        BY <1>0, <1>3, <2>1, Zenon DEF ConnStates
  <2>4. got' \in [Channels -> Seq(1..MaxDown)]
    <3>1. got \in [Channels -> Seq(1..MaxDown)]
          BY <1>0, Zenon DEF ClientTypes
    <3>2. Append(got[o], n) \in Seq(1..MaxDown)
          BY <2>2, <3>1
    <3>3. QED
          BY <2>1, <2>2, <3>1, <3>2, Zenon
  <2>5. Requests' /\ up' \in [Channels -> Seq(Uplinked)]
        BY <1>0, <1>1, <2>1, RequestsTaken, Zenon DEF serverVars
  <2>6. TypeOK'
        BY <1>0, <1>1, <1>2, <2>1, <2>3, <2>4, <2>5, Zenon
           DEF TypeOK, ClientTypes, ServerTypes, Objects, ConnStates, serverVars
  <2>7. Made'
        BY <1>1, <2>3, Zenon DEF BaseInv, Made, serverVars, Dialled
  <2>8. BaseInv' /\ ~HandleSelectUplink(ch)
        BY <2>1, <2>5, <2>6, <2>7, Zenon DEF BaseInv, HandleSelectUplink, Received
  <2>9. QED
        BY <1>1, <1>2, <2>1, <2>2, <2>3, <2>8, Zenon DEF chosen
<1>6. QED
      BY <1>4, <1>5, Zenon

\* A copy of the request makes a state where there was none, or is dropped.
LEMMA BaseConnect ==
    ASSUME BaseInv, NEW ch \in Channels, HandleTCPConnect(ch)
    PROVE  /\ BaseInv' /\ UNCHANGED <<read, tgt, clientVars, down, cliUp, srvUp>>
           /\ up[ch] # <<>> /\ up' = [up EXCEPT ![ch] = Tail(@)] /\ obj[ch].stage = "none"
           /\ up[ch][1].t = "connect"
           /\ \/ conns # NoCh /\ UNCHANGED <<conns, obj>> /\ Dialled' = Dialled
              \/ /\ conns = NoCh /\ conns' = ch /\ obj' = [obj EXCEPT ![ch] = Fresh("announce")]
                 /\ Dialled' = Dialled \cup {ch}
<1>0. ServerTypes /\ up \in [Channels -> Seq(Uplinked)] /\ down \in [Channels -> Seq(Downlinked)]
      /\ ClientTypes /\ srvUp \in [Channels -> BOOLEAN]
      BY Typed, Zenon DEF BaseInv
<1>1. /\ up[ch] # <<>> /\ Head(up[ch]).t = "connect" /\ up' = [up EXCEPT ![ch] = Tail(@)]
      /\ UNCHANGED <<read, tgt, clientVars, down, cliUp, srvUp>>
      /\ \/ conns # NoCh /\ UNCHANGED <<conns, obj>>
         \/ conns = NoCh /\ conns' = ch /\ obj' = [obj EXCEPT ![ch] = Fresh("announce")]
      BY Zenon DEF HandleTCPConnect, Arrived
<1>2. obj[ch].stage = "none" /\ up[ch][1].t = "connect"
  <2>1. up[ch] \in Seq(Uplinked)
        BY <1>0, Zenon
  <2>2. 1 \in 1..Len(up[ch]) /\ up[ch][1].t = "connect"
        BY <1>1, <2>1, Rest, Zenon
  <2>3. QED
        BY <2>2, Zenon DEF BaseInv, Requests
<1>3. Fresh("announce") \in Objects /\ Fresh("announce").stage = "announce"
      BY ObjectTypes, Zenon DEF Fresh, Stages
<1> HIDE DEF Objects
<1>4. obj \in [Channels -> Objects]
      BY <1>0, Zenon DEF ServerTypes
<1>5. obj' \in [Channels -> Objects] /\ conns' \in Channels \cup {NoCh}
      BY <1>0, <1>1, <1>3, <1>4, Zenon DEF ServerTypes
<1>6. \A x \in Channels : \/ obj'[x] = obj[x]
                          \/ x = ch /\ conns' = ch /\ obj'[x] = Fresh("announce")
      BY <1>1, <1>4, Zenon
<1>7. /\ up' \in [Channels -> Seq(Uplinked)]
      /\ \A c \in Channels : up'[c] = up[c] \/ up'[c] = <<>>
                             \/ (c = ch /\ up[c] # <<>> /\ up'[c] = Tail(up[c]))
      BY <1>0, <1>1, ConsumedAt, Zenon
<1>8. Requests'
  <2>1. dial' = dial /\ up'[ch] = Tail(up[ch])
        BY <1>0, <1>1, Zenon DEF clientVars
  <2>2. \A c \in Channels : obj'[c].stage # "none" =>
               obj[c].stage # "none" \/ (up[c] # <<>> /\ up'[c] = Tail(up[c]))
        BY <1>1, <1>6, <2>1, Zenon
  <2>3. QED
        BY <1>7, <2>1, <2>2, RequestsTaken, Zenon
<1>9. TypeOK'
      BY <1>0, <1>1, <1>5, <1>7, ZenonT(30)
         DEF TypeOK, ClientTypes, ServerTypes, Objects, ConnStates, clientVars
<1>10. dial' # "idle"
  <2>1. dial # "idle"
        BY <1>1, Zenon DEF BaseInv, Requests
  <2>2. QED
        BY <1>1, <2>1, Zenon DEF clientVars
<1>11. Made'
  <2>1. conns' # NoCh => obj'[conns'].stage # "none"
        BY <1>1, <1>3, <1>4, <1>6, Zenon DEF BaseInv, Made
  <2>2. ASSUME NEW o \in Channels, obj'[o].stage = "none"
        PROVE  /\ read'[o] = 0 /\ tgt'[o] = <<>>
               /\ obj'[o].downlink = NoCh /\ obj'[o].conn = "none"
        BY <1>1, <1>3, <1>6, <2>2, Zenon DEF BaseInv, Made
  <2>3. st' = st
        BY <1>1, Zenon DEF clientVars
  <2>4. QED
        BY <1>10, <2>1, <2>2, <2>3, Zenon DEF BaseInv, Made
<1>12. /\ UNCHANGED obj => Dialled' = Dialled
       /\ obj' = [obj EXCEPT ![ch] = Fresh("announce")] => Dialled' = Dialled \cup {ch}
      BY <1>3, <1>4, Zenon DEF Dialled
<1>13. QED
      BY <1>1, <1>2, <1>8, <1>9, <1>11, <1>12, Zenon DEF BaseInv

\* The state is announced, or promoted.
LEMMA BaseAnnounce ==
    ASSUME BaseInv, NEW ch \in Channels, Announce(ch)
    PROVE  /\ BaseInv' /\ UNCHANGED <<conns, read, tgt, clientVars, up, cliUp, srvUp>>
           /\ obj[ch].stage = "announce" /\ Dialled' = Dialled
           /\ obj'[ch].stage = "check" /\ (\A x \in Channels : x # ch => obj'[x] = obj[x])
           /\ obj'[ch].conn = obj[ch].conn /\ obj'[ch].pending = obj[ch].pending
           /\ obj'[ch].flush = obj[ch].flush
           /\ \/ Pair # NoPair /\ obj'[ch].downlink = Pair.down /\ down' = down
              \/ /\ obj'[ch].downlink = obj[ch].downlink
                 /\ down' = Put(down, Reach, <<[t |-> "selectUplink", ch |-> ch]>>)
<1>0. ServerTypes /\ up \in [Channels -> Seq(Uplinked)] /\ down \in [Channels -> Seq(Downlinked)]
      /\ ClientTypes /\ srvUp \in [Channels -> BOOLEAN]
      BY Typed, Zenon DEF BaseInv
<1>1. PICK promoted \in BOOLEAN :
          /\ promoted => Pair # NoPair
          /\ obj' = [obj EXCEPT ![ch].stage = "check",
                                ![ch].downlink = IF promoted THEN Pair.down ELSE @]
          /\ IF promoted THEN UNCHANGED down
             ELSE SendDownlink(<<[t |-> "selectUplink", ch |-> ch]>>)
  <2>1. PICK known \in PairKnown :
          LET promoted == Pair # NoPair /\ known /\ ch = Pair.up /\ srvUp[Pair.down]
          IN  /\ obj' = [obj EXCEPT ![ch].stage = "check",
                                    ![ch].downlink = IF promoted THEN Pair.down ELSE @]
              /\ IF promoted THEN UNCHANGED down
                 ELSE SendDownlink(<<[t |-> "selectUplink", ch |-> ch]>>)
        BY Zenon DEF Announce
  <2> DEFINE promoted == Pair # NoPair /\ known /\ ch = Pair.up /\ srvUp[Pair.down]
  <2>2. promoted \in BOOLEAN /\ (promoted => Pair # NoPair)
        BY Zenon
  <2>3. /\ obj' = [obj EXCEPT ![ch].stage = "check",
                              ![ch].downlink = IF promoted THEN Pair.down ELSE @]
        /\ IF promoted THEN UNCHANGED down
           ELSE SendDownlink(<<[t |-> "selectUplink", ch |-> ch]>>)
        BY <2>1, Zenon
  <2> HIDE DEF promoted
  <2>4. QED
        BY <2>2, <2>3, Zenon
<1>2. /\ obj[ch].stage = "announce" /\ UNCHANGED <<conns, read, tgt, clientVars, up, cliUp, srvUp>>
      BY Zenon DEF Announce
<1> DEFINE r == [obj[ch] EXCEPT !.stage = "check",
                                !.downlink = IF promoted THEN Pair.down ELSE obj[ch].downlink]
<1>3. obj \in [Channels -> Objects] /\ obj[ch] \in Objects
      BY <1>0, Zenon DEF ServerTypes
<1>4. obj' = [obj EXCEPT ![ch] = r]
      BY <1>1, <1>3, Zenon DEF Objects
<1>5. /\ r \in Objects /\ r.stage = "check" /\ r.conn = obj[ch].conn
      /\ r.pending = obj[ch].pending /\ r.flush = obj[ch].flush
      /\ r.downlink = IF promoted THEN Pair.down ELSE obj[ch].downlink
      BY <1>1, <1>3, WiresAssumption, Zenon DEF Objects, Stages
<1> HIDE DEF r, Objects
<1>6. obj' \in [Channels -> Objects] /\ obj'[ch] = r /\ \A x \in Channels : x # ch => obj'[x] = obj[x]
      BY <1>3, <1>4, <1>5, Zenon
<1>7. down' \in [Channels -> Seq(Downlinked)]
      /\ \/ promoted /\ down' = down
         \/ ~promoted /\ down' = Put(down, Reach, <<[t |-> "selectUplink", ch |-> ch]>>)
  <2>1. <<[t |-> "selectUplink", ch |-> ch]>> \in Seq(Downlinked)
        BY DEF Downlinked
  <2>2. CASE promoted
        BY <1>0, <1>1, <2>2, Zenon
  <2>3. CASE ~promoted
    <3>1. down' = Put(down, Reach, <<[t |-> "selectUplink", ch |-> ch]>>)
          BY <1>1, <2>3, Zenon DEF SendDownlink, Reach
    <3>2. QED
          BY <1>0, <2>1, <2>3, <3>1, Answered, Zenon
  <2>4. QED
        BY <2>2, <2>3, Zenon
<1>8. \A x \in Channels : obj'[x].stage = "none" <=> obj[x].stage = "none"
      BY <1>2, <1>5, <1>6, Zenon
<1>9. Requests'
      BY <1>0, <1>2, <1>8, RequestsTaken, Zenon DEF clientVars
<1>10. TypeOK'
      BY <1>0, <1>2, <1>6, <1>7, ZenonT(30)
         DEF TypeOK, ClientTypes, ServerTypes, Objects, ConnStates, clientVars
<1>11. Dialled' = Dialled
      BY <1>8, Zenon DEF Dialled
<1>12. Made'
  <2>1. Made /\ st' = st /\ dial' = dial
        BY <1>2, Zenon DEF BaseInv, clientVars
  <2>2. conns' # NoCh => obj'[conns'].stage # "none"
        BY <1>0, <1>2, <1>8, <2>1, Zenon DEF Made, ServerTypes
  <2>3. ASSUME NEW o \in Channels, obj'[o].stage = "none" PROVE obj'[o] = obj[o]
        BY <1>5, <1>6, <2>3, Zenon
  <2>4. QED
        BY <1>2, <1>11, <2>1, <2>2, <2>3, Zenon DEF Made
<1>13. QED
      BY <1>1, <1>2, <1>5, <1>6, <1>7, <1>9, <1>10, <1>11, <1>12, Zenon DEF BaseInv

\* The server takes a report.
LEMMA BaseReport ==
    ASSUME BaseInv, NEW ch \in Channels, HandleSelectDownlink(ch)
    PROVE  /\ BaseInv' /\ UNCHANGED <<conns, read, tgt, clientVars, down, cliUp, srvUp>>
           /\ Dialled' = Dialled /\ up[ch] # <<>> /\ up' = [up EXCEPT ![ch] = Tail(@)]
           /\ obj[ch].stage # "announce"
           /\ \/ obj' = obj
              \/ \E d \in Channels :
                    /\ Head(up[ch]) = [t |-> "selectDownlink", ch |-> d]
                    /\ conns = ch /\ obj[ch].downlink = NoCh
                    /\ obj' = [obj EXCEPT ![ch].downlink = d]
<1>0. ServerTypes /\ up \in [Channels -> Seq(Uplinked)] /\ down \in [Channels -> Seq(Downlinked)]
      /\ ClientTypes /\ srvUp \in [Channels -> BOOLEAN]
      BY Typed, Zenon DEF BaseInv
<1> DEFINE d == Head(up[ch]).ch
<1>1. /\ up[ch] # <<>> /\ Head(up[ch]).t = "selectDownlink" /\ up' = [up EXCEPT ![ch] = Tail(@)]
      /\ obj[ch].stage # "announce" /\ UNCHANGED <<conns, read, tgt, clientVars, down, cliUp, srvUp>>
      /\ \/ obj' = obj
         \/ conns = ch /\ obj[ch].downlink = NoCh /\ obj' = [obj EXCEPT ![ch].downlink = d]
      BY Zenon DEF HandleSelectDownlink, Arrived
<1>2. d \in Channels /\ Head(up[ch]) = [t |-> "selectDownlink", ch |-> d]
  <2>1. up[ch] \in Seq(Uplinked)
        BY <1>0, Zenon
  <2>2. Head(up[ch]) \in Uplinked
        BY <1>1, <2>1, Rest, Zenon
  <2>3. QED
        BY <1>1, <2>2, Zenon DEF Uplinked
<1> HIDE DEF d
<1>3. obj \in [Channels -> Objects] /\ obj[ch] \in Objects
      BY <1>0, Zenon DEF ServerTypes
<1> DEFINE r == [obj[ch] EXCEPT !.downlink = d]
<1>4. obj' = obj \/ (obj' = [obj EXCEPT ![ch] = r] /\ conns = ch /\ obj[ch].downlink = NoCh)
      BY <1>1, <1>3, Zenon
<1>5. r \in Objects /\ r.stage = obj[ch].stage /\ r.conn = obj[ch].conn
      BY <1>2, <1>3, Zenon DEF Objects
<1>6. conns = ch => obj[ch].stage # "none"
      BY WiresAssumption, Zenon DEF BaseInv, Made
<1> HIDE DEF r, Objects
<1>7. /\ obj' \in [Channels -> Objects]
      /\ \A x \in Channels : obj'[x].stage = obj[x].stage /\ (obj[x].stage = "none" => obj'[x] = obj[x])
      BY <1>3, <1>4, <1>5, <1>6, Zenon
<1>8. /\ up' \in [Channels -> Seq(Uplinked)]
      /\ \A c \in Channels : up'[c] = up[c] \/ up'[c] = <<>>
                             \/ (c = ch /\ up[c] # <<>> /\ up'[c] = Tail(up[c]))
      BY <1>0, <1>1, ConsumedAt, Zenon
<1>9. Requests'
      BY <1>1, <1>7, <1>8, RequestsTaken, Zenon DEF clientVars
<1>10. TypeOK'
      BY <1>0, <1>1, <1>7, <1>8, ZenonT(30)
         DEF TypeOK, ClientTypes, ServerTypes, Objects, ConnStates, clientVars
<1>11. Dialled' = Dialled
      BY <1>7, Zenon DEF Dialled
<1>12. Made'
  <2>1. Made /\ st' = st /\ dial' = dial
        BY <1>1, Zenon DEF BaseInv, clientVars
  <2>2. conns' # NoCh => obj'[conns'].stage # "none"
        BY <1>0, <1>1, <1>7, <2>1, Zenon DEF Made, ServerTypes
  <2>3. QED
        BY <1>1, <1>7, <1>11, <2>1, <2>2, ZenonT(30) DEF Made
<1>13. QED
      BY <1>1, <1>2, <1>9, <1>10, <1>11, <1>12, Zenon DEF BaseInv

-----------------------------------------------------------------------------
\* Routes

\* The frames of the client when all reports among them name d.
Reporting(d) == {f \in Uplinked : f.t = "selectDownlink" => f.ch = d}
Reported(d) == \A c \in Channels : up[c] \in Seq(Reporting(d))

\* The server has sent nothing, and the client chosen nothing.
Silent ==
    /\ \A c \in Channels : down[c] = <<>>
    /\ st.downlink = NoCh /\ ~st.connected /\ Reported(NoCh)

\* The downlink was preset from the pair: the client has only heard from that channel,
\* and of no uplink to answer to.
Promoted(o) ==
    /\ Pair # NoPair /\ obj[o].downlink = Pair.down
    /\ \A c \in Channels : /\ down[c] \in Seq(NotUplink)
                           /\ c # Pair.down => down[c] = <<>>
    /\ st.downlink \in {NoCh, Pair.down} /\ Reported(NoCh)

\* The downlink is raced for: reports, and what the server took from them, are the
\* client's choice.
Raced(o) == obj[o].downlink \in {NoCh, st.downlink} /\ Reported(st.downlink)

Routed ==
    /\ Dialled = {} => Silent
    /\ \A o \in Channels : Dialled = {o} =>
          IF obj[o].stage = "announce" THEN Silent /\ obj[o].downlink = NoCh
          ELSE Promoted(o) \/ Raced(o)

RouteIInv == BaseInv /\ Routed

\* Frames that are taken leave what was reported as it is.
LEMMA ReportsTaken ==
    ASSUME up \in [Channels -> Seq(Uplinked)], NEW ch \in Channels, NEW d,
           \A c \in Channels : up'[c] = up[c] \/ up'[c] = <<>>
                               \/ (c = ch /\ up[c] # <<>> /\ up'[c] = Tail(up[c])),
           \A c \in Channels : up[c] \in Seq(Reporting(d))
    PROVE  \A c \in Channels : up'[c] \in Seq(Reporting(d))
<1>1. \A c \in Channels : up[c] # <<>> => Tail(up[c]) \in Seq(Reporting(d))
      BY Rest, Zenon
<1>2. <<>> \in Seq(Reporting(d))
      OBVIOUS
<1> HIDE DEF Reporting
<1>3. QED
      BY <1>1, <1>2, Zenon

\* A report of d is added to reports of d.
LEMMA ReportsPut ==
    ASSUME NEW d, \A c \in Channels : up[c] \in Seq(Reporting(d)),
           up \in [Channels -> Seq(Uplinked)],
           NEW S, NEW m \in Reporting(d), up' = Put(up, S, <<m>>)
    PROVE  \A c \in Channels : up'[c] \in Seq(Reporting(d))
<1>1. \A c \in Channels : up'[c] = up[c] \/ up'[c] = up[c] \o <<m>>
      BY Zenon DEF Put
<1>2. <<m>> \in Seq(Reporting(d))
      OBVIOUS
<1>3. \A c \in Channels : up[c] \o <<m>> \in Seq(Reporting(d))
      BY <1>2, Joined, Zenon
<1> HIDE DEF Reporting
<1>4. QED
      BY <1>1, <1>3, Zenon

\* No report at all is a report of any channel.
LEMMA ReportsWider ==
    ASSUME NEW d, \A c \in Channels : up[c] \in Seq(Reporting(NoCh))
    PROVE  \A c \in Channels : up[c] \in Seq(Reporting(d))
<1>1. Reporting(NoCh) \subseteq Reporting(d)
      BY WiresAssumption, Zenon DEF Reporting, Uplinked
<1>2. QED
      BY <1>1, Wider, Zenon

\* The server works: what it sends says nothing of an uplink.
LEMMA RouteWorks ==
    ASSUME RouteIInv, NEW ch \in Channels, Works(ch)
    PROVE  Routed'
<1>0. ServerTypes /\ up \in [Channels -> Seq(Uplinked)] /\ down \in [Channels -> Seq(Downlinked)]
      BY BaseTypes, Zenon DEF RouteIInv
<1>1. /\ conns' \in {conns, NoCh} /\ \A x \in Channels : Kin(obj[x], obj'[x])
      /\ UNCHANGED clientVars /\ Consumed(ch)
      /\ \/ read' = read /\ (down' = down \/ \E t \in Seq(Statuses) : down' = Put(down, Reach, t))
         \/ Forward(ch)
      /\ down' = down \/ obj[ch].stage \notin {"none", "announce"}
      BY Work, Zenon DEF RouteIInv
<1>2. \A c \in Channels : up'[c] = up[c] \/ up'[c] = <<>>
                          \/ (c = ch /\ up[c] # <<>> /\ up'[c] = Tail(up[c]))
      BY <1>0, <1>1, ConsumedAt, Zenon DEF Consumed
<1>3. Dialled' = Dialled /\ st' = st
      BY <1>1, Zenon DEF Dialled, Kin, clientVars
<1>4. \A d : (\A c \in Channels : up[c] \in Seq(Reporting(d))) =>
             (\A c \in Channels : up'[c] \in Seq(Reporting(d)))
      BY <1>0, <1>2, ReportsTaken, Zenon
<1>5. down' = down \/ \E t \in Seq(NotUplink) : down' = Put(down, Reach, t)
  <2>1. \A t \in Seq(Statuses) : t \in Seq(NotUplink)
    <3>1. Statuses \subseteq NotUplink
          BY Zenon DEF Statuses, NotUplink, Downlinked
    <3>2. QED
          BY <3>1, Wider, Zenon
  <2>2. CASE Forward(ch)
    <3> DEFINE f == [t |-> "data", o |-> ch, n |-> read[ch] + 1]
    <3>1. down' = Put(down, Reach, <<f>>) /\ read[ch] < MaxDown
          BY <2>2, Zenon DEF Forward, SendDownlink, Reach
    <3>2. read[ch] + 1 \in 1..MaxDown
          BY <1>0, <3>1, WiresAssumption, SMTT(30) DEF ServerTypes
    <3>3. f \in NotUplink
          BY <3>2, Zenon DEF Downlinked, NotUplink
    <3> HIDE DEF f
    <3>4. <<f>> \in Seq(NotUplink)
          BY <3>3
    <3>5. QED
          BY <3>1, <3>4, Zenon
  <2>3. QED
        BY <1>1, <2>1, <2>2, Zenon
<1>6. Dialled = {} => Silent'
  <2>1. SUFFICES ASSUME Dialled = {} PROVE Silent'
        BY Zenon
  <2>2. down' = down /\ Silent
        BY <1>1, <2>1, Zenon DEF Dialled, RouteIInv, Routed
  <2>3. QED
        BY <1>3, <1>4, <2>2, Zenon DEF Silent, Reported
<1>7. ASSUME NEW o \in Channels, Dialled = {o}
      PROVE  IF obj'[o].stage = "announce" THEN Silent' /\ obj'[o].downlink = NoCh
             ELSE Promoted(o)' \/ Raced(o)'
  <2>1. /\ IF obj[o].stage = "announce" THEN Silent /\ obj[o].downlink = NoCh
           ELSE Promoted(o) \/ Raced(o)
        /\ obj'[o].stage = "announce" <=> obj[o].stage = "announce"
        /\ obj'[o].downlink = obj[o].downlink
        BY <1>1, <1>7, Zenon DEF RouteIInv, Routed, Kin
  <2>2. CASE obj[o].stage = "announce"
    <3>1. down' = down
          BY <1>1, <1>7, <2>2, Zenon DEF Dialled
    <3>2. QED
          BY <1>3, <1>4, <2>1, <2>2, <3>1, Zenon DEF Silent, Reported
  <2>3. CASE obj[o].stage # "announce" /\ Raced(o)
        BY <1>3, <1>4, <2>1, <2>3, Zenon DEF Raced, Reported
  <2>4. CASE obj[o].stage # "announce" /\ Promoted(o)
    <3>1. Reach \subseteq {Pair.down}
      <4>1. conns \in {o, NoCh}
            BY <1>0, <1>7, Zenon DEF Dialled, RouteIInv, BaseInv, Made, ServerTypes
      <4>2. Pair.down # NoCh
            BY <2>4, WiresAssumption, Zenon DEF Promoted
      <4>3. QED
            BY <2>4, <4>1, <4>2, Zenon DEF Promoted, Reach
    <3>2. \A c \in Channels : /\ down'[c] \in Seq(NotUplink)
                              /\ c # Pair.down => down'[c] = <<>>
      <4>1. CASE down' = down
            BY <2>4, <4>1, Zenon DEF Promoted
      <4>2. ASSUME NEW t \in Seq(NotUplink), down' = Put(down, Reach, t)
            PROVE  \A c \in Channels : /\ down'[c] \in Seq(NotUplink)
                                       /\ c # Pair.down => down'[c] = <<>>
        <5>1. \A c \in Channels : \/ down'[c] = down[c]
                                  \/ c = Pair.down /\ down'[c] = down[c] \o t
              BY <3>1, <4>2, Zenon DEF Put
        <5>2. \A c \in Channels : down[c] \o t \in Seq(NotUplink)
              BY <2>4, Joined, Zenon DEF Promoted
        <5> HIDE DEF NotUplink
        <5>3. QED
              BY <2>4, <5>1, <5>2, Zenon DEF Promoted
      <4>3. QED
            BY <1>5, <4>1, <4>2, Zenon
    <3>3. QED
          BY <1>3, <1>4, <2>1, <2>4, <3>2, Zenon DEF Promoted, Reported
  <2>5. QED
        BY <2>1, <2>2, <2>3, <2>4, Zenon
<1>8. QED
      BY <1>3, <1>6, <1>7, Zenon DEF Routed

\* The client does something other than choose a downlink.
LEMMA RouteSteps ==
    ASSUME RouteIInv, Steps \/ Dial
    PROVE  Routed'
<1>0. up \in [Channels -> Seq(Uplinked)] /\ down \in [Channels -> Seq(Downlinked)]
      BY BaseTypes, Zenon DEF RouteIInv
<1>1. /\ UNCHANGED serverVars /\ Lowered
      /\ st'.downlink = st.downlink
      /\ ~st.connected => ~st'.connected \/ \E ch \in Channels : down[ch] # <<>>
      /\ \/ up' = up
         \/ \E S \in SUBSET Channels, m \in Uplinked :
               m.t # "selectDownlink" /\ up' = Put(up, S, <<m>>)
  <2>1. CASE Steps
    <3>1. Plain \subseteq Uplinked /\ \A m \in Plain : m.t # "selectDownlink"
          BY Zenon DEF Plain
    <3>2. QED
          BY <2>1, <3>1, Step, Zenon DEF RouteIInv
  <2>2. CASE Dial
    <3>1. /\ st'.downlink = NoCh /\ ~st'.connected /\ dial = "idle"
          /\ \E S \in SUBSET Channels : up' = Put(up, S, <<[t |-> "connect"]>>)
          /\ UNCHANGED <<app, wrote, got, serverVars, down, cliUp, srvUp>>
          BY <2>2, BaseDial, Zenon DEF RouteIInv
    <3>2. Silent
          BY <3>1, Zenon DEF RouteIInv, BaseInv, Made, Routed
    <3>3. [t |-> "connect"] \in Uplinked /\ [t |-> "connect"].t # "selectDownlink"
          BY Zenon DEF Uplinked
    <3>4. \E S \in SUBSET Channels, m \in Uplinked :
               m.t # "selectDownlink" /\ up' = Put(up, S, <<m>>)
          BY <3>1, <3>3, Zenon
    <3>5. QED
          BY <3>1, <3>2, <3>4, Zenon DEF Silent, Lowered
  <2>3. QED
        BY <2>1, <2>2, Zenon
<1>2. \A d : (\A c \in Channels : up[c] \in Seq(Reporting(d))) =>
             (\A c \in Channels : up'[c] \in Seq(Reporting(d)))
  <2>1. SUFFICES ASSUME NEW d, \A c \in Channels : up[c] \in Seq(Reporting(d))
                 PROVE  \A c \in Channels : up'[c] \in Seq(Reporting(d))
        BY Zenon
  <2>2. ASSUME NEW S \in SUBSET Channels, NEW m \in Uplinked, m.t # "selectDownlink",
               up' = Put(up, S, <<m>>)
        PROVE  \A c \in Channels : up'[c] \in Seq(Reporting(d))
    <3>1. m \in Reporting(d)
          BY <2>2, Zenon DEF Reporting
    <3>2. QED
          BY <1>0, <2>1, <2>2, <3>1, ReportsPut, Zenon
  <2>3. QED
        BY <1>1, <2>1, <2>2, Zenon
<1>3. \A c \in Channels : down'[c] = down[c] \/ down'[c] = <<>>
                          \/ (down[c] # <<>> /\ down'[c] = Tail(down[c]))
      BY <1>0, <1>1, LoweredAt, Zenon
<1>4. Silent => Silent'
      BY <1>1, <1>2, <1>3, Zenon DEF Silent, Reported
<1>5. ASSUME NEW o \in Channels PROVE (Promoted(o) => Promoted(o)') /\ (Raced(o) => Raced(o)')
  <2>1. obj' = obj
        BY <1>1, Zenon DEF serverVars
  <2>2. Raced(o) => Raced(o)'
        BY <1>1, <1>2, <2>1, Zenon DEF Raced, Reported
  <2>3. ASSUME Promoted(o), NEW c \in Channels
        PROVE  down'[c] \in Seq(NotUplink) /\ (c # Pair.down => down'[c] = <<>>)
    <3>1. down[c] \in Seq(NotUplink) /\ (c # Pair.down => down[c] = <<>>)
          BY <2>3, Zenon DEF Promoted
    <3>2. down[c] # <<>> => Tail(down[c]) \in Seq(NotUplink)
          BY <3>1, Rest, Zenon
    <3>3. <<>> \in Seq(NotUplink)
          OBVIOUS
    <3> HIDE DEF NotUplink
    <3>4. QED
          BY <1>3, <3>1, <3>2, <3>3, Zenon
  <2>4. QED
        BY <1>1, <1>2, <2>1, <2>2, <2>3, Zenon DEF Promoted, Reported
<1>6. QED
      BY <1>1, <1>4, <1>5, Zenon DEF RouteIInv, Routed, Dialled, serverVars

\* The client chooses a downlink.
LEMMA RouteChoice ==
    ASSUME RouteIInv, NEW ch \in Channels, HandleSelectUplink(ch) \/ HandleData(ch)
    PROVE  Routed'
<1>0. up \in [Channels -> Seq(Uplinked)] /\ down \in [Channels -> Seq(Downlinked)] /\ st \in ConnStates
      BY BaseTypes, Zenon DEF RouteIInv
<1>1. /\ UNCHANGED <<dial, app, sink, wrote, serverVars, cliUp, srvUp>>
      /\ down[ch] # <<>> /\ Head(down[ch]) \in Downlinked
      /\ down' = [down EXCEPT ![ch] = Tail(@)]
      /\ st'.downlink = IF st.reg THEN Choose(st, ch) ELSE st.downlink
      /\ HandleSelectUplink(ch) =>
            /\ Head(down[ch]).t = "selectUplink" /\ got' = got
            /\ \/ up' = up
               \/ \E u \in Channels :
                     /\ st.reg /\ Choose(st, ch) # st.downlink
                     /\ up' = Put(up, {u}, <<[t |-> "selectDownlink", ch |-> Choose(st, ch)]>>)
      /\ HandleData(ch) => up' = up
      BY BaseChoice, Zenon DEF RouteIInv
<1> DEFINE chosen == Choose(st, ch)
<1>2. /\ st.reg => chosen \in Channels
      /\ st.reg /\ st.downlink # NoCh => chosen = st.downlink
      /\ st.reg /\ st.downlink = NoCh => /\ st.pair => chosen = Pair.down
                                         /\ ~st.pair => chosen = ch
      BY Choice, Zenon DEF RouteIInv
<1> HIDE DEF chosen
<1>3. ~Silent /\ Dialled' = Dialled /\ obj' = obj
      BY <1>1, Zenon DEF Silent, Dialled, serverVars
<1>4. ASSUME NEW o \in Channels, Raced(o) PROVE Raced(o)'
  <2>1. obj'[o].downlink \in {NoCh, st'.downlink}
        BY <1>1, <1>2, <1>3, <1>4, Zenon DEF Raced, chosen
  <2>2. CASE up' = up
    <3>1. CASE st.downlink = NoCh
      <4>1. \A c \in Channels : up[c] \in Seq(Reporting(st'.downlink))
            BY <1>4, <3>1, ReportsWider, Zenon DEF Raced, Reported
      <4>2. QED
            BY <2>1, <2>2, <4>1, Zenon DEF Raced, Reported
    <3>2. CASE st.downlink # NoCh
          BY <1>1, <1>2, <1>4, <2>1, <2>2, <3>2, Zenon DEF Raced, Reported, chosen
    <3>3. QED
          BY <3>1, <3>2, Zenon
  <2>3. ASSUME NEW u \in Channels, st.reg, chosen # st.downlink,
               up' = Put(up, {u}, <<[t |-> "selectDownlink", ch |-> chosen]>>)
        PROVE  Raced(o)'
    <3>1. st.downlink = NoCh /\ st'.downlink = chosen /\ chosen \in Channels
          BY <1>1, <1>2, <2>3, Zenon DEF chosen
    <3>2. \A c \in Channels : up[c] \in Seq(Reporting(chosen))
          BY <1>4, <3>1, ReportsWider, Zenon DEF Raced, Reported
    <3> DEFINE m == [t |-> "selectDownlink", ch |-> chosen]
    <3>3. m \in Reporting(chosen) /\ up' = Put(up, {u}, <<m>>)
          BY <2>3, <3>1, Zenon DEF Reporting, Uplinked
    <3> HIDE DEF m
    <3>4. \A c \in Channels : up'[c] \in Seq(Reporting(chosen))
          BY <1>0, <3>2, <3>3, ReportsPut, Zenon
    <3>5. QED
          BY <2>1, <3>1, <3>4, Zenon DEF Raced, Reported
  <2>4. QED
        BY <1>1, <2>2, <2>3, Zenon DEF chosen
<1>5. ASSUME NEW o \in Channels, Promoted(o) PROVE Promoted(o)'
  <2>1. ch = Pair.down /\ down[ch] \in Seq(NotUplink)
        BY <1>1, <1>5, Zenon DEF Promoted
  <2>2. Head(down[ch]) \in NotUplink /\ Tail(down[ch]) \in Seq(NotUplink)
        BY <1>1, <2>1, Rest, Zenon
  <2>3. ~HandleSelectUplink(ch) /\ up' = up
        BY <1>1, <2>2, Zenon DEF NotUplink
  <2>4. st'.downlink \in {NoCh, Pair.down}
        BY <1>1, <1>2, <1>5, <2>1, Zenon DEF Promoted, chosen, ConnStates
  <2> HIDE DEF NotUplink
  <2>5. \A c \in Channels : down'[c] \in Seq(NotUplink) /\ (c # Pair.down => down'[c] = <<>>)
        BY <1>0, <1>1, <1>5, <2>1, <2>2, Zenon DEF Promoted
  <2>6. QED
        BY <1>3, <1>5, <2>3, <2>4, <2>5, Zenon DEF Promoted, Reported
<1>6. QED
      BY <1>3, <1>4, <1>5, Zenon DEF RouteIInv, Routed

\* The server makes a state, announces it, or takes a report.
LEMMA RouteServer ==
    ASSUME RouteIInv, NEW ch \in Channels,
           HandleTCPConnect(ch) \/ Announce(ch) \/ HandleSelectDownlink(ch)
    PROVE  Routed'
<1>0. ServerTypes /\ up \in [Channels -> Seq(Uplinked)] /\ down \in [Channels -> Seq(Downlinked)]
      BY BaseTypes, Zenon DEF RouteIInv
<1>1. ASSUME UNCHANGED <<st, down, obj>>, up[ch] # <<>>, up' = [up EXCEPT ![ch] = Tail(@)]
      PROVE  Routed'
  <2>1. \A c \in Channels : up'[c] = up[c] \/ up'[c] = <<>>
                            \/ (c = ch /\ up[c] # <<>> /\ up'[c] = Tail(up[c]))
        BY <1>0, <1>1, ConsumedAt, Zenon
  <2>2. \A d : (\A c \in Channels : up[c] \in Seq(Reporting(d))) =>
               (\A c \in Channels : up'[c] \in Seq(Reporting(d)))
        BY <1>0, <2>1, ReportsTaken, Zenon
  <2>3. QED
        BY <1>1, <2>2, Zenon DEF RouteIInv, Routed, Silent, Promoted, Raced, Reported, Dialled
<1>2. ASSUME up[ch] # <<>>, up' = [up EXCEPT ![ch] = Tail(@)]
      PROVE  \A d : (\A c \in Channels : up[c] \in Seq(Reporting(d))) =>
                    (\A c \in Channels : up'[c] \in Seq(Reporting(d)))
  <2>1. \A c \in Channels : up'[c] = up[c] \/ up'[c] = <<>>
                            \/ (c = ch /\ up[c] # <<>> /\ up'[c] = Tail(up[c]))
        BY <1>0, <1>2, ConsumedAt, Zenon
  <2>2. QED
        BY <1>0, <2>1, ReportsTaken, Zenon
<1>3. CASE HandleTCPConnect(ch)
  <2>1. /\ UNCHANGED <<st, down>> /\ up[ch] # <<>> /\ up' = [up EXCEPT ![ch] = Tail(@)]
        /\ obj[ch].stage = "none"
        /\ \/ UNCHANGED obj
           \/ /\ obj' = [obj EXCEPT ![ch] = Fresh("announce")]
              /\ Dialled' = Dialled \cup {ch}
        BY <1>3, BaseConnect, Zenon DEF RouteIInv, clientVars
  <2>2. CASE UNCHANGED obj
        BY <1>1, <2>1, <2>2, Zenon
  <2>3. CASE obj' = [obj EXCEPT ![ch] = Fresh("announce")] /\ Dialled' = Dialled \cup {ch}
    <3>1. obj'[ch].stage = "announce" /\ obj'[ch].downlink = NoCh
          BY <1>0, <2>3, Zenon DEF ServerTypes, Fresh
    <3>2. ASSUME NEW o \in Channels, Dialled' = {o}
          PROVE  o = ch /\ Silent'
      <4>1. o = ch /\ Dialled = {}
            BY <2>1, <2>3, <3>2 DEF Dialled
      <4>2. Silent
            BY <4>1, Zenon DEF RouteIInv, Routed
      <4>3. Reported(NoCh)'
            BY <1>2, <2>1, <4>2, Zenon DEF Silent, Reported
      <4>4. QED
            BY <2>1, <4>1, <4>2, <4>3, Zenon DEF Silent
    <3>3. Dialled' # {}
          BY <2>3, Zenon
    <3>4. QED
          BY <3>1, <3>2, <3>3, Zenon DEF Routed
  <2>4. QED
        BY <2>1, <2>2, <2>3, Zenon
<1>4. CASE Announce(ch)
  <2>1. /\ UNCHANGED <<st, up>> /\ obj[ch].stage = "announce" /\ Dialled' = Dialled
        /\ obj'[ch].stage = "check"
        /\ \/ Pair # NoPair /\ obj'[ch].downlink = Pair.down /\ down' = down
           \/ obj'[ch].downlink = obj[ch].downlink
        BY <1>4, BaseAnnounce, Zenon DEF RouteIInv, clientVars
  <2>2. ch \in Dialled
        BY <2>1, Zenon DEF Dialled
  <2>3. ASSUME Dialled = {ch} PROVE Promoted(ch)' \/ Raced(ch)'
    <3>1. Silent /\ obj[ch].downlink = NoCh
          BY <2>1, <2>3, Zenon DEF RouteIInv, Routed
    <3>2. CASE Pair # NoPair /\ obj'[ch].downlink = Pair.down /\ down' = down
      <4>1. <<>> \in Seq(NotUplink)
            OBVIOUS
      <4>2. Pair.down \in Channels
            BY <3>2, WiresAssumption, Zenon
      <4> HIDE DEF NotUplink
      <4>3. \A c \in Channels : down'[c] \in Seq(NotUplink) /\ down'[c] = <<>>
            BY <3>1, <3>2, <4>1, Zenon DEF Silent
      <4>4. st'.downlink = NoCh /\ Reported(NoCh)'
            BY <2>1, <3>1, Zenon DEF Silent, Reported
      <4>5. QED
            BY <3>2, <4>3, <4>4, Zenon DEF Promoted
    <3>3. CASE obj'[ch].downlink = obj[ch].downlink
          BY <2>1, <3>1, <3>3, Zenon DEF Silent, Raced, Reported
    <3>4. QED
          BY <2>1, <3>2, <3>3, Zenon
  <2>4. QED
        BY <2>1, <2>2, <2>3, Zenon DEF Routed
<1>5. CASE HandleSelectDownlink(ch)
  <2>1. /\ UNCHANGED <<st, down>> /\ Dialled' = Dialled
        /\ up[ch] # <<>> /\ up' = [up EXCEPT ![ch] = Tail(@)]
        /\ obj[ch].stage # "announce"
        /\ \/ obj' = obj
           \/ \E d \in Channels :
                 /\ Head(up[ch]) = [t |-> "selectDownlink", ch |-> d]
                 /\ conns = ch /\ obj[ch].downlink = NoCh
                 /\ obj' = [obj EXCEPT ![ch].downlink = d]
        BY <1>5, BaseReport, Zenon DEF RouteIInv, clientVars
  <2>2. CASE obj' = obj
        BY <1>1, <2>1, <2>2, Zenon
  <2>3. ASSUME NEW d \in Channels, Head(up[ch]) = [t |-> "selectDownlink", ch |-> d],
               conns = ch, obj[ch].downlink = NoCh, obj' = [obj EXCEPT ![ch].downlink = d]
        PROVE  Routed'
    <3>1. obj'[ch].downlink = d /\ obj'[ch].stage = obj[ch].stage /\ ch \in Dialled
          BY <1>0, <2>3, WiresAssumption
             DEF ServerTypes, Objects, Dialled, RouteIInv, BaseInv, Made
    <3>2. ASSUME Dialled = {ch} PROVE Raced(ch)'
      <4>1. ~Promoted(ch)
            BY <2>3, WiresAssumption, Zenon DEF Promoted
      <4>2. Raced(ch)
            BY <2>1, <3>2, <4>1, Zenon DEF RouteIInv, Routed
      <4>3. Head(up[ch]) \in Reporting(st.downlink)
            BY <2>1, <4>2, Rest, Zenon DEF Raced, Reported
      <4>4. d = st.downlink
            BY <2>3, <4>3 DEF Reporting
      <4>5. \A c \in Channels : up'[c] \in Seq(Reporting(st.downlink))
            BY <1>2, <2>1, <4>2, Zenon DEF Raced, Reported
      <4>6. QED
            BY <2>1, <3>1, <4>4, <4>5, Zenon DEF Raced, Reported
    <3>3. QED
          BY <2>1, <3>1, <3>2, Zenon DEF Routed
  <2>4. QED
        BY <2>1, <2>2, <2>3, Zenon
<1>6. QED
      BY <1>3, <1>4, <1>5, Zenon

\* The steps of the two ends, by what they do to the connection.
LEMMA NextCases ==
    Next <=> \/ Dial \/ Steps
             \/ \E ch \in Channels :
                   \/ HandleSelectUplink(ch) \/ HandleData(ch)
                   \/ HandleTCPConnect(ch) \/ Announce(ch) \/ HandleSelectDownlink(ch)
                   \/ Works(ch)
BY Zenon DEF Next, Steps, Works, ClientReads, ServerReads

\* The connection has not begun.
LEMMA RouteInit == Init => RouteIInv
<1> SUFFICES ASSUME Init PROVE RouteIInv
    BY Zenon
<1>1. /\ \A c \in Channels : up[c] = <<>> /\ down[c] = <<>>
      /\ \A o \in Channels : obj[o] = Fresh("none") /\ read[o] = 0 /\ tgt[o] = <<>>
      /\ dial = "idle" /\ conns = NoCh
      /\ st = [reg |-> FALSE, uplink |-> NoCh, downlink |-> NoCh,
               pair |-> FALSE, connected |-> FALSE]
      BY Zenon DEF Init, WiresInit
<1>2. Fresh("none") \in Objects /\ Fresh("none").stage = "none"
      /\ Fresh("none").downlink = NoCh /\ Fresh("none").conn = "none"
      BY ObjectTypes, Zenon DEF Fresh, Stages
<1>3. ServerTypes
  <2>1. obj \in [Channels -> Objects]
        BY <1>2, Zenon DEF Init
  <2>2. read \in [Channels -> 0..MaxDown] /\ tgt \in [Channels -> Seq(1..MaxUp)]
        BY WiresAssumption DEF Init
  <2>3. QED
        BY <1>1, <2>1, <2>2, Zenon DEF ServerTypes
<1>4. ClientTypes
  <2>1. st \in ConnStates
        BY <1>1, Zenon DEF ConnStates
  <2>2. got \in [Channels -> Seq(1..MaxDown)] /\ cliUp \in [Channels -> BOOLEAN] /\ wrote \in 0..MaxUp
        BY WiresAssumption DEF Init, WiresInit
  <2>3. QED
        BY <2>1, <2>2, Zenon DEF ClientTypes, Init
<1>5. TypeOK
  <2>1. /\ up \in [Channels -> Seq(Uplinked)] /\ down \in [Channels -> Seq(Downlinked)]
        /\ srvUp \in [Channels -> BOOLEAN]
        BY DEF Init, WiresInit
  <2>2. QED
        BY <1>3, <1>4, <2>1, Typed, Zenon
<1>6. Requests
      BY <1>1, <1>2 DEF Requests, Requested
<1>7. Made
      BY <1>1, <1>2, Zenon DEF Made, Dialled
<1>8. Dialled = {}
      BY <1>1, <1>2, Zenon DEF Dialled
<1>9. Silent
  <2>0. <<>> \in Seq(Reporting(NoCh))
        OBVIOUS
  <2>1. \A c \in Channels : up[c] \in Seq(Reporting(NoCh))
        BY <1>1, <2>0, Zenon
  <2>2. QED
        BY <1>1, <2>1, Zenon DEF Silent, Reported
<1>10. QED
      BY <1>5, <1>6, <1>7, <1>8, <1>9, Zenon DEF RouteIInv, BaseInv, Routed

\* Every step keeps the routes.
LEMMA RouteStep == RouteIInv /\ [Next]_vars => RouteIInv'
<1> SUFFICES ASSUME RouteIInv, [Next]_vars PROVE RouteIInv'
    BY Zenon
<1>0. BaseInv
      BY Zenon DEF RouteIInv
<1>1. CASE UNCHANGED vars
  <2>2. /\ UNCHANGED <<dial, app, st, sink, wrote, got>> /\ UNCHANGED <<conns, obj, read, tgt>>
        /\ UNCHANGED <<up, down, cliUp, srvUp>>
        BY <1>1, Zenon DEF vars, clientVars, serverVars, wires
  <2>0. TypeOK'
        BY <1>0, <2>2, ZenonT(30) DEF BaseInv, TypeOK
  <2>00. Requests' /\ Made'
        BY <1>0, <2>2, Zenon DEF BaseInv, Requests, Made, Dialled
  <2>1. BaseInv'
        BY <2>0, <2>00, Zenon DEF BaseInv
  <2>3. Routed'
        BY <2>2, Zenon DEF RouteIInv, Routed, Silent, Promoted, Raced, Reported, Dialled
  <2>4. QED
        BY <2>1, <2>3, Zenon DEF RouteIInv
<1>2. CASE Dial
      BY <1>0, <1>2, BaseDial, RouteSteps, Zenon DEF RouteIInv
<1>3. CASE Steps
      BY <1>0, <1>3, BaseSteps, RouteSteps, Zenon DEF RouteIInv
<1>4. ASSUME NEW ch \in Channels, HandleSelectUplink(ch) \/ HandleData(ch) PROVE RouteIInv'
      BY <1>0, <1>4, BaseChoice, RouteChoice, Zenon DEF RouteIInv
<1>5. ASSUME NEW ch \in Channels,
             HandleTCPConnect(ch) \/ Announce(ch) \/ HandleSelectDownlink(ch)
      PROVE  RouteIInv'
  <2>1. Routed'
        BY <1>5, RouteServer, Zenon
  <2>2. BaseInv'
        BY <1>0, <1>5, BaseConnect, BaseAnnounce, BaseReport, Zenon
  <2>3. QED
        BY <2>1, <2>2, Zenon DEF RouteIInv
<1>6. ASSUME NEW ch \in Channels, Works(ch) PROVE RouteIInv'
      BY <1>0, <1>6, BaseWorks, RouteWorks, Zenon DEF RouteIInv
<1>7. QED
      BY <1>1, <1>2, <1>3, <1>4, <1>5, <1>6, NextCases, Zenon

\* The two ends of a connection agree on its downlink, over any number of channels, with
\* or without a pair, whatever fails and whatever is refused (selectDownlink, the report
\* of it over the uplink, and handleSelectDownlink).
THEOREM RoutesAgree == Spec => []RouteAgreement
<1>1. RouteIInv => RouteAgreement
  <2>1. SUFFICES ASSUME RouteIInv, NEW o \in Channels, Dialled = {o}, obj[o].downlink # NoCh
                 PROVE  \/ st.downlink = obj[o].downlink
                        \/ st.downlink = NoCh /\ Pair # NoPair /\ obj[o].downlink = Pair.down
        BY Zenon DEF RouteAgreement
  <2>2. Promoted(o) \/ Raced(o)
        BY <2>1, Zenon DEF RouteIInv, Routed
  <2>3. QED
        BY <2>1, <2>2, Zenon DEF Promoted, Raced
<1>2. QED
      BY <1>1, RouteInit, RouteStep, PTL DEF Spec

=============================================================================
