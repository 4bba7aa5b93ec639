------------------------ MODULE TunnelUplink_proofs -------------------------
(***************************************************************************)
(* What reaches the targets of a connection, for any channels, any Hot     *)
(* Pair, any number of payloads and any failures: no target is given a     *)
(* payload twice, and the only one has them in order while the client is   *)
(* there.                                                                  *)
(***************************************************************************)
EXTENDS TunnelConn_proofs

\* Payloads of state r that wait for the connection, or to be written to it.
Kept(r) == IF r.conn = "none" THEN r.pending ELSE r.flush

Distinct(q) == \A i, j \in 1..Len(q) : q[i] = q[j] => i = j

\* The payloads on the way, those kept and those written: none twice, and what is on the
\* way is later than what has arrived.
Uplinking(u, w, k, hi) ==
    /\ Rising(u, UpData, 0, hi) /\ Ahead(u, UpData, w) /\ Ahead(u, UpData, k)
    /\ Distinct(w) /\ Distinct(k)
    /\ \A i \in 1..Len(w), j \in 1..Len(k) : w[i] # k[j]
    /\ \A i \in 1..Len(w) : w[i] <= hi
    /\ \A i \in 1..Len(k) : k[i] <= hi

\* A state r with the frames u on the way to it: payloads are kept for the connection
\* until there is one, and taken out of pendingData when it is published.
Sound(r, u, w, hi) ==
    /\ r.conn = "none" => r.flush = <<>>
    /\ r.conn # "none" => r.pending = <<>>
    /\ r.stage = "opened" => r.conn # "none"
    /\ Uplinking(u, w, Kept(r), hi)

Apart == \A o \in Channels : Sound(obj[o], up[o], tgt[o], wrote)

\* While the client is registered it writes only after the target is connected, so that
\* nothing has to be kept.
Written ==
    /\ wrote > 0 => dial = "open"
    /\ st.reg /\ dial = "open" => st.connected

Confirmed ==
    st.connected \/ \E c \in Channels : \E i \in 1..Len(down[c]) : down[c][i].t = "ok"

\* The frames u hold the payloads after the first len of them, up to all unless ex.
Brings(u, len, all, ex) ==
    \E m \in Nat : /\ Whole(u, UpData, len, m) /\ m <= all /\ len <= m
                   /\ m = all \/ ex

\* The client sends nothing more on channel o.
Past(o) == ~cliUp[o] \/ st.uplink \notin {NoCh, o}

\* Of the state r, the frames u for it and the payloads w its target has: nothing is
\* kept, a confirmed target is connected, and w begins what u goes on with.
Prompted(r, u, w, all, ex, live, confirmed) ==
    /\ Kept(r) = <<>>
    /\ confirmed => r.conn # "none"
    /\ \A i \in 1..Len(w) : w[i] = i
    /\ live => Brings(u, Len(w), all, ex)

Prompt(o) ==
    Prompted(obj[o], up[o], tgt[o], wrote, Past(o), srvUp[o] /\ conns = o, Confirmed)

UplinkIInv ==
    /\ RouteIInv /\ Apart /\ Written
    /\ \A o \in Channels : st.reg /\ Dialled = {o} => Prompt(o)

\* Frames are taken, or dropped with their channel, and kept payloads may be dropped.
LEMMA UplinkTaken ==
    ASSUME NEW u \in Seq(Uplinked), NEW w, NEW k, NEW hi \in Int, Uplinking(u, w, k, hi),
           NEW v, v = u \/ v = <<>> \/ (u # <<>> /\ v = Tail(u))
    PROVE  Uplinking(v, w, k, hi) /\ Uplinking(v, w, <<>>, hi)
<1>1. Rising(v, UpData, 0, hi) /\ Ahead(v, UpData, w) /\ Ahead(v, UpData, k)
  <2>1. CASE v = <<>>
        BY <2>1, Empty
  <2>2. CASE u # <<>> /\ v = Tail(u)
        BY <2>2, Taken, Zenon DEF Uplinking
  <2>3. QED
        BY <2>1, <2>2, Zenon DEF Uplinking
<1>2. Len(<<>>) = 0 /\ Distinct(<<>>) /\ Ahead(v, UpData, <<>>)
      BY DEF Distinct, Ahead
<1>3. QED
      BY <1>1, <1>2 DEF Uplinking

\* A number is added to distinct ones that are all different from it.
LEMMA DistinctAppend ==
    ASSUME NEW q \in Seq(Int), NEW n \in Int, Distinct(q), \A i \in 1..Len(q) : q[i] # n
    PROVE  /\ Distinct(Append(q, n)) /\ Len(Append(q, n)) = Len(q) + 1 /\ Len(q) \in Nat
           /\ \A i \in 1..Len(Append(q, n)) :
                 \/ i = Len(q) + 1 /\ Append(q, n)[i] = n
                 \/ i \in 1..Len(q) /\ Append(q, n)[i] = q[i]
<1> DEFINE p == Append(q, n)
<1>1. /\ Len(p) = Len(q) + 1 /\ Len(q) \in Nat
      /\ \A i \in 1..Len(p) : \/ i = Len(q) + 1 /\ p[i] = n
                              \/ i \in 1..Len(q) /\ p[i] = q[i]
      OBVIOUS
<1> HIDE DEF p
<1>2. Distinct(p)
      BY <1>1, Zenon DEF Distinct
<1>3. QED
      BY <1>1, <1>2, Zenon DEF p

\* The next payload is taken from the channel: written, or kept.
LEMMA UplinkNext ==
    ASSUME NEW u \in Seq(Uplinked), NEW w \in Seq(Int), NEW k \in Seq(Int), NEW hi \in Int,
           Uplinking(u, w, k, hi), u # <<>>, Head(u).t = "data"
    PROVE  /\ Uplinking(Tail(u), Append(w, Head(u).n), k, hi)
           /\ Uplinking(Tail(u), w, Append(k, Head(u).n), hi)
           /\ 0 < hi
<1> DEFINE n == Head(u).n
<1>0. Head(u) \in UpData /\ Head(u) = u[1] /\ 1 \in 1..Len(u)
  <2>1. Head(u) \in Uplinked /\ Head(u) = u[1] /\ 1 \in 1..Len(u)
        BY Rest, Zenon
  <2>2. QED
        BY <2>1, Zenon DEF Uplinked, UpData
<1>1. /\ n \in Int /\ 0 < n /\ n <= hi
      /\ \A i \in 1..Len(Tail(u)) : Tail(u)[i] \in UpData => n < Tail(u)[i].n
  <2>1. 0 \in Int /\ Rising(u, UpData, 0, hi)
        BY DEF Uplinking
  <2>2. QED
        BY <1>0, <2>1, NextTaken, Zenon
<1>2. /\ \A i \in 1..Len(w) : w[i] < n /\ w[i] \in Int
      /\ \A i \in 1..Len(k) : k[i] < n /\ k[i] \in Int
  <2>1. /\ \A i \in 1..Len(w) : w[i] \in Int
        /\ \A i \in 1..Len(k) : k[i] \in Int
        BY FrameAt, Zenon
  <2>2. QED
        BY <1>0, <2>1, Zenon DEF Uplinking, Ahead
<1>3. Rising(Tail(u), UpData, 0, hi) /\ Ahead(Tail(u), UpData, w) /\ Ahead(Tail(u), UpData, k)
      BY Taken, Zenon DEF Uplinking
<1> HIDE DEF n
<1>4. ASSUME NEW q \in Seq(Int), Distinct(q), \A i \in 1..Len(q) : q[i] < n /\ q[i] \in Int,
             Ahead(Tail(u), UpData, q)
      PROVE  /\ Distinct(Append(q, n)) /\ Ahead(Tail(u), UpData, Append(q, n))
             /\ \A i \in 1..Len(Append(q, n)) : Append(q, n)[i] = n \/ (i \in 1..Len(q) /\ Append(q, n)[i] = q[i])
  <2>1. \A i \in 1..Len(q) : q[i] # n
        BY <1>1, <1>4, SMTT(30)
  <2>2. /\ Distinct(Append(q, n))
        /\ \A i \in 1..Len(Append(q, n)) :
                 \/ i = Len(q) + 1 /\ Append(q, n)[i] = n
                 \/ i \in 1..Len(q) /\ Append(q, n)[i] = q[i]
        BY <1>1, <1>4, <2>1, DistinctAppend, Zenon
  <2> DEFINE p == Append(q, n)
  <2>3. \A i \in 1..Len(p) : p[i] = n \/ (i \in 1..Len(q) /\ p[i] = q[i])
        BY <2>2, Zenon
  <2> HIDE DEF p
  <2>4. Ahead(Tail(u), UpData, p)
        BY <1>1, <1>4, <2>3, Zenon DEF Ahead
  <2>5. QED
        BY <2>2, <2>3, <2>4, Zenon DEF p
<1>5. ASSUME NEW q \in Seq(Int), NEW r \in Seq(Int), Distinct(q), Distinct(r),
             Ahead(Tail(u), UpData, q), Ahead(Tail(u), UpData, r),
             \A i \in 1..Len(q) : q[i] < n /\ q[i] \in Int,
             \A i \in 1..Len(r) : r[i] < n /\ r[i] \in Int,
             \A i \in 1..Len(q), j \in 1..Len(r) : q[i] # r[j]
      PROVE  /\ Distinct(Append(q, n)) /\ Ahead(Tail(u), UpData, Append(q, n))
             /\ \A i \in 1..Len(Append(q, n)), j \in 1..Len(r) : Append(q, n)[i] # r[j]
             /\ \A i \in 1..Len(Append(q, n)) : Append(q, n)[i] <= hi
             /\ \A i \in 1..Len(r) : r[i] <= hi
  <2> DEFINE p == Append(q, n)
  <2>1. /\ Distinct(p) /\ Ahead(Tail(u), UpData, p)
        /\ \A i \in 1..Len(p) : p[i] = n \/ (i \in 1..Len(q) /\ p[i] = q[i])
        BY <1>4, <1>5, Zenon
  <2> HIDE DEF p
  <2>2. ASSUME NEW i \in 1..Len(p), NEW j \in 1..Len(r) PROVE p[i] # r[j]
    <3>1. r[j] < n /\ r[j] \in Int
          BY <1>5, Zenon
    <3>2. CASE p[i] = n
          BY <1>1, <3>1, <3>2, SMTT(30)
    <3>3. CASE i \in 1..Len(q) /\ p[i] = q[i]
          BY <1>5, <3>3, Zenon
    <3>4. QED
          BY <2>1, <3>2, <3>3, Zenon
  <2>3. /\ \A i \in 1..Len(p) : p[i] <= hi
        /\ \A i \in 1..Len(r) : r[i] <= hi
    <3>0. \A x \in Int : x < n => x <= hi
          BY <1>1
    <3>1. /\ \A i \in 1..Len(q) : q[i] <= hi
          /\ \A i \in 1..Len(r) : r[i] <= hi
          BY <1>5, <3>0, Zenon
    <3>2. QED
          BY <1>1, <2>1, <3>1, Zenon
  <2>4. QED
        BY <2>1, <2>2, <2>3, Zenon DEF p
<1>6. Uplinking(Tail(u), Append(w, n), k, hi)
  <2>1. Distinct(w) /\ Distinct(k) /\ \A i \in 1..Len(w), j \in 1..Len(k) : w[i] # k[j]
        BY Zenon DEF Uplinking
  <2>2. /\ Distinct(Append(w, n)) /\ Ahead(Tail(u), UpData, Append(w, n))
        /\ \A i \in 1..Len(Append(w, n)), j \in 1..Len(k) : Append(w, n)[i] # k[j]
        /\ \A i \in 1..Len(Append(w, n)) : Append(w, n)[i] <= hi
        /\ \A i \in 1..Len(k) : k[i] <= hi
        BY <1>2, <1>3, <1>5, <2>1, Zenon
  <2>3. QED
        BY <1>3, <2>1, <2>2, Zenon DEF Uplinking
<1>7. Uplinking(Tail(u), w, Append(k, n), hi)
  <2>1. Distinct(w) /\ Distinct(k) /\ \A i \in 1..Len(k), j \in 1..Len(w) : k[i] # w[j]
        BY Zenon DEF Uplinking
  <2>2. /\ Distinct(Append(k, n)) /\ Ahead(Tail(u), UpData, Append(k, n))
        /\ \A i \in 1..Len(Append(k, n)), j \in 1..Len(w) : Append(k, n)[i] # w[j]
        /\ \A i \in 1..Len(Append(k, n)) : Append(k, n)[i] <= hi
        /\ \A i \in 1..Len(w) : w[i] <= hi
        BY <1>2, <1>3, <1>5, <2>1, Zenon
  <2>3. \A i \in 1..Len(w), j \in 1..Len(Append(k, n)) : w[i] # Append(k, n)[j]
        BY <2>2, Zenon
  <2>4. QED
        BY <1>3, <2>1, <2>2, <2>3, Zenon DEF Uplinking
<1>8. QED
      BY <1>1, <1>6, <1>7 DEF n

\* A payload that was kept is written.
LEMMA UplinkFlush ==
    ASSUME NEW u, NEW w \in Seq(Int), NEW k \in Seq(Int), NEW hi \in Int,
           Uplinking(u, w, k, hi), k # <<>>
    PROVE  Uplinking(u, Append(w, Head(k)), Tail(k), hi)
<1> DEFINE n == Head(k)
           t == Tail(k)
           p == Append(w, n)
<1>1. /\ t \in Seq(Int) /\ n \in Int /\ n = k[1] /\ 1 \in 1..Len(k)
      /\ \A i \in 1..Len(t) : i + 1 \in 1..Len(k) /\ t[i] = k[i + 1]
      BY Rest, Zenon
<1>2. /\ Distinct(w) /\ Distinct(k) /\ \A i \in 1..Len(w), j \in 1..Len(k) : w[i] # k[j]
      BY Zenon DEF Uplinking
<1>3. \A i \in 1..Len(w) : w[i] # n
      BY <1>1, <1>2, Zenon
<1>4. /\ Distinct(p) /\ \A i \in 1..Len(p) : \/ i = Len(w) + 1 /\ p[i] = n
                                             \/ i \in 1..Len(w) /\ p[i] = w[i]
      BY <1>1, <1>2, <1>3, DistinctAppend, Zenon
<1>5. Distinct(t) /\ \A i \in 1..Len(t) : t[i] # n
  <2>1. \A i \in 1..Len(t) : i \in Int /\ i + 1 # 1
        OBVIOUS
  <2> HIDE DEF t, n
  <2>2. \A i \in 1..Len(t) : t[i] # n
        BY <1>1, <1>2, <2>1, Zenon DEF Distinct
  <2>3. ASSUME NEW i \in 1..Len(t), NEW j \in 1..Len(t), t[i] = t[j] PROVE i = j
    <3>1. i + 1 = j + 1
          BY <1>1, <1>2, <2>3, ZenonT(30) DEF Distinct
    <3>2. QED
          BY <2>1, <3>1
  <2>4. QED
        BY <2>2, <2>3, Zenon DEF Distinct
<1> HIDE DEF n, t, p
<1>6. Ahead(u, UpData, p) /\ Ahead(u, UpData, t)
      BY <1>1, <1>4, Zenon DEF Uplinking, Ahead
<1>7. \A i \in 1..Len(p), j \in 1..Len(t) : p[i] # t[j]
      BY <1>1, <1>2, <1>4, <1>5
<1>8. /\ \A i \in 1..Len(p) : p[i] <= hi
      /\ \A i \in 1..Len(t) : t[i] <= hi
      BY <1>1, <1>4, Zenon DEF Uplinking
<1>9. QED
      BY <1>4, <1>5, <1>6, <1>7, <1>8, Zenon DEF Uplinking, p, t, n

\* The client sends something, or the next payload, or sends that elsewhere.
LEMMA UplinkSent ==
    ASSUME NEW u \in Seq(Uplinked), NEW w \in Seq(Int), NEW k \in Seq(Int), NEW hi \in Nat,
           Uplinking(u, w, k, hi), NEW f \in Uplinked
    PROVE  /\ f \notin UpData => Uplinking(u \o <<f>>, w, k, hi)
           /\ f \in UpData /\ f.n = hi + 1 => Uplinking(u \o <<f>>, w, k, hi + 1)
           /\ Uplinking(u, w, k, hi + 1)
<1>0. <<f>> \in Seq(Uplinked) /\ Len(<<f>>) = 1 /\ <<f>>[1] = f
      OBVIOUS
<1>1. /\ \A i \in 1..Len(w) : w[i] \in Int /\ w[i] <= hi /\ w[i] <= hi + 1 /\ w[i] < hi + 1
      /\ \A i \in 1..Len(k) : k[i] \in Int /\ k[i] <= hi /\ k[i] <= hi + 1 /\ k[i] < hi + 1
  <2>1. /\ \A i \in 1..Len(w) : w[i] \in Int
        /\ \A i \in 1..Len(k) : k[i] \in Int
        BY FrameAt, Zenon
  <2>2. QED
        BY <2>1, SMTT(30) DEF Uplinking
<1>2. Uplinking(u, w, k, hi + 1)
  <2>1. Rising(u, UpData, 0, hi + 1)
        BY DEF Uplinking, Rising
  <2>2. QED
        BY <1>1, <2>1, Zenon DEF Uplinking
<1>3. ASSUME f \notin UpData PROVE Uplinking(u \o <<f>>, w, k, hi)
  <2>1. \A i \in 1..Len(<<f>>) : <<f>>[i] \notin UpData
        BY <1>3
  <2>2. /\ Rising(u \o <<f>>, UpData, 0, hi) /\ Ahead(u \o <<f>>, UpData, w)
        /\ Ahead(u \o <<f>>, UpData, k)
        BY <1>0, <2>1, OthersPut, Zenon DEF Uplinking
  <2>3. QED
        BY <2>2, Zenon DEF Uplinking
<1>4. ASSUME f \in UpData, f.n = hi + 1 PROVE Uplinking(u \o <<f>>, w, k, hi + 1)
  <2>1. Rising(u \o <<f>>, UpData, 0, hi + 1)
        BY <1>4, NextPut DEF Uplinking
  <2> DEFINE e == u \o <<f>>
  <2>2. \A i \in 1..Len(e) : e[i] = f \/ (i \in 1..Len(u) /\ e[i] = u[i])
        BY <1>0, Joined
  <2> HIDE DEF e
  <2>3. Ahead(e, UpData, w) /\ Ahead(e, UpData, k)
        BY <1>1, <1>4, <2>2, Zenon DEF Uplinking, Ahead
  <2>4. QED
        BY <1>1, <2>1, <2>3, Zenon DEF Uplinking, e
<1>5. QED
      BY <1>2, <1>3, <1>4, Zenon

\* A state whose payloads stay where they are; its connection may be closed.
Rests(r, q) ==
    /\ q.pending = r.pending /\ q.flush = r.flush
    /\ q.conn = r.conn \/ (r.conn = "open" /\ q.conn = "closed")
    /\ q.stage = "opened" => r.stage = "opened"

\* A payload moves on at channel o, towards the target of the state made there: it is
\* kept, or written; or the target is connected, or a kept one is written or dropped.
KeepsOne(o) ==
    /\ up[o] # <<>> /\ Head(up[o]).t = "data" /\ up' = [up EXCEPT ![o] = Tail(@)]
    /\ conns = o /\ obj[o].conn = "none"
    /\ obj' = [obj EXCEPT ![o].pending = Append(@, Head(up[o]).n)] /\ tgt' = tgt
WritesOne(o) ==
    /\ up[o] # <<>> /\ Head(up[o]).t = "data" /\ up' = [up EXCEPT ![o] = Tail(@)]
    /\ conns = o /\ srvUp[o] /\ obj[o].conn = "open" /\ obj' = obj
    /\ tgt' = [tgt EXCEPT ![o] = Append(@, Head(up[o]).n)]
Opens(o) ==
    /\ obj' = [obj EXCEPT ![o].stage = "opened", ![o].conn = "open",
                          ![o].flush = obj[o].pending, ![o].pending = <<>>]
    /\ up' = up /\ tgt' = tgt
FlushesOne(o) ==
    /\ obj[o].flush # <<>> /\ obj[o].conn = "open" /\ up' = up
    /\ obj' = [obj EXCEPT ![o].flush = Tail(@)]
    /\ tgt' = [tgt EXCEPT ![o] = Append(@, Head(obj[o].flush))]
Drops(o) ==
    /\ obj[o].flush # <<>> /\ up' = up /\ tgt' = tgt /\ conns' = NoCh
    /\ \A x \in Channels : x # o => Rests(obj[x], obj'[x])
    /\ Rests([obj[o] EXCEPT !.stage = "done", !.flush = <<>>], obj'[o])

\* Or none does.
RestsAll(ch) ==
    /\ tgt' = tgt /\ \A x \in Channels : Rests(obj[x], obj'[x])
    /\ \/ up' = up
       \/ up' = [up EXCEPT ![ch] = <<>>] /\ srvUp' = [srvUp EXCEPT ![ch] = FALSE]
       \/ /\ up[ch] # <<>> /\ up' = [up EXCEPT ![ch] = Tail(@)]
          /\ Head(up[ch]).t # "data" \/ conns' # ch

\* unregisterConn leaves the payloads where they are.
LEMMA RestsUnregister ==
    ASSUME conns \in Channels \cup {NoCh}, NEW objs \in [Channels -> Objects],
           UnregisterConn(objs)
    PROVE  \A x \in Channels : Rests(objs[x], obj'[x])
<1>1. \A r \in Objects : Rests(r, r) /\ Rests(r, Shut(r))
      BY Zenon DEF Objects, Rests, Shut
<1>2. \A o \in Channels : obj'[o] = objs[o] \/ obj'[o] = Shut(objs[o])
      BY UnregisterTypes, Zenon
<1> HIDE DEF Objects
<1>3. QED
      BY <1>1, <1>2, Zenon

\* What a step of Works does to the payloads for the target.
LEMMA UpWork ==
    ASSUME BaseInv, NEW ch \in Channels, Works(ch)
    PROVE  /\ \/ RestsAll(ch) \/ KeepsOne(ch) \/ WritesOne(ch)
              \/ Opens(ch) \/ FlushesOne(ch) \/ Drops(ch)
           /\ \/ down' = down
              \/ obj[ch].stage = "opened" /\ \E t \in Seq(Downlinked) : down' = Put(down, Reach, t)
              \/ \E t \in Seq(Downlinked) : /\ down' = Put(down, Reach, t)
                                            /\ \A i \in 1..Len(t) : t[i].t # "ok"
<1>0. /\ ServerTypes /\ obj[ch] \in Objects /\ up[ch] \in Seq(Uplinked)
      /\ obj \in [Channels -> Objects] /\ conns \in Channels \cup {NoCh}
      BY BaseTypes, Zenon DEF ServerTypes
<1>1. \A r \in Objects : Rests(r, r)
      BY Zenon DEF Rests
<1>2. UnregisterConn(obj) => \A x \in Channels : Rests(obj[x], obj'[x])
      BY <1>0, RestsUnregister, Zenon
<1>3. \A x \in Channels : Rests(obj[x], obj[x])
      BY <1>0, <1>1, Zenon
<1>4. \A stage \in Stages : stage # "opened" =>
          At(ch, stage) \in [Channels -> Objects] /\ \A x \in Channels : Rests(obj[x], At(ch, stage)[x])
  <2>1. SUFFICES ASSUME NEW stage \in Stages, stage # "opened"
                 PROVE  /\ At(ch, stage) \in [Channels -> Objects]
                        /\ \A x \in Channels : Rests(obj[x], At(ch, stage)[x])
        BY Zenon
  <2>2. /\ At(ch, stage) \in [Channels -> Objects]
        /\ \A x \in Channels :
              At(ch, stage)[x] = IF x = ch THEN [obj[ch] EXCEPT !.stage = stage] ELSE obj[x]
        BY <1>0, StageTypes, Zenon
  <2>3. Rests(obj[ch], [obj[ch] EXCEPT !.stage = stage])
        BY <1>0, <2>1, Zenon DEF Objects, Rests
  <2> HIDE DEF Objects
  <2>4. QED
        BY <1>3, <2>2, <2>3, Zenon
<1>5. {"dial", "failed", "flush", "forward", "bye", "done"} \subseteq Stages
      BY Zenon DEF Stages
<1> HIDE DEF Objects, Stages
<1>6. CASE HandleTCPData(ch)
  <2>1. /\ up[ch] # <<>> /\ Head(up[ch]).t = "data" /\ up' = [up EXCEPT ![ch] = Tail(@)]
        /\ down' = down /\ srvUp[ch]
        BY <1>6, Zenon DEF HandleTCPData, Arrived
  <2>2. \/ conns # ch /\ UNCHANGED <<conns, obj, tgt>>
        \/ /\ obj' = [obj EXCEPT ![ch].pending = Append(@, Head(up[ch]).n)]
           /\ conns = ch /\ obj[ch].conn = "none" /\ UNCHANGED tgt
        \/ /\ conns = ch /\ tgt' = [tgt EXCEPT ![ch] = Append(@, Head(up[ch]).n)]
           /\ obj[ch].conn = "open" /\ UNCHANGED obj
        \/ UnregisterConn(obj) /\ UNCHANGED tgt
        BY <1>6, Zenon DEF HandleTCPData
  <2>3. CASE conns # ch /\ UNCHANGED <<conns, obj, tgt>>
        BY <1>3, <2>1, <2>3, Zenon DEF RestsAll
  <2>4. CASE UnregisterConn(obj) /\ UNCHANGED tgt
    <3>1. conns' # ch
          BY <2>4, WiresAssumption, Zenon DEF UnregisterConn
    <3>2. QED
          BY <1>2, <2>1, <2>4, <3>1, Zenon DEF RestsAll
  <2>5. QED
        BY <2>1, <2>2, <2>3, <2>4, Zenon DEF KeepsOne, WritesOne
<1>7. CASE HandleTCPClose(ch)
  <2>1. /\ up[ch] # <<>> /\ Head(up[ch]).t = "close" /\ up' = [up EXCEPT ![ch] = Tail(@)]
        /\ UNCHANGED <<tgt, down>> /\ UnregisterConn(obj)
        BY <1>7, Zenon DEF HandleTCPClose, Arrived
  <2>2. QED
        BY <1>2, <2>1, Zenon DEF RestsAll
<1>8. CASE CleanupServer(ch)
  <2>1. /\ up' = [up EXCEPT ![ch] = <<>>] /\ srvUp' = [srvUp EXCEPT ![ch] = FALSE]
        /\ UNCHANGED <<tgt, down>>
        /\ UnregisterConn(obj) \/ UNCHANGED obj
        BY <1>8, Zenon DEF CleanupServer
  <2>2. QED
        BY <1>2, <1>3, <2>1, Zenon DEF RestsAll
<1>9. CASE ConnectCheck(ch)
  <2>1. (obj' = At(ch, "done") \/ obj' = At(ch, "dial")) /\ UNCHANGED <<tgt, down, up>>
        BY <1>9, Zenon DEF ConnectCheck, wires
  <2>2. QED
        BY <1>4, <1>5, <2>1, Zenon DEF RestsAll
<1>10. CASE ConnectFails(ch)
  <2> DEFINE t == <<[t |-> "err"], [t |-> "close"]>>
  <2>1. obj' = At(ch, "failed") /\ UNCHANGED <<tgt, up>> /\ down' = Put(down, Reach, t)
        BY <1>10, Zenon DEF ConnectFails, SendDownlink, Reach
  <2>2. t \in Seq(Downlinked) /\ \A i \in 1..Len(t) : t[i].t # "ok"
        BY DEF Downlinked
  <2> HIDE DEF t
  <2>3. QED
        BY <1>4, <1>5, <2>1, <2>2, Zenon DEF RestsAll
<1>11. CASE ForgetFailed(ch)
  <2>1. obj' = At(ch, "done") /\ UNCHANGED <<tgt, down, up>>
        BY <1>11, Zenon DEF ForgetFailed, wires
  <2>2. QED
        BY <1>4, <1>5, <2>1, Zenon DEF RestsAll
<1>12. CASE Connected(ch)
  <2>1. /\ UNCHANGED <<tgt, down, up>>
        /\ \/ obj' = At(ch, "done")
           \/ obj' = [obj EXCEPT ![ch].stage = "opened", ![ch].conn = "open",
                                 ![ch].flush = obj[ch].pending, ![ch].pending = <<>>]
        BY <1>12, Zenon DEF Connected, wires
  <2>2. QED
        BY <1>4, <1>5, <2>1, Zenon DEF RestsAll, Opens
<1>13. CASE ReportOK(ch)
  <2> DEFINE t == <<[t |-> "ok"]>>
  <2>1. /\ obj' = At(ch, "flush") /\ UNCHANGED <<tgt, up>> /\ down' = Put(down, Reach, t)
        /\ obj[ch].stage = "opened"
        BY <1>13, Zenon DEF ReportOK, SendDownlink, Reach
  <2>2. t \in Seq(Downlinked)
        BY DEF Downlinked
  <2> HIDE DEF t
  <2>3. QED
        BY <1>4, <1>5, <2>1, <2>2, Zenon DEF RestsAll
<1>14. CASE Flush(ch)
  <2> DEFINE q == [obj[ch] EXCEPT !.stage = "done", !.flush = <<>>]
             objs == [obj EXCEPT ![ch] = q]
  <2>1. UNCHANGED <<down, up>>
        BY <1>14, Zenon DEF Flush, wires
  <2>2. \/ obj' = At(ch, "forward") /\ UNCHANGED tgt
        \/ /\ obj[ch].flush # <<>> /\ obj[ch].conn = "open"
           /\ obj' = [obj EXCEPT ![ch].flush = Tail(@)]
           /\ tgt' = [tgt EXCEPT ![ch] = Append(@, Head(obj[ch].flush))]
        \/ obj[ch].flush # <<>> /\ UnregisterConn(objs) /\ UNCHANGED tgt
        BY <1>0, <1>14, Zenon DEF Flush
  <2>3. CASE obj[ch].flush # <<>> /\ UnregisterConn(objs) /\ UNCHANGED tgt
    <3>0. <<>> \in Seq(1..MaxUp)
          OBVIOUS
    <3>1. q \in Objects
          BY <1>0, <1>5, <3>0, Zenon DEF Objects
    <3> HIDE DEF q
    <3>2. /\ objs \in [Channels -> Objects] /\ objs[ch] = q
          /\ \A x \in Channels : x # ch => objs[x] = obj[x]
          BY <1>0, <3>1, Zenon
    <3> HIDE DEF objs
    <3>3. \A x \in Channels : Rests(objs[x], obj'[x])
          BY <1>0, <2>3, <3>2, RestsUnregister, Zenon
    <3>4. conns' = NoCh
          BY <2>3, Zenon DEF UnregisterConn
    <3>5. QED
          BY <2>1, <2>3, <3>2, <3>3, <3>4, Zenon DEF Drops, q
  <2>4. CASE obj' = At(ch, "forward") /\ UNCHANGED tgt
        BY <1>4, <1>5, <2>1, <2>4, Zenon DEF RestsAll
  <2>5. QED
        BY <2>1, <2>2, <2>3, <2>4, Zenon DEF FlushesOne
<1>15. CASE Forward(ch)
  <2> DEFINE f == [t |-> "data", o |-> ch, n |-> read[ch] + 1]
  <2>1. /\ read[ch] < MaxDown /\ down' = Put(down, Reach, <<f>>) /\ UNCHANGED <<obj, tgt, up>>
        BY <1>15, Zenon DEF Forward, SendDownlink, Reach
  <2>2. read[ch] + 1 \in 1..MaxDown
        BY <1>0, <2>1, WiresAssumption DEF ServerTypes
  <2>3. f \in Downlinked /\ f.t # "ok"
        BY <2>2, Zenon DEF Downlinked
  <2> HIDE DEF f
  <2>4. <<f>> \in Seq(Downlinked) /\ \A i \in 1..Len(<<f>>) : <<f>>[i].t # "ok"
        BY <2>3
  <2>5. QED
        BY <1>3, <2>1, <2>4, Zenon DEF RestsAll
<1>16. CASE ForwardEnds(ch)
  <2>1. UnregisterConn(At(ch, "bye")) /\ UNCHANGED <<tgt, down, up>>
        BY <1>16, Zenon DEF ForwardEnds, wires
  <2>2. At(ch, "bye") \in [Channels -> Objects] /\ \A x \in Channels : Rests(obj[x], At(ch, "bye")[x])
        BY <1>4, <1>5, Zenon
  <2>3. \A x \in Channels : Rests(At(ch, "bye")[x], obj'[x])
        BY <1>0, <2>1, <2>2, RestsUnregister, Zenon
  <2>4. \A x \in Channels : Rests(obj[x], obj'[x])
        BY <2>2, <2>3 DEF Rests
  <2>5. QED
        BY <2>1, <2>4, Zenon DEF RestsAll
<1>17. CASE SendBye(ch)
  <2> DEFINE t == <<[t |-> "close"]>>
  <2>1. obj' = At(ch, "done") /\ UNCHANGED <<tgt, up>> /\ down' = Put(down, Reach, t)
        BY <1>17, Zenon DEF SendBye, SendDownlink, Reach
  <2>2. t \in Seq(Downlinked) /\ \A i \in 1..Len(t) : t[i].t # "ok"
        BY DEF Downlinked
  <2> HIDE DEF t
  <2>3. QED
        BY <1>4, <1>5, <2>1, <2>2, Zenon DEF RestsAll
<1>18. QED
      BY <1>6, <1>7, <1>8, <1>9, <1>10, <1>11, <1>12, <1>13, <1>14, <1>15, <1>16, <1>17, ZenonT(30)
         DEF Works, ConnectTarget

\* The numbers a state keeps, and those its target has.
LEMMA KeptTypes ==
    ASSUME BaseInv, NEW o \in Channels
    PROVE  /\ obj[o] \in Objects /\ up[o] \in Seq(Uplinked) /\ wrote \in Nat
           /\ tgt[o] \in Seq(Int) /\ Kept(obj[o]) \in Seq(Int)
           /\ obj[o].pending \in Seq(Int) /\ obj[o].flush \in Seq(Int)
<1>1. /\ obj[o] \in Objects /\ up[o] \in Seq(Uplinked) /\ tgt[o] \in Seq(1..MaxUp)
      /\ wrote \in 0..MaxUp
      BY BaseTypes, Zenon DEF ServerTypes
<1>2. obj[o].pending \in Seq(1..MaxUp) /\ obj[o].flush \in Seq(1..MaxUp)
      BY <1>1, Zenon DEF Objects
<1>3. 1..MaxUp \subseteq Int /\ wrote \in Nat
      BY <1>1, WiresAssumption
<1>4. tgt[o] \in Seq(Int) /\ obj[o].pending \in Seq(Int) /\ obj[o].flush \in Seq(Int)
      BY <1>1, <1>2, <1>3, Wider, Zenon
<1>5. QED
      BY <1>1, <1>3, <1>4, Zenon DEF Kept

\* A state whose payloads stay where they are stays sound.
LEMMA RestsSound ==
    ASSUME NEW r, NEW q, Rests(r, q), NEW u \in Seq(Uplinked), NEW w, NEW hi \in Int,
           Sound(r, u, w, hi), NEW v, v = u \/ v = <<>> \/ (u # <<>> /\ v = Tail(u))
    PROVE  Sound(q, v, w, hi) /\ Kept(q) = Kept(r)
<1>1. Uplinking(v, w, Kept(r), hi)
      BY UplinkTaken, Zenon DEF Sound
<1>2. Kept(q) = Kept(r) /\ (q.conn = "none" <=> r.conn = "none")
      BY Zenon DEF Rests, Kept
<1>3. QED
      BY <1>1, <1>2, Zenon DEF Sound, Rests

\* The server's steps, as far as payloads for the target go.
Moves(ch) ==
    \/ RestsAll(ch) \/ KeepsOne(ch) \/ WritesOne(ch)
    \/ Opens(ch) \/ FlushesOne(ch) \/ Drops(ch)

\* No payload is given twice.
LEMMA ApartMoves ==
    ASSUME BaseInv, Apart, NEW ch \in Channels, Moves(ch), wrote' = wrote
    PROVE  Apart'
<1>0. SUFFICES ASSUME NEW o \in Channels PROVE Sound(obj'[o], up'[o], tgt'[o], wrote)
      BY Zenon DEF Apart
<1>1. /\ obj[o] \in Objects /\ up[o] \in Seq(Uplinked) /\ wrote \in Nat
      /\ tgt[o] \in Seq(Int) /\ Kept(obj[o]) \in Seq(Int)
      /\ obj[o].pending \in Seq(Int) /\ obj[o].flush \in Seq(Int)
      BY KeptTypes, Zenon
<1>2. Sound(obj[o], up[o], tgt[o], wrote) /\ wrote \in Int
      BY <1>1 DEF Apart
<1>3. /\ obj \in [Channels -> Objects] /\ up \in [Channels -> Seq(Uplinked)]
      /\ tgt \in [Channels -> Seq(1..MaxUp)]
      BY BaseTypes, Zenon DEF ServerTypes
<1> HIDE DEF Objects
<1>4. CASE RestsAll(ch)
  <2>1. Rests(obj[o], obj'[o]) /\ tgt'[o] = tgt[o]
        BY <1>4, Zenon DEF RestsAll
  <2>2. up'[o] = up[o] \/ up'[o] = <<>> \/ (up[o] # <<>> /\ up'[o] = Tail(up[o]))
        BY <1>3, <1>4, Zenon DEF RestsAll
  <2>3. QED
        BY <1>1, <1>2, <2>1, <2>2, RestsSound, ZenonT(30)
<1>5. CASE Moves(ch) /\ ~RestsAll(ch) /\ o # ch
  <2>1. up'[o] = up[o] /\ tgt'[o] = tgt[o] /\ (obj'[o] = obj[o] \/ Rests(obj[o], obj'[o]))
        BY <1>3, <1>5, Zenon DEF Moves, KeepsOne, WritesOne, Opens, FlushesOne, Drops
  <2>2. QED
        BY <1>1, <1>2, <2>1, RestsSound, Zenon
<1>6. CASE KeepsOne(ch) /\ o = ch
  <2> DEFINE p == Append(obj[o].pending, Head(up[o]).n)
  <2>1. /\ up[o] # <<>> /\ Head(up[o]).t = "data" /\ up'[o] = Tail(up[o]) /\ tgt'[o] = tgt[o]
        /\ obj[o].conn = "none" /\ obj'[o] = [obj[o] EXCEPT !.pending = p]
        BY <1>3, <1>6, Zenon DEF KeepsOne
  <2> HIDE DEF p
  <2>2. /\ obj'[o].conn = "none" /\ obj'[o].stage = obj[o].stage
        /\ obj'[o].flush = obj[o].flush /\ obj'[o].pending = p
        BY <1>1, <2>1, Zenon DEF Objects
  <2>3. Kept(obj[o]) = obj[o].pending /\ Kept(obj'[o]) = p
        BY <2>1, <2>2, Zenon DEF Kept
  <2>4. Uplinking(Tail(up[o]), tgt[o], p, wrote)
        BY <1>1, <1>2, <2>1, <2>3, UplinkNext, Zenon DEF Sound, p
  <2>5. QED
        BY <1>2, <2>1, <2>2, <2>3, <2>4, Zenon DEF Sound
<1>7. CASE WritesOne(ch) /\ o = ch
  <2>1. /\ up[o] # <<>> /\ Head(up[o]).t = "data" /\ up'[o] = Tail(up[o])
        /\ tgt'[o] = Append(tgt[o], Head(up[o]).n) /\ obj'[o] = obj[o]
        BY <1>3, <1>7, Zenon DEF WritesOne
  <2>2. Uplinking(Tail(up[o]), Append(tgt[o], Head(up[o]).n), Kept(obj[o]), wrote)
        BY <1>1, <1>2, <2>1, UplinkNext, Zenon DEF Sound
  <2>3. QED
        BY <1>2, <2>1, <2>2, Zenon DEF Sound
<1>8. CASE Opens(ch) /\ o = ch
  <2>1. /\ up'[o] = up[o] /\ tgt'[o] = tgt[o]
        /\ obj'[o] = [obj[o] EXCEPT !.stage = "opened", !.conn = "open",
                                    !.flush = obj[o].pending, !.pending = <<>>]
        BY <1>3, <1>8, Zenon DEF Opens
  <2>2. obj'[o].conn = "open" /\ obj'[o].flush = obj[o].pending /\ obj'[o].pending = <<>>
        BY <1>1, <2>1, Zenon DEF Objects
  <2>3. Kept(obj'[o]) = obj[o].pending
        BY <2>2, Zenon DEF Kept
  <2>4. obj[o].pending = Kept(obj[o]) \/ obj[o].pending = <<>>
        BY <1>2, Zenon DEF Sound, Kept
  <2>5. Uplinking(up[o], tgt[o], obj[o].pending, wrote)
        BY <1>1, <1>2, <2>4, UplinkTaken, Zenon DEF Sound
  <2>6. QED
        BY <2>1, <2>2, <2>3, <2>5, Zenon DEF Sound
<1>9. CASE FlushesOne(ch) /\ o = ch
  <2>1. /\ up'[o] = up[o] /\ tgt'[o] = Append(tgt[o], Head(obj[o].flush))
        /\ obj'[o] = [obj[o] EXCEPT !.flush = Tail(obj[o].flush)]
        /\ obj[o].flush # <<>> /\ obj[o].conn = "open"
        BY <1>3, <1>9, Zenon DEF FlushesOne
  <2>2. /\ obj'[o].conn = "open" /\ obj'[o].flush = Tail(obj[o].flush)
        /\ obj'[o].pending = obj[o].pending
        BY <1>1, <2>1, Zenon DEF Objects
  <2>3. Kept(obj'[o]) = Tail(obj[o].flush) /\ Kept(obj[o]) = obj[o].flush
        BY <2>1, <2>2, Zenon DEF Kept
  <2>4. Uplinking(up[o], Append(tgt[o], Head(obj[o].flush)), Tail(obj[o].flush), wrote)
        BY <1>1, <1>2, <2>1, <2>3, UplinkFlush, Zenon DEF Sound
  <2>5. QED
        BY <1>2, <2>1, <2>2, <2>3, <2>4, Zenon DEF Sound
<1>10. CASE Drops(ch) /\ o = ch
  <2> DEFINE q == [obj[o] EXCEPT !.stage = "done", !.flush = <<>>]
  <2>1. up'[o] = up[o] /\ tgt'[o] = tgt[o] /\ Rests(q, obj'[o]) /\ obj[o].flush # <<>>
        BY <1>10, Zenon DEF Drops
  <2>2. /\ q.conn = obj[o].conn /\ q.stage = "done" /\ q.flush = <<>>
        /\ q.pending = obj[o].pending
        BY <1>1, Zenon DEF Objects
  <2> HIDE DEF q
  <2>3. obj[o].conn # "none"
        BY <1>2, <2>1, Zenon DEF Sound
  <2>4. Kept(q) = <<>>
        BY <2>2, <2>3, Zenon DEF Kept
  <2>5. Uplinking(up[o], tgt[o], <<>>, wrote)
        BY <1>1, <1>2, UplinkTaken, Zenon DEF Sound
  <2>6. Sound(q, up[o], tgt[o], wrote)
        BY <1>2, <2>2, <2>3, <2>4, <2>5, Zenon DEF Sound
  <2>7. QED
        BY <1>1, <1>2, <2>1, <2>6, RestsSound, Zenon
<1>11. QED
      BY <1>4, <1>5, <1>6, <1>7, <1>8, <1>9, <1>10, Zenon DEF Moves

\* The frames of a state that brings payloads: something else is taken, or the next one.
LEMMA BringsTaken ==
    ASSUME NEW u \in Seq(Uplinked), u # <<>>, NEW len \in Nat, NEW all \in Nat, NEW ex,
           Brings(u, len, all, ex)
    PROVE  /\ Head(u).t # "data" => Brings(Tail(u), len, all, ex)
           /\ Head(u).t = "data" => Head(u).n = len + 1 /\ Brings(Tail(u), len + 1, all, ex)
<1>1. PICK m \in Nat : /\ Whole(u, UpData, len, m) /\ m <= all /\ len <= m
                       /\ m = all \/ ex
      BY Zenon DEF Brings
<1>2. Head(u) \in Uplinked
      BY Rest, Zenon
<1>3. Head(u).t = "data" <=> Head(u) \in UpData
      BY <1>2, Zenon DEF Uplinked, UpData
<1>4. CASE Head(u).t # "data"
  <2>1. Whole(Tail(u), UpData, len, m)
        BY <1>1, <1>3, <1>4, Taken, Zenon
  <2>2. QED
        BY <1>1, <1>4, <2>1, Zenon DEF Brings
<1>5. CASE Head(u).t = "data"
  <2>0. len \in Int /\ m \in Int
        BY <1>1
  <2>1. Head(u).n = len + 1 /\ Whole(Tail(u), UpData, len + 1, m)
        BY <1>1, <1>3, <1>5, <2>0, NextTaken, Zenon
  <2>2. len + 1 <= m
    <3>1. Rising(u, UpData, len, m)
          BY <1>1, Zenon DEF Whole
    <3>2. Head(u).n <= m
          BY <1>3, <1>5, <2>0, <3>1, NextTaken, Zenon
    <3>3. QED
          BY <2>1, <3>2, Zenon
  <2>3. QED
        BY <1>1, <1>5, <2>1, <2>2, Zenon DEF Brings
<1>6. QED
      BY <1>4, <1>5, Zenon

\* The client is registered with the only target, which the server's steps serve in order.
LEMMA PromptMoves ==
    ASSUME BaseInv, Apart, Written, NEW ch \in Channels, Moves(ch),
           NEW o \in Channels, st.reg, Dialled = {o}, Prompt(o),
           UNCHANGED clientVars, UNCHANGED cliUp, conns' \in {conns, NoCh},
           srvUp' = srvUp \/ srvUp' = [srvUp EXCEPT ![ch] = FALSE],
           Confirmed' => Confirmed \/ obj[ch].stage = "opened"
    PROVE  Prompt(o)'
<1>1. /\ obj[o] \in Objects /\ up[o] \in Seq(Uplinked) /\ wrote \in Nat
      /\ tgt[o] \in Seq(Int) /\ Kept(obj[o]) \in Seq(Int)
      /\ obj[o].pending \in Seq(Int) /\ obj[o].flush \in Seq(Int)
      BY KeptTypes, Zenon
<1>2. Sound(obj[o], up[o], tgt[o], wrote) /\ wrote \in Int
      BY <1>1 DEF Apart
<1>3. /\ obj \in [Channels -> Objects] /\ up \in [Channels -> Seq(Uplinked)]
      /\ tgt \in [Channels -> Seq(1..MaxUp)] /\ srvUp \in [Channels -> BOOLEAN]
      BY BaseTypes, Zenon DEF ServerTypes
<1>4. Past(o)' = Past(o) /\ wrote' = wrote
      BY Zenon DEF Past, clientVars
<1> DEFINE live == srvUp[o] /\ conns = o
           ex == Past(o)
<1>5. /\ Kept(obj[o]) = <<>> /\ (Confirmed => obj[o].conn # "none")
      /\ \A i \in 1..Len(tgt[o]) : tgt[o][i] = i
      /\ live => Brings(up[o], Len(tgt[o]), wrote, ex)
      BY Zenon DEF Prompt, Prompted
<1>6. Confirmed' => obj[o].conn # "none"
  <2>1. ASSUME obj[ch].stage = "opened" PROVE ch = o
        BY <2>1, Zenon DEF Dialled
  <2>2. QED
        BY <1>2, <1>5, <2>1, Zenon DEF Sound
<1>7. (srvUp[o] /\ conns = o)' => live
      BY <1>3, WiresAssumption, Zenon
<1>8. conns = ch => ch = o
      BY WiresAssumption DEF BaseInv, Made, Dialled
<1> HIDE DEF Objects, ex, live
<1>9. SUFFICES /\ Kept(obj'[o]) = <<>> /\ (obj[o].conn # "none" => obj'[o].conn # "none")
               /\ \A i \in 1..Len(tgt'[o]) : tgt'[o][i] = i
               /\ (srvUp[o] /\ conns = o)' => Brings(up'[o], Len(tgt'[o]), wrote, ex)
      BY <1>4, <1>6, Zenon DEF Prompt, Prompted, ex
<1>10. CASE RestsAll(ch)
  <2>1. Rests(obj[o], obj'[o]) /\ tgt'[o] = tgt[o]
        BY <1>10, Zenon DEF RestsAll
  <2>2. Kept(obj'[o]) = <<>> /\ (obj[o].conn # "none" => obj'[o].conn # "none")
        BY <1>5, <2>1, Zenon DEF Rests, Kept
  <2>3. ASSUME (srvUp[o] /\ conns = o)' PROVE Brings(up'[o], Len(tgt[o]), wrote, ex)
    <3>1. Brings(up[o], Len(tgt[o]), wrote, ex) /\ Len(tgt[o]) \in Nat
          BY <1>1, <1>5, <1>7, <2>3, SMTT(30)
    <3>2. \/ up'[o] = up[o]
          \/ up[o] # <<>> /\ up'[o] = Tail(up[o]) /\ Head(up[o]).t # "data"
          BY <1>3, <1>10, <2>3, Zenon DEF RestsAll
    <3>3. QED
          BY <1>1, <3>1, <3>2, BringsTaken, Zenon
  <2>4. QED
        BY <1>5, <2>1, <2>2, <2>3, Zenon
<1>11. CASE Moves(ch) /\ ~RestsAll(ch) /\ o # ch
  <2>1. /\ up'[o] = up[o] /\ tgt'[o] = tgt[o]
        /\ obj'[o] = obj[o] \/ Rests(obj[o], obj'[o])
        BY <1>3, <1>11, Zenon DEF Moves, KeepsOne, WritesOne, Opens, FlushesOne, Drops
  <2>2. Kept(obj'[o]) = <<>> /\ (obj[o].conn # "none" => obj'[o].conn # "none")
        BY <1>5, <2>1, Zenon DEF Rests, Kept
  <2>3. QED
        BY <1>5, <1>7, <2>1, <2>2, Zenon
<1>12. CASE KeepsOne(ch) /\ o = ch
  <2>1. up[o] # <<>> /\ Head(up[o]).t = "data" /\ obj[o].conn = "none"
        BY <1>12, Zenon DEF KeepsOne
  <2>2. 0 < wrote
        BY <1>1, <1>2, <2>1, UplinkNext, Zenon DEF Sound
  <2>3. Confirmed
        BY <2>2, Zenon DEF Written, Confirmed
  <2>4. QED
        BY <1>5, <2>1, <2>3, Zenon
<1>13. CASE WritesOne(ch) /\ o = ch
  <2> DEFINE p == Append(tgt[o], Head(up[o]).n)
  <2>1. /\ up[o] # <<>> /\ Head(up[o]).t = "data" /\ up'[o] = Tail(up[o])
        /\ tgt'[o] = p /\ obj'[o] = obj[o] /\ live
        BY <1>3, <1>13, Zenon DEF WritesOne, live
  <2>2. Len(tgt[o]) \in Nat
        BY <1>1
  <2>3. /\ Head(up[o]).n = Len(tgt[o]) + 1
        /\ Brings(Tail(up[o]), Len(tgt[o]) + 1, wrote, ex)
        BY <1>1, <1>5, <2>1, <2>2, BringsTaken, Zenon
  <2>4. Len(p) = Len(tgt[o]) + 1 /\ \A i \in 1..Len(p) : p[i] = i
    <3>1. \A q \in Seq(Int), n \in Int :
              (\A i \in 1..Len(q) : q[i] = i) /\ n = Len(q) + 1 =>
                  /\ Len(Append(q, n)) = Len(q) + 1
                  /\ \A i \in 1..Len(Append(q, n)) : Append(q, n)[i] = i
          OBVIOUS
    <3>2. QED
          BY <1>1, <1>5, <2>2, <2>3, <3>1, SMTT(30)
  <2> HIDE DEF p
  <2>5. QED
        BY <1>5, <2>1, <2>3, <2>4, Zenon
<1>14. CASE Opens(ch) /\ o = ch
  <2>1. /\ up'[o] = up[o] /\ tgt'[o] = tgt[o]
        /\ obj'[o] = [obj[o] EXCEPT !.stage = "opened", !.conn = "open",
                                    !.flush = obj[o].pending, !.pending = <<>>]
        BY <1>3, <1>14, Zenon DEF Opens
  <2>2. obj'[o].conn = "open" /\ obj'[o].flush = obj[o].pending
        BY <1>1, <2>1, Zenon DEF Objects
  <2>3. obj[o].pending = <<>>
        BY <1>2, <1>5, Zenon DEF Sound, Kept
  <2>4. QED
        BY <1>5, <1>7, <2>1, <2>2, <2>3, Zenon DEF Kept
<1>15. CASE (FlushesOne(ch) \/ Drops(ch)) /\ o = ch
  <2>1. obj[o].flush # <<>>
        BY <1>15, Zenon DEF FlushesOne, Drops
  <2>2. QED
        BY <1>2, <1>5, <2>1, Zenon DEF Sound, Kept
<1>16. QED
      BY <1>10, <1>11, <1>12, <1>13, <1>14, <1>15, Zenon DEF Moves

\* Frames that do not say so confirm no connection.
LEMMA NotConfirmed ==
    ASSUME down \in [Channels -> Seq(Downlinked)], st'.connected = st.connected,
           \/ down' = down
           \/ \E t \in Seq(Downlinked) : /\ down' = Put(down, Reach, t)
                                         /\ \A i \in 1..Len(t) : t[i].t # "ok"
    PROVE  Confirmed' => Confirmed
<1>1. CASE down' = down
      BY <1>1, Zenon DEF Confirmed
<1>2. ASSUME NEW t \in Seq(Downlinked), down' = Put(down, Reach, t),
             \A i \in 1..Len(t) : t[i].t # "ok"
      PROVE  Confirmed' => Confirmed
  <2>1. ASSUME NEW c \in Channels, NEW i \in 1..Len(down'[c]), down'[c][i].t = "ok"
        PROVE  Confirmed
    <3>1. down'[c] = down[c] \/ down'[c] = down[c] \o t
          BY <1>2, Zenon DEF Put
    <3>2. CASE down'[c] = down[c]
          BY <2>1, <3>2, Zenon DEF Confirmed
    <3>3. CASE down'[c] = down[c] \o t
      <4>1. \/ i \in 1..Len(down[c]) /\ down'[c][i] = down[c][i]
            \/ i - Len(down[c]) \in 1..Len(t) /\ down'[c][i] = t[i - Len(down[c])]
            BY <1>2, <3>3, Joined
      <4>2. QED
            BY <1>2, <2>1, <4>1, Zenon DEF Confirmed
    <3>4. QED
          BY <3>1, <3>2, <3>3, Zenon
  <2>2. QED
        BY <2>1, Zenon DEF Confirmed
<1>3. QED
      BY <1>1, <1>2, Zenon

\* The server: a step that makes no state.
LEMMA UplinkServer ==
    ASSUME UplinkIInv, RouteIInv', NEW ch \in Channels,
           Works(ch) \/ Announce(ch) \/ HandleSelectDownlink(ch)
    PROVE  UplinkIInv'
<1>0. BaseInv /\ Apart /\ Written /\ down \in [Channels -> Seq(Downlinked)]
      BY BaseTypes, Zenon DEF UplinkIInv, RouteIInv
<1>1. /\ Moves(ch) /\ UNCHANGED clientVars /\ UNCHANGED cliUp /\ conns' \in {conns, NoCh}
      /\ srvUp' = srvUp \/ srvUp' = [srvUp EXCEPT ![ch] = FALSE]
      /\ Confirmed' => Confirmed \/ obj[ch].stage = "opened"
      /\ Dialled' = Dialled
  <2>1. CASE Works(ch)
    <3>1. /\ conns' \in {conns, NoCh} /\ UNCHANGED clientVars /\ UNCHANGED cliUp
          /\ srvUp' = srvUp \/ srvUp' = [srvUp EXCEPT ![ch] = FALSE]
          /\ \A x \in Channels : Kin(obj[x], obj'[x])
          BY <1>0, <2>1, Work, Zenon
    <3>2. /\ Moves(ch)
          /\ \/ down' = down
             \/ obj[ch].stage = "opened"
             \/ \E t \in Seq(Downlinked) : /\ down' = Put(down, Reach, t)
                                           /\ \A i \in 1..Len(t) : t[i].t # "ok"
          BY <1>0, <2>1, UpWork, Zenon DEF Moves
    <3>3. Dialled' = Dialled
          BY <3>1, Zenon DEF Dialled, Kin
    <3>4. st'.connected = st.connected
          BY <3>1, Zenon DEF clientVars
    <3>5. Confirmed' => Confirmed \/ obj[ch].stage = "opened"
          BY <1>0, <3>2, <3>4, NotConfirmed, Zenon
    <3>6. QED
          BY <3>1, <3>2, <3>3, <3>5, Zenon
  <2>2. CASE Announce(ch)
    <3> DEFINE t == <<[t |-> "selectUplink", ch |-> ch]>>
    <3>1. /\ UNCHANGED <<conns, read, tgt, clientVars, up, cliUp, srvUp>> /\ Dialled' = Dialled
          /\ obj'[ch].stage = "check" /\ (\A x \in Channels : x # ch => obj'[x] = obj[x])
          /\ obj'[ch].conn = obj[ch].conn /\ obj'[ch].pending = obj[ch].pending
          /\ obj'[ch].flush = obj[ch].flush
          /\ down' = down \/ down' = Put(down, Reach, t)
          BY <1>0, <2>2, BaseAnnounce, Zenon
    <3>2. \A x \in Channels : Rests(obj[x], obj'[x])
          BY <3>1, Zenon DEF Rests
    <3>3. RestsAll(ch)
          BY <3>1, <3>2, Zenon DEF RestsAll
    <3>4. t \in Seq(Downlinked) /\ \A i \in 1..Len(t) : t[i].t # "ok"
          BY DEF Downlinked
    <3> HIDE DEF t
    <3>5. st'.connected = st.connected
          BY <3>1, Zenon DEF clientVars
    <3>6. Confirmed' => Confirmed
          BY <1>0, <3>1, <3>4, <3>5, NotConfirmed, Zenon
    <3>7. QED
          BY <3>1, <3>3, <3>6, Zenon DEF Moves
  <2>3. CASE HandleSelectDownlink(ch)
    <3>1. /\ UNCHANGED <<conns, read, tgt, clientVars, down, cliUp, srvUp>>
          /\ Dialled' = Dialled /\ up[ch] # <<>> /\ up' = [up EXCEPT ![ch] = Tail(@)]
          /\ obj' = obj \/ \E d \in Channels : obj' = [obj EXCEPT ![ch].downlink = d]
          BY <1>0, <2>3, BaseReport, Zenon
    <3>2. Head(up[ch]).t # "data"
          BY <2>3, Zenon DEF HandleSelectDownlink, Arrived
    <3>3. obj \in [Channels -> Objects]
          BY <1>0, BaseTypes, Zenon DEF ServerTypes
    <3>4. \A r \in Objects, d \in Channels : Rests(r, r) /\ Rests(r, [r EXCEPT !.downlink = d])
          BY Zenon DEF Objects, Rests
    <3> HIDE DEF Objects
    <3>5. \A x \in Channels : obj'[x] = obj[x] \/ \E d \in Channels : obj'[x] = [obj[x] EXCEPT !.downlink = d]
          BY <3>1, <3>3, Zenon
    <3>6. ASSUME NEW x \in Channels PROVE Rests(obj[x], obj'[x])
      <4>1. obj[x] \in Objects
            BY <3>3, Zenon
      <4>2. QED
            BY <3>4, <3>5, <4>1, ZenonT(30)
    <3>7. RestsAll(ch)
          BY <3>1, <3>2, <3>6, Zenon DEF RestsAll
    <3>8. Confirmed' => Confirmed
          BY <1>0, <3>1, NotConfirmed, Zenon DEF clientVars
    <3>9. QED
          BY <3>1, <3>7, <3>8, Zenon DEF Moves
  <2>4. QED
        BY <2>1, <2>2, <2>3, Zenon
<1>2. wrote' = wrote /\ st' = st /\ dial' = dial
      BY <1>1, Zenon DEF clientVars
<1>3. Apart' /\ Written'
      BY <1>0, <1>1, <1>2, ApartMoves, Zenon DEF Written
<1>4. ASSUME NEW o \in Channels, st'.reg, Dialled' = {o} PROVE Prompt(o)'
  <2>1. st.reg /\ Dialled = {o}
        BY <1>1, <1>2, <1>4, Zenon
  <2>2. Prompt(o)
        BY <2>1, Zenon DEF UplinkIInv
  <2>3. QED
        BY <1>0, <1>1, <2>1, <2>2, PromptMoves, Zenon
<1>5. QED
      BY <1>3, <1>4, Zenon DEF UplinkIInv

\* The server makes a state: the client has written nothing yet, unless it has gone.
LEMMA UplinkConnect ==
    ASSUME UplinkIInv, RouteIInv', NEW ch \in Channels, HandleTCPConnect(ch)
    PROVE  UplinkIInv'
<1>0. BaseInv /\ Apart /\ Written /\ Routed
      BY Zenon DEF UplinkIInv, RouteIInv
<1>1. /\ UNCHANGED <<read, tgt, clientVars, down, cliUp, srvUp>>
      /\ up[ch] # <<>> /\ up' = [up EXCEPT ![ch] = Tail(@)] /\ obj[ch].stage = "none"
      /\ \/ conns # NoCh /\ UNCHANGED <<conns, obj>> /\ Dialled' = Dialled
         \/ /\ conns = NoCh /\ conns' = ch /\ obj' = [obj EXCEPT ![ch] = Fresh("announce")]
            /\ Dialled' = Dialled \cup {ch}
      BY <1>0, BaseConnect, Zenon
<1>2. wrote' = wrote /\ st' = st /\ dial' = dial
      BY <1>1, Zenon DEF clientVars
<1>3. /\ obj \in [Channels -> Objects] /\ up \in [Channels -> Seq(Uplinked)]
      /\ wrote \in Nat
      BY <1>0, BaseTypes, KeptTypes, Zenon DEF ServerTypes
<1>4. tgt[ch] = <<>>
      BY <1>0, <1>1, Zenon DEF BaseInv, Made
<1>5. Rising(Tail(up[ch]), UpData, 0, wrote)
  <2>1. Rising(up[ch], UpData, 0, wrote) /\ up[ch] \in Seq(Uplinked)
        BY <1>0, <1>3, Zenon DEF Apart, Sound, Uplinking
  <2>2. QED
        BY <1>1, <2>1, Taken, Zenon
<1>6. ASSUME NEW o \in Channels PROVE Sound(obj'[o], up'[o], tgt[o], wrote)
  <2>1. Sound(obj[o], up[o], tgt[o], wrote) /\ up[o] \in Seq(Uplinked) /\ wrote \in Int
        BY <1>0, <1>3 DEF Apart
  <2>2. up'[o] = up[o] \/ (up[o] # <<>> /\ up'[o] = Tail(up[o]))
        BY <1>1, <1>3, Zenon
  <2>3. Uplinking(up'[o], tgt[o], Kept(obj[o]), wrote) /\ Uplinking(up'[o], tgt[o], <<>>, wrote)
        BY <2>1, <2>2, UplinkTaken, Zenon DEF Sound
  <2>4. obj'[o] = obj[o] \/ obj'[o] = Fresh("announce")
        BY <1>1, <1>3, Zenon
  <2>5. Sound(Fresh("announce"), up'[o], tgt[o], wrote)
        BY <2>3, Zenon DEF Sound, Fresh, Kept
  <2>6. Sound(obj[o], up'[o], tgt[o], wrote)
        BY <2>1, <2>3, Zenon DEF Sound
  <2>7. QED
        BY <2>4, <2>5, <2>6, Zenon
<1>7. Apart' /\ Written'
      BY <1>0, <1>1, <1>2, <1>6, Zenon DEF Written, Apart
<1>8. ASSUME NEW o \in Channels, st'.reg, Dialled' = {o} PROVE Prompt(o)'
  <2>0. Past(o)' = Past(o) /\ Confirmed' = Confirmed
        BY <1>1, <1>2, Zenon DEF Past, Confirmed
  <2>1. CASE conns # NoCh /\ UNCHANGED <<conns, obj>> /\ Dialled' = Dialled
    <3>1. Prompt(o)
          BY <1>2, <1>8, <2>1, Zenon DEF UplinkIInv
    <3>2. o # ch
          BY <1>1, <1>8, <2>1, Zenon DEF Dialled
    <3>3. up'[o] = up[o]
          BY <1>1, <1>3, <3>2, Zenon
    <3>4. QED
          BY <1>1, <1>2, <2>0, <2>1, <3>1, <3>3, Zenon DEF Prompt
  <2>2. CASE conns' = ch /\ obj' = [obj EXCEPT ![ch] = Fresh("announce")]
             /\ Dialled' = Dialled \cup {ch}
    <3>1. ch = o /\ Dialled = {}
      <4>1. ch \notin Dialled
            BY <1>1, Zenon DEF Dialled
      <4>2. QED
            BY <1>8, <2>2, <4>1, Zenon
    <3>2. ~Confirmed /\ ~st.connected
          BY <1>0, <3>1 DEF Routed, Silent, Confirmed
    <3>3. wrote = 0
          BY <1>0, <1>2, <1>3, <1>8, <3>2, SMTT(30) DEF Written
    <3>4. obj'[o] = Fresh("announce") /\ tgt'[o] = <<>> /\ up'[o] = Tail(up[ch])
          BY <1>1, <1>3, <1>4, <2>2, <3>1, ZenonT(30)
    <3>5. Kept(Fresh("announce")) = <<>>
          BY Zenon DEF Fresh, Kept
    <3>6. Whole(up'[o], UpData, 0, 0)
          BY <1>5, <3>3, <3>4 DEF Whole
    <3>7. Len(<<>>) = 0 /\ Brings(up'[o], 0, 0, Past(o))
          BY <3>6 DEF Brings
    <3>8. QED
          BY <1>2, <2>0, <3>2, <3>3, <3>4, <3>5, <3>7, SMTT(30) DEF Prompt, Prompted
  <2>3. QED
        BY <1>1, <2>1, <2>2, Zenon
<1>9. QED
      BY <1>7, <1>8, Zenon DEF UplinkIInv

\* What the client sends: nothing, a frame that is no payload, or the next payload, on the
\* channels it has not left.
Sends ==
    \/ wrote' = wrote /\ up' = up
    \/ /\ wrote' = wrote
       /\ \E S \in SUBSET Channels, m \in Uplinked \ UpData : up' = Put(up, S, <<m>>)
    \/ /\ wrote' = wrote + 1 /\ wrote < MaxUp
       /\ \E S \in SUBSET Channels :
             /\ up' = Put(up, S, <<[t |-> "data", n |-> wrote + 1]>>)
             /\ st.reg => \A o \in Channels : o \in S <=> ~Past(o)

\* A state is sent frames.
LEMMA BringsSent ==
    ASSUME NEW u \in Seq(Uplinked), NEW len \in Nat, NEW all \in Nat, NEW ex,
           Brings(u, len, all, ex), NEW f \in Uplinked
    PROVE  /\ f \notin UpData => Brings(u \o <<f>>, len, all, ex)
           /\ f \in UpData /\ f.n = all + 1 /\ ~ex => Brings(u \o <<f>>, len, all + 1, ex)
           /\ ex => Brings(u, len, all + 1, ex)
<1>0. <<f>> \in Seq(Uplinked) /\ Len(<<f>>) = 1 /\ <<f>>[1] = f
      OBVIOUS
<1>1. PICK m \in Nat : /\ Whole(u, UpData, len, m) /\ m <= all /\ len <= m
                       /\ m = all \/ ex
      BY Zenon DEF Brings
<1>2. ASSUME f \notin UpData PROVE Brings(u \o <<f>>, len, all, ex)
  <2>1. \A i \in 1..Len(<<f>>) : <<f>>[i] \notin UpData
        BY <1>2
  <2>2. Whole(u \o <<f>>, UpData, len, m)
        BY <1>0, <1>1, <2>1, OthersPut, Zenon
  <2>3. QED
        BY <1>1, <2>2, Zenon DEF Brings
<1>3. ASSUME f \in UpData, f.n = all + 1, ~ex PROVE Brings(u \o <<f>>, len, all + 1, ex)
  <2>1. m = all
        BY <1>1, <1>3, Zenon
  <2>2. Whole(u \o <<f>>, UpData, len, m + 1)
        BY <1>1, <1>3, <2>1, NextPut, SMTT(30)
  <2>3. m + 1 \in Nat /\ m + 1 = all + 1 /\ len <= m + 1
        BY <1>1, <2>1
  <2>4. QED
        BY <2>2, <2>3 DEF Brings
<1>4. ASSUME ex PROVE Brings(u, len, all + 1, ex)
      BY <1>1, <1>4 DEF Brings
<1>5. QED
      BY <1>2, <1>3, <1>4, Zenon

\* The client: what it sends, and forgets, leaves the invariant as it is.
LEMMA UplinkClient ==
    ASSUME UplinkIInv, RouteIInv', Written', Sends, UNCHANGED serverVars, UNCHANGED srvUp,
           Confirmed' => Confirmed \/ Dialled = {}, st'.reg => st.reg \/ Dialled = {},
           Dialled # {} => \A o \in Channels : st'.reg /\ Past(o) => Past(o)'
    PROVE  UplinkIInv'
<1>0. /\ BaseInv /\ Apart /\ up \in [Channels -> Seq(Uplinked)]
      BY BaseTypes, Zenon DEF UplinkIInv, RouteIInv
<1>1. UNCHANGED <<conns, obj, tgt>> /\ Dialled' = Dialled
      BY Zenon DEF serverVars, Dialled
<1> DEFINE f == [t |-> "data", n |-> wrote + 1]
<1>2. wrote < MaxUp => f \in UpData /\ f \in Uplinked /\ f.n = wrote + 1
  <2>1. wrote \in 0..MaxUp
        BY <1>0, BaseTypes, Zenon
  <2>2. wrote < MaxUp => wrote + 1 \in 1..MaxUp
        BY <2>1, WiresAssumption
  <2>3. QED
        BY <2>2, Zenon DEF UpData, Uplinked
<1> HIDE DEF f
<1>3. ASSUME NEW o \in Channels
      PROVE  \/ wrote' = wrote /\ up'[o] = up[o]
             \/ wrote' = wrote /\ \E m \in Uplinked \ UpData : up'[o] = up[o] \o <<m>>
             \/ wrote' = wrote + 1 /\ wrote < MaxUp /\ up'[o] = up[o] /\ (st.reg => Past(o))
             \/ /\ wrote' = wrote + 1 /\ wrote < MaxUp
                /\ up'[o] = up[o] \o <<f>> /\ (st.reg => ~Past(o))
  <2>1. CASE wrote' = wrote /\ up' = up
        BY <2>1, Zenon
  <2>2. ASSUME wrote' = wrote, NEW S \in SUBSET Channels, NEW m \in Uplinked \ UpData,
               up' = Put(up, S, <<m>>)
        PROVE  wrote' = wrote /\ (up'[o] = up[o] \/ up'[o] = up[o] \o <<m>>)
        BY <2>2, Zenon DEF Put
  <2>3. ASSUME wrote' = wrote + 1, wrote < MaxUp, NEW S \in SUBSET Channels,
               up' = Put(up, S, <<f>>), st.reg => \A x \in Channels : x \in S <=> ~Past(x)
        PROVE  \/ wrote' = wrote + 1 /\ up'[o] = up[o] /\ (st.reg => Past(o))
               \/ wrote' = wrote + 1 /\ up'[o] = up[o] \o <<f>> /\ (st.reg => ~Past(o))
        BY <2>3, Zenon DEF Put
  <2>4. QED
        BY <2>1, <2>2, <2>3, Zenon DEF Sends, f
<1>4. ASSUME NEW o \in Channels PROVE Sound(obj[o], up'[o], tgt[o], wrote')
  <2>1. /\ up[o] \in Seq(Uplinked) /\ wrote \in Nat
        /\ tgt[o] \in Seq(Int) /\ Kept(obj[o]) \in Seq(Int)
        BY <1>0, KeptTypes, Zenon
  <2>2. Uplinking(up[o], tgt[o], Kept(obj[o]), wrote)
        BY <1>0, Zenon DEF Apart, Sound
  <2>3. Uplinking(up'[o], tgt[o], Kept(obj[o]), wrote')
    <3>1. ASSUME NEW m \in Uplinked \ UpData
          PROVE  Uplinking(up[o] \o <<m>>, tgt[o], Kept(obj[o]), wrote)
          BY <2>1, <2>2, UplinkSent, Zenon
    <3>2. wrote < MaxUp => /\ Uplinking(up[o], tgt[o], Kept(obj[o]), wrote + 1)
                           /\ Uplinking(up[o] \o <<f>>, tgt[o], Kept(obj[o]), wrote + 1)
          BY <1>2, <2>1, <2>2, UplinkSent, Zenon
    <3>3. QED
          BY <1>3, <2>2, <3>1, <3>2, Zenon
  <2>4. QED
        BY <1>0, <2>3, Zenon DEF Apart, Sound
<1>5. Apart'
      BY <1>1, <1>4, Zenon DEF Apart
<1>6. ASSUME NEW o \in Channels, st'.reg, Dialled' = {o} PROVE Prompt(o)'
  <2>1. st.reg /\ Dialled = {o} /\ (Confirmed' => Confirmed)
        BY <1>1, <1>6, Zenon
  <2>2. Prompt(o)
        BY <2>1, Zenon DEF UplinkIInv
  <2>3. /\ Kept(obj[o]) = <<>> /\ (Confirmed => obj[o].conn # "none")
        /\ \A i \in 1..Len(tgt[o]) : tgt[o][i] = i
        /\ srvUp[o] /\ conns = o => Brings(up[o], Len(tgt[o]), wrote, Past(o))
        BY <2>2, Zenon DEF Prompt, Prompted
  <2>4. /\ up[o] \in Seq(Uplinked) /\ wrote \in Nat /\ Len(tgt[o]) \in Nat
        BY <1>0, KeptTypes
  <2> DEFINE ex == Past(o)
             len == Len(tgt[o])
  <2>5. ASSUME srvUp[o], conns = o PROVE Brings(up'[o], len, wrote', Past(o)')
    <3>0. Brings(up[o], len, wrote, ex) /\ (ex => Past(o)')
          BY <1>6, <2>1, <2>3, <2>5, Zenon
    <3> HIDE DEF ex, len
    <3>1. Brings(up'[o], len, wrote', ex)
      <4>1. ASSUME NEW m \in Uplinked \ UpData PROVE Brings(up[o] \o <<m>>, len, wrote, ex)
            BY <2>4, <3>0, BringsSent, Zenon DEF len
      <4>2. wrote < MaxUp => /\ ex => Brings(up[o], len, wrote + 1, ex)
                             /\ ~ex => Brings(up[o] \o <<f>>, len, wrote + 1, ex)
            BY <1>2, <2>4, <3>0, BringsSent, Zenon DEF len
      <4>3. QED
            BY <1>3, <2>1, <3>0, <4>1, <4>2, ZenonT(30) DEF ex
    <3>2. QED
          BY <3>0, <3>1, Zenon DEF Brings
  <2>6. QED
        BY <1>1, <2>1, <2>3, <2>5, Zenon DEF Prompt, Prompted
<1>7. QED
      BY <1>5, <1>6, Zenon DEF UplinkIInv

\* Frames taken from the client's channels confirm nothing new.
LEMMA ConfirmedTaken ==
    ASSUME down \in [Channels -> Seq(Downlinked)], Lowered,
           st'.connected => Confirmed
    PROVE  Confirmed' => Confirmed
<1>1. \A c \in Channels : down'[c] = down[c] \/ down'[c] = <<>>
                          \/ (down[c] # <<>> /\ down'[c] = Tail(down[c]))
      BY LoweredAt, Zenon
<1>2. ASSUME NEW c \in Channels, NEW i \in 1..Len(down'[c]), down'[c][i].t = "ok"
      PROVE  Confirmed
  <2>1. CASE down'[c] = down[c]
        BY <1>2, <2>1, Zenon DEF Confirmed
  <2>2. CASE down'[c] = <<>>
        BY <1>2, <2>2
  <2>3. CASE down[c] # <<>> /\ down'[c] = Tail(down[c])
    <3>1. i + 1 \in 1..Len(down[c]) /\ down'[c][i] = down[c][i + 1]
          BY <1>2, <2>3, Rest
    <3>2. QED
          BY <1>2, <3>1, Zenon DEF Confirmed
  <2>4. QED
        BY <1>1, <2>1, <2>2, <2>3, Zenon
<1>3. QED
      BY <1>2, Zenon DEF Confirmed

\* What a step of the client does to the payloads for the target.
LEMMA UpSteps ==
    ASSUME BaseInv, Written, Steps
    PROVE  /\ Written' /\ Sends /\ UNCHANGED serverVars /\ UNCHANGED srvUp
           /\ Confirmed' => Confirmed
           /\ st'.reg => st.reg
           /\ \A o \in Channels : st'.reg /\ Past(o) => Past(o)'
<1>0. /\ st \in ConnStates /\ cliUp \in [Channels -> BOOLEAN]
      /\ down \in [Channels -> Seq(Downlinked)] /\ wrote \in Nat
      BY BaseTypes, WiresAssumption
<1>1. /\ UNCHANGED serverVars /\ UNCHANGED srvUp /\ Lowered /\ (st'.reg => st.reg)
      BY Step, Zenon
<1>2. /\ Gone(st) \in ConnStates /\ ~Gone(st).reg /\ Gone(st).connected = st.connected
      BY <1>0, StateTypes, Zenon
<1>3. [t |-> "close"] \in Uplinked \ UpData
      BY Zenon DEF Uplinked, UpData
<1>4. ASSUME NEW m PROVE SendUp(m) =>
          \E S \in SUBSET Channels :
             /\ up' = Put(up, S, <<m>>)
             /\ st.reg => \A o \in Channels : o \in S <=> ~Past(o)
  <2> DEFINE S == IF st.reg /\ st.uplink # NoCh
                  THEN {st.uplink} \cap OpenAt(cliUp) ELSE OpenAt(cliUp)
  <2>1. S \in SUBSET Channels
        BY Zenon DEF OpenAt
  <2>2. SendUp(m) => up' = Put(up, S, <<m>>)
        BY Zenon DEF SendUp
  <2>3. st.reg => \A o \in Channels : o \in S <=> ~Past(o)
        BY <1>0, WiresAssumption, Zenon DEF OpenAt, Past
  <2>4. QED
        BY <2>1, <2>2, <2>3, Zenon
<1>5. ASSUME st'.connected => Confirmed PROVE Confirmed' => Confirmed
      BY <1>0, <1>1, <1>5, ConfirmedTaken, Zenon
<1>6. ASSUME UNCHANGED <<st, cliUp>>
      PROVE  /\ Confirmed' => Confirmed
             /\ \A o \in Channels : st'.reg /\ Past(o) => Past(o)'
      BY <1>5, <1>6, Zenon DEF Confirmed, Past
<1>7. CASE DialLookup \/ DialConnected
      BY <1>1, <1>6, <1>7, Zenon DEF DialLookup, DialConnected, wires, Sends, Written
<1>8. CASE DialTimeout
  <2>1. st' = Gone(st) /\ wrote' = wrote /\ up' = up /\ dial = "wait" /\ dial' = "failed"
        BY <1>8, Zenon DEF DialTimeout, Unregister, wires
  <2>2. QED
        BY <1>1, <1>2, <1>5, <2>1, Zenon DEF Sends, Written, Confirmed
<1>9. CASE Write
  <2>1. /\ dial = "open" /\ wrote < MaxUp /\ wrote' = wrote + 1
        /\ SendUp([t |-> "data", n |-> wrote + 1]) /\ UNCHANGED <<dial, st, cliUp>>
        BY <1>9, Zenon DEF Write
  <2>2. Sends
        BY <1>4, <2>1, Zenon DEF Sends
  <2>3. QED
        BY <1>1, <1>6, <2>1, <2>2, Zenon DEF Written
<1>10. CASE CloseWrite
  <2>1. /\ SendUp([t |-> "close"]) /\ UNCHANGED <<dial, st, cliUp, wrote>>
        BY <1>10, Zenon DEF CloseWrite
  <2>2. Sends
        BY <1>3, <1>4, <2>1, Zenon DEF Sends
  <2>3. QED
        BY <1>1, <1>6, <2>1, <2>2, Zenon DEF Written
<1>11. CASE Close
  <2>1. /\ SendUp([t |-> "close"]) /\ UNCHANGED <<dial, cliUp, wrote>> /\ st' = Gone(st)
        BY <1>11, Zenon DEF Close, Unregister
  <2>2. Sends
        BY <1>3, <1>4, <2>1, Zenon DEF Sends
  <2>3. QED
        BY <1>1, <1>2, <1>5, <2>1, <2>2, ZenonT(30) DEF Written, Confirmed
<1>12. ASSUME NEW ch \in Channels, HandleConnStatus(ch)
       PROVE  /\ Written' /\ Sends /\ (Confirmed' => Confirmed)
              /\ \A o \in Channels : st'.reg /\ Past(o) => Past(o)'
  <2>1. UNCHANGED <<dial, wrote, up, cliUp>> /\ Sends
        BY <1>12, Zenon DEF HandleConnStatus, Sends
  <2>2. CASE Received(ch, "ok") /\ st' = [st EXCEPT !.connected = @ \/ st.reg]
    <3>1. down[ch] # <<>> /\ Head(down[ch]).t = "ok"
          BY <2>2, Zenon DEF Received
    <3>2. 1 \in 1..Len(down[ch]) /\ down[ch][1].t = "ok"
          BY <1>0, <3>1, Rest, Zenon
    <3>3. Confirmed
          BY <3>2, Zenon DEF Confirmed
    <3>4. /\ st'.reg = st.reg /\ st'.uplink = st.uplink
          /\ st'.connected = (st.connected \/ st.reg)
          BY <1>0, <2>2, Zenon DEF ConnStates
    <3>5. QED
          BY <2>1, <3>3, <3>4, Zenon DEF Written, Past
  <2>3. CASE st' = Gone(st)
        BY <1>2, <1>5, <2>1, <2>3, Zenon DEF Written, Confirmed
  <2>4. QED
        BY <1>12, <2>2, <2>3, Zenon DEF HandleConnStatus, Unregister
<1>13. ASSUME NEW ch \in Channels, HandleClose(ch)
       PROVE  /\ Written' /\ Sends /\ (Confirmed' => Confirmed)
              /\ \A o \in Channels : st'.reg /\ Past(o) => Past(o)'
  <2>1. UNCHANGED <<dial, wrote, up, cliUp>> /\ Sends /\ st' = Gone(NoteUplink(st, ch))
        BY <1>13, Zenon DEF HandleClose, Sends
  <2>2. ~st'.reg /\ st'.connected = st.connected
        BY <1>0, <2>1, StateTypes
  <2>3. QED
        BY <1>5, <2>1, <2>2, Zenon DEF Written, Confirmed
<1>14. ASSUME NEW ch \in Channels, CleanupClient(ch)
       PROVE  /\ Written' /\ Sends /\ (Confirmed' => Confirmed)
              /\ \A o \in Channels : st'.reg /\ Past(o) => Past(o)'
  <2>1. /\ UNCHANGED <<dial, wrote, up>> /\ Sends /\ (st' = Gone(st) \/ st' = st)
        /\ cliUp' = [cliUp EXCEPT ![ch] = FALSE]
        BY <1>14, Zenon DEF CleanupClient, Sends, Unregister
  <2>2. \A o \in Channels : cliUp'[o] => cliUp[o]
        BY <1>0, <2>1, Zenon
  <2>3. st'.connected = st.connected /\ (st'.reg => st' = st)
        BY <1>2, <2>1, Zenon
  <2>4. QED
        BY <1>5, <2>1, <2>2, <2>3, Zenon DEF Written, Confirmed, Past
<1>15. QED
      BY <1>1, <1>7, <1>8, <1>9, <1>10, <1>11, <1>12, <1>13, <1>14, ZenonT(30) DEF Steps

\* MsgSelectUplink and MsgTCPData, at the client: an uplink that is chosen stays.
LEMMA UpChoice ==
    ASSUME BaseInv, Written, NEW ch \in Channels, HandleSelectUplink(ch) \/ HandleData(ch)
    PROVE  /\ Written' /\ Sends /\ UNCHANGED serverVars /\ UNCHANGED srvUp
           /\ Confirmed' => Confirmed
           /\ st'.reg => st.reg
           /\ \A o \in Channels : st'.reg /\ Past(o) => Past(o)'
<1>0. /\ st \in ConnStates /\ down \in [Channels -> Seq(Downlinked)]
      BY BaseTypes, Zenon
<1>1. /\ UNCHANGED <<dial, wrote, serverVars, cliUp, srvUp>>
      /\ down[ch] # <<>> /\ down' = [down EXCEPT ![ch] = Tail(@)]
      /\ Head(down[ch]) \in Downlinked
      /\ st'.reg = st.reg /\ st'.connected = st.connected
      /\ HandleSelectUplink(ch) =>
            \/ up' = up
            \/ \E u \in Channels :
                  /\ st.reg
                  /\ up' = Put(up, {u}, <<[t |-> "selectDownlink", ch |-> Choose(st, ch)]>>)
      /\ HandleData(ch) => up' = up /\ st'.uplink = st.uplink
      BY BaseChoice, Zenon
<1>2. Lowered
      BY <1>1, Zenon DEF Lowered
<1>3. Confirmed' => Confirmed
      BY <1>0, <1>1, <1>2, ConfirmedTaken, Zenon DEF Confirmed
<1>4. Sends
  <2>1. CASE up' = up
        BY <1>1, <2>1, Zenon DEF Sends
  <2>2. ASSUME NEW u \in Channels, st.reg,
               up' = Put(up, {u}, <<[t |-> "selectDownlink", ch |-> Choose(st, ch)]>>)
        PROVE  Sends
    <3> DEFINE m == [t |-> "selectDownlink", ch |-> Choose(st, ch)]
    <3>1. Choose(st, ch) \in Channels
          BY <2>2, Choice, Zenon
    <3>2. m \in Uplinked \ UpData
          BY <3>1, Zenon DEF Uplinked, UpData
    <3> HIDE DEF m
    <3>3. {u} \in SUBSET Channels /\ up' = Put(up, {u}, <<m>>)
          BY <2>2, Zenon DEF m
    <3>4. QED
          BY <1>1, <3>2, <3>3, Zenon DEF Sends
  <2>3. QED
        BY <1>1, <2>1, <2>2, Zenon
<1>5. st.uplink # NoCh => st'.uplink = st.uplink
  <2>1. CASE HandleSelectUplink(ch)
    <3> DEFINE u == Head(down[ch]).ch
               n == NoteUplink(st, u)
    <3>1. u \in Channels
      <4>1. Head(down[ch]).t = "selectUplink"
            BY <2>1, Zenon DEF HandleSelectUplink, Received
      <4>2. QED
            BY <1>1, <4>1, Zenon DEF Downlinked
    <3> HIDE DEF u
    <3>2. n \in ConnStates /\ (st.uplink # NoCh => n.uplink = st.uplink)
          BY <1>0, <3>1, StateTypes, Zenon
    <3>3. \E d : st' = [n EXCEPT !.downlink = d]
          BY <2>1, Zenon DEF HandleSelectUplink, u
    <3> HIDE DEF n
    <3>4. QED
          BY <3>2, <3>3, Zenon DEF ConnStates
  <2>2. QED
        BY <1>1, <2>1, Zenon
<1>6. QED
      BY <1>1, <1>3, <1>4, <1>5, Zenon DEF Written, Past

\* The request is sent when nothing has been written.
LEMMA UpDial ==
    ASSUME BaseInv, Written, Dial
    PROVE  /\ Written' /\ Sends /\ UNCHANGED serverVars /\ UNCHANGED srvUp /\ Dialled = {}
<1>1. /\ ~st'.connected /\ dial = "idle" /\ dial' = "sent"
      /\ \E S \in SUBSET Channels : up' = Put(up, S, <<[t |-> "connect"]>>)
      /\ UNCHANGED <<app, wrote, got, serverVars, down, cliUp, srvUp>>
      BY BaseDial, Zenon DEF Dial
<1>2. [t |-> "connect"] \in Uplinked \ UpData
      BY Zenon DEF Uplinked, UpData
<1>3. Sends
      BY <1>1, <1>2, Zenon DEF Sends
<1>4. Written' /\ Dialled = {}
      BY <1>1, Zenon DEF Written, BaseInv, Made
<1>5. QED
      BY <1>1, <1>3, <1>4, Zenon

\* Nothing has been written before the request.
LEMMA UplinkInit == Init => UplinkIInv
<1> SUFFICES ASSUME Init PROVE UplinkIInv
    BY Zenon
<1>1. /\ \A o \in Channels : up[o] = <<>> /\ tgt[o] = <<>> /\ obj[o] = Fresh("none")
      /\ wrote = 0 /\ ~st.reg
      BY Zenon DEF Init, WiresInit
<1>2. Sound(Fresh("none"), <<>>, <<>>, 0)
  <2>1. Rising(<<>>, UpData, 0, 0) /\ Ahead(<<>>, UpData, <<>>)
        BY Empty
  <2>2. Uplinking(<<>>, <<>>, <<>>, 0)
        BY <2>1 DEF Uplinking, Distinct
  <2>3. QED
        BY <2>2, Zenon DEF Sound, Kept, Fresh
<1>3. Apart /\ Written
      BY <1>1, <1>2 DEF Apart, Written
<1>4. QED
      BY <1>1, <1>3, RouteInit, Zenon DEF UplinkIInv

\* Every step keeps the order of the payloads for the target.
LEMMA UplinkStep == UplinkIInv /\ [Next]_vars => UplinkIInv'
<1> SUFFICES ASSUME UplinkIInv, [Next]_vars PROVE UplinkIInv'
    BY Zenon
<1>0. RouteIInv /\ BaseInv /\ Written /\ RouteIInv'
      BY RouteStep, Zenon DEF UplinkIInv, RouteIInv
<1>1. CASE UNCHANGED vars
  <2>1. /\ UNCHANGED <<dial, st, wrote>> /\ UNCHANGED serverVars
        /\ UNCHANGED <<up, down, cliUp, srvUp>>
        BY <1>1, Zenon DEF vars, clientVars, wires
  <2>2. Sends /\ Written' /\ (Confirmed' => Confirmed)
        BY <1>0, <2>1, Zenon DEF Sends, Written, Confirmed
  <2>3. \A o \in Channels : Past(o) => Past(o)'
        BY <2>1, Zenon DEF Past
  <2>4. QED
        BY <1>0, <2>1, <2>2, <2>3, UplinkClient, Zenon
<1>2. CASE Dial
      BY <1>0, <1>2, UpDial, UplinkClient, Zenon
<1>3. CASE Steps
      BY <1>0, <1>3, UpSteps, UplinkClient, Zenon
<1>4. ASSUME NEW ch \in Channels, HandleSelectUplink(ch) \/ HandleData(ch) PROVE UplinkIInv'
      BY <1>0, <1>4, UpChoice, UplinkClient, Zenon
<1>5. ASSUME NEW ch \in Channels, HandleTCPConnect(ch) PROVE UplinkIInv'
      BY <1>0, <1>5, UplinkConnect, Zenon
<1>6. ASSUME NEW ch \in Channels, Announce(ch) \/ HandleSelectDownlink(ch) \/ Works(ch)
      PROVE  UplinkIInv'
      BY <1>0, <1>6, UplinkServer, Zenon
<1>7. QED
      BY <1>1, <1>2, <1>3, <1>4, <1>5, <1>6, NextCases, ZenonT(30)

\* No target is given a payload twice, and the only one, while the client has the
\* connection registered, has the first payloads in order, over any number of channels
\* and whatever fails (broadcastWrite and GetUplinkChannel to handleTCPData, and the
\* flush of pendingData in connectTarget).
THEOREM PayloadsOnce == Spec => []UplinkOnce
<1>1. UplinkIInv => UplinkOnce
  <2> SUFFICES ASSUME UplinkIInv, NEW o \in Channels,
                      NEW i \in 1..Len(tgt[o]), NEW j \in 1..Len(tgt[o])
               PROVE  /\ i # j => tgt[o][i] # tgt[o][j]
                      /\ st.reg /\ Dialled = {o} => tgt[o][i] = i
      BY Zenon DEF UplinkOnce
  <2>1. Distinct(tgt[o])
        BY Zenon DEF UplinkIInv, Apart, Sound, Uplinking
  <2>2. st.reg /\ Dialled = {o} => tgt[o][i] = i
        BY Zenon DEF UplinkIInv, Prompt, Prompted
  <2>3. QED
        BY <2>1, <2>2, Zenon DEF Distinct
<1>2. QED
      BY <1>1, UplinkInit, UplinkStep, PTL DEF Spec

=============================================================================
