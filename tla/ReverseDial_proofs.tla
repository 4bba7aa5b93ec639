------------------------- MODULE ReverseDial_proofs -------------------------
(***************************************************************************)
(* The routes of a connection of the reverse mode, for any channels, any   *)
(* Hot Pair, any number of payloads and any failures: the two ends agree   *)
(* on the channels of both directions.                                     *)
(***************************************************************************)
EXTENDS ReverseDial, TLAPS

-----------------------------------------------------------------------------
\* Channels

\* The payloads among the frames s are those of D; their numbers rise, and are above
\* lo and at most hi.
Rising(s, D, lo, hi) ==
    /\ \A i \in 1..Len(s) : s[i] \in D => s[i].n \in Int /\ lo < s[i].n /\ s[i].n <= hi
    /\ \A i, j \in 1..Len(s) : i < j /\ s[i] \in D /\ s[j] \in D => s[i].n < s[j].n

\* Moreover no number is missing.
Whole(s, D, lo, hi) ==
    /\ Rising(s, D, lo, hi)
    /\ \A n \in lo + 1 .. hi : \E i \in 1..Len(s) : s[i] \in D /\ s[i].n = n

\* Every payload among the frames is later than those of q.
Ahead(s, D, q) ==
    \A i \in 1..Len(s) : s[i] \in D => \A j \in 1..Len(q) : q[j] < s[i].n

\* A request can only be the first frame.
Requested(s) == \A i \in 1..Len(s) : s[i].t = "connect" => i = 1

\* Numbers in rising order.
Sorted(q) == \A i, j \in 1..Len(q) : i < j => q[i] < q[j]

\* What a channel holds after Put.
LEMMA PutAt ==
    ASSUME NEW w, NEW S, NEW t, NEW c \in Channels
    PROVE  Put(w, S, t)[c] = IF c \in S THEN w[c] \o t ELSE w[c]
BY Zenon DEF Put

\* Frames put on channels keep the channels sequences of frames.
LEMMA PutSeq ==
    ASSUME NEW F, NEW w \in [Channels -> Seq(F)], NEW S, NEW t \in Seq(F)
    PROVE  Put(w, S, t) \in [Channels -> Seq(F)]
<1>1. \A s \in Seq(F) : s \o t \in Seq(F)
      OBVIOUS
<1>2. QED
      BY <1>1, Zenon DEF Put

\* Frames of a kind are frames of a wider one.
LEMMA Wider ==
    ASSUME NEW F, NEW G, F \subseteq G, NEW s \in Seq(F)
    PROVE  s \in Seq(G)
OBVIOUS

\* Every frame of a sequence is of its kind.
LEMMA FrameAt ==
    ASSUME NEW F, NEW s \in Seq(F), NEW i \in 1..Len(s)
    PROVE  s[i] \in F
OBVIOUS

\* Where the frames of a sequence with one or more at its end are.
LEMMA Joined ==
    ASSUME NEW F, NEW s \in Seq(F), NEW t \in Seq(F)
    PROVE  /\ s \o t \in Seq(F) /\ Len(s \o t) = Len(s) + Len(t)
           /\ Len(s) \in Nat /\ Len(t) \in Nat
           /\ \A i \in 1..Len(s) : i \in 1..Len(s \o t) /\ (s \o t)[i] = s[i]
           /\ \A i \in 1..Len(s \o t) : ~(i \in 1..Len(s)) =>
                 i - Len(s) \in 1..Len(t) /\ (s \o t)[i] = t[i - Len(s)]
OBVIOUS

\* Where the frames of a tail were.
LEMMA Rest ==
    ASSUME NEW F, NEW s \in Seq(F), s # <<>>
    PROVE  /\ Tail(s) \in Seq(F) /\ Head(s) \in F /\ Head(s) = s[1] /\ 1 \in 1..Len(s)
           /\ \A i \in 1..Len(Tail(s)) : i + 1 \in 1..Len(s) /\ Tail(s)[i] = s[i + 1]
           /\ \A i \in 1..Len(s) : i # 1 => i - 1 \in 1..Len(Tail(s)) /\ Tail(s)[i - 1] = s[i]
OBVIOUS

\* Frames other than payloads are put on a channel.
LEMMA OthersPut ==
    ASSUME NEW F, NEW s \in Seq(F), NEW t \in Seq(F), NEW D,
           \A i \in 1..Len(t) : t[i] \notin D, NEW lo, NEW hi, NEW q
    PROVE  /\ Rising(s, D, lo, hi) => Rising(s \o t, D, lo, hi)
           /\ Whole(s, D, lo, hi) => Whole(s \o t, D, lo, hi)
           /\ Ahead(s, D, q) => Ahead(s \o t, D, q)
<1> DEFINE e == s \o t
<1>1. /\ \A i \in 1..Len(e) : e[i] \in D => i \in 1..Len(s) /\ e[i] = s[i]
      /\ \A i \in 1..Len(s) : i \in 1..Len(e) /\ e[i] = s[i]
      BY Joined
<1> HIDE DEF e
<1>2. Rising(s, D, lo, hi) => Rising(e, D, lo, hi)
      BY <1>1, Zenon DEF Rising
<1>3. Whole(s, D, lo, hi) => Whole(e, D, lo, hi)
      BY <1>1, <1>2, Zenon DEF Whole
<1>4. Ahead(s, D, q) => Ahead(e, D, q)
      BY <1>1, Zenon DEF Ahead
<1>5. QED
      BY <1>2, <1>3, <1>4, Zenon DEF e

\* The next payload is put on a channel.
LEMMA NextPut ==
    ASSUME NEW F, NEW s \in Seq(F), NEW D, NEW lo \in Int, NEW hi \in Int, lo <= hi,
           NEW f \in F, f \in D, f.n = hi + 1
    PROVE  /\ Rising(s, D, lo, hi) => Rising(s \o <<f>>, D, lo, hi + 1)
           /\ Whole(s, D, lo, hi) => Whole(s \o <<f>>, D, lo, hi + 1)
<1> DEFINE e == s \o <<f>>
           k == Len(s) + 1
<1>1. /\ Len(s) \in Nat /\ k \in 1..Len(e) /\ e[k] = f
      /\ \A i \in 1..Len(e) : i = k \/ (i \in 1..Len(s) /\ e[i] = s[i] /\ i < k)
      /\ \A i \in 1..Len(s) : i \in 1..Len(e) /\ e[i] = s[i]
      OBVIOUS
<1> HIDE DEF e, k
<1>2. ASSUME Rising(s, D, lo, hi) PROVE Rising(e, D, lo, hi + 1)
  <2>1. \A i \in 1..Len(e) : e[i] \in D =>
            e[i].n \in Int /\ lo < e[i].n /\ e[i].n <= hi + 1
        BY <1>1, <1>2 DEF Rising
  <2>2. \A i, j \in 1..Len(e) : i < j /\ e[i] \in D /\ e[j] \in D => e[i].n < e[j].n
    <3> SUFFICES ASSUME NEW i \in 1..Len(e), NEW j \in 1..Len(e), i < j, e[i] \in D, e[j] \in D
                 PROVE  e[i].n < e[j].n
        BY Zenon
    <3>1. i # k
          BY <1>1
    <3>2. i \in 1..Len(s) /\ e[i] = s[i] /\ s[i].n \in Int /\ s[i].n <= hi
          BY <1>1, <1>2, <3>1, Zenon DEF Rising
    <3>3. CASE j = k
          BY <1>1, <3>2, <3>3
    <3>4. CASE j # k
          BY <1>1, <1>2, <3>2, <3>4, Zenon DEF Rising
    <3>5. QED
          BY <3>3, <3>4, Zenon
  <2>3. QED
        BY <2>1, <2>2, Zenon DEF Rising
<1>3. ASSUME Whole(s, D, lo, hi) PROVE Whole(e, D, lo, hi + 1)
  <2>1. ASSUME NEW n \in lo + 1 .. hi + 1
        PROVE  \E i \in 1..Len(e) : e[i] \in D /\ e[i].n = n
    <3>1. CASE n = hi + 1
          BY <1>1, <3>1, Zenon
    <3>2. CASE n # hi + 1
      <4>1. n \in lo + 1 .. hi
            BY <3>2
      <4>2. QED
            BY <1>1, <1>3, <4>1, Zenon DEF Whole
    <3>3. QED
          BY <3>1, <3>2, Zenon
  <2>2. QED
        BY <1>2, <1>3, <2>1, Zenon DEF Whole
<1>4. QED
      BY <1>2, <1>3, Zenon DEF e

\* A frame that is no payload, or one that is not looked at any more, is taken.
LEMMA Taken ==
    ASSUME NEW F, NEW s \in Seq(F), s # <<>>, NEW D, NEW lo, NEW hi, NEW q
    PROVE  /\ Rising(s, D, lo, hi) => Rising(Tail(s), D, lo, hi)
           /\ Head(s) \notin D /\ Whole(s, D, lo, hi) => Whole(Tail(s), D, lo, hi)
           /\ Ahead(s, D, q) => Ahead(Tail(s), D, q)
<1> DEFINE t == Tail(s)
<1>1. /\ \A i \in 1..Len(t) : i + 1 \in 1..Len(s) /\ t[i] = s[i + 1]
      /\ \A i, j \in 1..Len(t) : i < j => i + 1 < j + 1
      /\ \A i \in 1..Len(s) : i # 1 => i - 1 \in 1..Len(t) /\ t[i - 1] = s[i]
      /\ Head(s) = s[1]
      BY Rest
<1> HIDE DEF t
<1>2. Rising(s, D, lo, hi) => Rising(t, D, lo, hi)
      BY <1>1, Zenon DEF Rising
<1>3. Head(s) \notin D /\ Whole(s, D, lo, hi) => Whole(t, D, lo, hi)
      BY <1>1, <1>2, SMTT(30) DEF Whole
<1>4. Ahead(s, D, q) => Ahead(t, D, q)
      BY <1>1, Zenon DEF Ahead
<1>5. QED
      BY <1>2, <1>3, <1>4, Zenon DEF t

\* A payload is taken: it is the next one, and the others come after it.
LEMMA NextTaken ==
    ASSUME NEW F, NEW s \in Seq(F), s # <<>>, NEW D, NEW lo \in Int, NEW hi \in Int,
           Head(s) \in D
    PROVE  /\ Rising(s, D, lo, hi) =>
                 /\ Head(s).n \in Int /\ lo < Head(s).n /\ Head(s).n <= hi
                 /\ \A i \in 1..Len(Tail(s)) : Tail(s)[i] \in D => Head(s).n < Tail(s)[i].n
           /\ Whole(s, D, lo, hi) => Head(s).n = lo + 1 /\ Whole(Tail(s), D, lo + 1, hi)
<1> DEFINE t == Tail(s)
           h == Head(s)
<1>1. /\ \A i \in 1..Len(t) : i + 1 \in 1..Len(s) /\ t[i] = s[i + 1] /\ 1 < i + 1
      /\ \A i, j \in 1..Len(t) : i < j => i + 1 < j + 1
      /\ \A i \in 1..Len(s) : i # 1 => i - 1 \in 1..Len(t) /\ t[i - 1] = s[i] /\ 1 < i
      /\ h = s[1] /\ 1 \in 1..Len(s)
      BY Rest
<1> HIDE DEF t, h
<1>2. ASSUME Rising(s, D, lo, hi)
      PROVE  /\ h.n \in Int /\ lo < h.n /\ h.n <= hi
             /\ \A i \in 1..Len(t) : t[i] \in D => h.n < t[i].n
  <2>1. s[1] \in D
        BY <1>1, Zenon DEF h
  <2>2. QED
        BY <1>1, <1>2, <2>1, Zenon DEF Rising
<1>3. ASSUME Whole(s, D, lo, hi)
      PROVE  h.n = lo + 1 /\ Whole(t, D, lo + 1, hi)
  <2>1. Rising(s, D, lo, hi) /\ Rising(t, D, lo, hi)
        BY <1>3, Taken, Zenon DEF Whole, t
  <2>2. /\ h.n \in Int /\ lo < h.n /\ h.n <= hi
        /\ \A i \in 1..Len(t) : t[i] \in D => h.n < t[i].n
        BY <1>2, <2>1, Zenon
  <2>3. h.n = lo + 1
    <3>1. lo + 1 \in lo + 1 .. hi
          BY <2>2
    <3>2. PICK i \in 1..Len(s) : s[i] \in D /\ s[i].n = lo + 1
          BY <1>3, <3>1, Zenon DEF Whole
    <3>3. CASE i = 1
          BY <1>1, <3>2, <3>3, Zenon
    <3>4. CASE i # 1
          BY <1>1, <2>2, <3>2, <3>4, SMTT(30)
    <3>5. QED
          BY <3>3, <3>4, Zenon
  <2>4. Rising(t, D, lo + 1, hi)
        BY <2>1, <2>2, <2>3, Zenon DEF Rising
  <2>5. ASSUME NEW n \in lo + 2 .. hi
        PROVE  \E i \in 1..Len(t) : t[i] \in D /\ t[i].n = n
    <3>1. n \in lo + 1 .. hi /\ n # lo + 1
          OBVIOUS
    <3>2. PICK i \in 1..Len(s) : s[i] \in D /\ s[i].n = n
          BY <1>3, <3>1, Zenon DEF Whole
    <3>3. i # 1
          BY <1>1, <2>3, <3>1, <3>2, Zenon
    <3>4. QED
          BY <1>1, <3>2, <3>3, Zenon
  <2>6. \A n \in (lo + 1) + 1 .. hi : \E i \in 1..Len(t) : t[i] \in D /\ t[i].n = n
        BY <2>5
  <2>7. QED
        BY <2>3, <2>4, <2>6, Zenon DEF Whole
<1>4. QED
      BY <1>2, <1>3, Zenon DEF t, h

\* A channel without payloads.
LEMMA Empty ==
    ASSUME NEW D, NEW lo \in Int, NEW hi \in Int, NEW q
    PROVE  Rising(<<>>, D, lo, hi) /\ Ahead(<<>>, D, q) /\ Whole(<<>>, D, lo, lo)
BY DEF Rising, Ahead, Whole

\* A request stays the first frame when others follow it, and is gone when it is taken.
LEMMA RequestMoves ==
    ASSUME NEW F, NEW s \in Seq(F), NEW t \in Seq(F), Requested(s)
    PROVE  /\ (\A i \in 1..Len(t) : t[i].t # "connect") => Requested(s \o t)
           /\ s # <<>> => \A i \in 1..Len(Tail(s)) : Tail(s)[i].t # "connect"
<1>1. ASSUME \A i \in 1..Len(t) : t[i].t # "connect" PROVE Requested(s \o t)
      BY <1>1, Joined DEF Requested
<1>2. ASSUME s # <<>> PROVE \A i \in 1..Len(Tail(s)) : Tail(s)[i].t # "connect"
  <2>1. \A i \in 1..Len(Tail(s)) : i + 1 \in 1..Len(s) /\ Tail(s)[i] = s[i + 1] /\ i + 1 # 1
        BY <1>2, Rest
  <2>2. QED
        BY <2>1, Zenon DEF Requested
<1>3. QED
      BY <1>1, <1>2, Zenon

\* A number is added to numbers in order.
LEMMA SortedAppend ==
    ASSUME NEW q \in Seq(Int), Sorted(q), NEW n \in Int, \A j \in 1..Len(q) : q[j] < n
    PROVE  Sorted(Append(q, n))
<1> DEFINE e == Append(q, n)
           k == Len(q) + 1
<1>1. /\ e[k] = n /\ \A i \in 1..Len(e) : i = k \/ (i \in 1..Len(q) /\ e[i] = q[i] /\ i < k)
      OBVIOUS
<1> HIDE DEF e, k
<1>2. \A i, j \in 1..Len(e) : i < j => i # k
      BY <1>1
<1>3. QED
      BY <1>1, <1>2, Zenon DEF Sorted, e

-----------------------------------------------------------------------------
\* Frames

\* The frames of a queue,
Frames(s) == {s[i] : i \in 1..Len(s)}

\* and a queue without those of a kind.
Without(s, type) == \A f \in Frames(s) : f.t # type

\* A frame is put on a queue.
LEMMA FramesPut ==
    ASSUME NEW F, NEW s \in Seq(F), NEW f \in F
    PROVE  /\ s \o <<f>> \in Seq(F) /\ Frames(s) \subseteq Frames(s \o <<f>>)
           /\ Frames(s \o <<f>>) \subseteq Frames(s) \cup {f} /\ f \in Frames(s \o <<f>>)
<1> DEFINE e == s \o <<f>>
           k == Len(s) + 1
<1>1. /\ e \in Seq(F) /\ k \in 1..Len(e) /\ e[k] = f
      /\ \A i \in 1..Len(e) : i = k \/ (i \in 1..Len(s) /\ e[i] = s[i])
      /\ \A i \in 1..Len(s) : i \in 1..Len(e) /\ e[i] = s[i]
      OBVIOUS
<1> HIDE DEF e, k
<1>2. /\ e \in Seq(F) /\ Frames(s) \subseteq Frames(e) /\ f \in Frames(e)
      /\ Frames(e) \subseteq Frames(s) \cup {f}
      BY <1>1, Zenon DEF Frames
<1>3. QED
      BY <1>2, Zenon DEF e

\* The first frame of a queue is taken.
LEMMA FramesTail ==
    ASSUME NEW F, NEW s \in Seq(F), s # <<>>
    PROVE  /\ Head(s) \in F /\ Head(s) \in Frames(s)
           /\ Frames(Tail(s)) \subseteq Frames(s)
           /\ Frames(s) \subseteq Frames(Tail(s)) \cup {Head(s)}
<1> DEFINE t == Tail(s)
           h == Head(s)
<1>1. /\ h \in F /\ h = s[1] /\ 1 \in 1..Len(s)
      /\ \A i \in 1..Len(t) : i + 1 \in 1..Len(s) /\ t[i] = s[i + 1]
      /\ \A i \in 1..Len(s) : i # 1 => i - 1 \in 1..Len(t) /\ t[i - 1] = s[i]
      BY Rest, Zenon
<1> HIDE DEF t, h
<1>2. h \in Frames(s) /\ Frames(t) \subseteq Frames(s)
  <2>1. h \in Frames(s)
        BY <1>1, Zenon DEF Frames
  <2>2. ASSUME NEW i \in 1..Len(t) PROVE t[i] \in Frames(s)
    <3>1. i + 1 \in 1..Len(s) /\ t[i] = s[i + 1]
          BY <1>1, Zenon
    <3>2. QED
          BY <3>1, Zenon DEF Frames
  <2>3. QED
        BY <2>1, <2>2, Zenon DEF Frames
<1>3. ASSUME NEW i \in 1..Len(s) PROVE s[i] \in Frames(t) \cup {h}
  <2>1. CASE i = 1
        BY <1>1, <2>1, Zenon
  <2>2. CASE i # 1
    <3>1. i - 1 \in 1..Len(t) /\ t[i - 1] = s[i]
          BY <1>1, <2>2, Zenon
    <3>2. QED
          BY <3>1, Zenon DEF Frames
  <2>3. QED
        BY <2>1, <2>2, Zenon
<1>4. Frames(s) \subseteq Frames(t) \cup {h}
      BY <1>3, Zenon DEF Frames
<1>5. QED
      BY <1>1, <1>2, <1>4, Zenon DEF t, h

\* A queue that lost its first frame, or all of them, holds no other frames than before.
LEMMA FramesLost ==
    ASSUME NEW F, NEW s \in Seq(F), NEW e, e = s \/ e = <<>> \/ (s # <<>> /\ e = Tail(s))
    PROVE  /\ e \in Seq(F) /\ Frames(e) \subseteq Frames(s)
           /\ Requested(s) => Requested(e)
           /\ s = <<>> => e = <<>>
<1>1. CASE e = s
      BY <1>1, Zenon
<1>2. CASE e = <<>>
      BY <1>2 DEF Frames, Requested
<1>3. CASE s # <<>> /\ e = Tail(s)
  <2>1. Tail(s) \in Seq(F)
        BY <1>3
  <2>2. Frames(Tail(s)) \subseteq Frames(s)
        BY <1>3, FramesTail, Zenon
  <2>3. Requested(s) => Requested(Tail(s))
        BY <1>3, RequestMoves, Zenon DEF Requested
  <2>4. QED
        BY <1>3, <2>1, <2>2, <2>3, Zenon
<1>4. QED
      BY <1>1, <1>2, <1>3, Zenon

\* The queues w of which ch lost its first frame, or all of them.
Shorter(w, v, ch) ==
    \/ v = [w EXCEPT ![ch] = <<>>]
    \/ w[ch] # <<>> /\ v = [w EXCEPT ![ch] = Tail(w[ch])]

\* A frame is put on some channels, towards the server.
LEMMA UpPut ==
    ASSUME up \in [Channels -> Seq(Uplinked)], NEW S, NEW f \in Uplinked, up' = Put(up, S, <<f>>)
    PROVE  /\ up' \in [Channels -> Seq(Uplinked)]
           /\ \A c \in Channels :
                 /\ up'[c] = IF c \in S THEN up[c] \o <<f>> ELSE up[c]
                 /\ Frames(up[c]) \subseteq Frames(up'[c])
                 /\ Frames(up'[c]) \subseteq Frames(up[c]) \cup {f}
                 /\ c \in S => f \in Frames(up'[c])
<1>1. \A c \in Channels : up[c] \in Seq(Uplinked)
      BY Zenon
<1>2. \A c \in Channels : up'[c] = IF c \in S THEN up[c] \o <<f>> ELSE up[c]
      BY PutAt
<1>3. ASSUME NEW c \in Channels
      PROVE  /\ up'[c] \in Seq(Uplinked) /\ Frames(up[c]) \subseteq Frames(up'[c])
             /\ Frames(up'[c]) \subseteq Frames(up[c]) \cup {f}
             /\ c \in S => f \in Frames(up'[c])
  <2> DEFINE e == up[c] \o <<f>>
  <2>1. /\ e \in Seq(Uplinked) /\ Frames(up[c]) \subseteq Frames(e)
        /\ Frames(e) \subseteq Frames(up[c]) \cup {f} /\ f \in Frames(e)
        BY <1>1, FramesPut, Zenon
  <2>2. up'[c] = IF c \in S THEN e ELSE up[c]
        BY <1>2, Zenon
  <2> HIDE DEF e
  <2>3. QED
        BY <1>1, <2>1, <2>2, Zenon
<1>4. up' \in [Channels -> Seq(Uplinked)]
      BY <1>3, Zenon DEF Put
<1>5. QED
      BY <1>2, <1>3, <1>4, Zenon

\* The same, towards the client.
LEMMA DownPut ==
    ASSUME down \in [Channels -> Seq(Downlinked)], NEW S, NEW f \in Downlinked, down' = Put(down, S, <<f>>)
    PROVE  /\ down' \in [Channels -> Seq(Downlinked)]
           /\ \A c \in Channels :
                 /\ down'[c] = IF c \in S THEN down[c] \o <<f>> ELSE down[c]
                 /\ Frames(down[c]) \subseteq Frames(down'[c])
                 /\ Frames(down'[c]) \subseteq Frames(down[c]) \cup {f}
                 /\ c \in S => f \in Frames(down'[c])
<1>1. \A c \in Channels : down[c] \in Seq(Downlinked)
      BY Zenon
<1>2. \A c \in Channels : down'[c] = IF c \in S THEN down[c] \o <<f>> ELSE down[c]
      BY PutAt
<1>3. ASSUME NEW c \in Channels
      PROVE  /\ down'[c] \in Seq(Downlinked) /\ Frames(down[c]) \subseteq Frames(down'[c])
             /\ Frames(down'[c]) \subseteq Frames(down[c]) \cup {f}
             /\ c \in S => f \in Frames(down'[c])
  <2> DEFINE e == down[c] \o <<f>>
  <2>1. /\ e \in Seq(Downlinked) /\ Frames(down[c]) \subseteq Frames(e)
        /\ Frames(e) \subseteq Frames(down[c]) \cup {f} /\ f \in Frames(e)
        BY <1>1, FramesPut, Zenon
  <2>2. down'[c] = IF c \in S THEN e ELSE down[c]
        BY <1>2, Zenon
  <2> HIDE DEF e
  <2>3. QED
        BY <1>1, <2>1, <2>2, Zenon
<1>4. down' \in [Channels -> Seq(Downlinked)]
      BY <1>3, Zenon DEF Put
<1>5. QED
      BY <1>2, <1>3, <1>4, Zenon

\* A channel towards the server lost frames.
LEMMA UpLost ==
    ASSUME up \in [Channels -> Seq(Uplinked)], NEW ch \in Channels, up' = up \/ Shorter(up, up', ch)
    PROVE  /\ up' \in [Channels -> Seq(Uplinked)]
           /\ \A c \in Channels : /\ Frames(up'[c]) \subseteq Frames(up[c])
                                  /\ c # ch => up'[c] = up[c]
                                  /\ Requested(up[c]) => Requested(up'[c])
                                  /\ up[c] = <<>> => up'[c] = <<>>
<1>1. \A c \in Channels : up[c] \in Seq(Uplinked)
      BY Zenon
<1>2. \A c \in Channels : \/ up'[c] = up[c]
                          \/ c = ch /\ up'[c] = <<>>
                          \/ c = ch /\ up[c] # <<>> /\ up'[c] = Tail(up[c])
      BY Zenon DEF Shorter
<1>3. \A c \in Channels : up'[c] \in Seq(Uplinked) /\ Frames(up'[c]) \subseteq Frames(up[c])
                          /\ (Requested(up[c]) => Requested(up'[c]))
                          /\ (up[c] = <<>> => up'[c] = <<>>)
      BY <1>1, <1>2, FramesLost, Zenon
<1>4. up' \in [Channels -> Seq(Uplinked)]
      BY <1>3, Zenon DEF Shorter
<1>5. QED
      BY <1>2, <1>3, <1>4, Zenon

\* A channel towards the client lost frames.
LEMMA DownLost ==
    ASSUME down \in [Channels -> Seq(Downlinked)], NEW ch \in Channels, down' = down \/ Shorter(down, down', ch)
    PROVE  /\ down' \in [Channels -> Seq(Downlinked)]
           /\ \A c \in Channels : /\ Frames(down'[c]) \subseteq Frames(down[c])
                                  /\ c # ch => down'[c] = down[c]
                                  /\ Requested(down[c]) => Requested(down'[c])
                                  /\ down[c] = <<>> => down'[c] = <<>>
<1>1. \A c \in Channels : down[c] \in Seq(Downlinked)
      BY Zenon
<1>2. \A c \in Channels : \/ down'[c] = down[c]
                          \/ c = ch /\ down'[c] = <<>>
                          \/ c = ch /\ down[c] # <<>> /\ down'[c] = Tail(down[c])
      BY Zenon DEF Shorter
<1>3. \A c \in Channels : down'[c] \in Seq(Downlinked) /\ Frames(down'[c]) \subseteq Frames(down[c])
                          /\ (Requested(down[c]) => Requested(down'[c]))
                          /\ (down[c] = <<>> => down'[c] = <<>>)
      BY <1>1, <1>2, FramesLost, Zenon
<1>4. down' \in [Channels -> Seq(Downlinked)]
      BY <1>3, Zenon DEF Shorter
<1>5. QED
      BY <1>2, <1>3, <1>4, Zenon

-----------------------------------------------------------------------------
\* Types

Conns == [reg : BOOLEAN, sendCh : Channels \cup {NoCh}, recvCh : Channels \cup {NoCh},
          result : {"none", "ok", "err"}, repaired : BOOLEAN]
Revs == [stage : {"none", "dial", "pump", "done"}, conn : {"none", "open", "closed"},
         once : BOOLEAN, sendCh : Channels \cup {NoCh}]

ServerTypes ==
    /\ dial \in {"idle", "found", "wait", "open", "failed"}
    /\ app \in BOOLEAN /\ entry \in BOOLEAN /\ rv \in Conns
    /\ pump \in {"idle", "run", "done"} /\ wrote \in 0..MaxDown
    /\ got \in [Channels -> Seq(1..MaxUp)]

ClientTypes ==
    /\ rev \in Channels \cup {NoCh} /\ rc \in [Channels -> Revs]
    /\ read \in [Channels -> 0..MaxUp] /\ tgt \in [Channels -> Seq(1..MaxDown)]

WireTypes ==
    /\ up \in [Channels -> Seq(Uplinked)] /\ down \in [Channels -> Seq(Downlinked)]
    /\ cliUp \in [Channels -> BOOLEAN] /\ srvUp \in [Channels -> BOOLEAN]

\* TypeOK, by the end that a variable belongs to.
LEMMA Typed ==
    /\ TypeOK <=> ServerTypes /\ ClientTypes /\ WireTypes
    /\ TypeOK' <=> ServerTypes' /\ ClientTypes' /\ WireTypes'
BY Zenon DEF TypeOK, ServerTypes, ClientTypes, WireTypes, Conns, Revs

\* The server's state keeps its channels and is not registered again.
Keeps(r, q) ==
    /\ q \in Conns /\ q.sendCh = r.sendCh /\ q.recvCh = r.recvCh
    /\ q.repaired = r.repaired /\ (q.reg => r.reg)

\* A result is kept, and the state is dropped.
LEMMA ConnKept ==
    ASSUME NEW r \in Conns
    PROVE  /\ Keeps(r, r) /\ Keeps(r, Removed(r)) /\ Keeps(r, Removed(Settled(r, "err")))
           /\ \A result \in {"ok", "err"} : Keeps(r, Settled(r, result))
           /\ Removed(r).result = "ok" => r.result = "ok"
           /\ Removed(Settled(r, "err")).result = "ok" => r.result = "ok"
           /\ Settled(r, "err").result = "ok" => r.result = "ok"
           /\ ~Removed(r).reg
BY Zenon DEF Conns, Keeps, Removed, Settled

\* What a step that makes no state and learns no channel does to a state of the client.
Kin(r, q) ==
    /\ q \in Revs /\ q.sendCh = r.sendCh
    /\ q.stage = "none" <=> r.stage = "none"
    /\ r.stage = "none" => q = r
    /\ q.conn = "none" => r.conn = "none"

\* The dial ends, the connection is shut, or both.
LEMMA RevKept ==
    ASSUME NEW r \in Revs
    PROVE  /\ Kin(r, r)
           /\ r.stage # "none" =>
                 /\ Kin(r, Shut(r)) /\ Kin(r, [r EXCEPT !.stage = "done"])
                 /\ Kin(r, Shut([r EXCEPT !.stage = "done"]))
                 /\ Kin(r, [r EXCEPT !.stage = "pump", !.conn = "open"])
BY Zenon DEF Revs, Kin, Shut

-----------------------------------------------------------------------------
\* Requests and states

\* Nothing has been sent for the connection.
Idle == dial \in {"idle", "found"}

\* A channel carries the request at most once, before anything else, and its copy of
\* the request makes a state at most once.
Requests ==
    /\ Idle => /\ ~rv.reg /\ pump = "idle" /\ Dialled = {}
               /\ \A c \in Channels : up[c] = <<>> /\ down[c] = <<>>
    /\ \A c \in Channels :
          Requested(down[c]) /\ (rc[c].stage # "none" => Without(down[c], "connect"))

\* Nothing comes from a state that was not made, and the registered one was; a preset
\* pair is the only choice that may be repaired.
Made ==
    /\ entry => Pair # NoPair
    /\ rv.reg /\ rv.sendCh = NoCh => rv.repaired
    /\ rev # NoCh => rc[rev].stage # "none"
    /\ \A o \in Channels : rc[o].stage = "none" =>
          rc[o].conn = "none" /\ rc[o].sendCh = NoCh /\ read[o] = 0 /\ tgt[o] = <<>>
    /\ \A c \in Channels : \A f \in Frames(up[c]) :
          f.t = "selectUplink" => rc[f.ch].stage # "none"

BaseInv == TypeOK /\ Requests /\ Made

\* The first MsgSelectUplink, or the one that repaired a preset pair, was taken.
Decided == rv.sendCh # NoCh /\ rv.repaired

-----------------------------------------------------------------------------
\* What the steps do

\* The steps of the server other than DialSend and the choice of the channels.
Serves(ch) ==
    \/ DialLookup \/ DialResult \/ DialTimeout \/ Write \/ Close \/ UpstreamEnds
    \/ HandleConnStatus(ch) \/ HandleData(ch) \/ HandleClose(ch) \/ CleanupServer(ch)
    \/ HandleSelectUplink(ch) /\ ~(rv.reg /\ ~Decided)

\* What they do to the wires,
Sent ==
    \/ UNCHANGED <<down, wrote>>
    \/ wrote' = wrote /\ ~Idle /\ \E S : down' = Put(down, S, <<[t |-> "close"]>>)
    \/ Write

Arrives(ch) ==
    \/ UNCHANGED <<up, srvUp>>
    \/ srvUp' = [srvUp EXCEPT ![ch] = FALSE] /\ up' = [up EXCEPT ![ch] = <<>>]
    \/ /\ srvUp' = srvUp /\ srvUp[ch] /\ up[ch] # <<>> /\ up' = [up EXCEPT ![ch] = Tail(up[ch])]
       /\ Head(up[ch]).t = "data" => HandleData(ch)
       /\ Head(up[ch]).t = "selectUplink" => ~(rv.reg /\ ~Decided)

\* and to the server.
Served(ch) ==
    /\ UNCHANGED clientVars /\ UNCHANGED cliUp /\ Sent /\ Arrives(ch)
    /\ ServerTypes' /\ Keeps(rv, rv')
    /\ rv'.result = "ok" => rv.result = "ok" \/ ~Without(up[ch], "ok")
    /\ dial' = "open" => dial = "open" \/ rv.result = "ok"
    /\ Idle' => Idle /\ pump' = pump
    /\ entry' # entry => dial = "idle" /\ (entry' => Pair # NoPair)
    /\ got' = got \/ HandleData(ch)

\* Every such step of the server.
LEMMA ServerSteps ==
    ASSUME BaseInv, NEW ch \in Channels, Serves(ch)
    PROVE  Served(ch)
<1>0. /\ ServerTypes /\ WireTypes /\ rv \in Conns /\ up[ch] \in Seq(Uplinked)
      /\ Idle => pump = "idle" /\ ~rv.reg /\ up[ch] = <<>>
      BY Typed, Zenon DEF BaseInv, ServerTypes, WireTypes, Requests
<1>1. /\ Keeps(rv, rv) /\ Keeps(rv, Removed(rv)) /\ Keeps(rv, Removed(Settled(rv, "err")))
      /\ \A result \in {"ok", "err"} : Keeps(rv, Settled(rv, result))
      /\ Removed(rv).result = "ok" => rv.result = "ok"
      /\ Removed(Settled(rv, "err")).result = "ok" => rv.result = "ok"
      /\ Settled(rv, "err").result = "ok" => rv.result = "ok"
      BY <1>0, ConnKept, Zenon
<1>2. \A q : Keeps(rv, q) => q \in Conns
      BY Zenon DEF Keeps
<1> HIDE DEF Conns
<1>3. CASE DialLookup
  <2>1. /\ dial = "idle" /\ dial' \in {"found", "failed"} /\ entry' \in BOOLEAN
        /\ entry' => Pair # NoPair
        /\ UNCHANGED <<app, rv, pump, wrote, got, clientVars, wires>>
        BY <1>3, Zenon DEF DialLookup
  <2>2. QED
        BY <1>0, <1>1, <2>1, Zenon DEF Served, Sent, Arrives, ServerTypes, Idle, wires
<1>4. CASE DialResult
  <2>1. /\ dial = "wait" /\ dial' \in {"open", "failed"} /\ (dial' = "open" => rv.result = "ok")
        /\ rv' = rv \/ rv' = Removed(rv)
        /\ UNCHANGED <<app, entry, pump, wrote, got, clientVars, wires>>
        BY <1>4, Zenon DEF DialResult
  <2>2. QED
        BY <1>0, <1>1, <1>2, <2>1, Zenon DEF Served, Sent, Arrives, ServerTypes, Idle, wires
<1>5. CASE DialTimeout
  <2>1. /\ dial = "wait" /\ dial' = "failed" /\ rv' = Removed(Settled(rv, "err"))
        /\ down' = Put(down, Below(rv.sendCh), <<[t |-> "close"]>>)
        /\ UNCHANGED <<app, entry, pump, wrote, got, clientVars, up, cliUp, srvUp>>
        BY <1>5, Zenon DEF DialTimeout, NotifyClose
  <2>2. Sent /\ Arrives(ch)
        BY <2>1, Zenon DEF Sent, Arrives, Idle
  <2>3. QED
        BY <1>0, <1>1, <1>2, <2>1, <2>2, Zenon DEF Served, ServerTypes, Idle
<1>6. CASE Write
  <2>1. /\ dial = "open" /\ wrote < MaxDown /\ wrote' = wrote + 1
        /\ UNCHANGED <<dial, app, entry, rv, pump, got, clientVars, up, cliUp, srvUp>>
        BY <1>6, Zenon DEF Write
  <2>2. wrote' \in 0..MaxDown
        BY <1>0, <2>1, WiresAssumption DEF ServerTypes
  <2>3. Sent /\ Arrives(ch)
        BY <1>6, <2>1, Zenon DEF Sent, Arrives
  <2>4. QED
        BY <1>0, <1>1, <2>1, <2>2, <2>3, Zenon DEF Served, ServerTypes, Idle
<1>7. CASE Close
  <2>1. /\ dial = "open" /\ app' = FALSE
        /\ UNCHANGED <<dial, entry, rv, pump, wrote, got, clientVars, wires>>
        BY <1>7, Zenon DEF Close
  <2>2. QED
        BY <1>0, <1>1, <2>1, Zenon DEF Served, Sent, Arrives, ServerTypes, Idle, wires
<1>8. CASE UpstreamEnds
  <2>1. /\ pump = "run" /\ pump' = "done" /\ rv' = Removed(rv)
        /\ down' = Put(down, Below(rv.sendCh), <<[t |-> "close"]>>)
        /\ UNCHANGED <<dial, app, entry, wrote, got, clientVars, up, cliUp, srvUp>>
        BY <1>8, Zenon DEF UpstreamEnds, NotifyClose
  <2>2. ~Idle /\ ~Idle'
        BY <1>0, <2>1, Zenon DEF Idle
  <2>3. Sent /\ Arrives(ch)
        BY <2>1, <2>2, Zenon DEF Sent, Arrives
  <2>4. QED
        BY <1>0, <1>1, <1>2, <2>1, <2>2, <2>3, Zenon DEF Served, ServerTypes
<1>9. ASSUME NEW type, Arrived(ch, type), srvUp' = srvUp, type = "data" => HandleData(ch),
             type = "selectUplink" => ~(rv.reg /\ ~Decided)
      PROVE  Arrives(ch) /\ ~Idle /\ Head(up[ch]) \in Frames(up[ch]) /\ Head(up[ch]).t = type
  <2>1. /\ srvUp[ch] /\ up[ch] # <<>> /\ Head(up[ch]).t = type
        /\ up' = [up EXCEPT ![ch] = Tail(up[ch])]
        BY <1>9, Zenon DEF Arrived
  <2>2. ~Idle
        BY <1>0, <2>1, Zenon
  <2>3. Head(up[ch]) \in Frames(up[ch])
        BY <1>0, <2>1, FramesTail, Zenon
  <2>4. QED
        BY <1>9, <2>1, <2>2, <2>3, Zenon DEF Arrives
<1>10. CASE HandleConnStatus(ch)
  <2>1. PICK result \in {"ok", "err"} :
            Arrived(ch, result) /\ rv' = IF rv.reg THEN Settled(rv, result) ELSE rv
        BY <1>10, Zenon DEF HandleConnStatus
  <2>2. UNCHANGED <<dial, app, entry, pump, wrote, got, clientVars, down, cliUp, srvUp>>
        BY <1>10, Zenon DEF HandleConnStatus
  <2>3. Arrives(ch) /\ ~Idle /\ Head(up[ch]) \in Frames(up[ch]) /\ Head(up[ch]).t = result
        BY <1>9, <2>1, <2>2, Zenon
  <2>4. Keeps(rv, rv') /\ (rv'.result = "ok" => rv.result = "ok" \/ result = "ok")
        BY <1>1, <2>1, Zenon
  <2>5. result = "ok" => ~Without(up[ch], "ok")
        BY <2>3, Zenon DEF Without
  <2>6. Sent /\ ~Idle' /\ ServerTypes'
        BY <1>0, <1>2, <2>2, <2>3, <2>4, Zenon DEF Sent, Idle, ServerTypes
  <2>7. QED
        BY <2>2, <2>3, <2>4, <2>5, <2>6, Zenon DEF Served
<1>11. CASE HandleData(ch)
  <2> DEFINE m == Head(up[ch])
  <2>1. /\ Arrived(ch, "data")
        /\ got' = got \/ got' = [got EXCEPT ![m.o] = Append(got[m.o], m.n)]
        /\ \/ UNCHANGED <<down, rv>>
           \/ rv' = Removed(rv) /\ down' = Put(down, Below(rv.sendCh), <<[t |-> "close"]>>)
        /\ UNCHANGED <<dial, app, entry, pump, wrote, clientVars, cliUp, srvUp>>
        BY <1>11, Zenon DEF HandleData, NotifyClose
  <2>2. Arrives(ch) /\ ~Idle /\ m.t = "data" /\ m \in Frames(up[ch])
        BY <1>9, <1>11, <2>1, Zenon
  <2>3. m \in Uplinked
        BY <1>0, <2>1, FramesTail, Zenon DEF Arrived
  <2>4. m.o \in Channels /\ m.n \in 1..MaxUp
        BY <2>2, <2>3, Zenon DEF Uplinked
  <2> HIDE DEF m
  <2>5. got' \in [Channels -> Seq(1..MaxUp)]
    <3>1. got[m.o] \in Seq(1..MaxUp)
          BY <1>0, <2>4, Zenon DEF ServerTypes
    <3>2. Append(got[m.o], m.n) \in Seq(1..MaxUp)
          BY <2>4, <3>1
    <3>3. QED
          BY <1>0, <2>1, <2>4, <3>2, Zenon DEF ServerTypes
  <2>6. Sent
        BY <2>1, <2>2, Zenon DEF Sent
  <2>7. Keeps(rv, rv') /\ (rv'.result = "ok" => rv.result = "ok")
        BY <1>1, <2>1, Zenon
  <2>8. QED
        BY <1>0, <1>2, <1>11, <2>1, <2>2, <2>5, <2>6, <2>7, Zenon DEF Served, ServerTypes, Idle
<1>12. CASE HandleClose(ch)
  <2>1. /\ Arrived(ch, "close")
        /\ \/ UNCHANGED <<down, rv>>
           \/ rv' = Removed(rv) /\ down' = Put(down, Below(rv.sendCh), <<[t |-> "close"]>>)
        /\ UNCHANGED <<dial, app, entry, pump, wrote, got, clientVars, cliUp, srvUp>>
        BY <1>12, Zenon DEF HandleClose, NotifyClose
  <2>2. Arrives(ch) /\ ~Idle
        BY <1>9, <2>1, Zenon
  <2>3. Sent
        BY <2>1, <2>2, Zenon DEF Sent
  <2>4. QED
        BY <1>0, <1>1, <1>2, <2>1, <2>2, <2>3, Zenon DEF Served, ServerTypes, Idle
<1>13. CASE CleanupServer(ch)
  <2>1. /\ srvUp' = [srvUp EXCEPT ![ch] = FALSE] /\ up' = [up EXCEPT ![ch] = <<>>]
        /\ rv' = rv \/ rv' = Removed(rv)
        /\ UNCHANGED <<dial, app, entry, pump, wrote, got, clientVars, down, cliUp>>
        BY <1>13, Zenon DEF CleanupServer
  <2>2. Sent /\ Arrives(ch)
        BY <2>1, Zenon DEF Sent, Arrives
  <2>3. QED
        BY <1>0, <1>1, <1>2, <2>1, <2>2, Zenon DEF Served, ServerTypes, Idle
<1>14. CASE HandleSelectUplink(ch) /\ ~(rv.reg /\ ~Decided)
  <2>1. /\ Arrived(ch, "selectUplink") /\ UNCHANGED <<rv, down>>
        /\ UNCHANGED <<dial, app, entry, pump, wrote, got, clientVars, cliUp, srvUp>>
        BY <1>14, Zenon DEF HandleSelectUplink, Decided
  <2>2. Arrives(ch) /\ ~Idle
        BY <1>9, <1>14, <2>1, Zenon
  <2>3. QED
        BY <1>0, <1>1, <2>1, <2>2, Zenon DEF Served, Sent, ServerTypes, Idle
<1>15. QED
      BY <1>3, <1>4, <1>5, <1>6, <1>7, <1>8, <1>10, <1>11, <1>12, <1>13, <1>14, Zenon DEF Serves

\* The steps of the client other than making a state and learning a channel.
Acts(ch) ==
    \/ HandleServerData(ch) \/ HandleServerClose(ch) \/ CleanupClient(ch)
    \/ TargetFails(ch) \/ TargetConnected(ch) \/ PumpRead(ch) \/ PumpEnds(ch)
    \/ HandleReverseTCPConnect(ch) /\ rev # NoCh

Replies == [t : {"ok", "err", "close"}]

\* What they do to the wires,
Answered(ch) ==
    \/ UNCHANGED <<up, read>>
    \/ /\ read' = read /\ Dialled # {}
       /\ \E S : \E f \in Replies : /\ up' = Put(up, S, <<f>>)
                                    /\ f.t = "ok" => \E x \in Channels : rc'[x].conn # "none"
    \/ PumpRead(ch)

Receives(ch) ==
    \/ UNCHANGED <<down, cliUp>>
    \/ cliUp' = [cliUp EXCEPT ![ch] = FALSE] /\ down' = [down EXCEPT ![ch] = <<>>] /\ rev' # ch
    \/ /\ cliUp' = cliUp /\ down[ch] # <<>> /\ down' = [down EXCEPT ![ch] = Tail(down[ch])]
       /\ Head(down[ch]).t = "data" => HandleServerData(ch)

\* and to the client.
Acted(ch) ==
    /\ UNCHANGED serverVars /\ UNCHANGED srvUp /\ Answered(ch) /\ Receives(ch)
    /\ ClientTypes' /\ rev' \in {rev, NoCh} /\ \A x \in Channels : Kin(rc[x], rc'[x])
    /\ \A o \in Channels : rc[o].stage = "none" => read'[o] = read[o] /\ tgt'[o] = tgt[o]
    /\ tgt' = tgt \/ HandleServerData(ch)

\* sendReverseClose, of states that have their types.
LEMMA ReverseClosed ==
    ASSUME ClientTypes, NEW rcs, NEW o \in Channels, SendReverseClose(rcs, o),
           rcs \in [Channels -> Revs], \A x \in Channels : x # o => rcs[x] = rc[x],
           Kin(rc[o], Shut(rcs[o]))
    PROVE  /\ rev' = NoCh /\ rc' \in [Channels -> Revs] /\ \A x \in Channels : Kin(rc[x], rc'[x])
           /\ \E S : \E f \in Replies : up' = Put(up, S, <<f>>) /\ f.t # "ok"
<1>1. rc' = [rcs EXCEPT ![o] = Shut(rcs[o])] /\ rev' = NoCh
      BY Zenon DEF SendReverseClose
<1>2. Shut(rcs[o]) \in Revs
      BY Zenon DEF Kin
<1>3. \A x \in Channels : Kin(rc[x], rc[x])
      BY RevKept, Zenon DEF ClientTypes
<1> HIDE DEF Revs
<1>4. rc' \in [Channels -> Revs] /\ \A x \in Channels : rc'[x] = IF x = o THEN Shut(rcs[o]) ELSE rc[x]
      BY <1>1, <1>2, Zenon
<1>5. [t |-> "close"] \in Replies /\ [t |-> "close"].t # "ok"
      BY Zenon DEF Replies
<1>6. up' = Put(up, Above(rc[o].sendCh), <<[t |-> "close"]>>)
      BY Zenon DEF SendReverseClose
<1>7. \E S : \E f \in Replies : up' = Put(up, S, <<f>>) /\ f.t # "ok"
      BY <1>5, <1>6, Zenon
<1>8. QED
      BY <1>1, <1>3, <1>4, <1>7, Zenon

\* Every such step of the client.
LEMMA ClientSteps ==
    ASSUME BaseInv, NEW ch \in Channels, Acts(ch)
    PROVE  Acted(ch)
<1>0. /\ ClientTypes /\ WireTypes /\ rc \in [Channels -> Revs] /\ rc[ch] \in Revs
      /\ down[ch] \in Seq(Downlinked) /\ rev \in Channels \cup {NoCh}
      /\ rev # NoCh => rev \in Channels /\ rc[rev].stage # "none"
      BY Typed, Zenon DEF BaseInv, ClientTypes, WireTypes, Made
<1>1. /\ \A x \in Channels : Kin(rc[x], rc[x])
      /\ \A x \in Channels : rc[x].stage # "none" => Kin(rc[x], Shut(rc[x]))
      /\ rc[ch].stage # "none" =>
            /\ Kin(rc[ch], [rc[ch] EXCEPT !.stage = "done"])
            /\ Kin(rc[ch], Shut([rc[ch] EXCEPT !.stage = "done"]))
            /\ Kin(rc[ch], [rc[ch] EXCEPT !.stage = "pump", !.conn = "open"])
      BY <1>0, RevKept, Zenon
<1>2. ASSUME NEW o \in Channels, rc[o].stage # "none", SendReverseClose(rc, o)
      PROVE  /\ rev' = NoCh /\ rc' \in [Channels -> Revs] /\ \A x \in Channels : Kin(rc[x], rc'[x])
             /\ \E S : \E f \in Replies : up' = Put(up, S, <<f>>) /\ f.t # "ok"
      BY <1>0, <1>1, <1>2, ReverseClosed, Zenon
<1>3. ASSUME NEW q, Kin(rc[ch], q), rc' = [rc EXCEPT ![ch] = q]
      PROVE  rc' \in [Channels -> Revs] /\ rc'[ch] = q /\ \A x \in Channels : Kin(rc[x], rc'[x])
  <2>1. q \in Revs
        BY <1>3, Zenon DEF Kin
  <2> HIDE DEF Revs
  <2>2. QED
        BY <1>0, <1>1, <1>3, <2>1, Zenon
<1>4. ASSUME NEW type, Received(ch, type), cliUp' = cliUp, type = "data" => HandleServerData(ch)
      PROVE  /\ Receives(ch) /\ Head(down[ch]) \in Downlinked /\ Head(down[ch]).t = type
  <2>1. /\ down[ch] # <<>> /\ Head(down[ch]).t = type
        /\ down' = [down EXCEPT ![ch] = Tail(down[ch])]
        BY <1>4, Zenon DEF Received
  <2>2. Head(down[ch]) \in Downlinked
        BY <1>0, <2>1, FramesTail, Zenon
  <2>3. QED
        BY <1>4, <2>1, <2>2, Zenon DEF Receives
<1>5. \A x \in Channels : rc[x].stage # "none" => Dialled # {}
      BY Zenon DEF Dialled
<1> HIDE DEF Revs
<1>6. CASE HandleServerData(ch)
  <2> DEFINE n == Head(down[ch]).n
  <2>1. /\ Received(ch, "data") /\ UNCHANGED <<read, serverVars, cliUp, srvUp>>
        /\ \/ UNCHANGED <<rev, rc, tgt, up>>
           \/ /\ rev = ch /\ tgt' = [tgt EXCEPT ![ch] = Append(tgt[ch], n)]
              /\ UNCHANGED <<rev, rc, up>>
           \/ rev = ch /\ SendReverseClose(rc, ch) /\ UNCHANGED tgt
        BY <1>6, Zenon DEF HandleServerData
  <2>2. Receives(ch) /\ Head(down[ch]) \in Downlinked /\ Head(down[ch]).t = "data"
        BY <1>4, <1>6, <2>1, Zenon
  <2>3. n \in 1..MaxDown
        BY <2>2, Zenon DEF Downlinked
  <2> HIDE DEF n
  <2>4. CASE UNCHANGED <<rev, rc, tgt, up>>
        BY <1>0, <1>1, <2>1, <2>2, <2>4, Zenon DEF Acted, Answered, ClientTypes
  <2>5. CASE /\ rev = ch /\ tgt' = [tgt EXCEPT ![ch] = Append(tgt[ch], n)]
             /\ UNCHANGED <<rev, rc, up>>
    <3>1. rc[ch].stage # "none"
          BY <1>0, <2>5, WiresAssumption, Zenon
    <3>2. Append(tgt[ch], n) \in Seq(1..MaxDown)
          BY <1>0, <2>3 DEF ClientTypes
    <3>3. /\ tgt' \in [Channels -> Seq(1..MaxDown)]
          /\ \A o \in Channels : o # ch => tgt'[o] = tgt[o]
          BY <1>0, <2>5, <3>2, Zenon DEF ClientTypes
    <3>4. QED
          BY <1>0, <1>1, <1>6, <2>1, <2>2, <2>5, <3>1, <3>3, Zenon DEF Acted, Answered, ClientTypes
  <2>6. CASE rev = ch /\ SendReverseClose(rc, ch) /\ UNCHANGED tgt
    <3>1. rc[ch].stage # "none"
          BY <1>0, <2>6, WiresAssumption, Zenon
    <3>2. /\ rev' = NoCh /\ rc' \in [Channels -> Revs] /\ \A x \in Channels : Kin(rc[x], rc'[x])
          /\ \E S : \E f \in Replies : up' = Put(up, S, <<f>>) /\ f.t # "ok"
          BY <1>2, <2>6, <3>1, Zenon
    <3>3. Answered(ch)
          BY <1>5, <2>1, <3>1, <3>2, Zenon DEF Answered
    <3>4. QED
          BY <1>0, <2>1, <2>2, <2>6, <3>2, <3>3, Zenon DEF Acted, ClientTypes
  <2>7. QED
        BY <2>1, <2>4, <2>5, <2>6, Zenon
<1>7. CASE HandleServerClose(ch)
  <2>1. /\ Received(ch, "close") /\ UNCHANGED <<read, tgt, serverVars, cliUp, srvUp>>
        /\ UNCHANGED <<rev, rc, up>> \/ (rev # NoCh /\ SendReverseClose(rc, rev))
        BY <1>7, Zenon DEF HandleServerClose
  <2>2. Receives(ch)
        BY <1>4, <2>1, Zenon
  <2>3. CASE UNCHANGED <<rev, rc, up>>
        BY <1>0, <1>1, <2>1, <2>2, <2>3, Zenon DEF Acted, Answered, ClientTypes
  <2>4. CASE rev # NoCh /\ SendReverseClose(rc, rev)
    <3>1. /\ rev' = NoCh /\ rc' \in [Channels -> Revs] /\ \A x \in Channels : Kin(rc[x], rc'[x])
          /\ \E S : \E f \in Replies : up' = Put(up, S, <<f>>) /\ f.t # "ok"
          BY <1>0, <1>2, <2>4, Zenon
    <3>2. Answered(ch)
          BY <1>0, <1>5, <2>1, <2>4, <3>1, Zenon DEF Answered
    <3>3. QED
          BY <1>0, <2>1, <2>2, <3>1, <3>2, Zenon DEF Acted, ClientTypes
  <2>5. QED
        BY <2>1, <2>3, <2>4, Zenon
<1>8. CASE CleanupClient(ch)
  <2>1. /\ cliUp' = [cliUp EXCEPT ![ch] = FALSE] /\ down' = [down EXCEPT ![ch] = <<>>]
        /\ UNCHANGED <<read, tgt, serverVars, up, srvUp>>
        /\ \/ UNCHANGED <<rev, rc>>
           \/ rev # NoCh /\ rev' = NoCh /\ rc' = [rc EXCEPT ![rev] = Shut(rc[rev])]
        /\ rev' # ch
        BY <1>8, WiresAssumption, Zenon DEF CleanupClient
  <2>2. /\ rc' \in [Channels -> Revs] /\ rev' \in {rev, NoCh}
        /\ \A x \in Channels : Kin(rc[x], rc'[x])
    <3>1. CASE UNCHANGED <<rev, rc>>
          BY <1>0, <1>1, <3>1, Zenon
    <3>2. CASE rev # NoCh /\ rev' = NoCh /\ rc' = [rc EXCEPT ![rev] = Shut(rc[rev])]
      <4>1. rev \in Channels /\ Kin(rc[rev], Shut(rc[rev])) /\ Shut(rc[rev]) \in Revs
            BY <1>0, <1>1, <3>2, Zenon DEF Kin
      <4>2. QED
            BY <1>0, <1>1, <3>2, <4>1, Zenon
    <3>3. QED
          BY <2>1, <3>1, <3>2, Zenon
  <2>3. QED
        BY <1>0, <2>1, <2>2, Zenon DEF Acted, Answered, Receives, ClientTypes
<1>9. CASE TargetFails(ch)
  <2>1. /\ rc[ch].stage # "none" /\ rc' = [rc EXCEPT ![ch] = [rc[ch] EXCEPT !.stage = "done"]]
        /\ up' = Put(up, OpenAt(cliUp), <<[t |-> "err"]>>) /\ rev' = NoCh
        /\ UNCHANGED <<read, tgt, serverVars, down, cliUp, srvUp>>
        BY <1>0, <1>9, Zenon DEF TargetFails
  <2>2. rc' \in [Channels -> Revs] /\ \A x \in Channels : Kin(rc[x], rc'[x])
        BY <1>1, <1>3, <2>1, Zenon
  <2>3. [t |-> "err"] \in Replies /\ [t |-> "err"].t # "ok"
        BY Zenon DEF Replies
  <2>4. Answered(ch)
        BY <1>5, <2>1, <2>3, Zenon DEF Answered
  <2>5. QED
        BY <1>0, <2>1, <2>2, <2>4, Zenon DEF Acted, Receives, ClientTypes
<1>10. CASE TargetConnected(ch)
  <2> DEFINE q == [rc[ch] EXCEPT !.stage = "pump", !.conn = "open"]
  <2>1. /\ rc[ch].stage # "none" /\ rc' = [rc EXCEPT ![ch] = q]
        /\ up' = Put(up, OpenAt(cliUp), <<[t |-> "ok"]>>)
        /\ UNCHANGED <<rev, read, tgt, serverVars, down, cliUp, srvUp>>
        BY <1>0, <1>10, Zenon DEF TargetConnected, Revs
  <2>2. Kin(rc[ch], q) /\ q.conn = "open"
        BY <1>0, <1>1, <2>1, Zenon DEF Revs
  <2> HIDE DEF q
  <2>3. rc' \in [Channels -> Revs] /\ rc'[ch] = q /\ \A x \in Channels : Kin(rc[x], rc'[x])
        BY <1>3, <2>1, <2>2, Zenon
  <2>4. [t |-> "ok"] \in Replies /\ \E x \in Channels : rc'[x].conn # "none"
        BY <2>2, <2>3, Zenon DEF Replies
  <2>5. Answered(ch)
        BY <1>5, <2>1, <2>4, Zenon DEF Answered
  <2>6. QED
        BY <1>0, <2>1, <2>3, <2>5, Zenon DEF Acted, Receives, ClientTypes
<1>11. CASE PumpRead(ch)
  <2>1. /\ rc[ch].stage # "none" /\ read[ch] < MaxUp /\ read' = [read EXCEPT ![ch] = read[ch] + 1]
        /\ UNCHANGED <<rev, rc, tgt, serverVars, down, cliUp, srvUp>>
        BY <1>11, Zenon DEF PumpRead
  <2>2. read[ch] + 1 \in 0..MaxUp
        BY <1>0, <2>1, WiresAssumption DEF ClientTypes
  <2>3. read' \in [Channels -> 0..MaxUp] /\ \A o \in Channels : o # ch => read'[o] = read[o]
        BY <1>0, <2>1, <2>2, Zenon DEF ClientTypes
  <2>4. QED
        BY <1>0, <1>1, <1>11, <2>1, <2>3, Zenon DEF Acted, Answered, Receives, ClientTypes
<1>12. CASE PumpEnds(ch)
  <2> DEFINE q == [rc[ch] EXCEPT !.stage = "done"]
             rcs == [rc EXCEPT ![ch] = q]
  <2>1. /\ rc[ch].stage # "none" /\ SendReverseClose(rcs, ch)
        /\ UNCHANGED <<read, tgt, serverVars, down, cliUp, srvUp>>
        BY <1>0, <1>12, Zenon DEF PumpEnds
  <2>2. Kin(rc[ch], Shut(q)) /\ q \in Revs
        BY <1>1, <2>1, Zenon DEF Kin
  <2> HIDE DEF q
  <2>3. rcs \in [Channels -> Revs] /\ rcs[ch] = q /\ \A x \in Channels : x # ch => rcs[x] = rc[x]
        BY <1>0, <2>2, Zenon
  <2> HIDE DEF rcs
  <2>4. /\ rev' = NoCh /\ rc' \in [Channels -> Revs] /\ \A x \in Channels : Kin(rc[x], rc'[x])
        /\ \E S : \E f \in Replies : up' = Put(up, S, <<f>>) /\ f.t # "ok"
        BY <1>0, <2>1, <2>2, <2>3, ReverseClosed, Zenon
  <2>5. Answered(ch)
        BY <1>5, <2>1, <2>4, Zenon DEF Answered
  <2>6. QED
        BY <1>0, <2>1, <2>4, <2>5, Zenon DEF Acted, Receives, ClientTypes
<1>13. CASE HandleReverseTCPConnect(ch) /\ rev # NoCh
  <2>1. /\ Received(ch, "connect") /\ UNCHANGED <<rev, rc, up>>
        /\ UNCHANGED <<read, tgt, serverVars, cliUp, srvUp>>
        BY <1>13, Zenon DEF HandleReverseTCPConnect
  <2>2. Receives(ch)
        BY <1>4, <2>1, Zenon
  <2>3. QED
        BY <1>0, <1>1, <2>1, <2>2, Zenon DEF Acted, Answered, ClientTypes
<1>14. QED
      BY <1>6, <1>7, <1>8, <1>9, <1>10, <1>11, <1>12, <1>13, Zenon DEF Acts

\* What Sent puts on the channels is no request and no choice.
LEMMA SentFrames ==
    ASSUME BaseInv, Sent
    PROVE  /\ down' \in [Channels -> Seq(Downlinked)]
           /\ \A c \in Channels :
                 /\ Requested(down'[c]) /\ (Idle => down'[c] = <<>>)
                 /\ \A f \in Frames(down'[c]) : f \in Frames(down[c]) \/ f.t \in {"close", "data"}
<1>0. down \in [Channels -> Seq(Downlinked)] /\ ServerTypes /\ WireTypes
      BY Typed, Zenon DEF BaseInv, WireTypes
<1>1. \A c \in Channels : Requested(down[c]) /\ (Idle => down[c] = <<>>)
      BY Zenon DEF BaseInv, Requests
<1>2. ASSUME NEW S, NEW f \in Downlinked, f.t \in {"close", "data"}, down' = Put(down, S, <<f>>), ~Idle
      PROVE  /\ down' \in [Channels -> Seq(Downlinked)]
             /\ \A c \in Channels :
                   /\ Requested(down'[c])
                   /\ \A g \in Frames(down'[c]) : g \in Frames(down[c]) \/ g.t \in {"close", "data"}
  <2>1. /\ down' \in [Channels -> Seq(Downlinked)]
        /\ \A c \in Channels :
              /\ down'[c] = IF c \in S THEN down[c] \o <<f>> ELSE down[c]
              /\ Frames(down'[c]) \subseteq Frames(down[c]) \cup {f}
        BY <1>0, <1>2, DownPut, Zenon
  <2>2. ASSUME NEW c \in Channels PROVE Requested(down'[c])
    <3> DEFINE t == <<f>>
    <3>1. t \in Seq(Downlinked) /\ \A i \in 1..Len(t) : t[i].t # "connect"
          BY <1>2
    <3>2. down'[c] = down[c] \/ down'[c] = down[c] \o t
          BY <2>1, Zenon
    <3> HIDE DEF t
    <3>3. QED
          BY <1>0, <1>1, <3>1, <3>2, RequestMoves, Zenon
  <2>3. QED
        BY <1>2, <2>1, <2>2, Zenon
<1>3. CASE UNCHANGED <<down, wrote>>
      BY <1>0, <1>1, <1>3, Zenon
<1>4. ASSUME ~Idle, NEW S, down' = Put(down, S, <<[t |-> "close"]>>)
      PROVE  /\ down' \in [Channels -> Seq(Downlinked)]
             /\ \A c \in Channels :
                   /\ Requested(down'[c])
                   /\ \A g \in Frames(down'[c]) : g \in Frames(down[c]) \/ g.t \in {"close", "data"}
  <2> DEFINE f == [t |-> "close"]
  <2>1. f \in Downlinked /\ f.t \in {"close", "data"}
        BY Zenon DEF Downlinked
  <2> HIDE DEF f
  <2>2. down' = Put(down, S, <<f>>)
        BY <1>4, Zenon DEF f
  <2>3. QED
        BY <1>2, <1>4, <2>1, <2>2, Zenon
<1>5. CASE Write
  <2> DEFINE f == [t |-> "data", n |-> wrote']
             S == IF Below(rv.sendCh) = {} THEN OpenAt(srvUp) ELSE Below(rv.sendCh)
  <2>1. /\ wrote < MaxDown /\ wrote' = wrote + 1 /\ down' = Put(down, S, <<f>>) /\ ~Idle
        BY <1>5, Zenon DEF Write, Idle
  <2>2. f \in Downlinked /\ f.t \in {"close", "data"}
    <3>1. wrote' \in 1..MaxDown
          BY <1>0, <2>1, WiresAssumption DEF ServerTypes
    <3>2. QED
          BY <3>1, Zenon DEF Downlinked
  <2> HIDE DEF f, S
  <2>3. QED
        BY <1>2, <2>1, <2>2, Zenon
<1>6. QED
      BY <1>3, <1>4, <1>5, Zenon DEF Sent

\* The server's steps keep requests and states.
LEMMA BaseServed ==
    ASSUME BaseInv, NEW ch \in Channels, Served(ch)
    PROVE  BaseInv'
<1>0. /\ ServerTypes /\ ClientTypes /\ WireTypes /\ Requests /\ Made
      BY Typed, Zenon DEF BaseInv
<1>1. /\ down' \in [Channels -> Seq(Downlinked)]
      /\ \A c \in Channels :
            /\ Requested(down'[c]) /\ (Idle => down'[c] = <<>>)
            /\ \A f \in Frames(down'[c]) : f \in Frames(down[c]) \/ f.t \in {"close", "data"}
      BY SentFrames, Zenon DEF Served
<1>2. up' = up \/ Shorter(up, up', ch)
      BY Zenon DEF Served, Arrives, Shorter
<1>3. /\ up' \in [Channels -> Seq(Uplinked)]
      /\ \A c \in Channels : /\ Frames(up'[c]) \subseteq Frames(up[c])
                             /\ up[c] = <<>> => up'[c] = <<>>
      BY <1>0, <1>2, UpLost, Zenon DEF WireTypes
<1>4. /\ rev' = rev /\ rc' = rc /\ read' = read /\ tgt' = tgt /\ cliUp' = cliUp
      /\ Dialled' = Dialled
      BY Zenon DEF Served, clientVars, Dialled
<1>5. TypeOK'
  <2>1. ServerTypes' /\ ClientTypes'
        BY <1>0, <1>4, Zenon DEF Served, ClientTypes
  <2>2. srvUp' \in [Channels -> BOOLEAN]
        BY <1>0, Zenon DEF Served, Arrives, WireTypes
  <2>3. WireTypes'
        BY <1>0, <1>1, <1>3, <1>4, <2>2, Zenon DEF WireTypes
  <2>4. QED
        BY <2>1, <2>3, Typed, Zenon
<1>6. Requests'
  <2>1. Idle' => Idle /\ pump' = pump
        BY Zenon DEF Served
  <2>2. rv'.reg => rv.reg
        BY Zenon DEF Served, Keeps
  <2>3. Idle' => /\ ~rv'.reg /\ pump' = "idle" /\ Dialled' = {}
                 /\ \A c \in Channels : up'[c] = <<>> /\ down'[c] = <<>>
        BY <1>0, <1>1, <1>3, <1>4, <2>1, <2>2, Zenon DEF Requests
  <2>4. \A c \in Channels : rc'[c].stage # "none" => Without(down'[c], "connect")
        BY <1>0, <1>1, <1>4, Zenon DEF Requests, Without
  <2>5. QED
        BY <1>1, <2>3, <2>4, Zenon DEF Requests
<1>7. Made'
  <2>1. entry' => Pair # NoPair
        BY <1>0, Zenon DEF Made, Served, ServerTypes
  <2>2. rv'.reg /\ rv'.sendCh = NoCh => rv'.repaired
        BY <1>0, Zenon DEF Made, Served, Keeps
  <2>3. QED
        BY <1>0, <1>3, <1>4, <2>1, <2>2, Zenon DEF Made
<1>8. QED
      BY <1>5, <1>6, <1>7, Zenon DEF BaseInv

\* What Answered puts on the channels is no announcement.
LEMMA AnsweredFrames ==
    ASSUME BaseInv, NEW ch \in Channels, Answered(ch)
    PROVE  /\ up' \in [Channels -> Seq(Uplinked)]
           /\ \A c \in Channels : /\ Frames(up[c]) \subseteq Frames(up'[c])
                                  /\ \A f \in Frames(up'[c]) :
                                        f \in Frames(up[c]) \/ f \in Replies \/ f.t = "data"
           /\ Dialled = {} => read' = read
<1>0. up \in [Channels -> Seq(Uplinked)] /\ ClientTypes
      BY Typed, Zenon DEF BaseInv, WireTypes
<1>1. ASSUME NEW S, NEW f \in Uplinked, f \in Replies \/ f.t = "data", up' = Put(up, S, <<f>>)
      PROVE  /\ up' \in [Channels -> Seq(Uplinked)]
             /\ \A c \in Channels : /\ Frames(up[c]) \subseteq Frames(up'[c])
                                    /\ \A g \in Frames(up'[c]) :
                                          g \in Frames(up[c]) \/ g \in Replies \/ g.t = "data"
  <2>1. /\ up' \in [Channels -> Seq(Uplinked)]
        /\ \A c \in Channels : /\ Frames(up[c]) \subseteq Frames(up'[c])
                               /\ Frames(up'[c]) \subseteq Frames(up[c]) \cup {f}
        BY <1>0, <1>1, UpPut, Zenon
  <2>2. QED
        BY <1>1, <2>1, Zenon
<1>2. CASE UNCHANGED <<up, read>>
      BY <1>0, <1>2, Zenon
<1>3. CASE read' = read /\ Dialled # {} /\ \E S : \E f \in Replies : up' = Put(up, S, <<f>>)
  <2>1. Replies \subseteq Uplinked
        BY Zenon DEF Replies, Uplinked
  <2>2. PICK S, f : f \in Replies /\ up' = Put(up, S, <<f>>)
        BY <1>3, Zenon
  <2>3. QED
        BY <1>1, <1>3, <2>1, <2>2, Zenon
<1>4. CASE PumpRead(ch)
  <2> DEFINE f == [t |-> "data", o |-> ch, n |-> read[ch] + 1]
  <2>1. /\ rc[ch].stage = "pump" /\ read[ch] < MaxUp
        /\ up' = Put(up, Above(rc[ch].sendCh), <<f>>)
        BY <1>4, Zenon DEF PumpRead
  <2>2. f \in Uplinked /\ f.t = "data"
    <3>1. read[ch] + 1 \in 1..MaxUp
          BY <1>0, <2>1, WiresAssumption DEF ClientTypes
    <3>2. QED
          BY <3>1, Zenon DEF Uplinked
  <2> HIDE DEF f
  <2>3. ch \in Dialled
        BY <2>1, Zenon DEF Dialled
  <2>4. QED
        BY <1>1, <2>1, <2>2, <2>3, Zenon
<1>5. QED
      BY <1>2, <1>3, <1>4, Zenon DEF Answered

\* The client's steps keep requests and states.
LEMMA BaseActed ==
    ASSUME BaseInv, NEW ch \in Channels, Acted(ch)
    PROVE  BaseInv' /\ Dialled' = Dialled
<1>0. /\ ServerTypes /\ ClientTypes /\ WireTypes /\ Requests /\ Made
      BY Typed, Zenon DEF BaseInv
<1>1. /\ up' \in [Channels -> Seq(Uplinked)]
      /\ \A c \in Channels : \A f \in Frames(up'[c]) :
            f \in Frames(up[c]) \/ f \in Replies \/ f.t = "data"
      BY AnsweredFrames, Zenon DEF Acted
<1>2. down' = down \/ Shorter(down, down', ch)
      BY Zenon DEF Acted, Receives, Shorter
<1>3. /\ down' \in [Channels -> Seq(Downlinked)]
      /\ \A c \in Channels : /\ Frames(down'[c]) \subseteq Frames(down[c])
                             /\ Requested(down[c]) => Requested(down'[c])
                             /\ down[c] = <<>> => down'[c] = <<>>
      BY <1>0, <1>2, DownLost, Zenon DEF WireTypes
<1>4. /\ ServerTypes' /\ entry' = entry /\ rv' = rv /\ pump' = pump /\ Idle' = Idle
      /\ srvUp' = srvUp
      BY <1>0, Zenon DEF Acted, serverVars, ServerTypes, Idle
<1>5. \A o \in Channels : /\ rc'[o].stage = "none" <=> rc[o].stage = "none"
                          /\ rc[o].stage = "none" => rc'[o] = rc[o]
      BY Zenon DEF Acted, Kin
<1>6. Dialled' = Dialled
      BY <1>5, Zenon DEF Dialled
<1>7. TypeOK'
  <2>1. cliUp' \in [Channels -> BOOLEAN]
        BY <1>0, Zenon DEF Acted, Receives, WireTypes
  <2>2. WireTypes' /\ ClientTypes'
        BY <1>0, <1>1, <1>3, <1>4, <2>1, Zenon DEF WireTypes, Acted
  <2>3. QED
        BY <1>4, <2>2, Typed, Zenon
<1>8. Requests'
  <2>1. Idle => up' = up
    <3>1. Idle => Dialled = {}
          BY <1>0, Zenon DEF Requests
    <3>2. PumpRead(ch) => Dialled # {}
          BY Zenon DEF PumpRead, Dialled
    <3>3. QED
          BY <3>1, <3>2, Zenon DEF Acted, Answered
  <2>2. QED
        BY <1>0, <1>3, <1>4, <1>5, <1>6, <2>1, Zenon DEF Requests, Without
<1>9. Made'
  <2>1. rev' # NoCh => rc'[rev'].stage # "none"
        BY <1>0, <1>5, Zenon DEF Acted, Made, ClientTypes
  <2>2. \A o \in Channels : rc'[o].stage = "none" =>
            rc'[o].conn = "none" /\ rc'[o].sendCh = NoCh /\ read'[o] = 0 /\ tgt'[o] = <<>>
        BY <1>0, <1>5 DEF Acted, Made
  <2>3. ASSUME NEW c \in Channels, NEW f \in Frames(up'[c]), f.t = "selectUplink"
        PROVE  rc'[f.ch].stage # "none"
    <3>1. f \in Frames(up[c])
          BY <1>1, <2>3, Zenon DEF Replies
    <3>2. f.ch \in Channels
      <4>1. f \in Uplinked
            BY <1>0, <3>1, FrameAt DEF Frames, WireTypes
      <4>2. QED
            BY <2>3, <4>1, Zenon DEF Uplinked
    <3>3. QED
          BY <1>0, <1>5, <2>3, <3>1, <3>2, Zenon DEF Made
  <2>4. QED
        BY <1>0, <1>4, <2>1, <2>2, <2>3, Zenon DEF Made
<1>10. QED
      BY <1>6, <1>7, <1>8, <1>9, Zenon DEF BaseInv

\* The steps that remain: the server chooses the channels, the client makes a state and
\* learns its channel.
Chooses(ch) == HandleSelectUplink(ch) /\ rv.reg /\ ~Decided
Creates(ch) == HandleReverseTCPConnect(ch) /\ rev = NoCh
Learns(ch) == HandleSelectDownlink(ch)

\* Every step is one of these.
LEMMA NextCases ==
    ASSUME Next
    PROVE  \/ DialSend
           \/ \E ch \in Channels :
                 Serves(ch) \/ Chooses(ch) \/ Acts(ch) \/ Creates(ch) \/ Learns(ch)
<1>1. PICK any \in Channels : TRUE
      BY SomeChannel, Zenon
<1>2. CASE DialLookup \/ DialResult \/ DialTimeout \/ Write \/ Close \/ UpstreamEnds
  <2>1. Serves(any)
        BY <1>2, Zenon DEF Serves
  <2>2. QED
        BY <2>1, Zenon
<1>3. ASSUME NEW ch \in Channels, ServerReads(ch) \/ CleanupServer(ch)
      PROVE  Serves(ch) \/ Chooses(ch)
      BY <1>3, Zenon DEF ServerReads, Serves, Chooses
<1>4. ASSUME NEW ch \in Channels,
             \/ ClientReads(ch) \/ CleanupClient(ch)
             \/ TargetFails(ch) \/ TargetConnected(ch) \/ PumpRead(ch) \/ PumpEnds(ch)
      PROVE  Acts(ch) \/ Creates(ch) \/ Learns(ch)
      BY <1>4, Zenon DEF ClientReads, Acts, Creates, Learns
<1>5. QED
      BY <1>2, <1>3, <1>4, Zenon DEF Next

\* DialSend: the request is the only frame of a channel.
Asked(S) ==
    /\ UNCHANGED <<app, entry, wrote, got, clientVars, up, cliUp, srvUp>>
    /\ dial = "found" /\ ~Idle'
    /\ \A c \in Channels : up[c] = <<>> /\ down[c] = <<>>
    /\ \A c \in Channels : down'[c] = IF c \in S THEN <<[t |-> "connect"]>> ELSE <<>>
    /\ S \subseteq OpenAt(srvUp) /\ (entry => S = {Pair.down} \/ ~srvUp[Pair.down])
    /\ rv'.sendCh = (IF entry THEN Pair.down ELSE NoCh) /\ rv'.result # "ok"
    /\ rv'.recvCh = (IF entry THEN Pair.up ELSE NoCh) /\ (rv'.repaired <=> ~entry)
    /\ dial' # "open" /\ Dialled = {} /\ Dialled' = {}

LEMMA DialSteps ==
    ASSUME BaseInv, DialSend
    PROVE  BaseInv' /\ \E S : Asked(S)
<1> DEFINE S == IF entry /\ srvUp[Pair.down] THEN {Pair.down} ELSE OpenAt(srvUp)
           f == [t |-> "connect"]
<1>0. /\ ServerTypes /\ ClientTypes /\ WireTypes /\ Requests /\ Made
      BY Typed, Zenon DEF BaseInv
<1>1. /\ dial = "found" /\ down' = Put(down, S, <<f>>)
      /\ rv' = [reg |-> S # {}, sendCh |-> IF entry THEN Pair.down ELSE NoCh,
                recvCh |-> IF entry THEN Pair.up ELSE NoCh,
                result |-> IF S = {} THEN "err" ELSE "none", repaired |-> ~entry]
      /\ dial' = IF S = {} THEN "failed" ELSE "wait"
      /\ pump' = IF S = {} THEN "idle" ELSE "run"
      /\ UNCHANGED <<app, entry, wrote, got, clientVars, up, cliUp, srvUp>>
      BY Zenon DEF DialSend
<1>2. Idle /\ ~Idle' /\ dial' # "open"
      BY <1>1, Zenon DEF Idle
<1>3. entry => Pair.down \in Channels /\ Pair.up \in Channels
      BY <1>0, WiresAssumption, Zenon DEF Made
<1>4. S \subseteq OpenAt(srvUp) /\ (entry => S = {Pair.down} \/ ~srvUp[Pair.down])
      BY <1>3, Zenon DEF OpenAt
<1>5. f \in Downlinked /\ f.t = "connect"
      BY Zenon DEF Downlinked
<1> HIDE DEF f, S
<1>6. /\ down' \in [Channels -> Seq(Downlinked)]
      /\ \A c \in Channels : down'[c] = IF c \in S THEN down[c] \o <<f>> ELSE down[c]
      BY <1>0, <1>1, <1>5, DownPut, Zenon DEF WireTypes
<1>7. \A c \in Channels : up[c] = <<>> /\ down[c] = <<>> /\ rc[c].stage = "none"
  <2>1. /\ \A c \in Channels : up[c] = <<>> /\ down[c] = <<>>
        /\ {o \in Channels : rc[o].stage # "none"} = {}
        BY <1>0, <1>2, Zenon DEF Requests, Dialled
  <2>2. QED
        BY <2>1, Zenon
<1>8. \A c \in Channels : down'[c] = IF c \in S THEN <<f>> ELSE <<>>
  <2>1. <<>> \o <<f>> = <<f>>
        OBVIOUS
  <2>2. QED
        BY <1>6, <1>7, <2>1, Zenon
<1>9. rv' \in Conns
      BY <1>0, <1>1, <1>3, Zenon DEF Conns, ServerTypes
<1>10. Dialled = {} /\ Dialled' = {} /\ rc' = rc
      BY <1>0, <1>1, <1>2, Zenon DEF Requests, Dialled, clientVars
<1>11. TypeOK'
  <2>1. ServerTypes'
        BY <1>0, <1>1, <1>9, Zenon DEF ServerTypes
  <2>2. ClientTypes' /\ WireTypes'
        BY <1>0, <1>1, <1>6, Zenon DEF ClientTypes, WireTypes, clientVars
  <2>3. QED
        BY <2>1, <2>2, Typed, Zenon
<1>12. Requests'
  <2>1. \A c \in Channels : Requested(down'[c])
        BY <1>8 DEF Requested
  <2>2. QED
        BY <1>2, <1>7, <1>10, <2>1, Zenon DEF Requests
<1>13. Made'
      BY <1>0, <1>1, <1>3, WiresAssumption, Zenon DEF Made, clientVars
<1>14. Asked(S)
  <2>1. /\ rv'.sendCh = (IF entry THEN Pair.down ELSE NoCh) /\ rv'.result # "ok"
        /\ rv'.recvCh = (IF entry THEN Pair.up ELSE NoCh) /\ (rv'.repaired <=> ~entry)
        BY <1>0, <1>1, Zenon DEF ServerTypes
  <2>2. QED
        BY <1>1, <1>2, <1>4, <1>7, <1>8, <1>10, <2>1, Zenon DEF Asked, f
<1>15. QED
      BY <1>11, <1>12, <1>13, <1>14, Zenon DEF BaseInv

\* The choice of the server: m is what it is made from.
Chosen(ch, m) ==
    /\ UNCHANGED <<dial, app, entry, pump, wrote, got, clientVars, cliUp, srvUp>>
    /\ srvUp[ch] /\ up[ch] # <<>> /\ m = Head(up[ch]) /\ m \in Frames(up[ch])
    /\ up' = [up EXCEPT ![ch] = Tail(up[ch])]
    /\ m.t = "selectUplink" /\ m.ch \in Channels /\ m.ch \in Dialled
    /\ rv'.sendCh = m.ch /\ rv'.recvCh = ch /\ rv'.repaired
    /\ rv'.reg = rv.reg /\ rv'.result = rv.result
    /\ down' = Put(down, Below(m.ch), <<[t |-> "selectDownlink", ch |-> ch]>>)

LEMMA ChoiceSteps ==
    ASSUME BaseInv, NEW ch \in Channels, Chooses(ch)
    PROVE  BaseInv' /\ Chosen(ch, Head(up[ch])) /\ Dialled' = Dialled
<1> DEFINE m == Head(up[ch])
           f == [t |-> "selectDownlink", ch |-> ch]
<1>0. /\ ServerTypes /\ ClientTypes /\ WireTypes /\ Requests /\ Made
      BY Typed, Zenon DEF BaseInv
<1>1. /\ srvUp[ch] /\ up[ch] # <<>> /\ m.t = "selectUplink"
      /\ up' = [up EXCEPT ![ch] = Tail(up[ch])]
      /\ rv.reg /\ (rv.sendCh = NoCh \/ ~rv.repaired)
      /\ UNCHANGED <<dial, app, entry, pump, wrote, got, clientVars, cliUp, srvUp>>
      BY Zenon DEF Chooses, HandleSelectUplink, Arrived, Decided
<1>2. /\ rv' = [rv EXCEPT !.sendCh = m.ch, !.recvCh = ch,
                          !.repaired = rv.repaired \/ rv.sendCh # NoCh]
      /\ down' = Put(down, Below(m.ch), <<f>>)
      BY <1>1, Zenon DEF Chooses, HandleSelectUplink
<1>3. up[ch] \in Seq(Uplinked) /\ rv \in Conns
      BY <1>0, Zenon DEF WireTypes, ServerTypes
<1>4. m \in Uplinked /\ m \in Frames(up[ch])
      BY <1>1, <1>3, FramesTail, Zenon
<1>5. m.ch \in Channels
      BY <1>1, <1>4, Zenon DEF Uplinked
<1>6. m.ch \in Dialled
      BY <1>0, <1>1, <1>4, <1>5, Zenon DEF Made, Dialled
<1> HIDE DEF m
<1>7. /\ rv' \in Conns /\ rv'.sendCh = m.ch /\ rv'.recvCh = ch /\ rv'.repaired
      /\ rv'.reg = rv.reg /\ rv'.result = rv.result
      BY <1>0, <1>1, <1>2, <1>3, <1>5, Zenon DEF Conns, Made
<1>8. f \in Downlinked /\ f.t # "connect"
      BY Zenon DEF Downlinked
<1> HIDE DEF f
<1>9. /\ down' \in [Channels -> Seq(Downlinked)]
      /\ \A c \in Channels :
            /\ down'[c] = IF c \in Below(m.ch) THEN down[c] \o <<f>> ELSE down[c]
            /\ Frames(down'[c]) \subseteq Frames(down[c]) \cup {f}
      BY <1>0, <1>2, <1>8, DownPut, SMTT(30) DEF WireTypes
<1>10. /\ up' \in [Channels -> Seq(Uplinked)]
       /\ \A c \in Channels : Frames(up'[c]) \subseteq Frames(up[c])
      BY <1>0, <1>1, UpLost, Zenon DEF WireTypes, Shorter
<1>11. Dialled' = Dialled /\ rc' = rc /\ rev' = rev /\ read' = read /\ tgt' = tgt
      BY <1>1, Zenon DEF Dialled, clientVars
<1>12. TypeOK'
  <2>1. ServerTypes'
        BY <1>0, <1>1, <1>7, Zenon DEF ServerTypes
  <2>2. ClientTypes' /\ WireTypes'
        BY <1>0, <1>1, <1>9, <1>10, <1>11, Zenon DEF ClientTypes, WireTypes
  <2>3. QED
        BY <2>1, <2>2, Typed, Zenon
<1>13. Requests'
  <2>1. ~Idle /\ ~Idle'
        BY <1>0, <1>1, Zenon DEF Requests, Idle
  <2>2. ASSUME NEW c \in Channels PROVE Requested(down'[c])
    <3> DEFINE t == <<f>>
    <3>1. t \in Seq(Downlinked) /\ \A i \in 1..Len(t) : t[i].t # "connect"
          BY <1>8
    <3>2. down'[c] = down[c] \/ down'[c] = down[c] \o t
          BY <1>9, Zenon
    <3>3. down[c] \in Seq(Downlinked) /\ Requested(down[c])
          BY <1>0, Zenon DEF WireTypes, Requests
    <3> HIDE DEF t
    <3>4. QED
          BY <3>1, <3>2, <3>3, RequestMoves, Zenon
  <2>3. \A c \in Channels : rc'[c].stage # "none" => Without(down'[c], "connect")
        BY <1>0, <1>8, <1>9, <1>11, Zenon DEF Requests, Without
  <2>4. QED
        BY <2>1, <2>2, <2>3, Zenon DEF Requests
<1>14. Made'
      BY <1>0, <1>1, <1>7, <1>10, <1>11 DEF Made
<1>15. Chosen(ch, m)
      BY <1>1, <1>2, <1>4, <1>5, <1>6, <1>7, Zenon DEF Chosen, m, f
<1>16. QED
      BY <1>11, <1>12, <1>13, <1>14, <1>15, Zenon DEF BaseInv, m

\* The client makes a state, with the channels of the pair or without.
Created(ch, hot) ==
    /\ UNCHANGED <<read, tgt, serverVars, cliUp, srvUp>>
    /\ cliUp[ch] /\ down[ch] # <<>> /\ down' = [down EXCEPT ![ch] = Tail(down[ch])]
    /\ Head(down[ch]).t = "connect" /\ Head(down[ch]) \in Frames(down[ch])
    /\ Without(down'[ch], "connect")
    /\ rev = NoCh /\ rev' = ch /\ rc[ch].stage = "none" /\ rc' = [rc EXCEPT ![ch] = rc'[ch]]
    /\ rc'[ch].sendCh = (IF hot THEN Pair.up ELSE NoCh) /\ rc'[ch].conn = "none"
    /\ hot => entry /\ ch = Pair.down /\ up' = up
    /\ ~hot => up' = Put(up, OpenAt(cliUp), <<[t |-> "selectUplink", ch |-> ch]>>)
    /\ Dialled' = Dialled \cup {ch}

LEMMA CreationSteps ==
    ASSUME BaseInv, NEW ch \in Channels, Creates(ch)
    PROVE  BaseInv' /\ \E hot \in BOOLEAN : Created(ch, hot)
<1>0. /\ ServerTypes /\ ClientTypes /\ WireTypes /\ Requests /\ Made
      BY Typed, Zenon DEF BaseInv
<1>1. PICK known \in PairKnown :
         LET hot == entry /\ known /\ ch = Pair.down
         IN  /\ rev' = ch
             /\ rc' = [rc EXCEPT ![ch] = Fresh("dial", IF hot THEN Pair.up ELSE NoCh)]
             /\ up' = IF hot THEN up
                      ELSE Put(up, OpenAt(cliUp), <<[t |-> "selectUplink", ch |-> ch]>>)
      BY Zenon DEF Creates, HandleReverseTCPConnect
<1> DEFINE hot == entry /\ known /\ ch = Pair.down
           q == Fresh("dial", IF hot THEN Pair.up ELSE NoCh)
           f == [t |-> "selectUplink", ch |-> ch]
<1>2. /\ cliUp[ch] /\ down[ch] # <<>> /\ Head(down[ch]).t = "connect" /\ rev = NoCh
      /\ down' = [down EXCEPT ![ch] = Tail(down[ch])]
      /\ UNCHANGED <<read, tgt, serverVars, cliUp, srvUp>>
      BY Zenon DEF Creates, HandleReverseTCPConnect, Received
<1>3. down[ch] \in Seq(Downlinked) /\ up \in [Channels -> Seq(Uplinked)] /\ rc \in [Channels -> Revs]
      BY <1>0, Zenon DEF WireTypes, ClientTypes
<1>4. Head(down[ch]) \in Frames(down[ch])
      BY <1>2, <1>3, FramesTail, Zenon
<1>5. rc[ch].stage = "none"
      BY <1>0, <1>2, <1>4, Zenon DEF Requests, Without
<1>6. hot \in BOOLEAN /\ (hot => entry /\ ch = Pair.down)
      BY <1>0, Zenon DEF ServerTypes
<1>7. /\ q \in Revs /\ q.sendCh = (IF hot THEN Pair.up ELSE NoCh) /\ q.conn = "none"
      /\ q.stage = "dial"
  <2>1. hot => Pair.up \in Channels
        BY <1>0, <1>6, WiresAssumption, Zenon DEF Made
  <2> HIDE DEF hot
  <2>2. QED
        BY <2>1, Zenon DEF Revs, Fresh
<1>8. /\ rev' = ch /\ rc' = [rc EXCEPT ![ch] = q] /\ (hot => up' = up)
      /\ ~hot => up' = Put(up, OpenAt(cliUp), <<f>>)
      BY <1>1, Zenon
<1>9. f \in Uplinked
      BY Zenon DEF Uplinked
<1> HIDE DEF hot, q, f
<1> HIDE DEF Revs
<1>10. rc' \in [Channels -> Revs] /\ rc'[ch] = q /\ rc' = [rc EXCEPT ![ch] = rc'[ch]]
      BY <1>3, <1>7, <1>8, Zenon
<1>11. \A o \in Channels : o # ch => rc'[o] = rc[o]
      BY <1>3, <1>8, Zenon
<1>12. Dialled' = Dialled \cup {ch}
      BY <1>7, <1>10, <1>11, Zenon DEF Dialled
<1>13. /\ up' \in [Channels -> Seq(Uplinked)]
       /\ \A c \in Channels : Frames(up'[c]) \subseteq Frames(up[c]) \cup {f}
  <2>1. CASE hot
        BY <1>3, <1>8, <2>1, Zenon
  <2>2. CASE ~hot
        BY <1>3, <1>8, <1>9, <2>2, UpPut, ZenonT(30)
  <2>3. QED
        BY <2>1, <2>2, Zenon
<1>14. /\ down' \in [Channels -> Seq(Downlinked)]
       /\ \A c \in Channels : /\ Frames(down'[c]) \subseteq Frames(down[c])
                              /\ c # ch => down'[c] = down[c]
                              /\ Requested(down[c]) => Requested(down'[c])
      BY <1>0, <1>2, DownLost, Zenon DEF WireTypes, Shorter
<1>15. Without(down'[ch], "connect")
  <2>1. down'[ch] = Tail(down[ch]) /\ Requested(down[ch])
        BY <1>0, <1>2, Zenon DEF WireTypes, Requests
  <2>2. \A i \in 1..Len(Tail(down[ch])) : Tail(down[ch])[i].t # "connect"
        BY <1>2, <1>3, <2>1, RequestMoves, Zenon
  <2>3. QED
        BY <2>1, <2>2, Zenon DEF Without, Frames
<1>16. TypeOK'
  <2>1. ServerTypes'
        BY <1>0, <1>2, Zenon DEF ServerTypes, serverVars
  <2>2. ClientTypes'
        BY <1>0, <1>2, <1>8, <1>10, Zenon DEF ClientTypes
  <2>3. WireTypes'
        BY <1>0, <1>2, <1>13, <1>14, Zenon DEF WireTypes
  <2>4. QED
        BY <2>1, <2>2, <2>3, Typed, Zenon
<1>17. Requests'
  <2>1. ~Idle /\ ~Idle'
        BY <1>0, <1>2, Zenon DEF Requests, Idle, serverVars
  <2>2. ASSUME NEW c \in Channels, rc'[c].stage # "none" PROVE Without(down'[c], "connect")
        BY <1>0, <1>11, <1>14, <1>15, <2>2, Zenon DEF Requests
  <2>3. QED
        BY <1>0, <1>14, <2>1, <2>2, Zenon DEF Requests
<1>18. Made'
  <2>1. \A o \in Channels : rc[o].stage # "none" => rc'[o].stage # "none"
        BY <1>5, <1>11, Zenon
  <2>2. rc'[ch].stage # "none"
        BY <1>7, <1>10, Zenon
  <2>3. ASSUME NEW c \in Channels, NEW g \in Frames(up'[c]), g.t = "selectUplink"
        PROVE  rc'[g.ch].stage # "none"
    <3>1. CASE g = f
          BY <2>2, <3>1, Zenon DEF f
    <3>2. CASE g \in Frames(up[c])
      <4>1. g \in Uplinked
            BY <1>3, <3>2, FrameAt DEF Frames
      <4>2. g.ch \in Channels
            BY <2>3, <4>1, Zenon DEF Uplinked
      <4>3. QED
            BY <1>0, <2>1, <2>3, <3>2, <4>2, Zenon DEF Made
    <3>3. QED
          BY <1>13, <3>1, <3>2, Zenon
  <2>4. /\ entry' = entry /\ rv' = rv /\ read' = read /\ tgt' = tgt
        BY <1>2, Zenon DEF serverVars
  <2>5. \A o \in Channels : rc'[o].stage = "none" =>
            rc'[o].conn = "none" /\ rc'[o].sendCh = NoCh /\ read'[o] = 0 /\ tgt'[o] = <<>>
        BY <1>0, <1>11, <2>2, <2>4, ZenonT(30) DEF Made
  <2>6. QED
        BY <1>0, <1>8, <2>2, <2>3, <2>4, <2>5, Zenon DEF Made
<1>19. Created(ch, hot)
      BY <1>2, <1>4, <1>5, <1>6, <1>7, <1>8, <1>10, <1>12, <1>15, Zenon DEF Created, f
<1>20. QED
      BY <1>6, <1>16, <1>17, <1>18, <1>19, Zenon DEF BaseInv

\* The client learns the channel it has to send on, or knows one already.
Learnt(ch, m) ==
    /\ UNCHANGED <<rev, read, tgt, serverVars, up, cliUp, srvUp>>
    /\ down[ch] # <<>> /\ down' = [down EXCEPT ![ch] = Tail(down[ch])]
    /\ m = Head(down[ch]) /\ m \in Frames(down[ch])
    /\ m.t = "selectDownlink" /\ m.ch \in Channels
    /\ \/ rc' = rc
       \/ /\ rev = ch /\ rc[ch].stage # "none" /\ rc[ch].sendCh = NoCh
          /\ rc' = [rc EXCEPT ![ch] = [rc[ch] EXCEPT !.sendCh = m.ch]]
    /\ Dialled' = Dialled

LEMMA LearningSteps ==
    ASSUME BaseInv, NEW ch \in Channels, Learns(ch)
    PROVE  BaseInv' /\ Learnt(ch, Head(down[ch]))
<1> DEFINE m == Head(down[ch])
           q == [rc[ch] EXCEPT !.sendCh = m.ch]
<1>0. /\ ServerTypes /\ ClientTypes /\ WireTypes /\ Requests /\ Made
      BY Typed, Zenon DEF BaseInv
<1>1. /\ down[ch] # <<>> /\ m.t = "selectDownlink" /\ down' = [down EXCEPT ![ch] = Tail(down[ch])]
      /\ rc' = rc \/ (rev = ch /\ rc[ch].sendCh = NoCh /\ rc' = [rc EXCEPT ![ch] = q])
      /\ UNCHANGED <<rev, read, tgt, serverVars, up, cliUp, srvUp>>
      BY Zenon DEF Learns, HandleSelectDownlink, Received
<1>2. down[ch] \in Seq(Downlinked) /\ rc \in [Channels -> Revs] /\ rc[ch] \in Revs
      BY <1>0, Zenon DEF WireTypes, ClientTypes
<1>3. m \in Downlinked /\ m \in Frames(down[ch])
      BY <1>1, <1>2, FramesTail, Zenon
<1>4. m.ch \in Channels
      BY <1>1, <1>3, Zenon DEF Downlinked
<1> HIDE DEF m
<1>5. q \in Revs /\ q.stage = rc[ch].stage /\ q.conn = rc[ch].conn
      BY <1>2, <1>4, Zenon DEF Revs
<1>6. rev = ch => rc[ch].stage # "none"
      BY <1>0, WiresAssumption, Zenon DEF Made
<1> HIDE DEF q
<1> HIDE DEF Revs
<1>7. /\ rc' \in [Channels -> Revs]
      /\ \A o \in Channels : /\ rc'[o].stage = rc[o].stage /\ rc'[o].conn = rc[o].conn
                             /\ rc[o].stage = "none" => rc'[o] = rc[o]
      BY <1>1, <1>2, <1>5, <1>6, Zenon
<1>8. Dialled' = Dialled
      BY <1>7, Zenon DEF Dialled
<1>9. /\ down' \in [Channels -> Seq(Downlinked)]
      /\ \A c \in Channels : /\ Frames(down'[c]) \subseteq Frames(down[c])
                             /\ Requested(down[c]) => Requested(down'[c])
                             /\ down[c] = <<>> => down'[c] = <<>>
      BY <1>0, <1>1, DownLost, Zenon DEF WireTypes, Shorter
<1>10. TypeOK'
  <2>1. ServerTypes'
        BY <1>0, <1>1, Zenon DEF ServerTypes, serverVars
  <2>2. ClientTypes' /\ WireTypes'
        BY <1>0, <1>1, <1>7, <1>9, Zenon DEF ClientTypes, WireTypes
  <2>3. QED
        BY <2>1, <2>2, Typed, Zenon
<1>11. Requests'
      BY <1>0, <1>1, <1>7, <1>8, <1>9, Zenon DEF Requests, Without, Idle, serverVars
<1>12. Made'
  <2>1. ASSUME NEW c \in Channels, NEW g \in Frames(up[c]), g.t = "selectUplink"
        PROVE  rc'[g.ch].stage # "none"
    <3>1. g \in Uplinked
          BY <1>0, FrameAt DEF Frames, WireTypes
    <3>2. g.ch \in Channels
          BY <2>1, <3>1, Zenon DEF Uplinked
    <3>3. QED
          BY <1>0, <1>7, <2>1, <3>2, Zenon DEF Made
  <2>2. rev' # NoCh => rc'[rev'].stage # "none"
        BY <1>0, <1>1, <1>7, Zenon DEF Made, ClientTypes
  <2>3. QED
        BY <1>0, <1>1, <1>7, <2>1, <2>2 DEF Made, serverVars
<1>13. Learnt(ch, m)
      BY <1>1, <1>3, <1>4, <1>6, <1>8, Zenon DEF Learnt, m, q
<1>14. QED
      BY <1>10, <1>11, <1>12, <1>13, Zenon DEF BaseInv, m

\* Before the dial.
LEMMA BaseInitial == Init => BaseInv
<1> SUFFICES ASSUME Init PROVE BaseInv
    BY Zenon
<1>1. /\ \A c \in Channels : up[c] = <<>> /\ down[c] = <<>> /\ rc[c] = Fresh("none", NoCh)
      /\ \A c \in Channels : read[c] = 0 /\ tgt[c] = <<>>
      BY Zenon DEF Init, WiresInit
<1>2. TypeOK
  <2>1. rv \in Conns /\ 0 \in 0..MaxDown /\ 0 \in 0..MaxUp
        BY WiresAssumption DEF Init, Conns
  <2>4. ServerTypes
    <3>1. got \in [Channels -> Seq(1..MaxUp)]
          BY DEF Init
    <3>2. QED
          BY <2>1, <3>1, Zenon DEF Init, ServerTypes
  <2>5. WireTypes
        BY DEF Init, WiresInit, WireTypes
  <2>2. Fresh("none", NoCh) \in Revs
        BY Zenon DEF Fresh, Revs
  <2>3. ClientTypes
        BY <2>1, <2>2 DEF Init, ClientTypes
  <2>6. QED
        BY <2>3, <2>4, <2>5, Typed, Zenon
<1>3. Requests
      BY <1>1 DEF Init, Requests, Dialled, Fresh, Requested
<1>4. Made
      BY <1>1 DEF Init, Made, Fresh, Frames
<1>5. QED
      BY <1>2, <1>3, <1>4, Zenon DEF BaseInv

-----------------------------------------------------------------------------
\* Routes

\* No choice can be made any more.
Quiet ==
    \A c \in Channels : Without(up[c], "selectUplink") /\ Without(down[c], "connect")

\* A state that knows its channel learnt it from the choice, or has the preset pair,
\* and then no other choice comes; the request of a dial with a pair is on the pair's
\* channel only.
Routed ==
    /\ \A o \in Channels : rc[o].sendCh # NoCh =>
          rv.sendCh = o /\ rv.recvCh = rc[o].sendCh /\ (Decided \/ Quiet)
    /\ \A c \in Channels : \A f \in Frames(down[c]) :
          f.t = "selectDownlink" => Decided /\ rv.sendCh = c /\ rv.recvCh = f.ch
    /\ entry /\ ~Without(down[Pair.down], "connect") =>
          /\ rv.sendCh = Pair.down /\ rv.recvCh = Pair.up
          /\ \A c \in Channels :
                /\ Without(up[c], "selectUplink")
                /\ c # Pair.down => Without(down[c], "connect")

RouteIInv == BaseInv /\ Routed

\* The steps of the server.
LEMMA RoutesServed ==
    ASSUME RouteIInv, NEW ch \in Channels, Served(ch)
    PROVE  Routed'
<1>0. BaseInv /\ Routed /\ Requests /\ Made /\ WireTypes
      BY Typed, Zenon DEF RouteIInv, BaseInv
<1>1. /\ Sent /\ Arrives(ch) /\ Keeps(rv, rv') /\ rc' = rc
      /\ entry' # entry => Idle
      BY Zenon DEF Served, clientVars, Idle
<1>2. /\ rv'.sendCh = rv.sendCh /\ rv'.recvCh = rv.recvCh /\ Decided' = Decided
      BY <1>1, Zenon DEF Keeps, Decided
<1>3. \A c \in Channels :
         /\ Idle => down'[c] = <<>>
         /\ \A f \in Frames(down'[c]) : f \in Frames(down[c]) \/ f.t \in {"close", "data"}
      BY <1>0, <1>1, SentFrames, Zenon
<1>4. \A c \in Channels : Frames(up'[c]) \subseteq Frames(up[c])
  <2>1. up' = up \/ Shorter(up, up', ch)
        BY <1>1, Zenon DEF Arrives, Shorter
  <2>2. QED
        BY <1>0, <2>1, UpLost, Zenon DEF WireTypes
<1>5. \A c \in Channels :
         /\ Without(up[c], "selectUplink") => Without(up'[c], "selectUplink")
         /\ Without(down[c], "connect") => Without(down'[c], "connect")
      BY <1>3, <1>4, Zenon DEF Without
<1>6. Quiet => Quiet'
      BY <1>5, Zenon DEF Quiet
<1>7. \A o \in Channels : rc'[o].sendCh # NoCh =>
         rv'.sendCh = o /\ rv'.recvCh = rc'[o].sendCh /\ (Decided' \/ Quiet')
      BY <1>0, <1>1, <1>2, <1>6, Zenon DEF Routed
<1>8. \A c \in Channels : \A f \in Frames(down'[c]) :
         f.t = "selectDownlink" => Decided' /\ rv'.sendCh = c /\ rv'.recvCh = f.ch
      BY <1>0, <1>2, <1>3, Zenon DEF Routed
<1>9. ASSUME entry', ~Without(down'[Pair.down], "connect")
      PROVE  /\ rv'.sendCh = Pair.down /\ rv'.recvCh = Pair.up
             /\ \A c \in Channels :
                   /\ Without(up'[c], "selectUplink")
                   /\ c # Pair.down => Without(down'[c], "connect")
  <2>1. Pair.down \in Channels
    <3>1. entry' => Pair # NoPair
          BY <1>0, Zenon DEF Served, Made
    <3>2. QED
          BY <1>9, <3>1, WiresAssumption, Zenon
  <2>2. ~Idle
        BY <1>3, <1>9, <2>1 DEF Without, Frames
  <2>3. entry /\ ~Without(down[Pair.down], "connect")
        BY <1>1, <1>5, <1>9, <2>1, <2>2, Zenon
  <2>4. QED
        BY <1>0, <1>2, <1>5, <2>3, Zenon DEF Routed
<1>10. QED
      BY <1>7, <1>8, <1>9, Zenon DEF Routed

\* The steps of the client.
LEMMA RoutesActed ==
    ASSUME RouteIInv, NEW ch \in Channels, Acted(ch)
    PROVE  Routed'
<1>0. BaseInv /\ Routed /\ Made /\ WireTypes
      BY Typed, Zenon DEF RouteIInv, BaseInv
<1>1. /\ Answered(ch) /\ Receives(ch) /\ rv' = rv /\ entry' = entry
      /\ \A o \in Channels : rc'[o].sendCh = rc[o].sendCh
      BY Zenon DEF Acted, Kin, serverVars
<1>2. \A c \in Channels : \A f \in Frames(up'[c]) :
         f \in Frames(up[c]) \/ f \in Replies \/ f.t = "data"
      BY <1>0, <1>1, AnsweredFrames, Zenon
<1>3. \A c \in Channels : Frames(down'[c]) \subseteq Frames(down[c])
  <2>1. down' = down \/ Shorter(down, down', ch)
        BY <1>1, Zenon DEF Receives, Shorter
  <2>2. QED
        BY <1>0, <2>1, DownLost, Zenon DEF WireTypes
<1>4. \A c \in Channels :
         /\ Without(up[c], "selectUplink") => Without(up'[c], "selectUplink")
         /\ Without(down[c], "connect") => Without(down'[c], "connect")
      BY <1>2, <1>3, Zenon DEF Without, Replies
<1>5. Decided' = Decided /\ (Quiet => Quiet')
      BY <1>1, <1>4, Zenon DEF Quiet, Decided
<1>6. \A c \in Channels : \A f \in Frames(down'[c]) :
         f.t = "selectDownlink" => Decided' /\ rv'.sendCh = c /\ rv'.recvCh = f.ch
      BY <1>0, <1>1, <1>3, <1>5, Zenon DEF Routed
<1>7. entry => Pair.down \in Channels
      BY <1>0, WiresAssumption, Zenon DEF Made
<1>8. QED
      BY <1>0, <1>1, <1>4, <1>5, <1>6, <1>7, Zenon DEF Routed

\* The request is sent.
LEMMA RoutesAsked ==
    ASSUME RouteIInv, NEW S, Asked(S)
    PROVE  Routed'
<1>0. BaseInv /\ Made
      BY Zenon DEF RouteIInv, BaseInv
<1>1. \A o \in Channels : rc'[o].sendCh = NoCh
      BY <1>0, Zenon DEF Asked, Made, Dialled, clientVars
<1>2. \A c \in Channels :
         /\ up'[c] = <<>> /\ down'[c] = IF c \in S THEN <<[t |-> "connect"]>> ELSE <<>>
      BY Zenon DEF Asked
<1>3. \A c \in Channels :
         /\ Without(up'[c], "selectUplink") /\ Without(down'[c], "selectDownlink")
         /\ c \notin S => Without(down'[c], "connect")
      BY <1>2 DEF Without, Frames
<1>4. entry' => Pair.down \in Channels
      BY <1>0, WiresAssumption, Zenon DEF Made, Asked
<1>5. entry' => S = {Pair.down} \/ Pair.down \notin S
      BY Zenon DEF Asked, OpenAt
<1>6. QED
      BY <1>1, <1>3, <1>4, <1>5, Zenon DEF Routed, Asked, Without

\* The server chooses, which it does once: nobody knows a channel before.
LEMMA RoutesChosen ==
    ASSUME RouteIInv, NEW ch \in Channels, ~Decided, NEW m, Chosen(ch, m)
    PROVE  Routed' /\ \A o \in Channels : rc[o].sendCh = NoCh
<1> DEFINE g == [t |-> "selectDownlink", ch |-> ch]
           S == Below(m.ch)
<1>0. BaseInv /\ Made /\ WireTypes /\ Routed
      BY Typed, Zenon DEF RouteIInv, BaseInv
<1>1. ~Without(up[ch], "selectUplink")
      BY Zenon DEF Chosen, Without
<1>2. \A o \in Channels : rc[o].sendCh = NoCh
      BY <1>0, <1>1, Zenon DEF Routed, Quiet
<1>3. /\ rc' = rc /\ Decided' /\ rv'.sendCh = m.ch /\ rv'.recvCh = ch /\ entry' = entry
      BY WiresAssumption, Zenon DEF Chosen, Decided, clientVars
<1>4. g \in Downlinked /\ \A c \in S : c = m.ch
      BY WiresAssumption, Zenon DEF Downlinked, Below, Chosen
<1>5. down' = Put(down, S, <<g>>) /\ g.ch = ch /\ g.t = "selectDownlink"
      BY Zenon DEF Chosen
<1> HIDE DEF g, S
<1>6. \A c \in Channels :
         /\ down'[c] = IF c \in S THEN down[c] \o <<g>> ELSE down[c]
         /\ Frames(down'[c]) \subseteq Frames(down[c]) \cup {g}
      BY <1>0, <1>4, <1>5, DownPut, Zenon DEF WireTypes
<1>7. \A c \in Channels : c # m.ch => down'[c] = down[c]
      BY <1>4, <1>6, Zenon
<1>8. ASSUME NEW c \in Channels, NEW f \in Frames(down'[c]), f.t = "selectDownlink"
      PROVE  f = g /\ c = m.ch
  <2>1. f \notin Frames(down[c])
        BY <1>0, <1>8, Zenon DEF Routed
  <2>2. QED
        BY <1>6, <1>7, <1>8, <2>1, Zenon
<1>9. entry => Pair.down \in Channels
      BY <1>0, WiresAssumption, Zenon DEF Made
<1>10. entry => Without(down'[Pair.down], "connect")
  <2>1. entry => Without(down[Pair.down], "connect")
        BY <1>0, <1>1, Zenon DEF Routed
  <2>2. QED
        BY <1>5, <1>6, <1>9, <2>1, Zenon DEF Without
<1>11. QED
      BY <1>2, <1>3, <1>5, <1>8, <1>10, Zenon DEF Routed

\* The client makes a state.
LEMMA RoutesCreated ==
    ASSUME RouteIInv, NEW ch \in Channels, NEW hot \in BOOLEAN, Created(ch, hot)
    PROVE  Routed'
<1>0. BaseInv /\ Made /\ ClientTypes /\ WireTypes /\ Routed
      BY Typed, Zenon DEF RouteIInv, BaseInv
<1>1. /\ rv' = rv /\ entry' = entry /\ ~Without(down[ch], "connect")
      /\ Without(down'[ch], "connect")
      /\ rc[ch].sendCh = NoCh /\ Decided' = Decided
      BY <1>0, Zenon DEF Created, serverVars, Without, Made, Decided
<1>2. \A o \in Channels : o # ch => rc'[o] = rc[o]
      BY <1>0, Zenon DEF Created, ClientTypes
<1>3. \A c \in Channels : /\ Frames(down'[c]) \subseteq Frames(down[c])
                          /\ c # ch => down'[c] = down[c]
  <2>1. Shorter(down, down', ch)
        BY Zenon DEF Created, Shorter
  <2>2. QED
        BY <1>0, <2>1, DownLost, Zenon DEF WireTypes
<1>4. \A c \in Channels : \A f \in Frames(down'[c]) :
         f.t = "selectDownlink" => Decided' /\ rv'.sendCh = c /\ rv'.recvCh = f.ch
      BY <1>0, <1>1, <1>3, Zenon DEF Routed
<1>5. \A o \in Channels : o # ch /\ rc'[o].sendCh # NoCh =>
         rv'.sendCh = o /\ rv'.recvCh = rc'[o].sendCh /\ Decided'
      BY <1>0, <1>1, <1>2 DEF Routed, Quiet
<1>6. entry' => Pair.down \in Channels
      BY <1>0, <1>1, WiresAssumption, Zenon DEF Made
<1>7. entry' => Without(down'[Pair.down], "connect")
  <2>1. CASE ch = Pair.down
        BY <1>1, <2>1, Zenon
  <2>2. CASE ch # Pair.down
        BY <1>0, <1>1, <1>3, <1>6, <2>2, Zenon DEF Routed
  <2>3. QED
        BY <2>1, <2>2, Zenon
<1>8. CASE ~hot
  <2>1. rc'[ch].sendCh = NoCh
        BY <1>8, Zenon DEF Created
  <2>2. QED
        BY <1>4, <1>5, <1>7, <2>1, Zenon DEF Routed
<1>9. CASE hot
  <2>1. entry /\ ch = Pair.down /\ up' = up /\ rc'[ch].sendCh = Pair.up
        BY <1>9, Zenon DEF Created
  <2>2. /\ rv.sendCh = Pair.down /\ rv.recvCh = Pair.up
        /\ \A c \in Channels :
              /\ Without(up[c], "selectUplink")
              /\ c # Pair.down => Without(down[c], "connect")
        BY <1>0, <1>1, <2>1, Zenon DEF Routed
  <2>3. Quiet'
        BY <1>1, <1>3, <2>1, <2>2, Zenon DEF Quiet
  <2>4. QED
        BY <1>1, <1>4, <1>5, <1>7, <2>1, <2>2, <2>3, Zenon DEF Routed
<1>10. QED
      BY <1>8, <1>9, Zenon

\* The client learns its channel: the one the server takes data from.
LEMMA RoutesLearnt ==
    ASSUME RouteIInv, NEW ch \in Channels, NEW m, Learnt(ch, m)
    PROVE  Routed'
<1>0. BaseInv /\ Made /\ ClientTypes /\ WireTypes /\ Routed
      BY Typed, Zenon DEF RouteIInv, BaseInv
<1>1. /\ rv' = rv /\ entry' = entry /\ up' = up /\ Decided' = Decided
      BY Zenon DEF Learnt, serverVars, Decided
<1>2. Decided /\ rv.sendCh = ch /\ rv.recvCh = m.ch
      BY <1>0, Zenon DEF Learnt, Routed
<1>3. \A c \in Channels : Frames(down'[c]) \subseteq Frames(down[c])
  <2>1. Shorter(down, down', ch)
        BY Zenon DEF Learnt, Shorter
  <2>2. QED
        BY <1>0, <2>1, DownLost, Zenon DEF WireTypes
<1>4. \A o \in Channels : rc'[o].sendCh # NoCh =>
         rc'[o].sendCh = rc[o].sendCh \/ (o = ch /\ rc'[o].sendCh = m.ch)
  <2>1. rc \in [Channels -> Revs] /\ \A o \in Channels : rc[o] \in Revs
        BY <1>0, Zenon DEF ClientTypes
  <2>2. QED
        BY <2>1, Zenon DEF Learnt, Revs
<1>5. \A o \in Channels : rc'[o].sendCh # NoCh =>
         rv'.sendCh = o /\ rv'.recvCh = rc'[o].sendCh /\ Decided'
      BY <1>0, <1>1, <1>2, <1>4, Zenon DEF Routed
<1>6. \A c \in Channels : \A f \in Frames(down'[c]) :
         f.t = "selectDownlink" => Decided' /\ rv'.sendCh = c /\ rv'.recvCh = f.ch
      BY <1>0, <1>1, <1>3, Zenon DEF Routed
<1>7. \A c \in Channels : Without(down[c], "connect") => Without(down'[c], "connect")
      BY <1>3, Zenon DEF Without
<1>8. entry' => Pair.down \in Channels
      BY <1>0, <1>1, WiresAssumption, Zenon DEF Made
<1>9. QED
      BY <1>0, <1>1, <1>5, <1>6, <1>7, <1>8, Zenon DEF Routed

\* The invariant of the routes, and what it says of every step.
LEMMA RouteInitial == Init => RouteIInv
<1> SUFFICES ASSUME Init PROVE RouteIInv
    BY Zenon
<1>1. BaseInv
      BY BaseInitial, Zenon
<1>2. /\ \A c \in Channels : down[c] = <<>> /\ rc[c].sendCh = NoCh
      /\ ~entry
      BY Zenon DEF Init, WiresInit, Fresh
<1>3. Routed
      BY <1>2 DEF Routed, Frames
<1>4. QED
      BY <1>1, <1>3, Zenon DEF RouteIInv

LEMMA RouteStep ==
    ASSUME RouteIInv, [Next]_vars
    PROVE  RouteIInv'
<1>0. BaseInv
      BY Zenon DEF RouteIInv
<1>1. CASE UNCHANGED vars
  <2> USE DEF vars, serverVars, clientVars, wires
  <2>1. TypeOK' <=> TypeOK
        BY <1>1 DEF TypeOK
  <2>2. (Requests' <=> Requests) /\ (Made' <=> Made)
        BY <1>1, Zenon DEF Requests, Made, Idle, Dialled
  <2>3. Routed' <=> Routed
        BY <1>1, Zenon DEF Routed, Decided, Quiet
  <2>4. QED
        BY <2>1, <2>2, <2>3, Zenon DEF RouteIInv, BaseInv
<1>2. CASE DialSend
      BY <1>0, <1>2, DialSteps, RoutesAsked, Zenon DEF RouteIInv
<1>3. ASSUME NEW ch \in Channels,
             Serves(ch) \/ Chooses(ch) \/ Acts(ch) \/ Creates(ch) \/ Learns(ch)
      PROVE  RouteIInv'
  <2>1. CASE Serves(ch)
        BY <1>0, <2>1, ServerSteps, BaseServed, RoutesServed, Zenon DEF RouteIInv
  <2>2. CASE Chooses(ch)
        BY <1>0, <2>2, ChoiceSteps, RoutesChosen, Zenon DEF RouteIInv, Chooses
  <2>3. CASE Acts(ch)
        BY <1>0, <2>3, ClientSteps, BaseActed, RoutesActed, Zenon DEF RouteIInv
  <2>4. CASE Creates(ch)
        BY <1>0, <2>4, CreationSteps, RoutesCreated, Zenon DEF RouteIInv
  <2>5. CASE Learns(ch)
        BY <1>0, <2>5, LearningSteps, RoutesLearnt, Zenon DEF RouteIInv
  <2>6. QED
        BY <1>3, <2>1, <2>2, <2>3, <2>4, <2>5, Zenon
<1>4. QED
      BY <1>1, <1>2, <1>3, NextCases, Zenon

\* The two ends agree on both directions of a reverse connection.
THEOREM ReverseRoutesAgree == Spec => []ReverseRoutes
<1>1. Init => RouteIInv
      BY RouteInitial, Zenon
<1>2. RouteIInv /\ [Next]_vars => RouteIInv'
      BY RouteStep, Zenon
<1>3. RouteIInv => ReverseRoutes
      BY Zenon DEF RouteIInv, Routed, ReverseRoutes
<1>4. QED
      BY <1>1, <1>2, <1>3, PTL DEF Spec

=============================================================================
