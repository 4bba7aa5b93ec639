------------------------ MODULE ReverseStream_proofs ------------------------
(***************************************************************************)
(* The payloads of a connection of the reverse mode, for any channels, any *)
(* Hot Pair, any number of payloads and any failures: the listener's side  *)
(* receives a prefix of what each target sends, and a target the payloads  *)
(* of the listener's side in order.                                        *)
(***************************************************************************)
EXTENDS ReverseDial_proofs

-----------------------------------------------------------------------------
\* The stream from a target

\* The payloads of D among the frames s are those after a, up to b unless the sender's
\* end of the channel has failed.
Carry(s, a, b, D, alive) == \E m \in a..b : Whole(s, D, a, m) /\ (alive => m = b)

\* Frames are put on a channel or taken from it, and payloads are produced.
LEMMA CarryMoves ==
    ASSUME NEW F, NEW s \in Seq(F), NEW a \in Nat, NEW b \in Nat, NEW D, NEW alive \in BOOLEAN,
           Carry(s, a, b, D, alive)
    PROVE  /\ \A live \in BOOLEAN : (live => alive) => Carry(s, a, b, D, live)
           /\ ~alive => Carry(s, a, b + 1, D, alive)
           /\ \A f \in F : f \notin D => Carry(s \o <<f>>, a, b, D, alive)
           /\ s # <<>> /\ Head(s) \notin D => Carry(Tail(s), a, b, D, alive)
           /\ s # <<>> /\ Head(s) \in D =>
                 Head(s).n = a + 1 /\ a + 1 <= b /\ Carry(Tail(s), a + 1, b, D, alive)
<1>1. PICK m \in a..b : Whole(s, D, a, m) /\ (alive => m = b)
      BY Zenon DEF Carry
<1>2. /\ \A live \in BOOLEAN : (live => alive) => Carry(s, a, b, D, live)
      /\ ~alive => Carry(s, a, b + 1, D, alive)
      BY <1>1 DEF Carry
<1>3. ASSUME NEW f \in F, f \notin D PROVE Carry(s \o <<f>>, a, b, D, alive)
  <2> DEFINE t == <<f>>
  <2>1. t \in Seq(F) /\ \A i \in 1..Len(t) : t[i] \notin D
        BY <1>3
  <2> HIDE DEF t
  <2>2. Whole(s \o t, D, a, m)
        BY <1>1, <2>1, OthersPut, Zenon
  <2>3. QED
        BY <1>1, <2>2, Zenon DEF Carry, t
<1>4. ASSUME s # <<>>, Head(s) \notin D PROVE Carry(Tail(s), a, b, D, alive)
      BY <1>1, <1>4, Taken, Zenon DEF Carry
<1>5. ASSUME s # <<>>, Head(s) \in D
      PROVE  Head(s).n = a + 1 /\ a + 1 <= b /\ Carry(Tail(s), a + 1, b, D, alive)
  <2>0. m \in Int /\ Rising(s, D, a, m)
        BY <1>1 DEF Whole
  <2>1. Head(s).n = a + 1 /\ Whole(Tail(s), D, a + 1, m)
        BY <1>1, <1>5, <2>0, NextTaken
  <2>2. Head(s).n <= m
        BY <1>5, <2>0, NextTaken
  <2>3. a + 1 <= b /\ m \in (a + 1)..b
        BY <2>1, <2>2
  <2>4. QED
        BY <1>1, <2>1, <2>3, Zenon DEF Carry
<1>6. QED
      BY <1>2, <1>3, <1>4, <1>5, Zenon

\* The next payload is put on a channel.
LEMMA CarryNext ==
    ASSUME NEW F, NEW s \in Seq(F), NEW a \in Nat, NEW b \in Nat, NEW D,
           Carry(s, a, b, D, TRUE), NEW f \in F, f \in D, f.n = b + 1
    PROVE  Carry(s \o <<f>>, a, b + 1, D, TRUE)
<1>1. Whole(s, D, a, b) /\ a <= b
      BY DEF Carry
<1>2. Whole(s \o <<f>>, D, a, b + 1)
      BY <1>1, NextPut
<1>3. QED
      BY <1>1, <1>2 DEF Carry

\* Before a payload there is an announcement.
Prompts(s) ==
    \A i \in 1..Len(s) : s[i].t = "data" => \E j \in 1..Len(s) : j < i /\ s[j].t = "selectUplink"

LEMMA PromptMoves ==
    ASSUME NEW F, NEW s \in Seq(F), Prompts(s)
    PROVE  /\ \A f \in F : f.t # "data" \/ ~Without(s, "selectUplink") => Prompts(s \o <<f>>)
           /\ s # <<>> => Head(s).t # "data"
           /\ s # <<>> /\ Head(s).t # "selectUplink" =>
                 /\ Prompts(Tail(s))
                 /\ ~Without(s, "selectUplink") => ~Without(Tail(s), "selectUplink")
<1>1. ASSUME NEW f \in F, f.t # "data" \/ ~Without(s, "selectUplink") PROVE Prompts(s \o <<f>>)
  <2> DEFINE e == s \o <<f>>
             k == Len(s) + 1
  <2>1. /\ e \in Seq(F) /\ k \in 1..Len(e) /\ e[k] = f
        /\ \A i \in 1..Len(e) : i = k \/ (i \in 1..Len(s) /\ e[i] = s[i])
        /\ \A i \in 1..Len(s) : i \in 1..Len(e) /\ e[i] = s[i] /\ i < k
        OBVIOUS
  <2> HIDE DEF e, k
  <2>2. ASSUME NEW i \in 1..Len(e), e[i].t = "data"
        PROVE  \E j \in 1..Len(e) : j < i /\ e[j].t = "selectUplink"
    <3>1. CASE i = k
      <4>1. PICK j \in 1..Len(s) : s[j].t = "selectUplink"
            BY <1>1, <2>1, <2>2, <3>1, Zenon DEF Without, Frames
      <4>2. QED
            BY <2>1, <3>1, <4>1, Zenon
    <3>2. CASE i # k
      <4>1. PICK j \in 1..Len(s) : j < i /\ s[j].t = "selectUplink"
            BY <2>1, <2>2, <3>2, Zenon DEF Prompts
      <4>2. QED
            BY <2>1, <4>1, Zenon
    <3>3. QED
          BY <3>1, <3>2, Zenon
  <2>3. QED
        BY <2>2, Zenon DEF Prompts, e
<1>2. ASSUME s # <<>> PROVE Head(s).t # "data"
  <2>1. Head(s) = s[1] /\ 1 \in 1..Len(s) /\ \A j \in 1..Len(s) : ~(j < 1)
        BY <1>2, Rest
  <2>2. QED
        BY <2>1, Zenon DEF Prompts
<1>3. ASSUME s # <<>>, Head(s).t # "selectUplink"
      PROVE  /\ Prompts(Tail(s))
             /\ ~Without(s, "selectUplink") => ~Without(Tail(s), "selectUplink")
  <2> DEFINE t == Tail(s)
  <2>1. /\ Head(s) = s[1]
        /\ \A i \in 1..Len(t) : i + 1 \in 1..Len(s) /\ t[i] = s[i + 1]
        /\ \A i \in 1..Len(s) : i # 1 => i - 1 \in 1..Len(t) /\ t[i - 1] = s[i]
        BY <1>3, Rest, Zenon
  <2> HIDE DEF t
  <2>2. ASSUME NEW i \in 1..Len(t), t[i].t = "data"
        PROVE  \E j \in 1..Len(t) : j < i /\ t[j].t = "selectUplink"
    <3>1. PICK j \in 1..Len(s) : j < i + 1 /\ s[j].t = "selectUplink"
          BY <2>1, <2>2, Zenon DEF Prompts
    <3>2. j # 1 /\ j - 1 \in 1..Len(t) /\ t[j - 1].t = "selectUplink" /\ j - 1 < i
          BY <1>3, <2>1, <3>1
    <3>3. QED
          BY <3>2, Zenon
  <2>3. ASSUME NEW i \in 1..Len(s), s[i].t = "selectUplink"
        PROVE  i - 1 \in 1..Len(t) /\ t[i - 1].t = "selectUplink"
        BY <1>3, <2>1, <2>3, Zenon
  <2>4. QED
        BY <2>2, <2>3 DEF Prompts, Without, Frames, t
<1>4. QED
      BY <1>1, <1>2, <1>3, Zenon

\* The payloads of target o.
FromData(o) == [t : {"data"}, o : {o}, n : 1..MaxUp]

LEMMA FromDataIs ==
    ASSUME NEW f \in Uplinked, NEW o \in Channels
    PROVE  /\ f \in FromData(o) <=> f.t = "data" /\ f.o = o
           /\ f.t = "data" => f.o \in Channels
BY Zenon DEF Uplinked, FromData

\* Channel c carries what target o produced and the listener's side did not get yet.
Carried(c, o) == Carry(up[c], Len(got[o]), read[o], FromData(o), cliUp[c])

\* Neither end knows a channel for certain.
Undecided == ~Decided /\ \A o \in Channels : rc[o].sendCh = NoCh

\* On c an announcement comes before every payload.
Prompted(c) ==
    /\ Prompts(up[c])
    /\ cliUp[c] /\ Dialled # {} => ~Without(up[c], "selectUplink")

\* What arrived is what the target produced, from the first payload on.
InOrder ==
    \A o \in Channels :
        Len(got[o]) <= read[o] /\ \A i \in 1..Len(got[o]) : got[o][i] = i

\* The channel that the server takes data from, or will, carries what is missing; as
\* long as it may be any channel, the choice is made before a payload is reached.
Carrying ==
    rv.reg => \A c \in Channels : srvUp[c] /\ (rv.recvCh = c \/ Undecided) =>
                 \A o \in Channels : Carried(c, o)
Prompt == rv.reg /\ Undecided => \A c \in Channels : srvUp[c] => Prompted(c)

StreamInv == InOrder /\ Carrying /\ Prompt
StreamIInv == RouteIInv /\ StreamInv

\* What a step does to the stream of a target.
Produced(o) == read' = [read EXCEPT ![o] = read[o] + 1] /\ got' = got
Delivered(o) ==
    /\ read' = read /\ Len(got[o]) + 1 <= read[o]
    /\ got' = [got EXCEPT ![o] = Append(got[o], Len(got[o]) + 1)]

\* A frame that is no payload is put on channel c, or taken from it.
Passed(c) ==
    /\ cliUp'[c] => cliUp[c]
    /\ \/ up'[c] = up[c]
       \/ \E f \in Uplinked : f.t # "data" /\ up'[c] = up[c] \o <<f>>
       \/ up[c] # <<>> /\ Head(up[c]).t # "data" /\ up'[c] = Tail(up[c])

\* What the stream lemmas use of the types.
LEMMA StreamTypes ==
    ASSUME BaseInv
    PROVE  /\ up \in [Channels -> Seq(Uplinked)]
           /\ \A c \in Channels : up[c] \in Seq(Uplinked) /\ cliUp[c] \in BOOLEAN
           /\ got \in [Channels -> Seq(1..MaxUp)] /\ read \in [Channels -> 0..MaxUp] /\ MaxUp \in Nat
           /\ \A o \in Channels : /\ got[o] \in Seq(1..MaxUp) /\ Len(got[o]) \in Nat
                                  /\ read[o] \in Nat
<1>1. ServerTypes /\ ClientTypes /\ WireTypes /\ MaxUp \in Nat
      BY Typed, WiresAssumption, Zenon DEF BaseInv
<1>2. /\ up \in [Channels -> Seq(Uplinked)] /\ cliUp \in [Channels -> BOOLEAN]
      /\ got \in [Channels -> Seq(1..MaxUp)] /\ read \in [Channels -> 0..MaxUp]
      BY <1>1, Zenon DEF ServerTypes, ClientTypes, WireTypes
<1>3. QED
      BY <1>1, <1>2

\* A queue is longer than its tail.
LEMMA TailDiffers ==
    ASSUME NEW F, NEW s \in Seq(F), s # <<>>
    PROVE  s # Tail(s) /\ \A f \in F : s \o <<f>> # Tail(s)
<1>1. /\ Len(s) \in Nat /\ Len(Tail(s)) = Len(s) - 1
      /\ \A f \in F : Len(s \o <<f>>) = Len(s) + 1
      OBVIOUS
<1>2. ASSUME NEW e, Len(e) \in {Len(s), Len(s) + 1} PROVE e # Tail(s)
      BY <1>1, <1>2
<1>3. s # Tail(s)
      BY <1>2
<1>4. ASSUME NEW f \in F PROVE s \o <<f>> # Tail(s)
  <2> DEFINE e == s \o <<f>>
  <2>1. Len(e) = Len(s) + 1
        BY <1>1, Zenon
  <2> HIDE DEF e
  <2>2. e # Tail(s)
        BY <1>2, <2>1
  <2>3. QED
        BY <2>2, Zenon DEF e
<1>5. QED
      BY <1>3, <1>4, Zenon

\* Then it carries what it did.
LEMMA CarriedOn ==
    ASSUME BaseInv, BaseInv', NEW c \in Channels, NEW o \in Channels, Carried(c, o), Passed(c),
           got'[o] = got[o], read'[o] = read[o]
    PROVE  Carried(c, o)'
<1> DEFINE D == FromData(o)
           s == up[c]
           a == Len(got[o])
           b == read[o]
           live == cliUp'[c]
<1>1. /\ s \in Seq(Uplinked) /\ a \in Nat /\ b \in Nat /\ cliUp[c] \in BOOLEAN
      BY StreamTypes, Zenon
<1>2. live \in BOOLEAN /\ (live => cliUp[c])
  <2>1. WireTypes'
        BY Typed, Zenon DEF BaseInv
  <2>2. QED
        BY <2>1, Zenon DEF WireTypes, Passed
<1>3. \A f \in Uplinked : f.t # "data" => f \notin D
      BY FromDataIs, Zenon
<1>4. s # <<>> => Head(s) \in Uplinked
      BY <1>1
<1>5. Carry(s, a, b, D, cliUp[c])
      BY Zenon DEF Carried
<1>6. \/ up'[c] = s
      \/ \E f \in Uplinked : f.t # "data" /\ up'[c] = s \o <<f>>
      \/ s # <<>> /\ Head(s).t # "data" /\ up'[c] = Tail(s)
      BY Zenon DEF Passed
<1> HIDE DEF D, s, a, b, live
<1>7. Carry(s, a, b, D, live)
      BY <1>1, <1>2, <1>5, CarryMoves
<1>8. Carry(up'[c], a, b, D, live)
  <2>1. ASSUME NEW f \in Uplinked, f.t # "data" PROVE Carry(s \o <<f>>, a, b, D, live)
        BY <1>1, <1>2, <1>3, <1>7, <2>1, CarryMoves, SMTT(30)
  <2>2. ASSUME s # <<>>, Head(s).t # "data" PROVE Carry(Tail(s), a, b, D, live)
    <3>1. Head(s) \notin D
          BY <1>3, <1>4, <2>2, Zenon
    <3>2. QED
          BY <1>1, <1>2, <1>7, <2>2, <3>1, CarryMoves, SMTT(30)
  <2>3. QED
        BY <1>6, <1>7, <2>1, <2>2, Zenon
<1>9. QED
      BY <1>8, Zenon DEF Carried, FromData, D, a, b, live

\* And as long as no announcement is taken, the next one still comes first.
LEMMA PromptedOn ==
    ASSUME BaseInv, NEW c \in Channels, Prompted(c), Passed(c), Dialled' = Dialled,
           up[c] # <<>> /\ up'[c] = Tail(up[c]) => Head(up[c]).t # "selectUplink"
    PROVE  Prompted(c)'
<1> DEFINE s == up[c]
<1>1. s \in Seq(Uplinked) /\ Prompts(s)
      BY StreamTypes, Zenon DEF Prompted
<1>2. CASE up'[c] = s
      BY <1>2, Zenon DEF Prompted, Passed
<1>3. ASSUME NEW f \in Uplinked, f.t # "data", up'[c] = s \o <<f>>
      PROVE  Prompted(c)'
  <2>1. Prompts(s \o <<f>>) /\ Frames(s) \subseteq Frames(s \o <<f>>)
        BY <1>1, <1>3, PromptMoves, FramesPut, Zenon
  <2>2. ~Without(s, "selectUplink") => ~Without(s \o <<f>>, "selectUplink")
        BY <2>1, Zenon DEF Without
  <2>3. QED
        BY <1>3, <2>1, <2>2, Zenon DEF Prompted, Passed
<1>4. CASE s # <<>> /\ Head(s).t # "data" /\ up'[c] = Tail(s)
  <2>1. /\ Prompts(Tail(s))
        /\ ~Without(s, "selectUplink") => ~Without(Tail(s), "selectUplink")
        BY <1>1, <1>4, PromptMoves, Zenon
  <2>2. QED
        BY <1>4, <2>1, Zenon DEF Prompted, Passed
<1>5. QED
      BY <1>2, <1>3, <1>4, Zenon DEF Passed

\* A step of the server that takes no payload.
LEMMA StreamPassed ==
    ASSUME StreamIInv, BaseInv', NEW ch \in Channels, Served(ch), got' = got,
           \A c \in Channels : srvUp'[c] =>
               /\ srvUp[c] /\ Passed(c)
               /\ up[c] # <<>> /\ up'[c] = Tail(up[c]) /\ Head(up[c]).t = "selectUplink" =>
                     ~(rv.reg /\ ~Decided)
    PROVE  StreamInv'
<1>0. BaseInv /\ InOrder /\ Carrying /\ Prompt
      BY Zenon DEF StreamIInv, StreamInv, RouteIInv
<1>1. /\ rc' = rc /\ read' = read /\ rv'.recvCh = rv.recvCh /\ (rv'.reg => rv.reg)
      /\ Undecided' = Undecided /\ Dialled' = Dialled
      BY Zenon DEF Served, Keeps, clientVars, Undecided, Decided, Dialled
<1>2. InOrder'
      BY <1>0, <1>1, Zenon DEF InOrder
<1>3. Carrying'
      BY <1>0, <1>1, CarriedOn, Zenon DEF Carrying
<1>4. Prompt'
  <2>1. ASSUME rv.reg, Undecided, NEW c \in Channels, srvUp'[c] PROVE Prompted(c)'
    <3>1. Prompted(c) /\ Passed(c)
          BY <1>0, <2>1, Zenon DEF Prompt
    <3>2. up[c] # <<>> /\ up'[c] = Tail(up[c]) => Head(up[c]).t # "selectUplink"
          BY <2>1, Zenon DEF Undecided
    <3>3. QED
          BY <1>0, <1>1, <3>1, <3>2, PromptedOn, Zenon
  <2>2. QED
        BY <1>1, <2>1, Zenon DEF Prompt
<1>5. QED
      BY <1>2, <1>3, <1>4, Zenon DEF StreamInv

\* The server takes a payload: when it is from the chosen channel it is the next one.
LEMMA StreamTaken ==
    ASSUME StreamIInv, BaseInv', NEW ch \in Channels, Served(ch), HandleData(ch)
    PROVE  /\ StreamInv'
           /\ UNCHANGED <<read, got>> \/ \E o \in Channels : Delivered(o)
<1> DEFINE m == Head(up[ch])
           s == up[ch]
<1>0. BaseInv /\ InOrder /\ Carrying /\ Prompt
      BY Zenon DEF StreamIInv, StreamInv, RouteIInv
<1>1. /\ rc' = rc /\ read' = read /\ rv'.recvCh = rv.recvCh /\ (rv'.reg => rv.reg)
      /\ Undecided' = Undecided
      BY Zenon DEF Served, Keeps, clientVars, Undecided, Decided
<1>2. /\ srvUp[ch] /\ s # <<>> /\ m.t = "data" /\ up' = [up EXCEPT ![ch] = Tail(s)]
      /\ srvUp' = srvUp /\ cliUp' = cliUp
      BY Zenon DEF HandleData, Arrived
<1>3. /\ up \in [Channels -> Seq(Uplinked)] /\ s \in Seq(Uplinked) /\ m \in Uplinked
      /\ up'[ch] = Tail(s) /\ \A c \in Channels : c # ch => up'[c] = up[c]
      BY <1>0, <1>2, StreamTypes
<1> DEFINE o == m.o
<1>4. o \in Channels /\ m \in FromData(o)
      BY <1>2, <1>3, FromDataIs, Zenon
<1>5. ~(rv.reg /\ Undecided)
  <2>1. SUFFICES ASSUME rv.reg, Undecided PROVE FALSE
        BY Zenon
  <2>2. Prompts(s)
        BY <1>0, <1>2, <2>1, Zenon DEF Prompt, Prompted
  <2>3. QED
        BY <1>2, <1>3, <2>2, PromptMoves, Zenon
<1>6. Prompt'
      BY <1>1, <1>5, Zenon DEF Prompt
<1>7. CASE ~(rv.reg /\ rv.recvCh = ch)
  <2>1. got' = got /\ rv' = rv
        BY <1>7, Zenon DEF HandleData
  <2>2. \A c \in Channels : c # ch => Passed(c)
        BY <1>2, <1>3, Zenon DEF Passed
  <2>3. Carrying'
        BY <1>0, <1>1, <1>2, <1>5, <1>7, <2>1, <2>2, CarriedOn, ZenonT(30) DEF Carrying
  <2>4. InOrder'
        BY <1>0, <1>1, <2>1, Zenon DEF InOrder
  <2>5. QED
        BY <1>1, <1>6, <2>1, <2>3, <2>4, Zenon DEF StreamInv
<1>8. CASE rv.reg /\ rv.recvCh = ch /\ ~app
  <2>1. got' = got /\ rv' = Removed(rv)
        BY <1>8, Zenon DEF HandleData
  <2>2. ~rv'.reg
    <3>1. rv \in Conns
          BY <1>0, Typed, Zenon DEF BaseInv, ServerTypes
    <3>2. QED
          BY <2>1, <3>1, ConnKept, Zenon
  <2>3. InOrder'
        BY <1>0, <1>1, <2>1, Zenon DEF InOrder
  <2>4. QED
        BY <1>1, <1>6, <2>1, <2>2, <2>3, Zenon DEF StreamInv, Carrying
<1>9. CASE rv.reg /\ rv.recvCh = ch /\ app
  <2>1. got' = [got EXCEPT ![o] = Append(got[o], m.n)]
        BY <1>9, Zenon DEF HandleData
  <2>2. \A x \in Channels : Carry(s, Len(got[x]), read[x], FromData(x), cliUp[ch])
        BY <1>0, <1>2, <1>9, Zenon DEF Carrying, Carried
  <2>3. /\ got \in [Channels -> Seq(1..MaxUp)] /\ MaxUp \in Nat /\ cliUp[ch] \in BOOLEAN
        /\ \A x \in Channels : /\ got[x] \in Seq(1..MaxUp) /\ Len(got[x]) \in Nat
                               /\ read[x] \in Nat
        BY <1>0, StreamTypes, Zenon
  <2>4. \A x \in Channels : x # o => m \notin FromData(x)
        BY <1>3, FromDataIs, Zenon
  <2> HIDE DEF m, o, s
  <2>5. /\ m.n = Len(got[o]) + 1 /\ Len(got[o]) + 1 <= read[o]
        /\ Carry(Tail(s), Len(got[o]) + 1, read[o], FromData(o), cliUp[ch])
    <3>1. Carry(s, Len(got[o]), read[o], FromData(o), cliUp[ch]) /\ Head(s) = m
          BY <1>4, <2>2, Zenon DEF m, s
    <3>2. QED
          BY <1>2, <1>3, <1>4, <2>3, <3>1, CarryMoves, SMTT(30)
  <2>6. /\ got'[o] = Append(got[o], Len(got[o]) + 1)
        /\ \A x \in Channels : x # o => got'[x] = got[x]
        BY <1>4, <2>1, <2>3, <2>5, Zenon
  <2>7. /\ Len(got'[o]) = Len(got[o]) + 1
        /\ \A i \in 1..Len(got[o]) + 1 :
              got'[o][i] = IF i = Len(got[o]) + 1 THEN i ELSE got[o][i]
    <3>1. got[o] \in Seq(1..MaxUp)
          BY <1>4, <2>3, Zenon
    <3>2. QED
          BY <2>6, <3>1
  <2>8. InOrder'
    <3>1. ASSUME NEW x \in Channels
          PROVE  Len(got'[x]) <= read'[x] /\ \A i \in 1..Len(got'[x]) : got'[x][i] = i
      <4>1. Len(got[x]) <= read[x] /\ \A i \in 1..Len(got[x]) : got[x][i] = i
            BY <1>0, Zenon DEF InOrder
      <4>2. CASE x # o
            BY <1>1, <2>6, <4>1, <4>2, Zenon
      <4>3. CASE x = o
        <5>1. Len(got'[x]) <= read'[x]
              BY <1>1, <2>5, <2>7, <4>3, Zenon
        <5>2. ASSUME NEW i \in 1..Len(got'[x]) PROVE got'[x][i] = i
          <6>1. i \in 1..Len(got[o]) + 1 /\ (i # Len(got[o]) + 1 => i \in 1..Len(got[o]))
                BY <2>3, <2>7, <4>3
          <6>2. QED
                BY <2>7, <4>1, <4>3, <6>1, Zenon
        <5>3. QED
              BY <5>1, <5>2, Zenon
      <4>4. QED
            BY <4>2, <4>3, Zenon
    <3>2. QED
          BY <3>1, Zenon DEF InOrder
  <2>9. ASSUME NEW x \in Channels PROVE Carried(ch, x)'
    <3>1. CASE x = o
          BY <1>2, <1>1, <1>3, <2>5, <2>7, <3>1, ZenonT(30) DEF Carried, FromData
    <3>2. CASE x # o
      <4>1. Carry(Tail(s), Len(got[x]), read[x], FromData(x), cliUp[ch])
        <5>1. Carry(s, Len(got[x]), read[x], FromData(x), cliUp[ch]) /\ Head(s) \notin FromData(x)
              BY <2>2, <2>4, <3>2, Zenon DEF m, s
        <5>2. QED
              BY <1>2, <1>3, <2>3, <5>1, CarryMoves
      <4>2. QED
            BY <1>1, <1>2, <1>3, <2>6, <3>2, <4>1, ZenonT(30) DEF Carried, FromData
    <3>3. QED
          BY <3>1, <3>2, Zenon
  <2>10. Carrying'
        BY <1>1, <1>5, <1>9, <2>9, Zenon DEF Carrying
  <2>11. Delivered(o)
        BY <1>1, <2>1, <2>5, Zenon DEF Delivered
  <2>12. QED
        BY <1>4, <1>6, <2>8, <2>10, <2>11, Zenon DEF StreamInv
<1>10. QED
      BY <1>7, <1>8, <1>9, Zenon

\* The steps of the server.
LEMMA StreamServed ==
    ASSUME StreamIInv, BaseInv', NEW ch \in Channels, Served(ch)
    PROVE  /\ StreamInv'
           /\ UNCHANGED <<read, got>> \/ \E o \in Channels : Delivered(o)
<1>0. BaseInv /\ read' = read /\ cliUp' = cliUp /\ (got' = got \/ HandleData(ch)) /\ Arrives(ch)
      BY Zenon DEF StreamIInv, RouteIInv, Served, clientVars
<1>1. up \in [Channels -> Seq(Uplinked)] /\ up[ch] \in Seq(Uplinked)
      BY <1>0, StreamTypes, Zenon
<1>2. CASE HandleData(ch)
      BY <1>2, StreamTaken, Zenon
<1>3. CASE ~HandleData(ch)
  <2>1. got' = got
        BY <1>0, <1>3, Zenon
  <2>2. CASE UNCHANGED <<up, srvUp>>
    <3>1. \A c \in Channels : up[c] # <<>> => up'[c] # Tail(up[c])
      <4>1. \A c \in Channels : up[c] \in Seq(Uplinked)
            BY <1>1, Zenon
      <4>2. QED
            BY <2>2, <4>1, TailDiffers, Zenon
    <3>2. \A c \in Channels : srvUp'[c] => srvUp[c] /\ Passed(c)
          BY <1>0, <2>2, Zenon DEF Passed
    <3>3. QED
          BY <1>0, <2>1, <3>1, <3>2, StreamPassed, Zenon
  <2>3. CASE srvUp' = [srvUp EXCEPT ![ch] = FALSE] /\ up' = [up EXCEPT ![ch] = <<>>]
    <3>1. /\ \A c \in Channels : c # ch => up'[c] = up[c] /\ (srvUp'[c] => srvUp[c])
          /\ ~srvUp'[ch]
      <4>1. srvUp \in [Channels -> BOOLEAN]
            BY <1>0, Typed, Zenon DEF BaseInv, WireTypes
      <4>2. QED
            BY <1>1, <2>3, <4>1, Zenon
    <3>2. \A c \in Channels : c # ch => (up[c] # <<>> => up'[c] # Tail(up[c]))
      <4>1. \A c \in Channels : up[c] \in Seq(Uplinked)
            BY <1>1, Zenon
      <4>2. QED
            BY <3>1, <4>1, TailDiffers, Zenon
    <3>3. \A c \in Channels : srvUp'[c] => c # ch /\ srvUp[c] /\ Passed(c)
          BY <1>0, <3>1, Zenon DEF Passed
    <3>4. QED
          BY <1>0, <2>1, <3>2, <3>3, StreamPassed, Zenon
  <2>4. CASE /\ srvUp' = srvUp /\ srvUp[ch] /\ up[ch] # <<>> /\ up' = [up EXCEPT ![ch] = Tail(up[ch])]
             /\ Head(up[ch]).t = "data" => HandleData(ch)
             /\ Head(up[ch]).t = "selectUplink" => ~(rv.reg /\ ~Decided)
    <3>1. /\ up'[ch] = Tail(up[ch]) /\ Head(up[ch]).t # "data"
          /\ \A c \in Channels : c # ch => up'[c] = up[c]
          BY <1>1, <1>3, <2>4, Zenon
    <3>2. \A c \in Channels : c # ch => (up[c] # <<>> => up'[c] # Tail(up[c]))
      <4>1. \A c \in Channels : up[c] \in Seq(Uplinked)
            BY <1>1, Zenon
      <4>2. QED
            BY <3>1, <4>1, TailDiffers, Zenon
    <3>3. \A c \in Channels : Passed(c)
          BY <1>0, <2>4, <3>1, Zenon DEF Passed
    <3>4. \A c \in Channels : srvUp'[c] =>
             /\ srvUp[c] /\ Passed(c)
             /\ up[c] # <<>> /\ up'[c] = Tail(up[c]) /\ Head(up[c]).t = "selectUplink" =>
                   ~(rv.reg /\ ~Decided)
          BY <2>4, <3>2, <3>3, Zenon
    <3>5. QED
          BY <1>0, <2>1, <3>4, StreamPassed, Zenon
  <2>5. QED
        BY <1>0, <2>2, <2>3, <2>4, Zenon DEF Arrives
<1>4. QED
      BY <1>2, <1>3, Zenon

\* A target is read: while no channel is known the payload goes where all went before.
LEMMA StreamRead ==
    ASSUME StreamIInv, BaseInv', NEW ch \in Channels, PumpRead(ch)
    PROVE  StreamInv' /\ Produced(ch)
<1> DEFINE f == [t |-> "data", o |-> ch, n |-> read[ch] + 1]
           S == Above(rc[ch].sendCh)
<1>0. BaseInv /\ Routed /\ InOrder /\ Carrying /\ Prompt /\ Made
      BY Zenon DEF StreamIInv, StreamInv, RouteIInv, BaseInv
<1>1. /\ rc[ch].stage = "pump" /\ read[ch] < MaxUp
      /\ read' = [read EXCEPT ![ch] = read[ch] + 1] /\ up' = Put(up, S, <<f>>)
      /\ UNCHANGED <<rv, got, rc, cliUp, srvUp>>
      BY Zenon DEF PumpRead, serverVars
<1>2. /\ up \in [Channels -> Seq(Uplinked)] /\ read \in [Channels -> 0..MaxUp] /\ MaxUp \in Nat
      /\ \A c \in Channels : up[c] \in Seq(Uplinked) /\ cliUp[c] \in BOOLEAN
      /\ \A o \in Channels : Len(got[o]) \in Nat /\ read[o] \in Nat
      BY <1>0, StreamTypes, Zenon
<1>3. f \in Uplinked /\ f.t = "data" /\ f.o = ch /\ f.n = read[ch] + 1
      BY <1>1, <1>2 DEF Uplinked
<1>4. \A o \in Channels : f \in FromData(o) <=> o = ch
      BY <1>3, FromDataIs, Zenon
<1>5. \A c \in S : c \in Channels /\ cliUp[c]
      BY Zenon DEF Above, OpenAt
<1>6. \A c \in Channels : cliUp[c] /\ (rv.recvCh = c \/ Undecided) => c \in S
  <2>1. rc[ch].sendCh = NoCh \/ (rc[ch].sendCh = rv.recvCh /\ ~Undecided)
        BY <1>0, Zenon DEF Routed, Undecided
  <2>2. QED
        BY <2>1, Zenon DEF Above, OpenAt
<1>7. /\ read'[ch] = read[ch] + 1 /\ \A o \in Channels : o # ch => read'[o] = read[o]
      /\ Undecided' = Undecided /\ Dialled' = Dialled /\ Produced(ch)
      BY <1>1, <1>2, Zenon DEF Undecided, Decided, Dialled, Produced
<1> HIDE DEF f, S
<1>8. \A c \in Channels :
         /\ up'[c] = IF c \in S THEN up[c] \o <<f>> ELSE up[c]
         /\ Frames(up[c]) \subseteq Frames(up'[c])
      BY <1>1, <1>2, <1>3, UpPut, Zenon
<1>9. InOrder'
      BY <1>0, <1>1, <1>2, <1>7 DEF InOrder
<1>10. ASSUME NEW c \in Channels, rv.recvCh = c \/ Undecided, NEW o \in Channels, Carried(c, o)
       PROVE  Carried(c, o)'
  <2> DEFINE D == FromData(o)
             s == up[c]
             a == Len(got[o])
             b == read[o]
             alive == cliUp[c]
  <2>1. /\ s \in Seq(Uplinked) /\ a \in Nat /\ b \in Nat /\ alive \in BOOLEAN
        /\ Carry(s, a, b, D, alive) /\ (alive => c \in S) /\ (c \in S => alive)
        BY <1>2, <1>5, <1>6, <1>10, Zenon DEF Carried
  <2>2. (f \in D <=> o = ch) /\ (o = ch => f.n = b + 1)
        BY <1>3, <1>4, Zenon
  <2> HIDE DEF D, s, a, b, alive
  <2>3. CASE c \notin S
    <3>1. Carry(s, a, b, D, alive) /\ Carry(s, a, b + 1, D, alive)
          BY <2>1, <2>3, CarryMoves
    <3>2. up'[c] = s /\ read'[o] \in {b, b + 1} /\ cliUp' = cliUp /\ got' = got
          BY <1>1, <1>7, <1>8, <2>3, Zenon DEF s, b
    <3>3. QED
          BY <3>1, <3>2, Zenon DEF Carried, FromData, D, a, alive
  <2>4. CASE c \in S /\ o = ch
    <3>0. f \in Uplinked /\ f \in D /\ f.n = b + 1 /\ alive
          BY <1>3, <2>1, <2>2, <2>4, Zenon
    <3>1. Carry(s \o <<f>>, a, b + 1, D, TRUE)
          BY <2>1, <3>0, CarryNext, Zenon
    <3>2. up'[c] = s \o <<f>> /\ read'[o] = b + 1 /\ cliUp' = cliUp /\ got' = got
          BY <1>1, <1>7, <1>8, <2>4, Zenon DEF s, b
    <3>3. QED
          BY <3>0, <3>1, <3>2, Zenon DEF Carried, FromData, D, a, alive
  <2>5. CASE c \in S /\ o # ch
    <3>0. f \in Uplinked /\ f \notin D
          BY <1>3, <2>2, <2>5, Zenon
    <3>1. Carry(s \o <<f>>, a, b, D, alive)
          BY <2>1, <3>0, CarryMoves
    <3>2. up'[c] = s \o <<f>> /\ read'[o] = b /\ cliUp' = cliUp /\ got' = got
          BY <1>1, <1>7, <1>8, <2>5, Zenon DEF s, b
    <3>3. QED
          BY <3>1, <3>2, Zenon DEF Carried, FromData, D, a, alive
  <2>6. QED
        BY <2>3, <2>4, <2>5, Zenon
<1>11. Carrying'
      BY <1>0, <1>1, <1>7, <1>10, Zenon DEF Carrying
<1>12. Prompt'
  <2>1. ASSUME rv.reg, Undecided, NEW c \in Channels, srvUp[c] PROVE Prompted(c)'
    <3>1. Prompts(up[c]) /\ (cliUp[c] /\ Dialled # {} => ~Without(up[c], "selectUplink"))
          BY <1>0, <2>1, Zenon DEF Prompt, Prompted
    <3>2. Dialled # {}
          BY <1>1, Zenon DEF Dialled
    <3>3. c \in S => Prompts(up[c] \o <<f>>)
          BY <1>2, <1>3, <1>5, <3>1, <3>2, PromptMoves, Zenon
    <3>4. Prompts(up'[c])
          BY <1>8, <3>1, <3>3, Zenon
    <3>5. ~Without(up[c], "selectUplink") => ~Without(up'[c], "selectUplink")
          BY <1>8, Zenon DEF Without
    <3>6. QED
          BY <1>1, <1>7, <3>1, <3>4, <3>5, Zenon DEF Prompted
  <2>2. QED
        BY <1>1, <1>7, <2>1, Zenon DEF Prompt
<1>13. QED
      BY <1>7, <1>9, <1>11, <1>12, Zenon DEF StreamInv

\* The steps of the client.
LEMMA StreamActed ==
    ASSUME StreamIInv, BaseInv', NEW ch \in Channels, Acted(ch), Dialled' = Dialled
    PROVE  /\ StreamInv'
           /\ UNCHANGED <<read, got>> \/ \E o \in Channels : Produced(o)
<1>0. BaseInv /\ InOrder /\ Carrying /\ Prompt
      BY Zenon DEF StreamIInv, StreamInv, RouteIInv
<1>1. CASE PumpRead(ch)
      BY <1>1, StreamRead, Zenon
<1>2. CASE ~PumpRead(ch)
  <2>1. /\ rv' = rv /\ got' = got /\ srvUp' = srvUp /\ Receives(ch)
        /\ \A o \in Channels : rc'[o].sendCh = rc[o].sendCh
        BY Zenon DEF Acted, Kin, serverVars
  <2>2. /\ read' = read
        /\ up' = up \/ \E S : \E f \in Replies : up' = Put(up, S, <<f>>)
        BY <1>2, Zenon DEF Acted, Answered
  <2>3. \A c \in Channels : cliUp'[c] => cliUp[c]
    <3>1. cliUp \in [Channels -> BOOLEAN]
          BY <1>0, Typed, Zenon DEF BaseInv, WireTypes
    <3>2. QED
          BY <2>1, <3>1, Zenon DEF Receives
  <2>4. \A c \in Channels : up'[c] = up[c] \/ \E f \in Replies : up'[c] = up[c] \o <<f>>
    <3>1. ASSUME NEW S, NEW f \in Replies, up' = Put(up, S, <<f>>), NEW c \in Channels
          PROVE  up'[c] = up[c] \/ up'[c] = up[c] \o <<f>>
      <4>1. Put(up, S, <<f>>)[c] = IF c \in S THEN up[c] \o <<f>> ELSE up[c]
            BY PutAt
      <4>2. QED
            BY <3>1, <4>1, Zenon
    <3>2. QED
          BY <2>2, <3>1, Zenon
  <2>5. \A f \in Replies : f \in Uplinked /\ f.t # "data"
        BY Zenon DEF Replies, Uplinked
  <2>6. \A c \in Channels : Passed(c)
        BY <2>3, <2>4, <2>5, Zenon DEF Passed
  <2>7. \A c \in Channels : up[c] # <<>> => up'[c] # Tail(up[c])
    <3>1. \A c \in Channels : up[c] \in Seq(Uplinked)
          BY <1>0, StreamTypes, Zenon
    <3>2. QED
          BY <2>4, <2>5, <3>1, TailDiffers, Zenon
  <2>8. Undecided' = Undecided
        BY <2>1, Zenon DEF Undecided, Decided
  <2>9. InOrder'
        BY <1>0, <2>1, <2>2, Zenon DEF InOrder
  <2>10. Carrying'
        BY <1>0, <2>1, <2>2, <2>6, <2>8, CarriedOn, Zenon DEF Carrying
  <2>11. Prompt'
        BY <1>0, <2>1, <2>6, <2>7, <2>8, PromptedOn, Zenon DEF Prompt
  <2>12. QED
        BY <2>1, <2>2, <2>9, <2>10, <2>11, Zenon DEF StreamInv
<1>3. QED
      BY <1>1, <1>2, Zenon

\* The request is sent: nothing was produced before.
LEMMA StreamAsked ==
    ASSUME StreamIInv, BaseInv', NEW S, Asked(S)
    PROVE  StreamInv' /\ UNCHANGED <<read, got>>
<1>0. BaseInv /\ InOrder /\ Made
      BY Zenon DEF StreamIInv, StreamInv, RouteIInv, BaseInv
<1>1. /\ UNCHANGED <<read, got>> /\ Dialled = {} /\ Dialled' = {}
      /\ \A c \in Channels : up'[c] = <<>>
      BY Zenon DEF Asked, clientVars
<1>2. InOrder'
      BY <1>0, <1>1, Zenon DEF InOrder
<1>3. \A o \in Channels : Len(got'[o]) = 0 /\ read'[o] = 0
  <2>1. \A o \in Channels : read[o] = 0
        BY <1>0, <1>1, Zenon DEF Made, Dialled
  <2>2. \A o \in Channels : Len(got[o]) \in Nat
        BY <1>0, StreamTypes, Zenon
  <2>3. QED
        BY <1>0, <1>1, <2>1, <2>2 DEF InOrder
<1>4. ASSUME NEW c \in Channels, NEW o \in Channels PROVE Carried(c, o)'
  <2>1. Whole(<<>>, FromData(o), 0, 0)
        BY Empty
  <2>2. Carry(<<>>, 0, 0, FromData(o), cliUp'[c])
        BY <2>1 DEF Carry
  <2>3. QED
        BY <1>1, <1>3, <2>2, Zenon DEF Carried, FromData
<1>5. \A c \in Channels : Prompted(c)'
      BY <1>1 DEF Prompted, Prompts
<1>6. QED
      BY <1>1, <1>2, <1>4, <1>5, Zenon DEF StreamInv, Carrying, Prompt

\* The server chooses.
LEMMA StreamChosen ==
    ASSUME StreamIInv, BaseInv', NEW ch \in Channels, Chooses(ch), NEW m, Chosen(ch, m)
    PROVE  StreamInv' /\ UNCHANGED <<read, got>>
<1>0. BaseInv /\ RouteIInv /\ InOrder /\ Carrying
      BY Zenon DEF StreamIInv, StreamInv, RouteIInv
<1>1. /\ UNCHANGED <<read, got, srvUp, cliUp>> /\ rv.reg /\ ~Decided
      /\ srvUp[ch] /\ up[ch] # <<>> /\ m = Head(up[ch]) /\ m.t = "selectUplink"
      /\ up' = [up EXCEPT ![ch] = Tail(up[ch])] /\ rv'.recvCh = ch
      BY Zenon DEF Chosen, Chooses, clientVars
<1>2. Decided' /\ ~Undecided'
      BY WiresAssumption, Zenon DEF Chosen, Decided, Undecided
<1>3. Undecided
      BY <1>0, <1>1, RoutesChosen, Zenon DEF Undecided
<1>4. up'[ch] = Tail(up[ch])
      BY <1>0, <1>1, StreamTypes, Zenon
<1>5. Passed(ch)
      BY <1>1, <1>4, Zenon DEF Passed
<1>6. \A o \in Channels : Carried(ch, o)'
      BY <1>0, <1>1, <1>3, <1>5, CarriedOn, Zenon DEF Carrying
<1>7. InOrder'
      BY <1>0, <1>1, Zenon DEF InOrder
<1>8. QED
      BY <1>1, <1>2, <1>6, <1>7, Zenon DEF StreamInv, Carrying, Prompt

\* The client makes a state, and announces it unless it has the pair.
LEMMA StreamCreated ==
    ASSUME StreamIInv, BaseInv', NEW ch \in Channels, NEW hot \in BOOLEAN, Created(ch, hot)
    PROVE  StreamInv' /\ UNCHANGED <<read, got>>
<1> DEFINE f == [t |-> "selectUplink", ch |-> ch]
<1>0. BaseInv /\ InOrder /\ Carrying /\ Prompt /\ Made
      BY Zenon DEF StreamIInv, StreamInv, RouteIInv, BaseInv
<1>1. /\ UNCHANGED <<read, got, rv, srvUp, cliUp>> /\ rc[ch].stage = "none"
      /\ rc' = [rc EXCEPT ![ch] = rc'[ch]]
      BY Zenon DEF Created, serverVars
<1>2. Undecided' => Undecided
  <2>1. rc \in [Channels -> Revs] /\ rc[ch].sendCh = NoCh
        BY <1>0, <1>1, Typed, Zenon DEF BaseInv, ClientTypes, Made
  <2>2. \A o \in Channels : o # ch => rc'[o] = rc[o]
        BY <1>1, <2>1, Zenon
  <2>3. QED
        BY <1>1, <2>1, <2>2, Zenon DEF Undecided, Decided
<1>3. Undecided' => ~hot
  <2>1. hot => rc'[ch].sendCh = Pair.up /\ Pair.up \in Channels
        BY <1>0, WiresAssumption, Zenon DEF Created, Made
  <2>2. QED
        BY <2>1, WiresAssumption, Zenon DEF Undecided
<1>4. f \in Uplinked /\ f.t = "selectUplink"
      BY Zenon DEF Uplinked
<1>5. ~hot => up' = Put(up, OpenAt(cliUp), <<f>>)
      BY Zenon DEF Created
<1> DEFINE S == OpenAt(cliUp)
<1>6. \A c \in Channels : c \in S <=> cliUp[c]
      BY Zenon DEF OpenAt
<1>7. up \in [Channels -> Seq(Uplinked)] /\ \A c \in Channels : up[c] \in Seq(Uplinked)
      BY <1>0, StreamTypes, Zenon
<1> HIDE DEF f, S
<1>8. ~hot => \A c \in Channels : /\ up'[c] = IF c \in S THEN up[c] \o <<f>> ELSE up[c]
                                  /\ c \in S => f \in Frames(up'[c])
      BY <1>4, <1>5, <1>7, UpPut DEF S
<1>9. \A c \in Channels : Passed(c)
  <2>1. CASE hot
        BY <1>1, <2>1, Zenon DEF Passed, Created
  <2>2. CASE ~hot
        BY <1>1, <1>4, <1>8, <2>2, Zenon DEF Passed
  <2>3. QED
        BY <2>1, <2>2, Zenon
<1>10. InOrder' /\ Carrying'
      BY <1>0, <1>1, <1>2, <1>9, CarriedOn, Zenon DEF InOrder, Carrying
<1>11. Prompt'
  <2>1. ASSUME rv.reg, Undecided', NEW c \in Channels, srvUp[c] PROVE Prompted(c)'
    <3>1. Prompts(up[c]) /\ ~hot
          BY <1>0, <1>2, <1>3, <2>1, Zenon DEF Prompt, Prompted
    <3>2. Prompts(up[c] \o <<f>>)
          BY <1>4, <1>7, <3>1, PromptMoves, Zenon
    <3>3. Prompts(up'[c])
          BY <1>8, <3>1, <3>2, Zenon
    <3>4. cliUp[c] => ~Without(up'[c], "selectUplink")
          BY <1>4, <1>6, <1>8, <3>1, Zenon DEF Without
    <3>5. QED
          BY <1>1, <3>3, <3>4, Zenon DEF Prompted
  <2>2. QED
        BY <1>1, <2>1, Zenon DEF Prompt
<1>12. QED
      BY <1>1, <1>10, <1>11, Zenon DEF StreamInv

\* The client learns its channel.
LEMMA StreamLearnt ==
    ASSUME StreamIInv, BaseInv', NEW ch \in Channels, NEW m, Learnt(ch, m)
    PROVE  StreamInv' /\ UNCHANGED <<read, got>>
<1>0. BaseInv /\ InOrder /\ Carrying /\ Prompt
      BY Zenon DEF StreamIInv, StreamInv, RouteIInv
<1>1. UNCHANGED <<read, got, rv, up, srvUp, cliUp>> /\ Dialled' = Dialled
      BY Zenon DEF Learnt, serverVars
<1>2. Undecided' => Undecided
  <2>1. rc \in [Channels -> Revs]
        BY <1>0, Typed, Zenon DEF BaseInv, ClientTypes
  <2>2. \A o \in Channels : rc'[o].sendCh = NoCh => rc[o].sendCh = NoCh
    <3>1. CASE rc' = rc
          BY <3>1, Zenon
    <3>2. CASE rc[ch].sendCh = NoCh /\ rc' = [rc EXCEPT ![ch] = [rc[ch] EXCEPT !.sendCh = m.ch]]
      <4>1. \A o \in Channels : o # ch => rc'[o] = rc[o]
            BY <2>1, <3>2, Zenon
      <4>2. QED
            BY <3>2, <4>1, Zenon
    <3>3. QED
          BY <3>1, <3>2, Zenon DEF Learnt
  <2>3. QED
        BY <1>1, <2>2, Zenon DEF Undecided, Decided
<1>3. \A c \in Channels : /\ \A o \in Channels : Carried(c, o)' = Carried(c, o)
                          /\ Prompted(c)' = Prompted(c)
      BY <1>1, Zenon DEF Carried, FromData, Prompted
<1>4. QED
      BY <1>0, <1>1, <1>2, <1>3, Zenon DEF StreamInv, InOrder, Carrying, Prompt

\* Every step keeps the stream in order.
LEMMA StreamStep ==
    ASSUME StreamIInv, [Next]_vars
    PROVE  /\ StreamIInv'
           /\ UNCHANGED <<read, got>> \/ \E o \in Channels : Produced(o) \/ Delivered(o)
<1>0. BaseInv /\ RouteIInv' /\ BaseInv'
      BY RouteStep, Zenon DEF StreamIInv, RouteIInv
<1>1. CASE UNCHANGED vars
  <2> USE DEF vars, serverVars, clientVars, wires
  <2>1. (InOrder' <=> InOrder) /\ UNCHANGED <<read, got>>
        BY <1>1, Zenon DEF InOrder
  <2>2. (Undecided' <=> Undecided) /\ Dialled' = Dialled
        BY <1>1, Zenon DEF Undecided, Decided, Dialled
  <2>3. \A c \in Channels : /\ \A o \in Channels : Carried(c, o)' <=> Carried(c, o)
                            /\ Prompted(c)' <=> Prompted(c)
        BY <1>1, <2>2, Zenon DEF Carried, FromData, Prompted
  <2>4. (Carrying' <=> Carrying) /\ (Prompt' <=> Prompt)
        BY <1>1, <2>2, <2>3, Zenon DEF Carrying, Prompt
  <2>5. QED
        BY <1>0, <2>1, <2>4, Zenon DEF StreamIInv, StreamInv
<1>2. CASE DialSend
      BY <1>0, <1>2, DialSteps, StreamAsked, Zenon DEF StreamIInv
<1>3. ASSUME NEW ch \in Channels,
             Serves(ch) \/ Chooses(ch) \/ Acts(ch) \/ Creates(ch) \/ Learns(ch)
      PROVE  /\ StreamInv'
             /\ UNCHANGED <<read, got>> \/ \E o \in Channels : Produced(o) \/ Delivered(o)
  <2>1. CASE Serves(ch)
        BY <1>0, <2>1, ServerSteps, StreamServed, Zenon
  <2>2. CASE Chooses(ch)
        BY <1>0, <2>2, ChoiceSteps, StreamChosen, Zenon
  <2>3. CASE Acts(ch)
        BY <1>0, <2>3, ClientSteps, BaseActed, StreamActed, Zenon
  <2>4. CASE Creates(ch)
        BY <1>0, <2>4, CreationSteps, StreamCreated, Zenon
  <2>5. CASE Learns(ch)
        BY <1>0, <2>5, LearningSteps, StreamLearnt, Zenon
  <2>6. QED
        BY <1>3, <2>1, <2>2, <2>3, <2>4, <2>5, Zenon
<1>4. QED
      BY <1>0, <1>1, <1>2, <1>3, NextCases, Zenon DEF StreamIInv

\* Of each target the listener's side receives a prefix: the payloads that a target
\* produces are a stream in the sense of ByteStream, whatever channels are chosen or fail.
THEOREM TargetsAreStreams == Spec => FromTargetStream
<1> DEFINE stream == <<read, got, {}>>
<1>1. Init => StreamIInv /\ FromTarget!Init
  <2> SUFFICES ASSUME Init PROVE StreamIInv /\ FromTarget!Init
      BY Zenon
  <2>1. /\ read = [o \in Channels |-> 0] /\ got = [o \in Channels |-> <<>>] /\ ~rv.reg
        BY Zenon DEF Init
  <2>2. StreamInv
        BY <2>1 DEF StreamInv, InOrder, Carrying, Prompt
  <2>3. FromTarget!Init
        BY <2>1, Zenon DEF FromTarget!Init
  <2>4. QED
        BY <2>2, <2>3, RouteInitial, Zenon DEF StreamIInv
<1>2. StreamIInv /\ [Next]_vars => StreamIInv' /\ [FromTarget!Next]_stream
  <2> SUFFICES ASSUME StreamIInv, [Next]_vars PROVE StreamIInv' /\ [FromTarget!Next]_stream
      BY Zenon
  <2>1. /\ StreamIInv'
        /\ UNCHANGED <<read, got>> \/ \E o \in Channels : Produced(o) \/ Delivered(o)
        BY StreamStep, Zenon
  <2>2. ASSUME NEW o \in Channels, Produced(o) PROVE FromTarget!Next
        BY <2>2, Zenon DEF Produced, FromTarget!Next, FromTarget!Produce
  <2>3. ASSUME NEW o \in Channels, Delivered(o) PROVE FromTarget!Next
    <3> DEFINE n == Len(got[o]) + 1
    <3>1. /\ Len(got[o]) \in Nat /\ read[o] \in Nat /\ got[o] \in Seq(1..MaxUp)
          /\ \A i \in 1..Len(got[o]) : got[o][i] = i
          BY StreamTypes, Zenon DEF StreamIInv, RouteIInv, StreamInv, InOrder
    <3>2. FromTarget!Newest(got[o]) = Len(got[o])
          BY <3>1 DEF FromTarget!Newest
    <3>3. n \in FromTarget!Newest(got[o]) + 1 .. read[o] /\ n = FromTarget!Newest(got[o]) + 1
          BY <2>3, <3>1, <3>2 DEF Delivered
    <3>4. got' = [got EXCEPT ![o] = Append(got[o], n)] /\ read' = read
          BY <2>3, Zenon DEF Delivered
    <3> HIDE DEF n
    <3>5. FromTarget!Deliver(o)
          BY <3>3, <3>4, Zenon DEF FromTarget!Deliver
    <3>6. QED
          BY <3>5, Zenon DEF FromTarget!Next
  <2>4. QED
        BY <2>1, <2>2, <2>3, Zenon
<1>3. QED
      BY <1>1, <1>2, PTL DEF Spec, FromTargetStream, FromTarget!Spec

-----------------------------------------------------------------------------
\* What a target receives

\* The payloads of the listener's side.
ToData == [t : {"data"}, n : 1..MaxDown]

LEMMA ToDataIs ==
    ASSUME NEW f \in Downlinked
    PROVE  f \in ToData <=> f.t = "data"
BY Zenon DEF Downlinked, ToData

\* The payloads on a channel rise, up to the last one written, and come after those that
\* the target of the channel has received, in rising order too.
Flow(s, q, hi) ==
    /\ Rising(s, ToData, 0, hi) /\ Ahead(s, ToData, q)
    /\ Sorted(q) /\ \A j \in 1..Len(q) : q[j] <= hi

\* Frames are put on a channel or lost.
LEMMA FlowMoves ==
    ASSUME NEW s \in Seq(Downlinked), NEW q \in Seq(1..MaxDown), NEW hi \in Nat, Flow(s, q, hi)
    PROVE  /\ Flow(s, q, hi + 1) /\ Flow(<<>>, q, hi)
           /\ s # <<>> => Flow(Tail(s), q, hi)
           /\ \A f \in Downlinked : f \notin ToData => Flow(s \o <<f>>, q, hi)
<1>1. \A j \in 1..Len(q) : q[j] \in Int
      BY WiresAssumption
<1>2. Flow(s, q, hi + 1)
      BY <1>1 DEF Flow, Rising
<1>3. Flow(<<>>, q, hi)
      BY Empty DEF Flow
<1>4. s # <<>> => Flow(Tail(s), q, hi)
      BY Taken, Zenon DEF Flow
<1>5. ASSUME NEW f \in Downlinked, f \notin ToData PROVE Flow(s \o <<f>>, q, hi)
  <2> DEFINE t == <<f>>
  <2>1. t \in Seq(Downlinked) /\ \A i \in 1..Len(t) : t[i] \notin ToData
        BY <1>5
  <2> HIDE DEF t
  <2>2. Rising(s \o t, ToData, 0, hi) /\ Ahead(s \o t, ToData, q)
        BY <2>1, OthersPut, Zenon DEF Flow
  <2>3. QED
        BY <2>2, Zenon DEF Flow, t
<1>6. QED
      BY <1>2, <1>3, <1>4, <1>5, Zenon

\* The next payload is put on it,
LEMMA FlowNext ==
    ASSUME NEW s \in Seq(Downlinked), NEW q \in Seq(1..MaxDown), NEW hi \in Nat, Flow(s, q, hi),
           NEW f \in Downlinked, f \in ToData, f.n = hi + 1
    PROVE  Flow(s \o <<f>>, q, hi + 1)
<1> DEFINE e == s \o <<f>>
           k == Len(s) + 1
<1>1. \A j \in 1..Len(q) : q[j] \in Int /\ q[j] <= hi /\ q[j] < hi + 1
      BY WiresAssumption, SMTT(30) DEF Flow
<1>2. Rising(e, ToData, 0, hi + 1)
      BY NextPut DEF Flow
<1>3. \A i \in 1..Len(e) : (i = k /\ e[i] = f) \/ (i \in 1..Len(s) /\ e[i] = s[i])
      OBVIOUS
<1> HIDE DEF e, k
<1>4. Ahead(e, ToData, q)
      BY <1>1, <1>3, Zenon DEF Flow, Ahead
<1>5. Sorted(q) /\ \A j \in 1..Len(q) : q[j] <= hi + 1
      BY <1>1 DEF Flow
<1>6. QED
      BY <1>2, <1>4, <1>5, Zenon DEF Flow, e

\* and the first one of a channel is written to the target.
LEMMA FlowWritten ==
    ASSUME NEW s \in Seq(Downlinked), NEW q \in Seq(1..MaxDown), NEW hi \in Nat, Flow(s, q, hi),
           s # <<>>, Head(s) \in ToData
    PROVE  Flow(Tail(s), Append(q, Head(s).n), hi)
<1> DEFINE t == Tail(s)
           n == Head(s).n
           r == Append(q, n)
<1>1. /\ n \in Int /\ n <= hi /\ \A i \in 1..Len(t) : t[i] \in ToData => n < t[i].n
      BY NextTaken DEF Flow
<1>2. Rising(t, ToData, 0, hi) /\ Ahead(t, ToData, q)
      BY Taken, Zenon DEF Flow
<1>3. \A j \in 1..Len(q) : q[j] < n /\ q[j] \in Int
  <2>1. Head(s) = s[1] /\ 1 \in 1..Len(s)
        BY Rest, Zenon
  <2>2. QED
        BY <2>1, WiresAssumption, SMTT(30) DEF Flow, Ahead
<1> HIDE DEF n, t
<1>4. q \in Seq(Int)
      BY <1>3
<1>5. Sorted(r)
      BY <1>1, <1>3, <1>4, SortedAppend, Zenon DEF Flow
<1>6. \A j \in 1..Len(r) : r[j] = n \/ (j \in 1..Len(q) /\ r[j] = q[j])
      BY <1>1, <1>4
<1> HIDE DEF r
<1>7. Ahead(t, ToData, r) /\ \A j \in 1..Len(r) : r[j] <= hi
      BY <1>1, <1>2, <1>6, Zenon DEF Ahead, Flow
<1>8. QED
      BY <1>2, <1>5, <1>7, Zenon DEF Flow, r, n, t

\* Before anything is written to it, all of a channel is there.
LEMMA FlowNone ==
    ASSUME NEW s \in Seq(Downlinked), NEW q, Flow(s, q, 0), NEW alive \in BOOLEAN
    PROVE  Carry(s, 0, 0, ToData, alive)
<1>1. Whole(s, ToData, 0, 0)
      BY DEF Flow, Whole
<1>2. QED
      BY <1>1 DEF Carry

\* Every target: its channel and what it received.
Ascends == \A o \in Channels : Flow(down[o], tgt[o], wrote)

\* A payload is only written once some target is connected, and nothing is dropped then.
Reported ==
    \/ wrote > 0 \/ dial = "open" \/ rv.result = "ok"
    \/ \E c \in Channels : ~Without(up[c], "ok")
    => \E x \in Channels : rc[x].conn # "none"

\* The server writes to the one target there is, or to all channels.
Aimed ==
    \A o \in Channels :
        /\ rv.reg /\ Dialled \subseteq {o}
        /\ Dialled = {o} \/ ~Without(down[o], "connect")
        => rv.sendCh \in {NoCh, o} \/ ~srvUp[rv.sendCh]

\* The one target has received the first payloads, and the next ones are on their way as
\* long as the client has its state.
Sole ==
    \A o \in Channels : Dialled = {o} =>
        /\ \A i \in 1..Len(tgt[o]) : tgt[o][i] = i
        /\ rev = o => Carry(down[o], Len(tgt[o]), wrote, ToData, srvUp[o])

TargetInv == Ascends /\ Reported /\ Aimed /\ Sole
TargetIInv == BaseInv /\ TargetInv

\* What the lemmas about the targets use of the types.
LEMMA TargetTypes ==
    ASSUME BaseInv
    PROVE  /\ down \in [Channels -> Seq(Downlinked)] /\ up \in [Channels -> Seq(Uplinked)]
           /\ srvUp \in [Channels -> BOOLEAN]
           /\ \A c \in Channels : down[c] \in Seq(Downlinked) /\ srvUp[c] \in BOOLEAN
           /\ tgt \in [Channels -> Seq(1..MaxDown)] /\ wrote \in Nat /\ MaxDown \in Nat
           /\ \A o \in Channels : tgt[o] \in Seq(1..MaxDown) /\ Len(tgt[o]) \in Nat
<1>1. ServerTypes /\ ClientTypes /\ WireTypes /\ MaxDown \in Nat
      BY Typed, WiresAssumption, Zenon DEF BaseInv
<1>2. /\ down \in [Channels -> Seq(Downlinked)] /\ up \in [Channels -> Seq(Uplinked)]
      /\ srvUp \in [Channels -> BOOLEAN] /\ tgt \in [Channels -> Seq(1..MaxDown)]
      /\ wrote \in 0..MaxDown
      BY <1>1, Zenon DEF ServerTypes, ClientTypes, WireTypes
<1>3. QED
      BY <1>1, <1>2

\* Nothing of the one target is dropped: a payload on the way means it is connected.
LEMMA Connected ==
    ASSUME BaseInv, Reported, NEW o \in Channels, Dialled = {o}, wrote > 0
    PROVE  rc[o].conn # "none"
<1>1. PICK x \in Channels : rc[x].conn # "none"
      BY Zenon DEF Reported
<1>2. x \in Dialled
      BY <1>1, Zenon DEF BaseInv, Made, Dialled
<1>3. QED
      BY <1>1, <1>2, Zenon

\* The listener's side writes: to the channel of the one target if that is open.
LEMMA TargetWrite ==
    ASSUME TargetIInv, Write
    PROVE  Ascends' /\ Sole'
<1> DEFINE f == [t |-> "data", n |-> wrote + 1]
           S == IF Below(rv.sendCh) = {} THEN OpenAt(srvUp) ELSE Below(rv.sendCh)
<1>0. BaseInv /\ Ascends /\ Sole /\ Aimed
      BY Zenon DEF TargetIInv, TargetInv
<1>1. /\ rv.reg /\ wrote < MaxDown /\ wrote' = wrote + 1 /\ down' = Put(down, S, <<f>>)
      /\ UNCHANGED <<rev, rc, tgt, srvUp>>
      BY Zenon DEF Write, clientVars
<1>2. /\ down \in [Channels -> Seq(Downlinked)] /\ wrote \in Nat /\ MaxDown \in Nat
      /\ \A c \in Channels : down[c] \in Seq(Downlinked) /\ srvUp[c] \in BOOLEAN
      /\ \A o \in Channels : tgt[o] \in Seq(1..MaxDown) /\ Len(tgt[o]) \in Nat
      BY <1>0, TargetTypes, Zenon
<1>3. f \in Downlinked /\ f \in ToData /\ f.n = wrote + 1
      BY <1>1, <1>2 DEF Downlinked, ToData
<1>4. \A c \in Channels : c \in S => srvUp[c]
      BY Zenon DEF Below, OpenAt
<1>5. \A o \in Channels : Dialled = {o} /\ srvUp[o] => o \in S
  <2>1. SUFFICES ASSUME NEW o \in Channels, Dialled = {o}, srvUp[o] PROVE o \in S
        BY Zenon
  <2>2. rv.sendCh \in {NoCh, o} \/ ~srvUp[rv.sendCh]
        BY <1>0, <1>1, <2>1, Zenon DEF Aimed
  <2>3. CASE rv.sendCh = NoCh
        BY <2>1, <2>3, Zenon DEF Below, OpenAt
  <2>4. CASE rv.sendCh = o
        BY <2>1, <2>4, Zenon DEF Below, OpenAt
  <2>5. CASE rv.sendCh # NoCh /\ ~srvUp[rv.sendCh]
    <3>1. Below(rv.sendCh) = {}
          BY <2>5, Zenon DEF Below, OpenAt
    <3>2. QED
          BY <2>1, <3>1, Zenon DEF OpenAt
  <2>6. QED
        BY <2>2, <2>3, <2>4, <2>5, Zenon
<1> HIDE DEF f, S
<1>6. \A c \in Channels : down'[c] = IF c \in S THEN down[c] \o <<f>> ELSE down[c]
      BY <1>1, <1>2, <1>3, DownPut, SMTT(30)
<1>7. Ascends'
  <2>1. ASSUME NEW o \in Channels PROVE Flow(down'[o], tgt[o], wrote + 1)
    <3>1. Flow(down[o], tgt[o], wrote)
          BY <1>0, Zenon DEF Ascends
    <3>2. Flow(down[o], tgt[o], wrote + 1)
          BY <1>2, <3>1, FlowMoves, Zenon
    <3>3. Flow(down[o] \o <<f>>, tgt[o], wrote + 1)
          BY <1>2, <1>3, <3>1, FlowNext, Zenon
    <3>4. QED
          BY <1>6, <3>2, <3>3, Zenon
  <2>2. QED
        BY <1>1, <2>1, Zenon DEF Ascends
<1>8. Sole'
  <2>1. Dialled' = Dialled /\ rev' = rev /\ tgt' = tgt
        BY <1>1, Zenon DEF Dialled
  <2>2. ASSUME NEW o \in Channels, Dialled = {o}, rev = o
        PROVE  Carry(down'[o], Len(tgt[o]), wrote + 1, ToData, srvUp[o])
    <3> DEFINE s == down[o]
               a == Len(tgt[o])
    <3>1. s \in Seq(Downlinked) /\ a \in Nat /\ Carry(s, a, wrote, ToData, srvUp[o])
          BY <1>0, <1>2, <2>2, Zenon DEF Sole
    <3> HIDE DEF s, a
    <3>2. CASE srvUp[o]
      <4>1. Carry(s, a, wrote, ToData, TRUE)
            BY <1>2, <3>1, <3>2, Zenon
      <4>2. Carry(s \o <<f>>, a, wrote + 1, ToData, TRUE)
            BY <1>2, <1>3, <3>1, <4>1, CarryNext, Zenon
      <4>3. down'[o] = s \o <<f>>
            BY <1>5, <1>6, <2>2, <3>2, Zenon DEF s
      <4>4. QED
            BY <3>2, <4>2, <4>3, Zenon DEF a
    <3>3. CASE ~srvUp[o]
      <4>1. Carry(s, a, wrote + 1, ToData, srvUp[o])
            BY <1>2, <3>1, <3>3, CarryMoves, SMTT(30)
      <4>2. down'[o] = s
            BY <1>4, <1>6, <3>3, Zenon DEF s
      <4>3. QED
            BY <4>1, <4>2, Zenon DEF a
    <3>4. QED
          BY <3>2, <3>3, Zenon
  <2>3. QED
        BY <1>0, <1>1, <2>1, <2>2, Zenon DEF Sole
<1>9. QED
      BY <1>7, <1>8, Zenon

\* A frame other than a payload is put on channel c, or lost; all of them may be when
\* the client has no state of that channel afterwards.
Slipped(c) ==
    \/ down'[c] = down[c]
    \/ \E f \in Downlinked : f.t # "data" /\ down'[c] = down[c] \o <<f>>
    \/ down[c] # <<>> /\ Head(down[c]).t # "data" /\ down'[c] = Tail(down[c])
    \/ down'[c] = <<>> /\ rev' # c

LEMMA TargetSlipped ==
    ASSUME TargetIInv, tgt' = tgt, wrote' = wrote, Dialled' = Dialled, rev' \in {rev, NoCh},
           \A c \in Channels : Slipped(c) /\ (srvUp'[c] \in BOOLEAN /\ (srvUp'[c] => srvUp[c]))
    PROVE  Ascends' /\ Sole'
<1>0. BaseInv /\ Ascends /\ Sole
      BY Zenon DEF TargetIInv, TargetInv
<1>1. /\ wrote \in Nat
      /\ \A c \in Channels : down[c] \in Seq(Downlinked) /\ srvUp[c] \in BOOLEAN
      /\ \A o \in Channels : tgt[o] \in Seq(1..MaxDown) /\ Len(tgt[o]) \in Nat
      BY <1>0, TargetTypes, Zenon
<1>2. \A f \in Downlinked : f.t # "data" => f \notin ToData
      BY ToDataIs, Zenon
<1>3. \A c \in Channels : down[c] # <<>> => Head(down[c]) \in Downlinked
      BY <1>1
<1>4. ASSUME NEW o \in Channels PROVE Flow(down'[o], tgt[o], wrote)
  <2> DEFINE s == down[o]
  <2>1. s \in Seq(Downlinked) /\ Flow(s, tgt[o], wrote)
        BY <1>0, <1>1, Zenon DEF Ascends
  <2>2. \/ down'[o] = s \/ down'[o] = <<>> \/ (s # <<>> /\ down'[o] = Tail(s))
        \/ \E f \in Downlinked : f \notin ToData /\ down'[o] = s \o <<f>>
        BY <1>2, Zenon DEF Slipped
  <2> HIDE DEF s
  <2>3. QED
        BY <1>1, <2>1, <2>2, FlowMoves, Zenon
<1>5. ASSUME NEW o \in Channels, Dialled = {o}, rev' = o
      PROVE  Carry(down'[o], Len(tgt[o]), wrote, ToData, srvUp'[o])
  <2> DEFINE s == down[o]
             a == Len(tgt[o])
             live == srvUp'[o]
  <2>1. rev = o
        BY <1>5, WiresAssumption, Zenon
  <2>2. /\ s \in Seq(Downlinked) /\ a \in Nat /\ Carry(s, a, wrote, ToData, srvUp[o])
        /\ live \in BOOLEAN /\ (live => srvUp[o])
        BY <1>0, <1>1, <1>5, <2>1, Zenon DEF Sole
  <2>3. \/ down'[o] = s
        \/ \E f \in Downlinked : f \notin ToData /\ down'[o] = s \o <<f>>
        \/ s # <<>> /\ Head(s) \notin ToData /\ down'[o] = Tail(s)
        BY <1>2, <1>3, <1>5, Zenon DEF Slipped
  <2> HIDE DEF s, a, live
  <2>4. Carry(s, a, wrote, ToData, live)
        BY <1>1, <2>2, CarryMoves, SMTT(30)
  <2>5. ASSUME NEW f \in Downlinked, f \notin ToData PROVE Carry(s \o <<f>>, a, wrote, ToData, live)
        BY <1>1, <2>2, <2>4, <2>5, CarryMoves, SMTT(30)
  <2>6. s # <<>> /\ Head(s) \notin ToData => Carry(Tail(s), a, wrote, ToData, live)
        BY <1>1, <2>2, <2>4, CarryMoves, SMTT(30)
  <2>7. Carry(down'[o], a, wrote, ToData, live)
        BY <2>3, <2>4, <2>5, <2>6, Zenon
  <2>8. QED
        BY <2>7, Zenon DEF a, live
<1>6. Ascends'
      BY <1>4, Zenon DEF Ascends
<1>7. Sole'
      BY <1>0, <1>5, Zenon DEF Sole
<1>8. QED
      BY <1>6, <1>7, Zenon

\* The steps of the server.
LEMMA TargetServed ==
    ASSUME TargetIInv, BaseInv', NEW ch \in Channels, Served(ch)
    PROVE  TargetInv'
<1>0. BaseInv /\ Ascends /\ Reported /\ Aimed /\ Sole
      BY Zenon DEF TargetIInv, TargetInv
<1>1. /\ rc' = rc /\ rev' = rev /\ tgt' = tgt /\ Dialled' = Dialled /\ Sent /\ Arrives(ch)
      /\ rv'.sendCh = rv.sendCh /\ (rv'.reg => rv.reg)
      /\ rv'.result = "ok" => rv.result = "ok" \/ ~Without(up[ch], "ok")
      /\ dial' = "open" => dial = "open" \/ rv.result = "ok"
      BY Zenon DEF Served, clientVars, Keeps, Dialled
<1>2. \A c \in Channels : srvUp'[c] \in BOOLEAN /\ (srvUp'[c] => srvUp[c])
  <2>1. srvUp \in [Channels -> BOOLEAN]
        BY <1>0, TargetTypes, Zenon
  <2>2. QED
        BY <1>1, <2>1, Zenon DEF Arrives
<1>3. \A c \in Channels : Frames(up'[c]) \subseteq Frames(up[c])
  <2>1. up' = up \/ Shorter(up, up', ch)
        BY <1>1, Zenon DEF Arrives, Shorter
  <2>2. QED
        BY <1>0, <2>1, TargetTypes, UpLost, Zenon
<1>4. \A c \in Channels : ~Without(down'[c], "connect") => ~Without(down[c], "connect")
      BY <1>0, <1>1, SentFrames, Zenon DEF Without
<1>5. Ascends' /\ Sole'
  <2>1. CASE Write
        BY <2>1, TargetWrite, Zenon
  <2>2. CASE ~Write
    <3> DEFINE f == [t |-> "close"]
    <3>1. f \in Downlinked /\ f.t # "data"
          BY Zenon DEF Downlinked
    <3>2. wrote' = wrote /\ (down' = down \/ \E S : down' = Put(down, S, <<f>>))
          BY <1>1, <2>2, Zenon DEF Sent
    <3> HIDE DEF f
    <3>3. ASSUME NEW S, down' = Put(down, S, <<f>>), NEW c \in Channels
          PROVE  down'[c] = down[c] \/ down'[c] = down[c] \o <<f>>
      <4>1. Put(down, S, <<f>>)[c] = IF c \in S THEN down[c] \o <<f>> ELSE down[c]
            BY PutAt
      <4>2. QED
            BY <3>3, <4>1, Zenon
    <3>4. \A c \in Channels : Slipped(c)
          BY <3>1, <3>2, <3>3, Zenon DEF Slipped
    <3>5. QED
          BY <1>1, <1>2, <3>2, <3>4, TargetSlipped, Zenon
  <2>3. QED
        BY <2>1, <2>2, Zenon
<1>6. Reported'
  <2>1. wrote' > 0 => wrote > 0 \/ dial = "open"
        BY <1>1, Zenon DEF Sent, Write
  <2>2. \A c \in Channels : ~Without(up'[c], "ok") => ~Without(up[c], "ok")
        BY <1>3, Zenon DEF Without
  <2>3. QED
        BY <1>0, <1>1, <2>1, <2>2, Zenon DEF Reported
<1>7. Aimed'
  <2>1. rv.sendCh \in Channels \cup {NoCh}
        BY <1>0, Typed, Zenon DEF BaseInv, ServerTypes, Conns
  <2>2. QED
        BY <1>0, <1>1, <1>2, <1>4, <2>1, Zenon DEF Aimed
<1>8. QED
      BY <1>5, <1>6, <1>7, Zenon DEF TargetInv

\* The client takes a payload: the one target is connected, or was, so that its payload is
\* written or ends the connection.
LEMMA TargetPayload ==
    ASSUME TargetIInv, NEW ch \in Channels, Acted(ch), Dialled' = Dialled, HandleServerData(ch)
    PROVE  Ascends' /\ Sole'
<1> DEFINE s == down[ch]
           n == Head(s).n
           q == tgt[ch]
<1>0. BaseInv /\ Ascends /\ Reported /\ Sole
      BY Zenon DEF TargetIInv, TargetInv
<1>1. /\ wrote' = wrote /\ srvUp' = srvUp /\ rev' \in {rev, NoCh}
      BY Zenon DEF Acted, serverVars
<1>2. /\ s # <<>> /\ Head(s).t = "data" /\ down' = [down EXCEPT ![ch] = Tail(s)]
      /\ \/ (rev # ch \/ rc[ch].conn = "none") /\ tgt' = tgt
         \/ rev = ch /\ tgt' = [tgt EXCEPT ![ch] = Append(q, n)]
         \/ rev' = NoCh /\ tgt' = tgt
      BY Zenon DEF HandleServerData, Received, SendReverseClose
<1>3. /\ down \in [Channels -> Seq(Downlinked)] /\ wrote \in Nat
      /\ tgt \in [Channels -> Seq(1..MaxDown)] /\ q \in Seq(1..MaxDown)
      /\ \A c \in Channels : down[c] \in Seq(Downlinked) /\ srvUp[c] \in BOOLEAN
      /\ \A o \in Channels : Len(tgt[o]) \in Nat
      BY <1>0, TargetTypes, Zenon
<1>4. s \in Seq(Downlinked) /\ Flow(s, q, wrote)
      BY <1>0, <1>3, Zenon DEF Ascends
<1>5. Head(s) \in ToData
  <2>1. Head(s) \in Downlinked
        BY <1>2, <1>4, FramesTail, Zenon
  <2>2. QED
        BY <1>2, <2>1, ToDataIs, Zenon
<1>6. down'[ch] = Tail(s) /\ \A c \in Channels : c # ch => down'[c] = down[c]
      BY <1>2, <1>3, Zenon
<1>7. wrote > 0
  <2>1. 0 < n /\ n <= wrote /\ n \in Int
    <3>1. Rising(s, ToData, 0, wrote) /\ 0 \in Int /\ wrote \in Int
          BY <1>3, <1>4 DEF Flow
    <3>2. QED
          BY <1>2, <1>4, <1>5, <3>1, NextTaken, Zenon
  <2>2. QED
        BY <1>3, <2>1
<1> HIDE DEF s, n, q
<1>8. CASE tgt' = tgt /\ (rev' # ch \/ rc[ch].conn = "none")
  <2>1. Flow(Tail(s), q, wrote)
        BY <1>2, <1>3, <1>4, FlowMoves, Zenon
  <2>2. Ascends'
        BY <1>0, <1>1, <1>6, <1>8, <2>1, Zenon DEF Ascends, q
  <2>3. ASSUME NEW o \in Channels, Dialled = {o}, rev' = o PROVE rev = o /\ down'[o] = down[o]
    <3>1. rc[o].conn # "none"
          BY <1>0, <1>7, <2>3, Connected, Zenon
    <3>2. QED
          BY <1>1, <1>6, <1>8, <2>3, <3>1, WiresAssumption, ZenonT(30)
  <2>4. Sole'
        BY <1>0, <1>1, <1>8, <2>3, ZenonT(30) DEF Sole
  <2>5. QED
        BY <2>2, <2>4, Zenon
<1>9. CASE rev = ch /\ tgt' = [tgt EXCEPT ![ch] = Append(q, n)]
  <2>1. Flow(Tail(s), Append(q, n), wrote)
        BY <1>2, <1>3, <1>4, <1>5, FlowWritten, ZenonT(30) DEF n
  <2>2. tgt'[ch] = Append(q, n) /\ \A o \in Channels : o # ch => tgt'[o] = tgt[o]
        BY <1>3, <1>9, Zenon
  <2>3. Ascends'
        BY <1>0, <1>1, <1>6, <2>1, <2>2, Zenon DEF Ascends
  <2>4. ASSUME NEW o \in Channels, Dialled = {o}
        PROVE  /\ \A i \in 1..Len(tgt'[o]) : tgt'[o][i] = i
               /\ rev' = o => Carry(down'[o], Len(tgt'[o]), wrote, ToData, srvUp[o])
    <3> DEFINE a == Len(q)
    <3>1. o = ch
      <4>1. ch \in Dialled
            BY <1>0, <1>9, WiresAssumption, Zenon DEF BaseInv, Made, Dialled
      <4>2. QED
            BY <2>4, <4>1, Zenon
    <3>2. /\ Carry(s, a, wrote, ToData, srvUp[ch]) /\ \A i \in 1..a : q[i] = i
          /\ a \in Nat /\ srvUp[ch] \in BOOLEAN
          BY <1>0, <1>3, <1>9, <2>4, <3>1, ZenonT(30) DEF Sole, s, q
    <3> HIDE DEF a
    <3>3. n = a + 1 /\ Carry(Tail(s), a + 1, wrote, ToData, srvUp[ch])
          BY <1>2, <1>3, <1>4, <1>5, <3>2, CarryMoves, SMTT(30) DEF n
    <3>4. /\ Len(Append(q, n)) = a + 1
          /\ \A i \in 1..a + 1 : Append(q, n)[i] = IF i = a + 1 THEN n ELSE q[i]
          BY <1>3 DEF a
    <3>5. \A i \in 1..a + 1 : i = a + 1 \/ i \in 1..a
          BY <3>2
    <3>6. \A i \in 1..Len(tgt'[o]) : tgt'[o][i] = i
          BY <2>2, <3>1, <3>2, <3>3, <3>4, <3>5, ZenonT(30)
    <3>7. QED
          BY <1>6, <2>2, <3>1, <3>3, <3>4, <3>6, Zenon
  <2>5. Sole'
        BY <1>1, <2>4, Zenon DEF Sole
  <2>6. QED
        BY <2>3, <2>5, Zenon
<1>10. QED
      BY <1>1, <1>2, <1>8, <1>9, WiresAssumption, Zenon

\* The steps of the client.
LEMMA TargetActed ==
    ASSUME TargetIInv, BaseInv', NEW ch \in Channels, Acted(ch), Dialled' = Dialled
    PROVE  TargetInv'
<1>0. BaseInv /\ Ascends /\ Reported /\ Aimed /\ Sole
      BY Zenon DEF TargetIInv, TargetInv
<1>1. /\ rv' = rv /\ dial' = dial /\ wrote' = wrote /\ srvUp' = srvUp /\ rev' \in {rev, NoCh}
      /\ Receives(ch) /\ Answered(ch) /\ (tgt' = tgt \/ HandleServerData(ch))
      /\ \A x \in Channels : rc'[x].conn = "none" => rc[x].conn = "none"
      BY Zenon DEF Acted, serverVars, Kin
<1>2. /\ down \in [Channels -> Seq(Downlinked)] /\ up \in [Channels -> Seq(Uplinked)]
      /\ \A c \in Channels : srvUp[c] \in BOOLEAN
      BY <1>0, TargetTypes, Zenon
<1>3. Ascends' /\ Sole'
  <2>1. CASE HandleServerData(ch)
        BY <2>1, TargetPayload, Zenon
  <2>2. CASE ~HandleServerData(ch)
    <3>1. \A c \in Channels : Slipped(c)
          BY <1>1, <1>2, <2>2, Zenon DEF Receives, Slipped
    <3>2. QED
          BY <1>1, <1>2, <2>2, <3>1, TargetSlipped, ZenonT(30)
  <2>3. QED
        BY <2>1, <2>2, Zenon
<1>4. Reported'
  <2>1. ASSUME NEW c \in Channels, ~Without(up'[c], "ok")
        PROVE  ~Without(up[c], "ok") \/ \E x \in Channels : rc'[x].conn # "none"
    <3>1. CASE up' = up
          BY <2>1, <3>1, Zenon
    <3>2. ASSUME NEW S, NEW f \in Uplinked, up' = Put(up, S, <<f>>),
                 f.t = "ok" => \E x \in Channels : rc'[x].conn # "none"
          PROVE  ~Without(up[c], "ok") \/ \E x \in Channels : rc'[x].conn # "none"
      <4>1. Frames(up'[c]) \subseteq Frames(up[c]) \cup {f}
            BY <1>2, <3>2, UpPut, Zenon
      <4>2. QED
            BY <2>1, <3>2, <4>1, Zenon DEF Without
    <3>3. \A f \in Replies : f \in Uplinked
          BY Zenon DEF Replies, Uplinked
    <3>4. CASE PumpRead(ch)
      <4> DEFINE f == [t |-> "data", o |-> ch, n |-> read[ch] + 1]
                 S == Above(rc[ch].sendCh)
      <4>1. read[ch] \in Nat /\ MaxUp \in Nat /\ read[ch] < MaxUp /\ up' = Put(up, S, <<f>>)
            BY <1>0, <3>4, StreamTypes, Zenon DEF PumpRead
      <4>2. f \in Uplinked /\ f.t # "ok"
            BY <4>1 DEF Uplinked
      <4> HIDE DEF f, S
      <4>3. QED
            BY <3>2, <4>1, <4>2, Zenon
    <3>5. QED
          BY <1>1, <3>1, <3>2, <3>3, <3>4, ZenonT(30) DEF Answered
  <2>2. QED
        BY <1>0, <1>1, <2>1, Zenon DEF Reported
<1>5. Aimed'
  <2>1. \A c \in Channels : Frames(down'[c]) \subseteq Frames(down[c])
    <3>1. down' = down \/ Shorter(down, down', ch)
          BY <1>1, Zenon DEF Receives, Shorter
    <3>2. QED
          BY <1>2, <3>1, DownLost, Zenon
  <2>2. \A c \in Channels : ~Without(down'[c], "connect") => ~Without(down[c], "connect")
        BY <2>1, Zenon DEF Without
  <2>3. QED
        BY <1>0, <1>1, <2>2, Zenon DEF Aimed
<1>6. QED
      BY <1>3, <1>4, <1>5, Zenon DEF TargetInv

\* The request is sent.
LEMMA TargetAsked ==
    ASSUME TargetIInv, NEW S, Asked(S)
    PROVE  TargetInv'
<1>0. BaseInv /\ Ascends /\ Reported /\ Made
      BY Zenon DEF TargetIInv, TargetInv, BaseInv
<1>1. /\ UNCHANGED <<wrote, rev, rc, tgt, up, srvUp>> /\ Dialled' = {}
      /\ dial' # "open" /\ rv'.result # "ok"
      /\ \A c \in Channels : up'[c] = <<>>
      /\ \A c \in Channels : down'[c] = IF c \in S THEN <<[t |-> "connect"]>> ELSE <<>>
      BY Zenon DEF Asked, clientVars
<1>2. Ascends'
  <2> DEFINE f == [t |-> "connect"]
  <2>1. f \in Downlinked /\ f \notin ToData /\ <<>> \in Seq(Downlinked) /\ <<>> \o <<f>> = <<f>>
        BY DEF Downlinked, ToData
  <2>2. /\ wrote \in Nat /\ \A o \in Channels : tgt[o] \in Seq(1..MaxDown)
        /\ \A o \in Channels : Flow(<<>>, tgt[o], wrote)
    <3>1. /\ wrote \in Nat
          /\ \A o \in Channels : tgt[o] \in Seq(1..MaxDown) /\ down[o] \in Seq(Downlinked)
          BY <1>0, TargetTypes, Zenon
    <3>2. QED
          BY <1>0, <3>1, FlowMoves, Zenon DEF Ascends
  <2>3. \A c \in Channels : down'[c] = IF c \in S THEN <<f>> ELSE <<>>
        BY <1>1, Zenon
  <2> HIDE DEF f
  <2>4. \A o \in Channels : Flow(<<>> \o <<f>>, tgt[o], wrote)
        BY <2>1, <2>2, FlowMoves, Zenon
  <2>5. QED
        BY <1>1, <2>1, <2>2, <2>3, <2>4, Zenon DEF Ascends
<1>3. Reported'
      BY <1>0, <1>1 DEF Reported, Without, Frames
<1>4. Aimed'
  <2>1. CASE ~entry
        BY <2>1, Zenon DEF Aimed, Asked
  <2>2. CASE entry
    <3>1. rv'.sendCh = Pair.down /\ (S = {Pair.down} \/ ~srvUp'[Pair.down])
          BY <2>2, Zenon DEF Asked
    <3>2. ASSUME NEW o \in Channels, ~Without(down'[o], "connect") PROVE o \in S
          BY <1>1, <3>2 DEF Without, Frames
    <3>3. QED
          BY <1>1, <3>1, <3>2, Zenon DEF Aimed
  <2>3. QED
        BY <2>1, <2>2, Zenon
<1>5. Sole'
      BY <1>1, Zenon DEF Sole
<1>6. QED
      BY <1>2, <1>3, <1>4, <1>5, Zenon DEF TargetInv

\* The server chooses: among the channels of targets.
LEMMA TargetChosen ==
    ASSUME TargetIInv, NEW ch \in Channels, NEW m, Chosen(ch, m), Dialled' = Dialled
    PROVE  TargetInv'
<1> DEFINE g == [t |-> "selectDownlink", ch |-> ch]
           S == Below(m.ch)
<1>0. BaseInv /\ Ascends /\ Reported /\ Sole
      BY Zenon DEF TargetIInv, TargetInv
<1>1. /\ UNCHANGED <<dial, wrote, rev, rc, tgt, srvUp>> /\ rv'.result = rv.result
      /\ rv'.sendCh = m.ch /\ m.ch \in Dialled /\ down' = Put(down, S, <<g>>)
      /\ up[ch] # <<>> /\ up' = [up EXCEPT ![ch] = Tail(up[ch])]
      BY Zenon DEF Chosen, clientVars
<1>2. g \in Downlinked /\ g.t # "data"
      BY Zenon DEF Downlinked
<1> HIDE DEF g, S
<1>3. Ascends' /\ Sole'
  <2>1. \A c \in Channels : Slipped(c)
    <3>1. \A c \in Channels : Put(down, S, <<g>>)[c] = IF c \in S THEN down[c] \o <<g>> ELSE down[c]
          BY PutAt
    <3>2. QED
          BY <1>1, <1>2, <3>1, Zenon DEF Slipped
  <2>2. \A c \in Channels : srvUp[c] \in BOOLEAN
        BY <1>0, TargetTypes, Zenon
  <2>3. QED
        BY <1>1, <2>1, <2>2, TargetSlipped, Zenon
<1>4. Reported'
  <2>1. \A c \in Channels : Frames(up'[c]) \subseteq Frames(up[c])
    <3>1. Shorter(up, up', ch)
          BY <1>1, Zenon DEF Shorter
    <3>2. QED
          BY <1>0, <3>1, TargetTypes, UpLost, Zenon
  <2>2. QED
        BY <1>0, <1>1, <2>1, Zenon DEF Reported, Without
<1>5. Aimed'
      BY <1>1, Zenon DEF Aimed
<1>6. QED
      BY <1>3, <1>4, <1>5, Zenon DEF TargetInv

\* The client makes a state: for the first one nothing was written yet, for another one
\* there are two targets.
LEMMA TargetCreated ==
    ASSUME TargetIInv, NEW ch \in Channels, NEW hot \in BOOLEAN, Created(ch, hot)
    PROVE  TargetInv'
<1>0. BaseInv /\ Ascends /\ Reported /\ Aimed /\ Made
      BY Zenon DEF TargetIInv, TargetInv, BaseInv
<1>1. /\ UNCHANGED <<rv, dial, wrote, tgt, srvUp>> /\ rev' = ch
      /\ rc[ch].stage = "none" /\ rc[ch].conn = "none" /\ tgt[ch] = <<>>
      /\ rc' = [rc EXCEPT ![ch] = rc'[ch]] /\ Dialled' = Dialled \cup {ch}
      /\ down[ch] # <<>> /\ down' = [down EXCEPT ![ch] = Tail(down[ch])]
      /\ ~Without(down[ch], "connect") /\ Without(down'[ch], "connect")
      BY <1>0, Zenon DEF Created, serverVars, Without, Made
<1>2. /\ down \in [Channels -> Seq(Downlinked)] /\ up \in [Channels -> Seq(Uplinked)]
      /\ wrote \in Nat /\ \A c \in Channels : down[c] \in Seq(Downlinked) /\ srvUp[c] \in BOOLEAN
      /\ \A o \in Channels : tgt[o] \in Seq(1..MaxDown)
      BY <1>0, TargetTypes, Zenon
<1>3. down'[ch] = Tail(down[ch]) /\ \A c \in Channels : c # ch => down'[c] = down[c]
      BY <1>1, <1>2, Zenon
<1>4. \A o \in Channels : rc[o].conn # "none" => rc'[o].conn # "none"
  <2>1. rc \in [Channels -> Revs]
        BY <1>0, Typed, Zenon DEF BaseInv, ClientTypes
  <2>2. \A o \in Channels : o # ch => rc'[o] = rc[o]
        BY <1>1, <2>1, Zenon
  <2>3. QED
        BY <1>1, <2>2, Zenon
<1>5. Ascends'
  <2>1. \A o \in Channels : Flow(down[o], tgt[o], wrote)
        BY <1>0, Zenon DEF Ascends
  <2>2. Flow(Tail(down[ch]), tgt[ch], wrote)
        BY <1>1, <1>2, <2>1, FlowMoves, Zenon
  <2>3. QED
        BY <1>1, <1>3, <2>1, <2>2, Zenon DEF Ascends
<1>6. Reported'
  <2>1. \A c \in Channels : ~Without(up'[c], "ok") => ~Without(up[c], "ok")
    <3>1. CASE hot
          BY <3>1, Zenon DEF Created
    <3>2. CASE ~hot
      <4> DEFINE f == [t |-> "selectUplink", ch |-> ch]
                 S == OpenAt(cliUp)
      <4>1. f \in Uplinked /\ f.t # "ok" /\ up' = Put(up, S, <<f>>)
            BY <3>2, Zenon DEF Created, Uplinked
      <4> HIDE DEF f, S
      <4>2. \A c \in Channels : Frames(up'[c]) \subseteq Frames(up[c]) \cup {f}
            BY <1>2, <4>1, UpPut, Zenon
      <4>3. QED
            BY <4>1, <4>2, Zenon DEF Without
    <3>3. QED
          BY <3>1, <3>2, Zenon
  <2>2. QED
        BY <1>0, <1>1, <1>4, <2>1, Zenon DEF Reported
<1>7. Aimed'
  <2>1. ASSUME NEW o \in Channels, rv.reg, Dialled' \subseteq {o}
        PROVE  rv.sendCh \in {NoCh, o} \/ ~srvUp[rv.sendCh]
    <3>1. o = ch /\ Dialled \subseteq {o}
          BY <1>1, <2>1, Zenon
    <3>2. QED
          BY <1>0, <1>1, <2>1, <3>1, Zenon DEF Aimed
  <2>2. QED
        BY <1>1, <2>1, Zenon DEF Aimed
<1>8. Sole'
  <2>1. ASSUME NEW o \in Channels, Dialled' = {o}
        PROVE  /\ \A i \in 1..Len(tgt[o]) : tgt[o][i] = i
               /\ Carry(down'[o], Len(tgt[o]), wrote, ToData, srvUp[o])
    <3>1. o = ch /\ Dialled = {}
      <4>1. ch \notin Dialled
            BY <1>1, Zenon DEF Dialled
      <4>2. QED
            BY <1>1, <2>1, <4>1
    <3>2. wrote = 0
      <4>1. \A x \in Channels : rc[x].conn = "none"
            BY <1>0, <3>1, Zenon DEF Dialled, Made
      <4>2. QED
            BY <1>0, <1>2, <4>1 DEF Reported
    <3>3. Flow(down'[ch], tgt[ch], 0) /\ down'[ch] \in Seq(Downlinked)
      <4>1. down'[ch] \in Seq(Downlinked)
            BY <1>1, <1>2, <1>3
      <4>2. QED
            BY <1>1, <1>5, <3>2, <4>1, Zenon DEF Ascends
    <3>4. Carry(down'[ch], 0, 0, ToData, srvUp[ch])
          BY <1>2, <3>3, FlowNone, Zenon
    <3>5. QED
          BY <1>1, <3>1, <3>2, <3>4, SMTT(30)
  <2>2. QED
        BY <1>1, <2>1, Zenon DEF Sole
<1>9. QED
      BY <1>5, <1>6, <1>7, <1>8, Zenon DEF TargetInv

\* The client learns its channel.
LEMMA TargetLearnt ==
    ASSUME TargetIInv, NEW ch \in Channels, NEW m, Learnt(ch, m)
    PROVE  TargetInv'
<1>0. BaseInv /\ Ascends /\ Reported /\ Aimed /\ Sole
      BY Zenon DEF TargetIInv, TargetInv
<1>1. /\ UNCHANGED <<rv, dial, wrote, rev, tgt, up, srvUp>> /\ Dialled' = Dialled
      /\ down[ch] # <<>> /\ Head(down[ch]).t = "selectDownlink"
      /\ down' = [down EXCEPT ![ch] = Tail(down[ch])]
      BY Zenon DEF Learnt, serverVars
<1>2. /\ down \in [Channels -> Seq(Downlinked)] /\ \A c \in Channels : srvUp[c] \in BOOLEAN
      BY <1>0, TargetTypes, Zenon
<1>3. \A c \in Channels : Slipped(c)
      BY <1>1, <1>2, Zenon DEF Slipped
<1>4. Ascends' /\ Sole'
      BY <1>1, <1>2, <1>3, TargetSlipped, Zenon
<1>5. \A o \in Channels : rc'[o].conn = rc[o].conn
  <2>1. rc \in [Channels -> Revs] /\ rc[ch] \in Revs
        BY <1>0, Typed, Zenon DEF BaseInv, ClientTypes
  <2>2. CASE rc' = rc
        BY <2>2, Zenon
  <2>3. CASE rc' = [rc EXCEPT ![ch] = [rc[ch] EXCEPT !.sendCh = m.ch]]
    <3>1. [rc[ch] EXCEPT !.sendCh = m.ch].conn = rc[ch].conn
          BY <2>1, Zenon DEF Revs
    <3>2. QED
          BY <2>1, <2>3, <3>1, Zenon
  <2>4. QED
        BY <2>2, <2>3, Zenon DEF Learnt
<1>6. Reported'
      BY <1>0, <1>1, <1>5, Zenon DEF Reported
<1>7. \A c \in Channels : Frames(down'[c]) \subseteq Frames(down[c])
  <2>1. Shorter(down, down', ch)
        BY <1>1, Zenon DEF Shorter
  <2>2. QED
        BY <1>2, <2>1, DownLost, Zenon
<1>8. \A c \in Channels : ~Without(down'[c], "connect") => ~Without(down[c], "connect")
      BY <1>7, Zenon DEF Without
<1>9. Aimed'
      BY <1>0, <1>1, <1>8, Zenon DEF Aimed
<1>10. QED
      BY <1>4, <1>6, <1>9, Zenon DEF TargetInv

\* Every step keeps the order at the targets.
LEMMA TargetStep ==
    ASSUME TargetIInv, [Next]_vars
    PROVE  TargetIInv'
<1>0. BaseInv
      BY Zenon DEF TargetIInv
<1>1. CASE UNCHANGED vars
  <2> USE DEF vars, serverVars, clientVars, wires
  <2>1. TypeOK' <=> TypeOK
        BY <1>1 DEF TypeOK
  <2>2. (Requests' <=> Requests) /\ (Made' <=> Made) /\ Dialled' = Dialled
        BY <1>1, Zenon DEF Requests, Made, Idle, Dialled
  <2>3. (Ascends' <=> Ascends) /\ (Reported' <=> Reported)
        BY <1>1, Zenon DEF Ascends, Reported
  <2>4. (Aimed' <=> Aimed) /\ (Sole' <=> Sole)
        BY <1>1, <2>2, Zenon DEF Aimed, Sole
  <2>5. QED
        BY <2>1, <2>2, <2>3, <2>4, Zenon DEF TargetIInv, TargetInv, BaseInv
<1>2. CASE DialSend
      BY <1>0, <1>2, DialSteps, TargetAsked, Zenon DEF TargetIInv
<1>3. ASSUME NEW ch \in Channels,
             Serves(ch) \/ Chooses(ch) \/ Acts(ch) \/ Creates(ch) \/ Learns(ch)
      PROVE  TargetIInv'
  <2>1. CASE Serves(ch)
        BY <1>0, <2>1, ServerSteps, BaseServed, TargetServed, Zenon DEF TargetIInv
  <2>2. CASE Chooses(ch)
        BY <1>0, <2>2, ChoiceSteps, TargetChosen, Zenon DEF TargetIInv
  <2>3. CASE Acts(ch)
        BY <1>0, <2>3, ClientSteps, BaseActed, TargetActed, Zenon DEF TargetIInv
  <2>4. CASE Creates(ch)
        BY <1>0, <2>4, CreationSteps, TargetCreated, Zenon DEF TargetIInv
  <2>5. CASE Learns(ch)
        BY <1>0, <2>5, LearningSteps, TargetLearnt, Zenon DEF TargetIInv
  <2>6. QED
        BY <1>3, <2>1, <2>2, <2>3, <2>4, <2>5, Zenon
<1>4. QED
      BY <1>1, <1>2, <1>3, NextCases, Zenon

\* A target receives payloads in the order in which they were written, and the only
\* target of a connection the first ones, whatever channels are chosen or fail.
THEOREM TargetsAreFed == Spec => []ToTargetPrefix
<1>1. Init => TargetIInv
  <2> SUFFICES ASSUME Init PROVE TargetIInv
      BY Zenon
  <2>1. BaseInv
        BY BaseInitial, Zenon
  <2>2. /\ wrote = 0 /\ dial = "idle" /\ rv.result = "none" /\ ~rv.reg /\ Dialled = {}
        /\ \A c \in Channels : up[c] = <<>> /\ down[c] = <<>> /\ tgt[c] = <<>>
    <3>1. \A c \in Channels : rc[c].stage = "none"
          BY Zenon DEF Init, Fresh
    <3>2. QED
          BY <3>1, Zenon DEF Init, WiresInit, Dialled
  <2>3. Flow(<<>>, <<>>, 0)
    <3>1. Rising(<<>>, ToData, 0, 0) /\ Ahead(<<>>, ToData, <<>>)
          BY Empty
    <3>2. QED
          BY <3>1 DEF Flow, Sorted
  <2>4. TargetInv
        BY <2>2, <2>3 DEF TargetInv, Ascends, Reported, Aimed, Sole, Without, Frames
  <2>5. QED
        BY <2>1, <2>4, Zenon DEF TargetIInv
<1>2. TargetIInv /\ [Next]_vars => TargetIInv'
      BY TargetStep, Zenon
<1>3. TargetIInv => ToTargetPrefix
      BY Zenon DEF TargetIInv, TargetInv, Ascends, Flow, Sorted, Sole, ToTargetPrefix
<1>4. QED
      BY <1>1, <1>2, <1>3, PTL DEF Spec

=============================================================================
