--------------------------- MODULE Server_proofs ----------------------------
(***************************************************************************)
(* The server's channels: their registry (ServerChannels), the queues they *)
(* are written from (ServerQueue), and the client that obeys these         *)
(* (Backpressure).                                                         *)
(*                                                                         *)
(* The registry is consistent and within its limits for every set of       *)
(* clients, sockets and channel numbers and for every limit: what a step   *)
(* can do to it is one of three effects (Same, Stored, Removed; lemma      *)
(* Effect), and each invariant is kept by each effect.                     *)
(*                                                                         *)
(* BytesAccounted holds for any channels, producers, sizes and limits, and *)
(* NoLostWakeup when one goroutine at most waits for the end of a pause.   *)
(***************************************************************************)
EXTENDS ServerChannels, Backpressure, TLAPS

-----------------------------------------------------------------------------
\* The registry

\* The types of the variables that the registry's invariants are about.
RegistryTypes ==
    /\ phase \in [Sockets -> Phases]
    /\ clientID \in [Sockets -> Clients \cup {NoClient}]
    /\ chID \in [Sockets -> ChIDs \cup {0}]
    /\ isClosed \in [Sockets -> BOOLEAN]
    /\ wsConns \in SUBSET Sockets
    /\ clientChConns \in [Clients -> [ChIDs -> Sockets \cup {NoSocket}]]
    /\ cleaner \in [Sockets -> {"none", "marked", "swept", "done"}]
    /\ victim \in [Sockets -> Sockets \cup {NoSocket}]
    /\ inHand \in [Sockets -> Messages \cup {NoMsg}]

\* What a registered, closing or reading socket is: it carries a client and a
\* number, and only handleWebSocket's last step registers it.
Registered ==
    /\ \A s \in Sockets : phase[s] \in {"requested", "upgrading", "serving"} =>
                              clientID[s] \in Clients /\ chID[s] \in ChIDs
    /\ \A s \in wsConns : phase[s] = "serving"
    /\ \A s \in Sockets : cleaner[s] # "none" => phase[s] = "serving"
    /\ \A s \in Sockets : inHand[s] # NoMsg => phase[s] = "serving"

-----------------------------------------------------------------------------
\* A request without ch_id is one that names the number chosen for it, or is
\* refused.
Refuse(s) ==
    /\ phase[s] = "idle"
    /\ phase' = [phase EXCEPT ![s] = "refused"]
    /\ UNCHANGED <<clientID, chID, isClosed, wsConns, clientChConns, cleaner,
                   victim, toClose, handling, tables>>

\* allocClientChIDLocked takes no step that a request for a named number, or a
\* refusal, could not take.
LEMMA AllocIsRequest ==
    ASSUME NEW s \in Sockets, NEW c \in Clients, RequestAlloc(s, c)
    PROVE  (\E k \in ChIDs : Request(s, c, k)) \/ Refuse(s)
<1>1. CASE FreeChIDs(c) = {}
  BY <1>1, Zenon DEF RequestAlloc, Refuse
<1>2. CASE FreeChIDs(c) # {}
  <2>1. PICK k \in ChIDs : /\ phase' = [phase EXCEPT ![s] = "requested"]
                          /\ clientID' = [clientID EXCEPT ![s] = c]
                          /\ chID' = [chID EXCEPT ![s] = k]
    BY <1>2, Zenon DEF RequestAlloc, FreeChIDs
  <2>2. /\ phase[s] = "idle"
        /\ UNCHANGED <<isClosed, wsConns, clientChConns, cleaner, victim, toClose,
                       handling, tables>>
    BY Zenon DEF RequestAlloc
  <2> QED BY <2>1, <2>2, Zenon DEF Request
<1> QED BY <1>1, <1>2, Zenon

\* A step is one of a socket's, with the two kinds of request made one.
LEMMA RegistrySteps ==
    ASSUME RegistryNext
    PROVE  \E s \in Sockets :
              \/ \E c \in Clients, k \in ChIDs : Request(s, c, k)
              \/ Refuse(s) \/ Precheck(s) \/ StoreChannel(s) \/ MarkClosed(s)
              \/ Sweep(s) \/ FinishCleanup(s)
              \/ \E id \in ConnIDs : CloseSwept(s, id)
              \/ \E m \in Messages : ReadMessage(s, m)
              \/ ResolveOwner(s) \/ HandleTCPConnect(s) \/ HandleTCPClose(s)
              \/ HandleHotPairBegin(s)
<1>1. PICK s \in Sockets :
              \/ \E c \in Clients, k \in ChIDs : Request(s, c, k)
              \/ \E c \in Clients : RequestAlloc(s, c)
              \/ Precheck(s) \/ StoreChannel(s) \/ MarkClosed(s)
              \/ Sweep(s) \/ FinishCleanup(s)
              \/ \E id \in ConnIDs : CloseSwept(s, id)
              \/ \E m \in Messages : ReadMessage(s, m)
              \/ ResolveOwner(s) \/ HandleTCPConnect(s) \/ HandleTCPClose(s)
              \/ HandleHotPairBegin(s)
  BY Zenon DEF RegistryNext
<1>2. ASSUME NEW c \in Clients, RequestAlloc(s, c)
      PROVE  (\E k \in ChIDs : Request(s, c, k)) \/ Refuse(s)
  BY <1>2, AllocIsRequest, Zenon
<1> QED BY <1>1, <1>2, Zenon

\* Every step keeps the types.
LEMMA TypeStep ==
    ASSUME RegistryTypeOK, Registered, [RegistryNext]_registryVars
    PROVE  RegistryTypeOK'
<1>0. CASE UNCHANGED registryVars
  BY <1>0, Zenon DEF registryVars, RegistryTypeOK
<1> SUFFICES ASSUME RegistryNext PROVE RegistryTypeOK'
  BY <1>0, Zenon
<1> PICK s \in Sockets :
              \/ \E c \in Clients, k \in ChIDs : Request(s, c, k)
              \/ Refuse(s) \/ Precheck(s) \/ StoreChannel(s) \/ MarkClosed(s)
              \/ Sweep(s) \/ FinishCleanup(s)
              \/ \E id \in ConnIDs : CloseSwept(s, id)
              \/ \E m \in Messages : ReadMessage(s, m)
              \/ ResolveOwner(s) \/ HandleTCPConnect(s) \/ HandleTCPClose(s)
              \/ HandleHotPairBegin(s)
  BY RegistrySteps, Zenon
<1>n. phase[s] \in {"upgrading", "serving"} \/ cleaner[s] # "none" \/ inHand[s] # NoMsg
          => clientID[s] \in Clients /\ chID[s] \in ChIDs
  BY Zenon DEF Registered
<1> USE DEF RegistryTypeOK
<1>1. CASE \E c \in Clients, k \in ChIDs : Request(s, c, k)
  BY <1>1, SMTT(30) DEF Request, Phases, handling, tables
<1>2. CASE Refuse(s)
  BY <1>2, Zenon DEF Refuse, Phases, handling, tables
<1>3. CASE Precheck(s)
  BY <1>3, Zenon DEF Precheck, Phases, handling, tables
<1>4. CASE StoreChannel(s)
  <2>1. clientID[s] \in Clients /\ chID[s] \in ChIDs
    BY <1>4, <1>n, Zenon DEF StoreChannel
  <2>2. clientChConns' \in [Clients -> [ChIDs -> Sockets \cup {NoSocket}]]
    <3>1. CASE MayStore(s)
      <4>1. [clientChConns[clientID[s]] EXCEPT ![chID[s]] = s]
                \in [ChIDs -> Sockets \cup {NoSocket}]
        BY <2>1, Zenon
      <4>2. clientChConns' = [clientChConns EXCEPT ![clientID[s]] =
                                 [clientChConns[clientID[s]] EXCEPT ![chID[s]] = s]]
        BY <1>4, <2>1, <3>1, Zenon DEF StoreChannel
      <4> QED BY <2>1, <4>1, <4>2, Zenon
    <3>2. CASE ~MayStore(s)
      BY <1>4, <3>2, Zenon DEF StoreChannel
    <3> QED BY <3>1, <3>2, Zenon
  <2>3. phase' \in [Sockets -> Phases] /\ wsConns' \in SUBSET Sockets
    BY <1>4, Zenon DEF StoreChannel, Phases
  <2> QED BY <1>4, <2>2, <2>3, Zenon DEF StoreChannel, handling, tables
<1>5. CASE MarkClosed(s)
  BY <1>5, Zenon DEF MarkClosed, handling, tables
<1>6. CASE Sweep(s)
  <2>1. clientID[s] \in Clients /\ chID[s] \in ChIDs
    BY <1>6, <1>n, Zenon DEF Sweep
  <2> DEFINE found == clientChConns[clientID[s]][chID[s]]
             left == [clientChConns[clientID[s]] EXCEPT ![chID[s]] = NoSocket]
             swept == {x.id : x \in {y \in conns : y.client = clientID[s] /\ y.up = chID[s]}}
  <2>2. /\ clientChConns' = [clientChConns EXCEPT ![clientID[s]] = left]
        /\ victim' = [victim EXCEPT ![s] = found]
        /\ cleaner' = [cleaner EXCEPT ![s] = "swept"]
        /\ toClose' = [toClose EXCEPT ![s] = swept]
        /\ wsConns' \in SUBSET Sockets /\ prebindArmed' \in SUBSET Clients
        /\ UNCHANGED <<phase, clientID, chID, isClosed, handling, conns>>
    BY <1>6, Zenon DEF Sweep
  <2>3. found \in Sockets \cup {NoSocket} /\ left \in [ChIDs -> Sockets \cup {NoSocket}]
    BY <2>1, SMTT(30)
  <2>4. swept \in SUBSET ConnIDs
    BY Zenon DEF Conns
  <2> HIDE DEF found, left, swept
  <2> QED BY <2>1, <2>2, <2>3, <2>4, Zenon DEF handling
<1>7. CASE \E id \in ConnIDs : CloseSwept(s, id)
  BY <1>7 DEF CloseSwept, reg, handling
<1>8. CASE FinishCleanup(s)
  BY <1>8, Zenon DEF FinishCleanup, handling, tables
<1>9. CASE \E m \in Messages : ReadMessage(s, m)
  <2> PICK m \in Messages : ReadMessage(s, m)
    BY <1>9, Zenon
  <2>1. /\ inHand' = [inHand EXCEPT ![s] = m]
        /\ UNCHANGED <<reg, cleaner, victim, toClose, owner, tables>>
    BY Zenon DEF ReadMessage
  <2>2. inHand' \in [Sockets -> Messages \cup {NoMsg}]
    BY <2>1, Zenon
  <2> QED BY <2>1, <2>2, Zenon DEF reg, tables
<1>10. CASE ResolveOwner(s)
  BY <1>10, <1>n, ZenonT(30) DEF ResolveOwner, reg, tables
<1>11. CASE HandleTCPConnect(s)
  <2>1. inHand[s].id \in ConnIDs
    BY <1>11, Zenon DEF HandleTCPConnect, Messages
  <2>2. chID[s] \in ChIDs /\ owner[s] \in Clients \cup {NoClient}
    BY <1>11, <1>n, Zenon DEF HandleTCPConnect
  <2>3. [id |-> inHand[s].id, client |-> owner[s], up |-> chID[s]] \in Conns
    BY <2>1, <2>2, Zenon DEF Conns
  <2>4. conns' \in SUBSET Conns
    BY <1>11, <2>3, Zenon DEF HandleTCPConnect
  <2> QED BY <1>11, <2>4, Zenon DEF HandleTCPConnect, reg
<1>12. CASE HandleTCPClose(s)
  BY <1>12, Zenon DEF HandleTCPClose, reg
<1>13. CASE HandleHotPairBegin(s)
  BY <1>13, <1>n, Zenon DEF HandleHotPairBegin, reg
<1> QED BY <1>1, <1>2, <1>3, <1>4, <1>5, <1>6, <1>7, <1>8, <1>9, <1>10, <1>11, <1>12, <1>13, Zenon

\* Every step keeps what is known of registered sockets.
LEMMA RegisteredStep ==
    ASSUME RegistryTypeOK, Registered, [RegistryNext]_registryVars
    PROVE  Registered'
<1>t. RegistryTypes
  BY Zenon DEF RegistryTypeOK, RegistryTypes
<1>0. CASE UNCHANGED registryVars
  BY <1>0, Zenon DEF registryVars, Registered
<1> SUFFICES ASSUME RegistryNext PROVE Registered'
  BY <1>0, Zenon
<1> PICK s \in Sockets :
              \/ \E c \in Clients, k \in ChIDs : Request(s, c, k)
              \/ Refuse(s) \/ Precheck(s) \/ StoreChannel(s) \/ MarkClosed(s)
              \/ Sweep(s) \/ FinishCleanup(s)
              \/ \E id \in ConnIDs : CloseSwept(s, id)
              \/ \E m \in Messages : ReadMessage(s, m)
              \/ ResolveOwner(s) \/ HandleTCPConnect(s) \/ HandleTCPClose(s)
              \/ HandleHotPairBegin(s)
  BY RegistrySteps, Zenon
<1> USE <1>t DEF RegistryTypes, Registered
<1>1. CASE \E c \in Clients, k \in ChIDs : Request(s, c, k)
  BY <1>1 DEF Request, handling
<1>2. CASE Refuse(s) \/ Precheck(s)
  BY <1>2, Zenon DEF Refuse, Precheck, handling
<1>3. CASE StoreChannel(s)
  <2>1. phase' = [phase EXCEPT ![s] = "serving"] \/ phase' = [phase EXCEPT ![s] = "refused"]
    BY <1>3, Zenon DEF StoreChannel
  <2>2. /\ phase[s] = "upgrading"
        /\ UNCHANGED <<clientID, chID, cleaner, inHand>>
    BY <1>3, Zenon DEF StoreChannel, handling
  <2>3. wsConns' = wsConns \/ (wsConns' = wsConns \cup {s} /\ phase'[s] = "serving")
    BY <1>3, Zenon DEF StoreChannel
  <2> QED BY <2>1, <2>2, <2>3, ZenonT(30)
<1>4. CASE MarkClosed(s)
  BY <1>4, Zenon DEF MarkClosed, handling
<1>5. CASE Sweep(s)
  <2>1. /\ cleaner[s] = "marked" /\ cleaner' = [cleaner EXCEPT ![s] = "swept"]
        /\ wsConns' \in SUBSET wsConns
        /\ UNCHANGED <<phase, clientID, chID, inHand>>
    BY <1>5, Zenon DEF Sweep, handling
  <2> QED BY <2>1, Zenon
<1>6. CASE FinishCleanup(s)
  BY <1>6, Zenon DEF FinishCleanup, handling
<1>7. CASE \E id \in ConnIDs : CloseSwept(s, id)
  BY <1>7, Zenon DEF CloseSwept, reg, handling
<1>8. CASE \E m \in Messages : ReadMessage(s, m)
  BY <1>8, Zenon DEF ReadMessage, reg
<1>9. CASE ResolveOwner(s)
  BY <1>9, Zenon DEF ResolveOwner, reg
<1>10. CASE HandleTCPConnect(s) \/ HandleTCPClose(s) \/ HandleHotPairBegin(s)
  <2>1. /\ UNCHANGED <<phase, clientID, chID, wsConns, cleaner>>
        /\ inHand' = [inHand EXCEPT ![s] = NoMsg]
    BY <1>10, Zenon DEF HandleTCPConnect, HandleTCPClose, HandleHotPairBegin, reg
  <2> QED BY <2>1, Zenon
<1> QED BY <1>1, <1>2, <1>3, <1>4, <1>5, <1>6, <1>7, <1>8, <1>9, <1>10, Zenon

-----------------------------------------------------------------------------
\* The effects of a step on the registry.  Neither index changes: a socket may
\* be closed by itself, or by the cleanup that has swept it.
Same ==
    /\ UNCHANGED <<wsConns, clientChConns, victim>>
    /\ \A x \in Sockets : phase[x] = "serving" =>
           phase'[x] = "serving" /\ clientID'[x] = clientID[x] /\ chID'[x] = chID[x]
    /\ \A x \in Sockets : isClosed[x] => isClosed'[x]
    /\ \A x \in Sockets : cleaner[x] = "marked" => cleaner'[x] = "marked"
    /\ \A x \in Sockets : isClosed'[x] =>
           \/ isClosed[x]
           \/ phase[x] = "serving" /\ cleaner'[x] = "marked"
           \/ \E s \in Sockets : x = victim[s]

\* A socket is stored under a number that no open socket has.
Stored(s) ==
    /\ phase[s] # "serving" /\ clientID[s] \in Clients /\ chID[s] \in ChIDs
    /\ MayStore(s)
    /\ phase' = [phase EXCEPT ![s] = "serving"]
    /\ wsConns' = wsConns \cup {s}
    /\ \A c \in Clients, k \in ChIDs : clientChConns'[c][k] =
           IF c = clientID[s] /\ k = chID[s] THEN s ELSE clientChConns[c][k]
    /\ UNCHANGED <<clientID, chID, isClosed, cleaner, victim>>

\* A cleanup removes what is stored under the number of its socket.
Removed(s) ==
    LET found == clientChConns[clientID[s]][chID[s]] IN
    /\ phase[s] = "serving" /\ clientID[s] \in Clients /\ chID[s] \in ChIDs
    /\ wsConns' = wsConns \ {found}
    /\ \A c \in Clients, k \in ChIDs : clientChConns'[c][k] =
           IF c = clientID[s] /\ k = chID[s] THEN NoSocket ELSE clientChConns[c][k]
    /\ victim' = [victim EXCEPT ![s] = found]
    /\ cleaner' = [cleaner EXCEPT ![s] = "swept"]
    /\ UNCHANGED <<phase, clientID, chID, isClosed>>

\* Every step has one of the three effects.
LEMMA Effect ==
    ASSUME RegistryTypeOK, Registered, [RegistryNext]_registryVars
    PROVE  Same \/ \E s \in Sockets : Stored(s) \/ Removed(s)
<1>t. RegistryTypes
  BY Zenon DEF RegistryTypeOK, RegistryTypes
<1>1. ASSUME UNCHANGED <<wsConns, clientChConns, victim, clientID, chID, isClosed, cleaner>>,
             \A x \in Sockets : phase[x] = "serving" => phase'[x] = "serving"
      PROVE  Same
  BY <1>1, Zenon DEF Same
<1>2. CASE UNCHANGED registryVars
  BY <1>1, <1>2, Zenon DEF registryVars
<1> SUFFICES ASSUME RegistryNext PROVE Same \/ \E s \in Sockets : Stored(s) \/ Removed(s)
  BY <1>2, Zenon
<1> PICK s \in Sockets :
              \/ \E c \in Clients, k \in ChIDs : Request(s, c, k)
              \/ Refuse(s) \/ Precheck(s) \/ StoreChannel(s) \/ MarkClosed(s)
              \/ Sweep(s) \/ FinishCleanup(s)
              \/ \E id \in ConnIDs : CloseSwept(s, id)
              \/ \E m \in Messages : ReadMessage(s, m)
              \/ ResolveOwner(s) \/ HandleTCPConnect(s) \/ HandleTCPClose(s)
              \/ HandleHotPairBegin(s)
  BY RegistrySteps, Zenon
<1>3. CASE \E c \in Clients, k \in ChIDs : Request(s, c, k)
  BY <1>t, <1>3, Zenon DEF Request, Same, RegistryTypes
<1>4. CASE Refuse(s) \/ Precheck(s)
  BY <1>t, <1>1, <1>4, Zenon DEF Refuse, Precheck, RegistryTypes
<1>5. CASE StoreChannel(s)
  <2>1. CASE ~MayStore(s)
    BY <1>t, <1>1, <1>5, <2>1, Zenon DEF StoreChannel, RegistryTypes
  <2>2. CASE MayStore(s)
    <3>1. phase[s] = "upgrading" /\ clientID[s] \in Clients /\ chID[s] \in ChIDs
      BY <1>5, Zenon DEF StoreChannel, Registered
    <3>2. /\ clientChConns' = [clientChConns EXCEPT ![clientID[s]][chID[s]] = s]
          /\ phase' = [phase EXCEPT ![s] = "serving"] /\ wsConns' = wsConns \cup {s}
          /\ UNCHANGED <<clientID, chID, isClosed, cleaner, victim>>
      BY <1>5, <2>2, Zenon DEF StoreChannel
    <3>3. \A c \in Clients, k \in ChIDs : clientChConns'[c][k] =
              IF c = clientID[s] /\ k = chID[s] THEN s ELSE clientChConns[c][k]
      BY <1>t, <3>1, <3>2, Zenon DEF RegistryTypes
    <3>4. Stored(s)
      BY <2>2, <3>1, <3>2, <3>3, Zenon DEF Stored
    <3> QED BY <3>4, Zenon
  <2> QED BY <2>1, <2>2, Zenon
<1>6. CASE MarkClosed(s)
  BY <1>t, <1>6, Zenon DEF MarkClosed, Same, RegistryTypes
<1>7. CASE Sweep(s)
  <2>1. phase[s] = "serving" /\ clientID[s] \in Clients /\ chID[s] \in ChIDs
    BY <1>7, Zenon DEF Sweep, Registered
  <2>2. /\ clientChConns' = [clientChConns EXCEPT ![clientID[s]] =
               [clientChConns[clientID[s]] EXCEPT ![chID[s]] = NoSocket]]
        /\ wsConns' = wsConns \ {clientChConns[clientID[s]][chID[s]]}
        /\ victim' = [victim EXCEPT ![s] = clientChConns[clientID[s]][chID[s]]]
        /\ cleaner' = [cleaner EXCEPT ![s] = "swept"]
        /\ UNCHANGED <<phase, clientID, chID, isClosed>>
    BY <1>7, Zenon DEF Sweep
  <2>3. \A c \in Clients, k \in ChIDs : clientChConns'[c][k] =
            IF c = clientID[s] /\ k = chID[s] THEN NoSocket ELSE clientChConns[c][k]
    BY <1>t, <2>1, <2>2, Zenon DEF RegistryTypes
  <2>4. Removed(s)
    BY <2>1, <2>2, <2>3, Zenon DEF Removed
  <2> QED BY <2>4, Zenon
<1>8. CASE FinishCleanup(s)
  BY <1>t, <1>8, Zenon DEF FinishCleanup, Same, RegistryTypes
<1>9. CASE UNCHANGED reg /\ UNCHANGED <<cleaner, victim>>
  BY <1>1, <1>9, Zenon DEF reg
<1>10. CASE \/ \E id \in ConnIDs : CloseSwept(s, id)
            \/ \E m \in Messages : ReadMessage(s, m)
            \/ ResolveOwner(s) \/ HandleTCPConnect(s) \/ HandleTCPClose(s)
            \/ HandleHotPairBegin(s)
  BY <1>9, <1>10, Zenon DEF CloseSwept, ReadMessage, ResolveOwner, HandleTCPConnect,
                     HandleTCPClose, HandleHotPairBegin
<1> QED BY <1>3, <1>4, <1>5, <1>6, <1>7, <1>8, <1>10, Zenon

\* Every effect keeps the two indexes in agreement.
LEMMA IndexStep ==
    ASSUME RegistryTypes, Registered, IndexAgreement,
           Same \/ \E s \in Sockets : Stored(s) \/ Removed(s)
    PROVE  IndexAgreement'
<1>s. NoSocket \notin Sockets
  BY ChannelsAssumption, Zenon
<1> USE <1>s
<1>a. ASSUME NEW x \in Active
      PROVE  /\ x \in Sockets /\ phase[x] = "serving" /\ ~isClosed[x] /\ x \in wsConns
             /\ clientID[x] \in Clients /\ chID[x] \in ChIDs
             /\ clientChConns[clientID[x]][chID[x]] = x
  BY Zenon DEF Active, RegistryTypes, Registered, IndexAgreement
<1>b. ASSUME NEW c \in Clients, NEW k \in ChIDs, clientChConns[c][k] # NoSocket
      PROVE  LET y == clientChConns[c][k]
             IN  /\ y \in Sockets /\ y \in wsConns /\ phase[y] = "serving"
                 /\ clientID[y] = c /\ chID[y] = k
  BY <1>b, Zenon DEF RegistryTypes, Registered, IndexAgreement
<1>1. SUFFICES /\ \A x \in Active' : clientChConns'[clientID'[x]][chID'[x]] = x
               /\ \A c \in Clients, k \in ChIDs : clientChConns'[c][k] # NoSocket =>
                      /\ clientChConns'[c][k] \in wsConns'
                      /\ clientID'[clientChConns'[c][k]] = c
                      /\ chID'[clientChConns'[c][k]] = k
  BY DEF IndexAgreement
<1>2. CASE Same
  <2>1. ASSUME NEW x \in Active' PROVE x \in Active
    BY <1>2, Zenon DEF Active, Same, RegistryTypes
  <2>2. ASSUME NEW x \in Active' PROVE clientChConns'[clientID'[x]][chID'[x]] = x
    BY <1>2, <1>a, <2>1, Zenon DEF Same
  <2>3. ASSUME NEW c \in Clients, NEW k \in ChIDs, clientChConns'[c][k] # NoSocket
        PROVE  /\ clientChConns'[c][k] \in wsConns'
               /\ clientID'[clientChConns'[c][k]] = c
               /\ chID'[clientChConns'[c][k]] = k
    <3>1. clientChConns' = clientChConns /\ wsConns' = wsConns
      BY <1>2, Zenon DEF Same
    <3>2. LET y == clientChConns[c][k]
          IN  /\ y \in Sockets /\ y \in wsConns /\ phase[y] = "serving"
              /\ clientID[y] = c /\ chID[y] = k
      BY <1>b, <2>3, <3>1, Zenon
    <3>3. \A y \in Sockets : phase[y] = "serving" =>
                               clientID'[y] = clientID[y] /\ chID'[y] = chID[y]
      BY <1>2, Zenon DEF Same
    <3> QED BY <3>1, <3>2, <3>3, Zenon
  <2> QED BY <2>2, <2>3, Zenon
<1>3. CASE \E s \in Sockets : Stored(s)
  <2> PICK s \in Sockets : Stored(s)
    BY <1>3, Zenon
  <2>1. ASSUME NEW x \in Active' PROVE x = s \/ x \in Active
    BY Zenon DEF Active, Stored
  <2>2. ASSUME NEW x \in Active' PROVE clientChConns'[clientID'[x]][chID'[x]] = x
    <3>1. CASE x = s
      BY <3>1, Zenon DEF Stored
    <3>2. CASE x # s
      <4>1. ~(clientID[x] = clientID[s] /\ chID[x] = chID[s])
        <5>1. x \in Sockets /\ ~isClosed[x] /\ clientChConns[clientID[x]][chID[x]] = x
          BY <1>a, <2>1, <3>2, Zenon
        <5>2. ~InUse(clientID[s], chID[s])
          BY Zenon DEF Stored, MayStore
        <5>3. ASSUME clientID[x] = clientID[s], chID[x] = chID[s] PROVE FALSE
          <6>1. clientChConns[clientID[s]][chID[s]] = x
            BY <5>1, <5>3, Zenon
          <6>2. x # NoSocket
            BY <1>s, <5>1, Zenon
          <6> QED BY <5>1, <5>2, <6>1, <6>2, Zenon DEF InUse
        <5> QED BY <5>3, Zenon
      <4>2. /\ clientID[x] \in Clients /\ chID[x] \in ChIDs
            /\ clientChConns[clientID[x]][chID[x]] = x
        BY <1>a, <2>1, <3>2, Zenon
      <4>3. clientID' = clientID /\ chID' = chID
        BY Zenon DEF Stored
      <4>4. clientChConns'[clientID[x]][chID[x]] = clientChConns[clientID[x]][chID[x]]
        BY <4>1, <4>2, Zenon DEF Stored
      <4> QED BY <4>2, <4>3, <4>4, Zenon
    <3> QED BY <3>1, <3>2, Zenon
  <2>3. ASSUME NEW c \in Clients, NEW k \in ChIDs, clientChConns'[c][k] # NoSocket
        PROVE  /\ clientChConns'[c][k] \in wsConns'
               /\ clientID'[clientChConns'[c][k]] = c
               /\ chID'[clientChConns'[c][k]] = k
    <3>1. CASE c = clientID[s] /\ k = chID[s]
      BY <3>1, Zenon DEF Stored
    <3>2. CASE ~(c = clientID[s] /\ k = chID[s])
      <4>1. /\ clientChConns'[c][k] = clientChConns[c][k]
            /\ wsConns' = wsConns \cup {s} /\ clientID' = clientID /\ chID' = chID
        BY <3>2, Zenon DEF Stored
      <4>2. /\ clientChConns[c][k] \in wsConns
            /\ clientID[clientChConns[c][k]] = c /\ chID[clientChConns[c][k]] = k
        BY <1>b, <2>3, <4>1, Zenon
      <4> QED BY <4>1, <4>2, Zenon
    <3> QED BY <3>1, <3>2, Zenon
  <2> QED BY <2>2, <2>3, Zenon
<1>4. CASE \E s \in Sockets : Removed(s)
  <2> PICK s \in Sockets : Removed(s)
    BY <1>4, Zenon
  <2>1. ASSUME NEW x \in Active'
        PROVE  x \in Active /\ x # clientChConns[clientID[s]][chID[s]]
    BY Zenon DEF Active, Removed
  <2>2. ASSUME NEW x \in Active' PROVE clientChConns'[clientID'[x]][chID'[x]] = x
    <3>1. /\ x \in Active /\ clientID[x] \in Clients /\ chID[x] \in ChIDs
          /\ clientChConns[clientID[x]][chID[x]] = x
      BY <1>a, <2>1, Zenon
    <3>2. ~(clientID[x] = clientID[s] /\ chID[x] = chID[s])
      BY <2>1, <3>1, Zenon
    <3>3. clientID' = clientID /\ chID' = chID
      BY Zenon DEF Removed
    <3>4. clientChConns'[clientID[x]][chID[x]] = clientChConns[clientID[x]][chID[x]]
      BY <3>1, <3>2, ZenonT(30) DEF Removed
    <3> QED BY <3>1, <3>3, <3>4, Zenon
  <2>3. ASSUME NEW c \in Clients, NEW k \in ChIDs, clientChConns'[c][k] # NoSocket
        PROVE  /\ clientChConns'[c][k] \in wsConns'
               /\ clientID'[clientChConns'[c][k]] = c
               /\ chID'[clientChConns'[c][k]] = k
    <3>1. ~(c = clientID[s] /\ k = chID[s]) /\ clientChConns'[c][k] = clientChConns[c][k]
      BY <2>3 DEF Removed
    <3>2. /\ clientChConns[c][k] \in wsConns
          /\ clientID[clientChConns[c][k]] = c /\ chID[clientChConns[c][k]] = k
      BY <1>b, <2>3, <3>1, Zenon
    <3>3. /\ wsConns' = wsConns \ {clientChConns[clientID[s]][chID[s]]}
          /\ clientID' = clientID /\ chID' = chID
          /\ clientID[s] \in Clients /\ chID[s] \in ChIDs
      BY Zenon DEF Removed
    <3>4. clientChConns[c][k] # clientChConns[clientID[s]][chID[s]]
      <4>1. SUFFICES ASSUME clientChConns[clientID[s]][chID[s]] = clientChConns[c][k]
                     PROVE  FALSE
        BY Zenon
      <4>2. clientChConns[clientID[s]][chID[s]] # NoSocket
        BY <2>3, <3>1, <4>1, Zenon
      <4>3. /\ clientID[clientChConns[clientID[s]][chID[s]]] = clientID[s]
            /\ chID[clientChConns[clientID[s]][chID[s]]] = chID[s]
        BY <1>b, <3>3, <4>2
      <4> QED BY <3>1, <3>2, <4>1, <4>3, Zenon
    <3>5. clientChConns[c][k] \in wsConns'
      BY <3>2, <3>3, <3>4, Zenon
    <3> QED BY <3>1, <3>2, <3>3, <3>5, Zenon
  <2> QED BY <2>2, <2>3, Zenon
<1> QED BY <1>2, <1>3, <1>4, Zenon

\* Only a registered socket is closed, and a socket that a cleanup has swept is
\* under no number any more.
SweptForGood ==
    /\ \A s \in Sockets : isClosed[s] => phase[s] = "serving"
    /\ \A s \in Sockets : victim[s] # NoSocket =>
           /\ phase[victim[s]] = "serving"
           /\ \A c \in Clients, k \in ChIDs : clientChConns[c][k] # victim[s]

\* Every effect keeps closed sockets from being stranded under a number: a
\* cleanup clears the number of its socket, and closes only what it swept.
LEMMA StrandedStep ==
    ASSUME RegistryTypes, Registered, IndexAgreement, SweptForGood, NoStrandedChannel,
           Same \/ \E s \in Sockets : Stored(s) \/ Removed(s)
    PROVE  SweptForGood' /\ NoStrandedChannel'
<1>s. NoSocket \notin Sockets
  BY ChannelsAssumption, Zenon
<1> USE <1>s
<1>b. ASSUME NEW c \in Clients, NEW k \in ChIDs, clientChConns[c][k] # NoSocket
      PROVE  LET y == clientChConns[c][k]
             IN  /\ y \in Sockets /\ phase[y] = "serving"
                 /\ clientID[y] = c /\ chID[y] = k
  BY <1>b, Zenon DEF RegistryTypes, Registered, IndexAgreement
<1>v. \A x \in Sockets : victim[x] \in Sockets \cup {NoSocket}
  BY Zenon DEF RegistryTypes
<1>1. CASE Same
  <2>q. clientChConns' = clientChConns /\ victim' = victim
    BY <1>1, Zenon DEF Same
  <2>0. ASSUME NEW x \in Sockets, victim[x] # NoSocket
        PROVE  /\ victim[x] \in Sockets /\ phase[victim[x]] = "serving"
               /\ \A c \in Clients, k \in ChIDs : clientChConns[c][k] # victim[x]
    BY <1>v, <2>0, Zenon DEF SweptForGood
  <2>c. ASSUME NEW x \in Sockets, isClosed'[x]
        PROVE  /\ phase[x] = "serving"
               /\ \/ isClosed[x]
                  \/ cleaner'[x] = "marked"
                  \/ \E y \in Sockets : x = victim[y]
    <3>1. \/ isClosed[x]
          \/ phase[x] = "serving" /\ cleaner'[x] = "marked"
          \/ \E y \in Sockets : x = victim[y]
      BY <1>1, <2>c, Zenon DEF Same
    <3>2. CASE isClosed[x]
      BY <3>2, Zenon DEF SweptForGood
    <3>3. ASSUME NEW y \in Sockets, x = victim[y] PROVE phase[x] = "serving"
      <4>1. victim[y] # NoSocket
        BY <1>s, <3>3, Zenon
      <4> QED BY <2>0, <3>3, <4>1, Zenon
    <3> QED BY <3>1, <3>2, <3>3, Zenon
  <2>1. SweptForGood'
    <3>1. ASSUME NEW x \in Sockets, isClosed'[x] PROVE phase'[x] = "serving"
      BY <1>1, <2>c, <3>1, Zenon DEF Same
    <3>2. ASSUME NEW x \in Sockets, victim'[x] # NoSocket
          PROVE  /\ phase'[victim'[x]] = "serving"
                 /\ \A c \in Clients, k \in ChIDs : clientChConns'[c][k] # victim'[x]
      <4>1. /\ victim[x] \in Sockets /\ phase[victim[x]] = "serving"
            /\ \A c \in Clients, k \in ChIDs : clientChConns[c][k] # victim[x]
        BY <2>q, <2>0, <3>2, Zenon
      <4>2. phase'[victim[x]] = "serving"
        BY <1>1, <4>1, Zenon DEF Same
      <4> QED BY <2>q, <4>1, <4>2, Zenon
    <3> QED BY <3>1, <3>2, Zenon DEF SweptForGood
  <2>2. NoStrandedChannel'
    <3>1. ASSUME NEW c \in Clients, NEW k \in ChIDs,
                 clientChConns[c][k] # NoSocket, isClosed'[clientChConns[c][k]]
          PROVE  cleaner'[clientChConns[c][k]] = "marked"
      <4>1. clientChConns[c][k] \in Sockets
        BY <1>b, <3>1, Zenon
      <4>2. \/ isClosed[clientChConns[c][k]]
            \/ cleaner'[clientChConns[c][k]] = "marked"
        <5>1. ASSUME NEW y \in Sockets PROVE clientChConns[c][k] # victim[y]
          BY <2>0, <3>1, Zenon
        <5> QED BY <2>c, <3>1, <4>1, <5>1, Zenon
      <4>3. isClosed[clientChConns[c][k]] => cleaner[clientChConns[c][k]] = "marked"
        BY <3>1, Zenon DEF NoStrandedChannel
      <4> QED BY <1>1, <4>1, <4>2, <4>3, Zenon DEF Same
    <3> QED BY <2>q, <3>1, Zenon DEF NoStrandedChannel
  <2> QED BY <2>1, <2>2, Zenon
<1>2. CASE \E s \in Sockets : Stored(s)
  <2> PICK s \in Sockets : Stored(s)
    BY <1>2, Zenon
  <2>1. /\ ~isClosed[s]
        /\ \A x \in Sockets : phase[x] = "serving" => phase'[x] = "serving" /\ x # s
        /\ \A c \in Clients, k \in ChIDs : clientChConns'[c][k] \in {s, clientChConns[c][k]}
        /\ UNCHANGED <<isClosed, victim, cleaner>>
    BY DEF Stored, SweptForGood, RegistryTypes
  <2>2. SweptForGood'
    <3>1. ASSUME NEW x \in Sockets, isClosed'[x] PROVE phase'[x] = "serving"
      BY <2>1, <3>1, Zenon DEF SweptForGood
    <3>2. ASSUME NEW x \in Sockets, victim'[x] # NoSocket
          PROVE  /\ phase'[victim'[x]] = "serving"
                 /\ \A c \in Clients, k \in ChIDs : clientChConns'[c][k] # victim'[x]
      <4>1. victim'[x] = victim[x] /\ victim[x] # NoSocket
        BY <2>1, <3>2, Zenon
      <4>2. /\ victim[x] \in Sockets /\ phase[victim[x]] = "serving"
            /\ \A c \in Clients, k \in ChIDs : clientChConns[c][k] # victim[x]
        BY <1>v, <4>1, Zenon DEF SweptForGood
      <4>3. phase'[victim[x]] = "serving" /\ victim[x] # s
        BY <2>1, <4>2, Zenon
      <4>4. ASSUME NEW c \in Clients, NEW k \in ChIDs PROVE clientChConns'[c][k] # victim[x]
        <5>1. clientChConns'[c][k] = s \/ clientChConns'[c][k] = clientChConns[c][k]
          BY <2>1, Zenon
        <5> QED BY <4>2, <4>3, <5>1, Zenon
      <4> QED BY <4>1, <4>3, <4>4, Zenon
    <3> QED BY <3>1, <3>2, Zenon DEF SweptForGood
  <2>3. NoStrandedChannel'
    <3>1. ASSUME NEW c \in Clients, NEW k \in ChIDs,
                 clientChConns'[c][k] # NoSocket, isClosed[clientChConns'[c][k]]
          PROVE  cleaner[clientChConns'[c][k]] = "marked"
      <4>1. clientChConns'[c][k] = s \/ clientChConns'[c][k] = clientChConns[c][k]
        BY <2>1, Zenon
      <4>2. clientChConns'[c][k] = clientChConns[c][k]
        BY <2>1, <3>1, <4>1, Zenon
      <4> QED BY <3>1, <4>2, Zenon DEF NoStrandedChannel
    <3>2. isClosed' = isClosed /\ cleaner' = cleaner
      BY <2>1, Zenon
    <3> QED BY <3>1, <3>2, Zenon DEF NoStrandedChannel
  <2> QED BY <2>2, <2>3, Zenon
<1>3. CASE \E s \in Sockets : Removed(s)
  <2> PICK s \in Sockets : Removed(s)
    BY <1>3, Zenon
  <2> DEFINE found == clientChConns[clientID[s]][chID[s]]
  <2>1. ASSUME NEW c \in Clients, NEW k \in ChIDs, clientChConns'[c][k] # NoSocket
        PROVE  /\ clientChConns'[c][k] = clientChConns[c][k]
               /\ clientChConns'[c][k] # s /\ clientChConns'[c][k] # found
    <3>1. clientID[s] \in Clients /\ chID[s] \in ChIDs
      BY Zenon DEF Removed
    <3>2. ~(c = clientID[s] /\ k = chID[s]) /\ clientChConns'[c][k] = clientChConns[c][k]
      BY <2>1, ZenonT(30) DEF Removed
    <3>3. clientID[clientChConns[c][k]] = c /\ chID[clientChConns[c][k]] = k
      BY <1>b, <2>1, <3>2, Zenon
    <3>4. clientChConns[c][k] # s
      BY <3>2, <3>3, Zenon
    <3>5. ASSUME found # NoSocket
          PROVE  clientID[found] = clientID[s] /\ chID[found] = chID[s]
      BY <1>b, <3>1, <3>5
    <3>6. clientChConns[c][k] # found
      BY <2>1, <3>2, <3>3, <3>5, Zenon
    <3> QED BY <3>2, <3>4, <3>6, Zenon
  <2>2. found # NoSocket => found \in Sockets /\ phase[found] = "serving"
    <3>1. clientID[s] \in Clients /\ chID[s] \in ChIDs
      BY Zenon DEF Removed
    <3> QED BY <1>b, <3>1, ZenonT(30)
  <2>3. /\ victim' = [victim EXCEPT ![s] = found] /\ UNCHANGED <<phase, isClosed>>
        /\ cleaner' = [cleaner EXCEPT ![s] = "swept"]
    BY Zenon DEF Removed
  <2> HIDE DEF found
  <2>4. NoStrandedChannel'
    <3>1. ASSUME NEW c \in Clients, NEW k \in ChIDs,
                 clientChConns'[c][k] # NoSocket, isClosed[clientChConns'[c][k]]
          PROVE  cleaner'[clientChConns'[c][k]] = "marked"
      <4>1. /\ clientChConns'[c][k] = clientChConns[c][k] /\ clientChConns[c][k] # NoSocket
            /\ clientChConns[c][k] # s
        BY <2>1, <3>1, Zenon
      <4>2. clientChConns[c][k] \in Sockets
        BY <1>b, <4>1, Zenon
      <4>3. cleaner[clientChConns[c][k]] = "marked"
        BY <3>1, <4>1, Zenon DEF NoStrandedChannel
      <4>4. cleaner'[clientChConns[c][k]] = cleaner[clientChConns[c][k]]
        BY <2>3, <4>1, <4>2, Zenon DEF RegistryTypes
      <4> QED BY <4>1, <4>3, <4>4, Zenon
    <3>2. isClosed' = isClosed
      BY <2>3, Zenon
    <3> QED BY <3>1, <3>2, Zenon DEF NoStrandedChannel
  <2>5. ASSUME NEW x \in Sockets, victim'[x] # NoSocket
        PROVE  /\ phase'[victim'[x]] = "serving"
               /\ \A c \in Clients, k \in ChIDs : clientChConns'[c][k] # victim'[x]
    <3>1. CASE x = s
      <4>1. victim'[x] = found
        BY <2>3, <3>1, Zenon DEF RegistryTypes
      <4> QED BY <2>1, <2>2, <2>3, <2>5, <4>1, Zenon
    <3>2. CASE x # s
      <4>1. victim'[x] = victim[x]
        BY <2>3, <3>2, Zenon DEF RegistryTypes
      <4>2. /\ phase[victim[x]] = "serving"
            /\ \A c \in Clients, k \in ChIDs : clientChConns[c][k] # victim[x]
        BY <2>5, <4>1, Zenon DEF SweptForGood
      <4>3. ASSUME NEW c \in Clients, NEW k \in ChIDs PROVE clientChConns'[c][k] # victim[x]
        BY <2>1, <2>5, <4>1, <4>2, Zenon
      <4> QED BY <2>3, <4>1, <4>2, <4>3, Zenon
    <3> QED BY <3>1, <3>2, Zenon
  <2>6. SweptForGood'
    BY <2>3, <2>5, Zenon DEF SweptForGood
  <2> QED BY <2>4, <2>6, Zenon
<1> QED BY <1>1, <1>2, <1>3, Zenon

\* From here on, sets are counted.
INSTANCE FiniteSetTheorems

\* Counting: a set within S and one more element has at most one more.
LEMMA OneMore ==
    ASSUME NEW S, NEW T, NEW x, IsFiniteSet(S), T \subseteq S \cup {x}
    PROVE  /\ Cardinality(S) \in Nat /\ Cardinality(T) \in Nat
           /\ Cardinality(T) <= Cardinality(S) + 1
<1>1. /\ IsFiniteSet(S \cup {x})
      /\ Cardinality(S \cup {x}) <= Cardinality(S) + 1
      /\ Cardinality(S) \in Nat /\ Cardinality(S \cup {x}) \in Nat
  BY FS_AddElement, FS_CardinalityType, SMTT(30)
<1>2. IsFiniteSet(T) /\ Cardinality(T) <= Cardinality(S \cup {x})
  BY <1>1, FS_Subset, Zenon
<1> QED BY <1>1, <1>2, FS_CardinalityType, SMTT(30)

\* Counting: a subset of a finite set has at most as many elements.
LEMMA NoMore ==
    ASSUME NEW S, NEW T, IsFiniteSet(S), T \subseteq S
    PROVE  /\ Cardinality(S) \in Nat /\ Cardinality(T) \in Nat
           /\ Cardinality(T) <= Cardinality(S)
<1>1. IsFiniteSet(T) /\ Cardinality(T) <= Cardinality(S)
  BY FS_Subset, Zenon
<1> QED BY <1>1, FS_CardinalityType, Zenon

\* What countActiveChannelsLocked counts is finite.
LEMMA ActiveFinite ==
    ASSUME RegistryTypeOK
    PROVE  IsFiniteSet(Active) /\ \A c \in Clients : IsFiniteSet(ActiveOf(c))
<1>1. Active \in SUBSET Sockets
  BY Zenon DEF RegistryTypeOK, Active
<1>2. ASSUME NEW c \in Clients PROVE IsFiniteSet(ActiveOf(c))
  <2>1. ActiveOf(c) \in SUBSET Sockets
    BY <1>1, Zenon DEF ActiveOf
  <2> QED BY <2>1, FS_Subset, ChannelsAssumption, Zenon
<1>3. IsFiniteSet(Active)
  BY <1>1, FS_Subset, ChannelsAssumption, Zenon
<1> QED BY <1>2, <1>3, Zenon

\* Every step but StoreChannel leaves the open registered channels a subset of
\* what they were; StoreChannel adds one after it has found room.
NoneAdded == Active' \subseteq Active
             /\ \A c \in Clients : ActiveOf(c)' \subseteq ActiveOf(c)

OneAdded(s) ==
    /\ clientID[s] \in Clients /\ ~LimitReached(clientID[s])
    /\ Active' \subseteq Active \cup {s}
    /\ \A c \in Clients : ActiveOf(c)' \subseteq ActiveOf(c) \cup {s}
    /\ \A c \in Clients \ {clientID[s]} : ActiveOf(c)' \subseteq ActiveOf(c)

\* A step adds no open channel, or one below the limits.
LEMMA ActiveStep ==
    ASSUME RegistryTypes, Registered,
           Same \/ \E s \in Sockets : Stored(s) \/ Removed(s)
    PROVE  NoneAdded \/ \E s \in Sockets : OneAdded(s)
<1>1. ASSUME \A s \in wsConns' : /\ s \in wsConns /\ (isClosed[s] => isClosed'[s])
                                 /\ clientID'[s] = clientID[s]
      PROVE  NoneAdded
  BY <1>1, Zenon DEF NoneAdded, Active, ActiveOf
<1>2. CASE Same
  BY <1>1, <1>2, Zenon DEF Same, Registered, RegistryTypes
<1>3. CASE \E s \in Sockets : Stored(s)
  <2> PICK s \in Sockets : Stored(s)
    BY <1>3, Zenon
  <2>1. clientID[s] \in Clients /\ ~LimitReached(clientID[s])
    BY Zenon DEF Stored, MayStore
  <2>2. /\ Active' \subseteq Active \cup {s}
        /\ \A c \in Clients : ActiveOf(c)' \subseteq ActiveOf(c) \cup {s}
        /\ \A c \in Clients \ {clientID[s]} : ActiveOf(c)' \subseteq ActiveOf(c)
    BY Zenon DEF Stored, Active, ActiveOf
  <2>3. OneAdded(s)
    BY <2>1, <2>2, Zenon DEF OneAdded
  <2> QED BY <2>3, Zenon
<1>4. CASE \E s \in Sockets : Removed(s)
  BY <1>1, <1>4, Zenon DEF Removed
<1> QED BY <1>2, <1>3, <1>4, Zenon

\* Hence every step keeps the limits.
LEMMA LimitsStep ==
    ASSUME RegistryTypeOK, WithinLimits, NoneAdded \/ \E s \in Sockets : OneAdded(s)
    PROVE  WithinLimits'
<1> USE ChannelsAssumption
<1>1. IsFiniteSet(Active) /\ \A c \in Clients : IsFiniteSet(ActiveOf(c))
  BY ActiveFinite, Zenon
<1>2. CASE NoneAdded
  <2>1. /\ Cardinality(Active') <= Cardinality(Active)
        /\ Cardinality(Active') \in Nat /\ Cardinality(Active) \in Nat
    BY <1>1, <1>2, NoMore, Zenon DEF NoneAdded
  <2>2. ASSUME NEW c \in Clients
        PROVE  /\ Cardinality(ActiveOf(c)') <= Cardinality(ActiveOf(c))
               /\ Cardinality(ActiveOf(c)') \in Nat
               /\ Cardinality(ActiveOf(c)) \in Nat
    BY <1>1, <1>2, NoMore, Zenon DEF NoneAdded
  <2> QED BY <2>1, <2>2, SMTT(30) DEF WithinLimits
<1>3. CASE \E s \in Sockets : OneAdded(s)
  <2> PICK s \in Sockets : OneAdded(s)
    BY <1>3, Zenon
  <2>1. MaxTotalChannels > 0 => Cardinality(Active') <= MaxTotalChannels
    <3>1. /\ Active' \subseteq Active \cup {s}
          /\ MaxTotalChannels > 0 => ~(Cardinality(Active) >= MaxTotalChannels)
      BY Zenon DEF OneAdded, LimitReached
    <3>2. /\ Cardinality(Active) \in Nat /\ Cardinality(Active') \in Nat
          /\ Cardinality(Active') <= Cardinality(Active) + 1
      BY <1>1, <3>1, OneMore, Zenon
    <3> QED BY <3>1, <3>2, SMTT(30)
  <2>2. ASSUME MaxChannelsPerClient > 0, NEW c \in Clients
        PROVE  Cardinality(ActiveOf(c)') <= MaxChannelsPerClient
    <3>1. CASE c = clientID[s]
      <4>1. ActiveOf(c)' \subseteq ActiveOf(c) \cup {s}
        BY <3>1, Zenon DEF OneAdded
      <4>2. ~(Cardinality(ActiveOf(c)) >= MaxChannelsPerClient)
        BY <2>2, <3>1, Zenon DEF OneAdded, LimitReached
      <4>3. /\ Cardinality(ActiveOf(c)) \in Nat /\ Cardinality(ActiveOf(c)') \in Nat
            /\ Cardinality(ActiveOf(c)') <= Cardinality(ActiveOf(c)) + 1
        BY <1>1, <4>1, OneMore, Zenon
      <4> QED BY <4>2, <4>3
    <3>2. CASE c # clientID[s]
      <4>1. /\ Cardinality(ActiveOf(c)') <= Cardinality(ActiveOf(c))
            /\ Cardinality(ActiveOf(c)') \in Nat /\ Cardinality(ActiveOf(c)) \in Nat
        BY <1>1, <3>2, NoMore, Zenon DEF OneAdded
      <4> QED BY <2>2, <4>1 DEF WithinLimits
    <3> QED BY <3>1, <3>2, Zenon
  <2> QED BY <2>1, <2>2, Zenon DEF WithinLimits
<1> QED BY <1>2, <1>3, Zenon

-----------------------------------------------------------------------------
\* The inductive invariant, and the effects of the steps from its states.
IInv == /\ RegistryTypeOK /\ Registered /\ IndexAgreement
        /\ SweptForGood /\ NoStrandedChannel /\ WithinLimits

\* A pool that newServerPool has made satisfies the invariant.
LEMMA Initially == RegistryInit => IInv
<1> SUFFICES ASSUME RegistryInit PROVE IInv
  BY Zenon
<1>1. Active = {} /\ \A c \in Clients : ActiveOf(c) = {}
  BY Zenon DEF RegistryInit, Active, ActiveOf
<1>2. WithinLimits
  BY <1>1, FS_EmptySet, ChannelsAssumption DEF WithinLimits
<1>3. RegistryTypeOK /\ Registered
  BY ChannelsAssumption, Zenon DEF RegistryInit, RegistryTypeOK, Registered, Phases
<1>4. IndexAgreement /\ SweptForGood /\ NoStrandedChannel
  BY <1>1, ChannelsAssumption, Zenon DEF RegistryInit, IndexAgreement, SweptForGood, NoStrandedChannel
<1> QED BY <1>2, <1>3, <1>4, Zenon DEF IInv

\* Every step of the registry keeps the invariant.
LEMMA Inductive == IInv /\ [RegistryNext]_registryVars => IInv'
<1> SUFFICES ASSUME IInv, [RegistryNext]_registryVars PROVE IInv'
  BY Zenon
<1>1. RegistryTypeOK /\ Registered /\ IndexAgreement /\ SweptForGood /\ NoStrandedChannel
      /\ WithinLimits
  BY Zenon DEF IInv
<1>2. RegistryTypes
  BY <1>1, Zenon DEF RegistryTypeOK, RegistryTypes
<1>3. Same \/ \E s \in Sockets : Stored(s) \/ Removed(s)
  BY <1>1, Effect, Zenon
<1>4. RegistryTypeOK' /\ Registered'
  BY <1>1, TypeStep, RegisteredStep, Zenon
<1>5. IndexAgreement' /\ SweptForGood' /\ NoStrandedChannel'
  BY <1>1, <1>2, <1>3, IndexStep, StrandedStep, Zenon
<1>6. WithinLimits'
  BY <1>1, <1>2, <1>3, ActiveStep, LimitsStep, Zenon
<1> QED BY <1>4, <1>5, <1>6, Zenon DEF IInv

\* The invariant holds throughout every behaviour.
LEMMA Invariant == RegistrySpec => []IInv
BY Initially, Inductive, PTL DEF RegistrySpec

\* Types: the variables of the registry keep their types.
THEOREM TypeCorrect == RegistrySpec => []RegistryTypeOK
<1>1. IInv => RegistryTypeOK
  BY Zenon DEF IInv
<1> QED BY <1>1, Invariant, PTL

\* Broadcasts and unicasts reach the same sockets: wsConns and clientChConns
\* agree (handleWebSocket, cleanupChannel) for any clients and channel numbers.
THEOREM IndexesAgree == RegistrySpec => []IndexAgreement
<1>1. IInv => IndexAgreement
  BY Zenon DEF IInv
<1> QED BY <1>1, Invariant, PTL

\* A closed socket that is still under its number has a cleanup that is to
\* sweep it (close, cleanupChannel), for any interleaving of closes, cleanups
\* and takeovers.
THEOREM NothingStranded == RegistrySpec => []NoStrandedChannel
<1>1. IInv => NoStrandedChannel
  BY Zenon DEF IInv
<1> QED BY <1>1, Invariant, PTL

\* The channel limits hold at every moment for any limits, whatever the
\* interleaving of checks, upgrades and cleanups (handleWebSocket).
THEOREM LimitsHold == RegistrySpec => []WithinLimits
<1>1. IInv => WithinLimits
  BY Zenon DEF IInv
<1> QED BY <1>1, Invariant, PTL

\* No step replaces an open socket in the channel index by another one
\* (handleWebSocket refuses a number in use; cleanupChannel only removes).
THEOREM OpenChannelKept == RegistrySpec => NoOpenChannelReplaced
<1> DEFINE Kept == \A c \in Clients, k \in ChIDs : InUse(c, k) =>
                      clientChConns'[c][k] \in {clientChConns[c][k], NoSocket}
<1>1. IInv /\ [RegistryNext]_registryVars => Kept
  <2> SUFFICES ASSUME IInv, [RegistryNext]_registryVars,
                      NEW c \in Clients, NEW k \in ChIDs, InUse(c, k)
               PROVE  clientChConns'[c][k] \in {clientChConns[c][k], NoSocket}
    BY Zenon
  <2>1. Same \/ \E s \in Sockets : Stored(s) \/ Removed(s)
    BY Effect, Zenon DEF IInv
  <2>2. CASE Same
    BY <2>2, Zenon DEF Same
  <2>3. ASSUME NEW s \in Sockets, Stored(s)
        PROVE  clientChConns'[c][k] \in {clientChConns[c][k], NoSocket}
    <3>1. ~(c = clientID[s] /\ k = chID[s])
      BY <2>3, Zenon DEF Stored, MayStore
    <3> QED BY <2>3, <3>1, Zenon DEF Stored
  <2>4. ASSUME NEW s \in Sockets, Removed(s)
        PROVE  clientChConns'[c][k] \in {clientChConns[c][k], NoSocket}
    <3>1. CASE c = clientID[s] /\ k = chID[s]
      BY <2>4, <3>1, Zenon DEF Removed
    <3>2. CASE ~(c = clientID[s] /\ k = chID[s])
      BY <2>4, <3>2, Zenon DEF Removed
    <3> QED BY <3>1, <3>2, Zenon
  <2> QED BY <2>1, <2>2, <2>3, <2>4, Zenon
<1> QED BY <1>1, Invariant, PTL DEF RegistrySpec, NoOpenChannelReplaced

-----------------------------------------------------------------------------
\* The queues

QueueTypes ==
    /\ q \in [Channels -> Seq(Frames)]
    /\ at \in [Threads -> Steps]
    /\ tgt \in [Threads -> Channels \cup {NoChannel}]
    /\ casts \in [Threads -> Seq(Casts)]
    /\ held \in [Channels -> Frames]
    /\ backpressureState \in States

Bounded == \A ch \in Channels : Len(q[ch]) <= QueueCap

\* What a goroutine has when it is at a step: a channel to send to, a broadcast it is
\* inside of, a new state to announce; and only a writeLoop takes frames.
Placed ==
    \A t \in Threads :
        /\ at[t] \in {"write", "reserved"} => tgt[t] \in Channels
        /\ at[t] \in {"rlock", "cast", "store"} => casts[t] # <<>>
        /\ at[t] = "store" => Head(casts[t]).say \in States
        /\ at[t] = "remove" => t \in Channels

Shape == QueueTypes /\ Bounded /\ Placed

QueueIInv == Shape /\ globalQueueBytes \in Nat /\ BytesAccounted

\* The frame a goroutine has counted, and that is in no queue.
Carries(t, kind) ==
    \/ at[t] = "reserved" /\ Outgoing(t) \in kind
    \/ at[t] = "remove" /\ held[t] \in kind

Kinds == {{"data"}, States}

-----------------------------------------------------------------------------
\* Counting

\* An outstanding frame is at a place in a queue, or at place 0 of a goroutine.
LEMMA Places ==
    ASSUME NEW kind, NEW c, NEW i
    PROVE  <<c, i>> \in Outstanding(kind) <=>
              \/ c \in Channels /\ i \in 1..QueueCap /\ i <= Len(q[c]) /\ q[c][i] \in kind
              \/ i = 0 /\ c \in Threads /\ Carries(c, kind)
BY Zenon DEF Outstanding, Queued, InHand, Carries

\* Every place is a pair.
LEMMA Paired ==
    ASSUME NEW kind, NEW p \in Outstanding(kind)
    PROVE  p = <<p[1], p[2]>> /\ p[2] \in Nat
BY QueueAssumption DEF Outstanding, Queued, InHand

\* There are finitely many, in queues of a bounded length.
LEMMA OutstandingFinite ==
    ASSUME NEW kind
    PROVE  IsFiniteSet(Outstanding(kind)) /\ Cardinality(Outstanding(kind)) \in Nat
<1>0. 1 \in Int /\ QueueCap \in Int
      BY QueueAssumption
<1>1. IsFiniteSet(1..QueueCap) /\ IsFiniteSet({0})
      BY <1>0, FS_Interval, FS_Singleton, Zenon
<1>2. IsFiniteSet(Channels \X (1..QueueCap))
      BY <1>1, QueueAssumption, FS_Product, Zenon
<1>3. IsFiniteSet(Queued(kind))
      BY <1>2, FS_Subset, Zenon DEF Queued
<1>4. IsFiniteSet(Threads)
      BY QueueAssumption, FS_Union, Zenon DEF Threads
<1>5. IsFiniteSet(InHand(kind))
      BY <1>4, FS_Subset, Zenon DEF InHand
<1>6. IsFiniteSet(InHand(kind) \X {0})
      BY <1>1, <1>5, FS_Product, Zenon
<1>7. IsFiniteSet(Outstanding(kind))
      BY <1>3, <1>6, FS_Union, Zenon DEF Outstanding
<1>8. QED
      BY <1>7, FS_CardinalityType, Zenon

\* A frame is data or a state.
LEMMA OneKind ==
    ASSUME NEW f \in Frames
    PROVE  /\ f = "data" => f \in {"data"} /\ f \notin States /\ Bytes(f) = DataBytes
           /\ f # "data" => f \notin {"data"} /\ f \in States /\ Bytes(f) = CtlBytes
BY Zenon DEF Frames, States, Bytes

\* One more frame is counted.
LEMMA CountUp ==
    ASSUME QueueIInv, NEW f \in Frames,
           globalQueueBytes' = globalQueueBytes + Bytes(f),
           \A kind \in Kinds :
               Cardinality(Outstanding(kind)') =
                   IF f \in kind THEN Cardinality(Outstanding(kind)) + 1
                   ELSE Cardinality(Outstanding(kind))
    PROVE  BytesAccounted' /\ globalQueueBytes' \in Nat
<1> DEFINE a == Cardinality(Outstanding({"data"}))
           b == Cardinality(Outstanding(States))
<1>1. a \in Nat /\ b \in Nat /\ DataBytes \in Nat /\ CtlBytes \in Nat
      BY OutstandingFinite, QueueAssumption, Zenon
<1>2. globalQueueBytes = DataBytes * a + CtlBytes * b /\ globalQueueBytes \in Nat
      BY Zenon DEF QueueIInv, BytesAccounted
<1>3. /\ Cardinality(Outstanding({"data"})') = IF f = "data" THEN a + 1 ELSE a
      /\ Cardinality(Outstanding(States)') = IF f = "data" THEN b ELSE b + 1
      BY OneKind, Zenon DEF Kinds
<1> HIDE DEF a, b
<1>4. DataBytes * (a + 1) = DataBytes * a + DataBytes /\ CtlBytes * (b + 1) = CtlBytes * b + CtlBytes
      BY <1>1
<1>5. DataBytes * a \in Nat /\ CtlBytes * b \in Nat
      BY <1>1
<1>6. globalQueueBytes' = DataBytes * Cardinality(Outstanding({"data"})')
                          + CtlBytes * Cardinality(Outstanding(States)')
      BY <1>1, <1>2, <1>3, <1>4, <1>5, OneKind, SMTT(30)
<1>7. globalQueueBytes' \in Nat
      BY <1>1, <1>2, OneKind
<1>8. QED
      BY <1>6, <1>7, Zenon DEF BytesAccounted

\* One frame less is counted, and the clamp of rollbackQueueBytes and removeQueueBytes
\* is not reached.
LEMMA CountDown ==
    ASSUME QueueIInv, NEW f \in Frames, globalQueueBytes' = Less(Bytes(f)),
           \A kind \in Kinds :
               IF f \in kind
               THEN Cardinality(Outstanding(kind)) = Cardinality(Outstanding(kind)') + 1
               ELSE Cardinality(Outstanding(kind)') = Cardinality(Outstanding(kind)),
           \A kind \in Kinds : Cardinality(Outstanding(kind)') \in Nat
    PROVE  BytesAccounted' /\ globalQueueBytes' \in Nat
<1> DEFINE a == Cardinality(Outstanding({"data"})')
           b == Cardinality(Outstanding(States)')
<1>1. a \in Nat /\ b \in Nat /\ DataBytes \in Nat /\ CtlBytes \in Nat
      BY QueueAssumption, Zenon DEF Kinds
<1>2. /\ globalQueueBytes = DataBytes * Cardinality(Outstanding({"data"}))
                            + CtlBytes * Cardinality(Outstanding(States))
      /\ globalQueueBytes \in Nat
      BY Zenon DEF QueueIInv, BytesAccounted
<1>3. /\ Cardinality(Outstanding({"data"})) = IF f = "data" THEN a + 1 ELSE a
      /\ Cardinality(Outstanding(States)) = IF f = "data" THEN b ELSE b + 1
      BY OneKind, Zenon DEF Kinds
<1> HIDE DEF a, b
<1>4. DataBytes * (a + 1) = DataBytes * a + DataBytes /\ CtlBytes * (b + 1) = CtlBytes * b + CtlBytes
      BY <1>1
<1>5. DataBytes * a \in Nat /\ CtlBytes * b \in Nat
      BY <1>1
<1>6. Bytes(f) \in Nat /\ globalQueueBytes = DataBytes * a + CtlBytes * b + Bytes(f)
      BY <1>1, <1>2, <1>3, <1>4, <1>5, OneKind, SMTT(30)
<1>7. globalQueueBytes' = DataBytes * a + CtlBytes * b
      BY <1>2, <1>5, <1>6 DEF Less
<1>8. globalQueueBytes' \in Nat
      BY <1>5, <1>7
<1>9. QED
      BY <1>7, <1>8, Zenon DEF BytesAccounted, a, b

\* The same frames are counted.
LEMMA CountSame ==
    ASSUME QueueIInv, globalQueueBytes' = globalQueueBytes,
           \A kind \in Kinds : Cardinality(Outstanding(kind)') = Cardinality(Outstanding(kind))
    PROVE  BytesAccounted' /\ globalQueueBytes' \in Nat
BY Zenon DEF QueueIInv, BytesAccounted, Kinds

-----------------------------------------------------------------------------
\* What a step does to the frames that are counted

\* A goroutine counts a frame, or gives up the one it counted; the queues stay.
LEMMA Hands ==
    ASSUME NEW kind, q' = q, NEW t \in Threads,
           \A u \in Threads \ {t} : Carries(u, kind)' <=> Carries(u, kind)
    PROVE  /\ Carries(t, kind)' /\ ~Carries(t, kind) =>
                 Cardinality(Outstanding(kind)') = Cardinality(Outstanding(kind)) + 1
           /\ ~Carries(t, kind)' /\ Carries(t, kind) =>
                 Cardinality(Outstanding(kind)) = Cardinality(Outstanding(kind)') + 1
           /\ (Carries(t, kind)' <=> Carries(t, kind)) =>
                 Cardinality(Outstanding(kind)') = Cardinality(Outstanding(kind))
           /\ Cardinality(Outstanding(kind)') \in Nat
<1> DEFINE Out == Outstanding(kind)
<1>1. /\ IsFiniteSet(Out) /\ Cardinality(Out) \in Nat
      /\ <<t, 0>> \in Out <=> Carries(t, kind)
      BY OutstandingFinite, Places
<1>2. Queued(kind)' = Queued(kind)
      BY Zenon DEF Queued
<1>3. CASE Carries(t, kind)' /\ ~Carries(t, kind)
  <2>1. InHand(kind)' = InHand(kind) \cup {t}
        BY <1>3, Zenon DEF InHand, Carries
  <2>2. Out' = Out \cup {<<t, 0>>}
        BY <1>2, <2>1 DEF Outstanding
  <2> HIDE DEF Out
  <2>3. Cardinality(Out') = Cardinality(Out) + 1
        BY <1>1, <1>3, <2>2, FS_AddElement, Zenon
  <2>4. QED
        BY <1>1, <1>3, <2>3 DEF Out
<1>4. CASE ~Carries(t, kind)' /\ Carries(t, kind)
  <2>1. InHand(kind)' = InHand(kind) \ {t}
        BY <1>4, Zenon DEF InHand, Carries
  <2>2. Out' = Out \ {<<t, 0>>}
        BY <1>2, <2>1, QueueAssumption DEF Outstanding, Queued
  <2> HIDE DEF Out
  <2>3. Cardinality(Out') = Cardinality(Out) - 1 /\ IsFiniteSet(Out')
        BY <1>1, <1>4, <2>2, FS_RemoveElement, Zenon
  <2>4. Cardinality(Out') \in Nat
        BY <2>3, FS_CardinalityType, Zenon
  <2>5. QED
        BY <1>1, <1>4, <2>3, <2>4 DEF Out
<1>5. CASE Carries(t, kind)' <=> Carries(t, kind)
  <2>1. InHand(kind)' = InHand(kind)
        BY <1>5, Zenon DEF InHand, Carries
  <2>2. Out' = Out
        BY <1>2, <2>1, Zenon DEF Outstanding
  <2>3. QED
        BY <1>1, <1>5, <2>2, Zenon
<1>6. QED
      BY <1>3, <1>4, <1>5, Zenon

\* A counted frame is put at the end of a queue (asyncWrite).
LEMMA HandToQueue ==
    ASSUME NEW kind, QueueTypes, NEW t \in Threads, NEW ch \in Channels, NEW f,
           Len(q[ch]) < QueueCap, q' = [q EXCEPT ![ch] = Append(@, f)],
           Carries(t, kind) <=> f \in kind, ~Carries(t, kind)',
           \A u \in Threads \ {t} : Carries(u, kind)' <=> Carries(u, kind)
    PROVE  Cardinality(Outstanding(kind)') = Cardinality(Outstanding(kind))
<1> DEFINE Out == Outstanding(kind)
           n == Len(q[ch]) + 1
<1>1. /\ IsFiniteSet(Out) /\ Cardinality(Out) \in Nat
      /\ <<t, 0>> \in Out <=> Carries(t, kind)
      BY OutstandingFinite, Places
<1>2. /\ n \in 1..QueueCap /\ Len(q'[ch]) = n /\ q'[ch][n] = f
      /\ \A i \in 1..n - 1 : q'[ch][i] = q[ch][i]
      /\ \A c \in Channels \ {ch} : q'[c] = q[c]
      /\ Len(q[ch]) \in Nat /\ Len(q[ch]) = n - 1
      BY QueueAssumption DEF QueueTypes
<1>3. InHand(kind)' = InHand(kind) \ {t}
      BY Zenon DEF InHand, Carries
<1>4. <<ch, n>> \notin Out /\ <<ch, n>> # <<t, 0>>
      BY <1>2 DEF Outstanding, Queued
<1>5. CASE f \in kind
  <2>1. Queued(kind)' = Queued(kind) \cup {<<ch, n>>}
    <3>1. ASSUME NEW c \in Channels, NEW i \in 1..QueueCap
          PROVE  i <= Len(q'[c]) /\ q'[c][i] \in kind <=>
                    \/ i <= Len(q[c]) /\ q[c][i] \in kind
                    \/ c = ch /\ i = n
      <4>1. CASE c # ch
            BY <1>2, <4>1, Zenon
      <4>2. CASE c = ch /\ i < n
            BY <1>2, <4>2
      <4>3. CASE c = ch /\ i = n
            BY <1>2, <1>5, <4>3, SMTT(30)
      <4>4. CASE c = ch /\ i > n
            BY <1>2, <4>4, SMTT(30)
      <4>5. QED
            BY <1>2, <4>1, <4>2, <4>3, <4>4, SMTT(30)
    <3> HIDE DEF n
    <3>2. QED
          BY <1>2, <3>1, SMTT(30) DEF Queued
  <2>2. Out' = (Out \ {<<t, 0>>}) \cup {<<ch, n>>}
        BY <1>2, <1>3, <2>1, QueueAssumption, SMTT(30) DEF Outstanding, Queued
  <2> HIDE DEF Out, n
  <2>3. /\ IsFiniteSet(Out \ {<<t, 0>>})
        /\ Cardinality(Out \ {<<t, 0>>}) = Cardinality(Out) - 1
        BY <1>1, <1>5, FS_RemoveElement, Zenon
  <2>4. <<ch, n>> \notin Out \ {<<t, 0>>}
        BY <1>4, Zenon
  <2>5. Cardinality(Out') = Cardinality(Out \ {<<t, 0>>}) + 1
        BY <2>2, <2>3, <2>4, FS_AddElement, Zenon
  <2>6. QED
        BY <1>1, <2>3, <2>5, SMTT(30) DEF Out
<1>6. CASE f \notin kind
  <2>1. Queued(kind)' = Queued(kind)
    <3>1. ASSUME NEW c \in Channels, NEW i \in 1..QueueCap
          PROVE  i <= Len(q'[c]) /\ q'[c][i] \in kind <=> i <= Len(q[c]) /\ q[c][i] \in kind
      <4>1. CASE c # ch
            BY <1>2, <4>1, Zenon
      <4>2. CASE c = ch /\ i < n
            BY <1>2, <4>2
      <4>3. CASE c = ch /\ i >= n
            BY <1>2, <1>6, <4>3
      <4>4. QED
            BY <1>2, <4>1, <4>2, <4>3, SMTT(30)
    <3>2. QED
          BY <3>1, Zenon DEF Queued
  <2>2. InHand(kind)' = InHand(kind)
        BY <1>3, <1>6, Zenon DEF InHand, Carries
  <2>3. QED
        BY <2>1, <2>2, Zenon DEF Outstanding
<1>7. QED
      BY <1>5, <1>6, Zenon

\* A writeLoop takes the first frame of its queue: the others move up one place.
LEMMA QueueToHand ==
    ASSUME NEW kind, QueueTypes, Bounded, NEW ch \in Channels, q[ch] # <<>>,
           q' = [q EXCEPT ![ch] = Tail(@)], ~Carries(ch, kind),
           Carries(ch, kind)' <=> Head(q[ch]) \in kind,
           \A u \in Threads \ {ch} : Carries(u, kind)' <=> Carries(u, kind)
    PROVE  Cardinality(Outstanding(kind)') = Cardinality(Outstanding(kind))
<1> DEFINE Old == Outstanding(kind)
           New == Outstanding(kind)'
           Up(p) == IF p[1] = ch THEN <<ch, p[2] + 1>> ELSE p
           F == [p \in New |-> Up(p)]
           Dn(p) == IF p[1] = ch THEN <<ch, p[2] - 1>> ELSE p
<1>1. /\ Len(q[ch]) \in Nat /\ Len(q[ch]) > 0 /\ Len(q[ch]) <= QueueCap
      /\ Len(q'[ch]) = Len(q[ch]) - 1 /\ Head(q[ch]) = q[ch][1]
      /\ \A i \in 1..Len(q'[ch]) : q'[ch][i] = q[ch][i + 1]
      /\ \A c \in Channels \ {ch} : q'[c] = q[c]
      /\ QueueCap \in Nat /\ ch \in Threads
      BY QueueAssumption DEF QueueTypes, Bounded, Threads
<1>2. ASSUME NEW c, NEW i
      PROVE  /\ <<c, i>> \in Old <=>
                  \/ c \in Channels /\ i \in 1..QueueCap /\ i <= Len(q[c]) /\ q[c][i] \in kind
                  \/ i = 0 /\ c \in Threads /\ Carries(c, kind)
             /\ <<c, i>> \in New <=>
                  \/ c \in Channels /\ i \in 1..QueueCap /\ i <= Len(q'[c]) /\ q'[c][i] \in kind
                  \/ i = 0 /\ c \in Threads /\ Carries(c, kind)'
      BY Zenon DEF Outstanding, Queued, InHand, Carries
<1>3. ASSUME NEW i \in Nat
      PROVE  <<ch, i>> \in New <=> <<ch, i + 1>> \in Old
  <2>1. CASE i = 0
        BY <1>1, <1>2, <2>1, SMTT(30)
  <2>2. CASE i > 0
        BY <1>1, <1>2, <2>2, SMTT(30)
  <2>3. QED
        BY <2>1, <2>2, SMTT(30)
<1>4. ASSUME NEW c, NEW i, c # ch
      PROVE  <<c, i>> \in New <=> <<c, i>> \in Old
      BY <1>1, <1>2, <1>4, Zenon
<1>5. <<ch, 0>> \notin Old
      BY <1>2
<1>6. /\ \A p \in Old : p = <<p[1], p[2]>> /\ p[2] \in Nat
      /\ \A p \in New : p = <<p[1], p[2]>> /\ p[2] \in Nat
      BY QueueAssumption DEF Outstanding, Queued, InHand
<1> HIDE DEF Old, New
<1>7. F \in [New -> Old]
  <2>1. ASSUME NEW p \in New PROVE Up(p) \in Old
        BY <1>3, <1>4, <1>6
  <2>2. QED
        BY <2>1, Zenon
<1>8. ASSUME NEW a \in New, NEW b \in New, F[a] = F[b] PROVE a = b
  <2>1. Up(a) = Up(b) /\ a = <<a[1], a[2]>> /\ b = <<b[1], b[2]>> /\ a[2] \in Nat /\ b[2] \in Nat
        BY <1>6, <1>8, Zenon
  <2>2. a[1] = b[1] /\ a[2] = b[2]
        BY <2>1
  <2>3. QED
        BY <2>1, <2>2, Zenon
<1>9. ASSUME NEW p \in Old PROVE \E r \in New : F[r] = p
  <2>1. p = <<p[1], p[2]>> /\ p[2] \in Nat
        BY <1>6, Zenon
  <2>2. CASE p[1] # ch
    <3>1. p \in New
          BY <1>4, <2>1, <2>2, Zenon
    <3>2. QED
          BY <2>2, <3>1, Zenon
  <2>3. CASE p[1] = ch
    <3>1. p[2] # 0
          BY <1>5, <2>1, <2>3, Zenon
    <3>2. p[2] - 1 \in Nat /\ (p[2] - 1) + 1 = p[2]
          BY <2>1, <3>1
    <3>3. <<ch, p[2] - 1>> \in New
          BY <1>3, <2>1, <2>3, <3>2, Zenon
    <3>4. F[<<ch, p[2] - 1>>] = p
          BY <2>1, <2>3, <3>2, <3>3, Zenon
    <3>5. QED
          BY <3>3, <3>4, Zenon
  <2>4. QED
        BY <2>2, <2>3, Zenon
<1>10. F \in Injection(New, Old) /\ F \in Surjection(New, Old)
  <2> HIDE DEF F
  <2>1. F \in Injection(New, Old)
        BY <1>7, <1>8, Zenon DEF Injection, IsInjective
  <2>2. F \in Surjection(New, Old)
        BY <1>7, <1>9, Zenon DEF Surjection
  <2>3. QED
        BY <2>1, <2>2, Zenon
<1>11. QED
  <2> HIDE DEF F
  <2>1. IsFiniteSet(Old)
        BY OutstandingFinite, Zenon DEF Old
  <2>2. Cardinality(New) = Cardinality(Old)
        BY <1>10, <2>1, FS_Injection, Zenon
  <2>3. QED
        BY <2>2, Zenon DEF New, Old

-----------------------------------------------------------------------------
\* Where the goroutines are

\* A broadcast is begun, or one of its channels is dealt with.
LEMMA Stacked ==
    ASSUME NEW s \in Seq(Casts)
    PROVE  /\ \A c \in Casts : /\ <<c>> \o s \in Seq(Casts) /\ <<c>> \o s # <<>>
                               /\ Head(<<c>> \o s) = c
           /\ s # <<>> => /\ Tail(s) \in Seq(Casts) /\ Head(s) \in Casts
                          /\ \A S \in SUBSET Channels :
                                /\ <<[Head(s) EXCEPT !.left = S]>> \o Tail(s) \in Seq(Casts)
                                /\ <<[Head(s) EXCEPT !.left = S]>> \o Tail(s) # <<>>
                                /\ Head(<<[Head(s) EXCEPT !.left = S]>> \o Tail(s)).say = Head(s).say
<1>1. ASSUME NEW c \in Casts, NEW r \in Seq(Casts)
      PROVE  <<c>> \o r \in Seq(Casts) /\ <<c>> \o r # <<>> /\ Head(<<c>> \o r) = c
  <2>1. <<c>> \in Seq(Casts) /\ Len(<<c>>) = 1 /\ <<c>>[1] = c
        OBVIOUS
  <2>2. <<c>> \o r \in Seq(Casts) /\ Len(<<c>> \o r) = 1 + Len(r) /\ (<<c>> \o r)[1] = c
        BY <2>1
  <2>3. QED
        BY <2>2
<1>2. ASSUME s # <<>>, NEW S \in SUBSET Channels
      PROVE  /\ Tail(s) \in Seq(Casts) /\ Head(s) \in Casts
             /\ [Head(s) EXCEPT !.left = S] \in Casts
             /\ [Head(s) EXCEPT !.left = S].say = Head(s).say
  <2>1. Tail(s) \in Seq(Casts) /\ Head(s) \in Casts
        BY <1>2
  <2>2. QED
        BY <2>1, Zenon DEF Casts
<1>3. s # <<>> => Tail(s) \in Seq(Casts) /\ Head(s) \in Casts
      OBVIOUS
<1> DEFINE New(S) == [Head(s) EXCEPT !.left = S]
<1>4. ASSUME s # <<>>, NEW S \in SUBSET Channels
      PROVE  /\ <<New(S)>> \o Tail(s) \in Seq(Casts) /\ <<New(S)>> \o Tail(s) # <<>>
             /\ Head(<<New(S)>> \o Tail(s)).say = Head(s).say
  <2>1. New(S) \in Casts /\ New(S).say = Head(s).say /\ Tail(s) \in Seq(Casts)
        BY <1>2, <1>4, Zenon
  <2> HIDE DEF New
  <2>2. QED
        BY <1>1, <2>1, Zenon
<1>5. \A c \in Casts : <<c>> \o s \in Seq(Casts) /\ <<c>> \o s # <<>> /\ Head(<<c>> \o s) = c
      BY <1>1, Zenon
<1>6. QED
      BY <1>3, <1>4, <1>5, Zenon

\* A step of goroutine t keeps the shape if it leaves t in order.
LEMMA ShapeOf ==
    ASSUME Shape, NEW t \in Threads,
           at' \in [Threads -> Steps], tgt' \in [Threads -> Channels \cup {NoChannel}],
           casts' \in [Threads -> Seq(Casts)],
           \A u \in Threads \ {t} : at'[u] = at[u] /\ tgt'[u] = tgt[u] /\ casts'[u] = casts[u],
           at'[t] \in {"write", "reserved"} => tgt'[t] \in Channels,
           at'[t] \in {"rlock", "cast", "store"} => casts'[t] # <<>>,
           at'[t] = "store" => Head(casts'[t]).say \in States,
           at'[t] = "remove" => t \in Channels
    PROVE  Placed'
BY Zenon DEF Shape, Placed

\* The way back from asyncWrite is a step, and to a broadcast only inside of one.
LEMMA BackIs ==
    ASSUME NEW t, NEW s
    PROVE  /\ Back(t, s) \in {"cast", "idle", "deliver"} /\ Back(t, s) \in Steps
           /\ Back(t, s) = "cast" => s # <<>>
BY Zenon DEF Back, Steps

\* What a goroutine sends is a frame.
LEMMA OutgoingIs ==
    ASSUME QueueTypes, NEW t \in Threads
    PROVE  Outgoing(t) \in Frames
<1>1. casts[t] \in Seq(Casts)
      BY Zenon DEF QueueTypes
<1>2. CASE casts[t] = <<>>
      BY <1>2, Zenon DEF Outgoing, Frames
<1>3. CASE casts[t] # <<>>
  <2>1. Head(casts[t]) \in Casts
        BY <1>1, <1>3
  <2>2. QED
        BY <1>3, <2>1, Zenon DEF Outgoing, Casts
<1>4. QED
      BY <1>2, <1>3, Zenon

\* Every step of a goroutine keeps the shape.
LEMMA WriteShape ==
    ASSUME Shape, NEW t \in Threads,
           \/ WriteStep(t)
           \/ t \in Producers /\ (Broadcast(t) \/ \E ch \in Channels : Unicast(t, ch))
    PROVE  Shape'
<1> USE DEF Go, Forget
<1>0. /\ QueueTypes /\ Bounded /\ Placed
      /\ at \in [Threads -> Steps] /\ tgt \in [Threads -> Channels \cup {NoChannel}]
      /\ casts \in [Threads -> Seq(Casts)] /\ casts[t] \in Seq(Casts)
      /\ tgt[t] \in Channels \cup {NoChannel}
      BY Zenon DEF Shape, QueueTypes
<1>1. ASSUME UNCHANGED <<q, held, backpressureState>>,
             at' \in [Threads -> Steps], tgt' \in [Threads -> Channels \cup {NoChannel}],
             casts' \in [Threads -> Seq(Casts)], Placed'
      PROVE  Shape'
      BY <1>0, <1>1, Zenon DEF Shape, QueueTypes, Bounded
<1>2. ASSUME NEW ch \in Channels, Unicast(t, ch) PROVE Shape'
  <2>1. /\ at' = [at EXCEPT ![t] = "write"] /\ tgt' = [tgt EXCEPT ![t] = ch]
        /\ UNCHANGED <<q, held, backpressureState, casts>>
        BY <1>2, Zenon DEF Unicast, shared, pipes
  <2>2. Placed'
        BY <1>0, <2>1, ShapeOf, Zenon DEF Steps
  <2>3. QED
        BY <1>0, <1>1, <2>1, <2>2, Zenon DEF Steps
<1>3. CASE Broadcast(t)
  <2> DEFINE c == [say |-> "data", left |-> {}, cool |-> FALSE]
  <2>1. /\ at' = [at EXCEPT ![t] = "rlock"] /\ casts' = [casts EXCEPT ![t] = <<c>>]
        /\ UNCHANGED <<q, held, backpressureState, tgt>>
        BY <1>3, Zenon DEF Broadcast, shared, pipes
  <2>2. <<c>> \in Seq(Casts) /\ <<c>> # <<>>
        BY DEF Casts, Frames
  <2> HIDE DEF c
  <2>3. Placed'
        BY <1>0, <2>1, <2>2, ShapeOf, Zenon DEF Steps
  <2>4. QED
        BY <1>0, <1>1, <2>1, <2>2, <2>3, Zenon DEF Steps
<1>4. CASE RLock(t)
  <2> DEFINE S == {ch \in Channels : ~closed[ch]}
             s == <<[Head(casts[t]) EXCEPT !.left = S]>> \o Tail(casts[t])
  <2>1. /\ at[t] = "rlock" /\ at' = [at EXCEPT ![t] = "cast"] /\ casts' = [casts EXCEPT ![t] = s]
        /\ UNCHANGED <<q, held, backpressureState, tgt>>
        BY <1>4, Zenon DEF RLock, shared, pipes
  <2>2. casts[t] # <<>>
        BY <1>0, <2>1, Zenon DEF Placed
  <2>3. s \in Seq(Casts) /\ s # <<>>
        BY <1>0, <2>2, Stacked, Zenon
  <2> HIDE DEF s
  <2>4. Placed'
        BY <1>0, <2>1, <2>3, ShapeOf, Zenon DEF Steps
  <2>5. QED
        BY <1>0, <1>1, <2>1, <2>3, <2>4, Zenon DEF Steps
<1>5. CASE EndCast(t)
  <2> DEFINE s == Tail(casts[t])
  <2>1. /\ at[t] = "cast" /\ at' = [at EXCEPT ![t] = Back(t, s)] /\ casts' = [casts EXCEPT ![t] = s]
        /\ UNCHANGED <<q, held, backpressureState, tgt>>
        BY <1>5, Zenon DEF EndCast, pipes
  <2>2. s \in Seq(Casts)
        BY <1>0, <2>1 DEF Placed
  <2> HIDE DEF s
  <2>3. Placed'
        BY <1>0, <2>1, <2>2, BackIs, ShapeOf, Zenon
  <2>4. QED
        BY <1>0, <1>1, <2>1, <2>2, <2>3, BackIs, Zenon
<1>6. CASE Enqueue(t)
  <2>1. /\ at[t] = "reserved" /\ tgt[t] \in Channels /\ q[tgt[t]] \in Seq(Frames)
        BY <1>0, <1>6, Zenon DEF Enqueue, Placed, QueueTypes
  <2>2. /\ UNCHANGED <<held, backpressureState, casts>>
        /\ \/ /\ Len(q[tgt[t]]) < QueueCap /\ q' = [q EXCEPT ![tgt[t]] = Append(@, Outgoing(t))]
              /\ at' = [at EXCEPT ![t] = "update"] /\ tgt' = tgt
           \/ /\ q' = q /\ at' = [at EXCEPT ![t] = Back(t, casts[t])]
              /\ tgt' = [tgt EXCEPT ![t] = NoChannel]
        BY <1>6, Zenon DEF Enqueue
  <2>3. Append(q[tgt[t]], Outgoing(t)) \in Seq(Frames)
        BY <1>0, <2>1, OutgoingIs
  <2>4. Len(Append(q[tgt[t]], Outgoing(t))) = Len(q[tgt[t]]) + 1 /\ Len(q[tgt[t]]) \in Nat
        BY <2>1
  <2>5. q' \in [Channels -> Seq(Frames)] /\ Bounded'
    <3> DEFINE c == tgt[t]
               s == Append(q[c], Outgoing(t))
    <3>1. /\ q \in [Channels -> Seq(Frames)] /\ c \in Channels /\ s \in Seq(Frames)
          /\ Len(s) = Len(q[c]) + 1 /\ Len(q[c]) \in Nat /\ QueueCap \in Nat
          /\ q' = q \/ (Len(q[c]) < QueueCap /\ q' = [q EXCEPT ![c] = s])
          BY <1>0, <2>1, <2>2, <2>3, <2>4, QueueAssumption, Zenon DEF QueueTypes
    <3> HIDE DEF c, s
    <3>2. CASE q' = q
          BY <1>0, <3>1, <3>2, Zenon DEF Bounded
    <3>3. CASE Len(q[c]) < QueueCap /\ q' = [q EXCEPT ![c] = s]
      <4>1. q'[c] = s /\ \A o \in Channels : o # c => q'[o] = q[o]
            BY <3>1, <3>3, Zenon
      <4>2. Len(s) <= QueueCap
            BY <3>1, <3>3
      <4>3. \A o \in Channels : Len(q'[o]) <= QueueCap
            BY <1>0, <4>1, <4>2, ZenonT(30) DEF Bounded
      <4>4. QED
            BY <3>1, <3>3, <4>3, Zenon DEF Bounded
    <3>4. QED
          BY <3>1, <3>2, <3>3, Zenon
  <2>6. /\ at' \in [Threads -> Steps] /\ tgt' \in [Threads -> Channels \cup {NoChannel}]
        /\ at'[t] \in {"update", "cast", "idle", "deliver"}
        /\ at'[t] = "cast" => casts'[t] # <<>>
        /\ \A u \in Threads \ {t} : at'[u] = at[u] /\ tgt'[u] = tgt[u]
        BY <1>0, <2>2, BackIs, SMTT(30) DEF Steps
  <2>7. Placed'
        BY <1>0, <2>2, <2>6, ShapeOf, Zenon
  <2>8. QED
        BY <1>0, <2>2, <2>5, <2>6, <2>7, Zenon DEF Shape, QueueTypes
<1>7. CASE Update(t)
  <2>1. /\ UNCHANGED <<q, held, backpressureState>>
        /\ tgt' = [tgt EXCEPT ![t] = NoChannel]
        /\ \/ Announce(t, "pause", FALSE) \/ Announce(t, "slow", TRUE)
           \/ at' = [at EXCEPT ![t] = Back(t, casts[t])] /\ casts' = casts
        BY <1>7, Zenon DEF Update, pipes
  <2>2. ASSUME NEW state \in States, NEW cool \in BOOLEAN, Announce(t, state, cool)
        PROVE  Shape'
    <3> DEFINE c == [say |-> state, left |-> {}, cool |-> cool]
               s == <<c>> \o casts[t]
    <3>1. /\ at' = [at EXCEPT ![t] = "store"] /\ casts' = [casts EXCEPT ![t] = s]
          BY <2>2, Zenon DEF Announce
    <3>2. c \in Casts /\ c.say \in States
          BY Zenon DEF Casts, Frames
    <3> HIDE DEF c
    <3>3. s \in Seq(Casts) /\ s # <<>> /\ Head(s) = c
          BY <1>0, <3>2, Stacked, Zenon
    <3> HIDE DEF s
    <3>4. Placed'
          BY <1>0, <2>1, <3>1, <3>2, <3>3, ShapeOf, ZenonT(30) DEF Steps
    <3>5. QED
          BY <1>0, <1>1, <2>1, <3>1, <3>3, <3>4, ZenonT(30) DEF Steps
  <2>3. CASE at' = [at EXCEPT ![t] = Back(t, casts[t])] /\ casts' = casts
    <3>1. Placed'
          BY <1>0, <2>1, <2>3, BackIs, ShapeOf, Zenon
    <3>2. QED
          BY <1>0, <1>1, <2>1, <2>3, <3>1, BackIs, Zenon
  <2>4. QED
        BY <2>1, <2>2, <2>3, Zenon DEF States
<1>8. CASE Store(t)
  <2>1. /\ at[t] = "store" /\ at' = [at EXCEPT ![t] = "rlock"]
        /\ backpressureState' = Head(casts[t]).say /\ UNCHANGED <<q, held, tgt, casts>>
        BY <1>8, Zenon DEF Store, pipes
  <2>2. casts[t] # <<>> /\ Head(casts[t]).say \in States
        BY <1>0, <2>1, Zenon DEF Placed
  <2>3. Placed' /\ at' \in [Threads -> Steps]
        BY <1>0, <2>1, <2>2, ShapeOf, Zenon DEF Steps
  <2>4. QED
        BY <1>0, <2>1, <2>2, <2>3, Zenon DEF Shape, QueueTypes, Bounded
<1>9. ASSUME NEW ch \in Channels, Reserve(t, ch) PROVE Shape'
  <2> DEFINE s == <<[Head(casts[t]) EXCEPT !.left = Head(casts[t]).left \ {ch}]>> \o Tail(casts[t])
  <2>1. /\ UNCHANGED <<q, held, backpressureState>>
        /\ \/ at' = [at EXCEPT ![t] = Back(t, casts[t])] /\ tgt' = [tgt EXCEPT ![t] = NoChannel]
           \/ at' = [at EXCEPT ![t] = "reserved"] /\ tgt' = [tgt EXCEPT ![t] = ch]
    <3>1. UNCHANGED <<q, held, backpressureState>>
          BY <1>9, Zenon DEF Reserve, pipes
    <3>2. \/ at' = [at EXCEPT ![t] = Back(t, casts[t])] /\ tgt' = [tgt EXCEPT ![t] = NoChannel]
          \/ at' = [at EXCEPT ![t] = "reserved"] /\ tgt' = [tgt EXCEPT ![t] = ch]
          BY <1>9, Zenon DEF Reserve
    <3>3. QED
          BY <3>1, <3>2, Zenon
  <2>7. \/ at[t] = "write" /\ casts' = casts
        \/ at[t] = "cast" /\ casts' = [casts EXCEPT ![t] = s]
        BY <1>9, Zenon DEF Reserve
  <2>2. at[t] = "cast" => s \in Seq(Casts) /\ s # <<>>
    <3>1. SUFFICES ASSUME at[t] = "cast" PROVE s \in Seq(Casts) /\ s # <<>>
          BY Zenon
    <3>2. casts[t] # <<>>
          BY <1>0, <3>1, Zenon DEF Placed
    <3>3. Head(casts[t]) \in Casts
          BY <1>0, <3>2
    <3>4. Head(casts[t]).left \ {ch} \in SUBSET Channels
          BY <3>3, Zenon DEF Casts
    <3>5. QED
          BY <1>0, <3>2, <3>4, Stacked, Zenon
  <2> HIDE DEF s
  <2>3. /\ casts' \in [Threads -> Seq(Casts)] /\ (casts[t] # <<>> => casts'[t] # <<>>)
        /\ \A u \in Threads \ {t} : casts'[u] = casts[u]
        BY <1>0, <2>2, <2>7, Zenon
  <2>4. /\ at' \in [Threads -> Steps] /\ tgt' \in [Threads -> Channels \cup {NoChannel}]
        /\ at'[t] \in {"reserved", "cast", "idle", "deliver"}
        /\ at'[t] = "reserved" => tgt'[t] \in Channels
        /\ at'[t] = "cast" => casts'[t] # <<>>
        /\ \A u \in Threads \ {t} : at'[u] = at[u] /\ tgt'[u] = tgt[u]
    <3>1. CASE at' = [at EXCEPT ![t] = "reserved"] /\ tgt' = [tgt EXCEPT ![t] = ch]
          BY <1>0, <3>1, Zenon DEF Steps
    <3>2. CASE at' = [at EXCEPT ![t] = Back(t, casts[t])] /\ tgt' = [tgt EXCEPT ![t] = NoChannel]
          BY <1>0, <2>3, <3>2, BackIs, Zenon
    <3>3. QED
          BY <2>1, <3>1, <3>2, Zenon
  <2>5. Placed'
        BY <2>3, <2>4, ShapeOf, Zenon
  <2>6. QED
        BY <1>1, <2>1, <2>3, <2>4, <2>5, Zenon
<1>10. QED
      BY <1>2, <1>3, <1>4, <1>5, <1>6, <1>7, <1>8, <1>9, Zenon DEF WriteStep

\* removeQueueBytes moves to one of the three states.
LEMMA RecoveredIs ==
    ASSUME backpressureState \in States, NEW n
    PROVE  Recovered(n) \in States
BY Zenon DEF Recovered, States

\* Every step of a writeLoop keeps the shape.
LEMMA WriterShape ==
    ASSUME Shape, NEW ch \in Channels, WriterStep(ch) \/ Close(ch)
    PROVE  Shape'
<1> USE DEF Go, Forget
<1>0. /\ QueueTypes /\ Bounded /\ Placed /\ ch \in Threads
      /\ at \in [Threads -> Steps] /\ tgt \in [Threads -> Channels \cup {NoChannel}]
      /\ casts \in [Threads -> Seq(Casts)] /\ casts[ch] \in Seq(Casts)
      /\ q \in [Channels -> Seq(Frames)] /\ q[ch] \in Seq(Frames)
      /\ held \in [Channels -> Frames]
      BY Zenon DEF Shape, QueueTypes, Threads
<1>1. CASE Start(ch) \/ Exit(ch) \/ Close(ch)
      BY <1>0, <1>1, Zenon DEF Start, Exit, Close, shared, thread, Shape, QueueTypes, Bounded, Placed
<1>2. CASE Take(ch)
  <2>1. /\ q[ch] # <<>> /\ held' = [held EXCEPT ![ch] = Head(q[ch])]
        /\ q' = [q EXCEPT ![ch] = Tail(@)] /\ at' = [at EXCEPT ![ch] = "remove"]
        /\ UNCHANGED <<tgt, casts, backpressureState>>
        BY <1>2, Zenon DEF Take, shared
  <2>2. /\ Head(q[ch]) \in Frames /\ Tail(q[ch]) \in Seq(Frames)
        /\ Len(Tail(q[ch])) = Len(q[ch]) - 1 /\ Len(q[ch]) \in Nat
        BY <1>0, <2>1
  <2>3. Placed' /\ at' \in [Threads -> Steps]
        BY <1>0, <2>1, ShapeOf, Zenon DEF Steps
  <2>4. held' \in [Channels -> Frames] /\ q' \in [Channels -> Seq(Frames)]
        BY <1>0, <2>1, <2>2, Zenon
  <2>5. Len(q[ch]) - 1 <= QueueCap
        BY <1>0, <2>2, QueueAssumption, SMTT(30) DEF Bounded
  <2>6. \A c \in Channels : Len(q'[c]) <= QueueCap
    <3>1. q'[ch] = Tail(q[ch]) /\ \A c \in Channels : c # ch => q'[c] = q[c]
          BY <1>0, <2>1, Zenon
    <3>2. QED
          BY <1>0, <2>2, <2>5, <3>1, Zenon DEF Bounded
  <2>7. QED
        BY <1>0, <2>1, <2>3, <2>4, <2>6, ZenonT(30) DEF Shape, QueueTypes, Bounded
<1>3. CASE Remove(ch)
  <2>1. at' = [at EXCEPT ![ch] = "recover"] /\ UNCHANGED <<q, held, tgt, casts, backpressureState>>
        BY <1>3, Zenon DEF Remove, pipes
  <2>2. Placed' /\ at' \in [Threads -> Steps]
        BY <1>0, <2>1, ShapeOf, Zenon DEF Steps
  <2>3. QED
        BY <1>0, <2>1, <2>2, Zenon DEF Shape, QueueTypes, Bounded
<1>4. CASE Recover(ch)
  <2>1. /\ UNCHANGED <<q, held, backpressureState>> /\ tgt' = [tgt EXCEPT ![ch] = NoChannel]
        /\ \/ Announce(ch, Recovered(size[ch]), FALSE)
           \/ at' = [at EXCEPT ![ch] = "deliver"] /\ casts' = casts
        BY <1>4, Zenon DEF Recover, shared, pipes
  <2>2. CASE Announce(ch, Recovered(size[ch]), FALSE)
    <3> DEFINE state == Recovered(size[ch])
               c == [say |-> state, left |-> {}, cool |-> FALSE]
               s == <<c>> \o casts[ch]
    <3>1. at' = [at EXCEPT ![ch] = "store"] /\ casts' = [casts EXCEPT ![ch] = s]
          BY <2>2, Zenon DEF Announce
    <3>2. state \in States
          BY <1>0, RecoveredIs, Zenon DEF QueueTypes
    <3> HIDE DEF state
    <3>3. c \in Casts /\ c.say \in States
          BY <3>2, Zenon DEF Casts, Frames
    <3> HIDE DEF c
    <3>4. s \in Seq(Casts) /\ s # <<>> /\ Head(s) = c
          BY <1>0, <3>3, Stacked, Zenon
    <3> HIDE DEF s
    <3>5. Placed'
          BY <1>0, <2>1, <3>1, <3>3, <3>4, ShapeOf, ZenonT(30) DEF Steps
    <3>6. QED
          BY <1>0, <2>1, <3>1, <3>4, <3>5, ZenonT(30) DEF Steps, Shape, QueueTypes, Bounded
  <2>3. CASE at' = [at EXCEPT ![ch] = "deliver"] /\ casts' = casts
    <3>1. Placed'
          BY <1>0, <2>1, <2>3, ShapeOf, Zenon DEF Steps
    <3>2. QED
          BY <1>0, <2>1, <2>3, <3>1, Zenon DEF Steps, Shape, QueueTypes, Bounded
  <2>4. QED
        BY <2>1, <2>2, <2>3, Zenon
<1>5. CASE Deliver(ch)
  <2>1. /\ at' = [at EXCEPT ![ch] = "idle"] /\ held' = [held EXCEPT ![ch] = "data"]
        /\ UNCHANGED <<q, tgt, casts, backpressureState>>
        BY <1>5, Zenon DEF Deliver, shared
  <2>2. Placed' /\ at' \in [Threads -> Steps] /\ held' \in [Channels -> Frames]
        BY <1>0, <2>1, ShapeOf, Zenon DEF Steps, Frames
  <2>3. QED
        BY <1>0, <2>1, <2>2, Zenon DEF Shape, QueueTypes, Bounded
<1>6. QED
      BY <1>1, <1>2, <1>3, <1>4, <1>5, Zenon DEF WriterStep

-----------------------------------------------------------------------------
\* The count

Account == globalQueueBytes \in Nat /\ BytesAccounted

\* A step that neither counts a frame nor moves one.
LEMMA QuietCount ==
    ASSUME QueueIInv, NEW t \in Threads, q' = q, globalQueueBytes' = globalQueueBytes,
           at[t] \notin {"reserved", "remove"}, at'[t] \notin {"reserved", "remove"},
           \A u \in Threads \ {t} : /\ at'[u] = at[u] /\ casts'[u] = casts[u]
                                    /\ at[u] = "remove" => held'[u] = held[u]
    PROVE  Account'
<1>1. \A kind \in Kinds : /\ Carries(t, kind)' <=> Carries(t, kind)
                          /\ \A u \in Threads \ {t} : Carries(u, kind)' <=> Carries(u, kind)
      BY Zenon DEF Carries, Outgoing
<1>2. \A kind \in Kinds : Cardinality(Outstanding(kind)') = Cardinality(Outstanding(kind))
      BY <1>1, Hands, Zenon
<1>3. QED
      BY <1>2, CountSame, Zenon DEF Account

\* asyncWrite counts the frame before it queues it.
LEMMA ReserveCounts ==
    ASSUME QueueIInv, NEW t \in Threads, NEW ch \in Channels, Reserve(t, ch)
    PROVE  Account'
<1> USE DEF Go, Forget
<1>0. /\ Placed /\ at \in [Threads -> Steps] /\ casts \in [Threads -> Seq(Casts)]
      /\ Outgoing(t) \in Frames /\ casts[t] \in Seq(Casts)
      BY OutgoingIs, Zenon DEF QueueIInv, Shape, QueueTypes
<1> DEFINE s == <<[Head(casts[t]) EXCEPT !.left = Head(casts[t]).left \ {ch}]>> \o Tail(casts[t])
<1>1. \/ at[t] = "write" /\ casts' = casts
      \/ at[t] = "cast" /\ casts' = [casts EXCEPT ![t] = s]
      BY Zenon DEF Reserve
<1>2. at[t] = "cast" => casts[t] # <<>> /\ s # <<>> /\ Head(s).say = Head(casts[t]).say
  <2>1. SUFFICES ASSUME at[t] = "cast"
                 PROVE  casts[t] # <<>> /\ s # <<>> /\ Head(s).say = Head(casts[t]).say
        BY Zenon
  <2>2. casts[t] # <<>>
        BY <1>0, <2>1, Zenon DEF Placed
  <2>3. Head(casts[t]) \in Casts
        BY <1>0, <2>2
  <2>4. Head(casts[t]).left \ {ch} \in SUBSET Channels
        BY <2>3, Zenon DEF Casts
  <2>5. QED
        BY <1>0, <2>2, <2>4, Stacked, Zenon
<1> HIDE DEF s
<1>3. /\ q' = q /\ held' = held /\ at[t] \notin {"reserved", "remove"}
      /\ \A u \in Threads \ {t} : casts'[u] = casts[u]
      /\ Outgoing(t)' = Outgoing(t)
  <2>1. q' = q /\ held' = held
        BY Zenon DEF Reserve, pipes
  <2>2. QED
        BY <1>0, <1>1, <1>2, <2>1, Zenon DEF Outgoing
<1>4. CASE at' = [at EXCEPT ![t] = Back(t, casts[t])] /\ globalQueueBytes' = globalQueueBytes
  <2>1. at'[t] \notin {"reserved", "remove"} /\ \A u \in Threads \ {t} : at'[u] = at[u]
        BY <1>0, <1>4, BackIs, Zenon
  <2>2. QED
        BY <1>3, <1>4, <2>1, QuietCount, Zenon
<1>5. CASE /\ at' = [at EXCEPT ![t] = "reserved"]
           /\ globalQueueBytes' = globalQueueBytes + Bytes(Outgoing(t))
  <2>1. at'[t] = "reserved" /\ \A u \in Threads \ {t} : at'[u] = at[u]
        BY <1>0, <1>5, Zenon
  <2>2. ASSUME NEW kind \in Kinds
        PROVE  /\ ~Carries(t, kind) /\ (Carries(t, kind)' <=> Outgoing(t) \in kind)
               /\ \A u \in Threads \ {t} : Carries(u, kind)' <=> Carries(u, kind)
    <3>1. ~Carries(t, kind) /\ (Carries(t, kind)' <=> Outgoing(t) \in kind)
          BY <1>3, <2>1, Zenon DEF Carries
    <3>2. \A u \in Threads \ {t} : Carries(u, kind)' <=> Carries(u, kind)
          BY <1>3, <2>1, Zenon DEF Carries, Outgoing
    <3>3. QED
          BY <3>1, <3>2, Zenon
  <2>3. \A kind \in Kinds :
           Cardinality(Outstanding(kind)') =
               IF Outgoing(t) \in kind THEN Cardinality(Outstanding(kind)) + 1
               ELSE Cardinality(Outstanding(kind))
    <3>1. ASSUME NEW kind \in Kinds
          PROVE  Cardinality(Outstanding(kind)') =
                     IF Outgoing(t) \in kind THEN Cardinality(Outstanding(kind)) + 1
                     ELSE Cardinality(Outstanding(kind))
          BY <1>3, <2>2, Hands, Zenon
    <3>2. QED
          BY <3>1, Zenon
  <2>4. QED
        BY <1>0, <1>5, <2>3, CountUp, Zenon DEF Account
<1>6. QED
      BY <1>4, <1>5, Zenon DEF Reserve

\* The frame is queued, or its bytes are given back.
LEMMA EnqueueCounts ==
    ASSUME QueueIInv, NEW t \in Threads, Enqueue(t)
    PROVE  Account'
<1> USE DEF Go, Forget
<1>0. /\ QueueTypes /\ Placed /\ at \in [Threads -> Steps] /\ Outgoing(t) \in Frames
      /\ at[t] = "reserved" /\ tgt[t] \in Channels
      BY OutgoingIs, Zenon DEF QueueIInv, Shape, QueueTypes, Placed, Enqueue
<1>1. held' = held /\ casts' = casts
      BY Zenon DEF Enqueue
<1>2. /\ at'[t] \notin {"reserved", "remove"}
      /\ \A u \in Threads \ {t} : at'[u] = at[u]
      BY <1>0, BackIs DEF Enqueue
<1>3. ASSUME NEW kind \in Kinds
      PROVE  /\ Carries(t, kind) <=> Outgoing(t) \in kind
             /\ ~Carries(t, kind)'
             /\ \A u \in Threads \ {t} : Carries(u, kind)' <=> Carries(u, kind)
      BY <1>0, <1>1, <1>2, Zenon DEF Carries, Outgoing
<1>4. CASE /\ Len(q[tgt[t]]) < QueueCap /\ globalQueueBytes' = globalQueueBytes
           /\ q' = [q EXCEPT ![tgt[t]] = Append(@, Outgoing(t))]
  <2>1. \A kind \in Kinds : Cardinality(Outstanding(kind)') = Cardinality(Outstanding(kind))
        BY <1>0, <1>3, <1>4, HandToQueue, Zenon
  <2>2. QED
        BY <1>4, <2>1, CountSame, Zenon DEF Account
<1>5. CASE q' = q /\ globalQueueBytes' = Less(Bytes(Outgoing(t)))
  <2>1. \A kind \in Kinds :
           /\ IF Outgoing(t) \in kind
              THEN Cardinality(Outstanding(kind)) = Cardinality(Outstanding(kind)') + 1
              ELSE Cardinality(Outstanding(kind)') = Cardinality(Outstanding(kind))
           /\ Cardinality(Outstanding(kind)') \in Nat
        BY <1>3, <1>5, Hands, Zenon
  <2>2. QED
        BY <1>0, <1>5, <2>1, CountDown, Zenon DEF Account
<1>6. QED
      BY <1>4, <1>5, Zenon DEF Enqueue

\* A writeLoop takes a frame, and then gives its bytes back.
LEMMA WriterCounts ==
    ASSUME QueueIInv, NEW ch \in Channels, Take(ch) \/ Remove(ch)
    PROVE  Account'
<1> USE DEF Go
<1>0. /\ QueueTypes /\ Bounded /\ at \in [Threads -> Steps] /\ held \in [Channels -> Frames]
      /\ ch \in Threads /\ held[ch] \in Frames
      BY Zenon DEF QueueIInv, Shape, QueueTypes, Threads
<1>1. CASE Take(ch)
  <2>1. /\ q[ch] # <<>> /\ q' = [q EXCEPT ![ch] = Tail(@)] /\ at[ch] = "idle"
        /\ globalQueueBytes' = globalQueueBytes /\ casts' = casts
        /\ at'[ch] = "remove" /\ held'[ch] = Head(q[ch])
        /\ \A u \in Threads \ {ch} : at'[u] = at[u]
        /\ held' = [held EXCEPT ![ch] = Head(q[ch])]
        BY <1>0, <1>1, Zenon DEF Take, shared
  <2>2. \A u \in Threads \ {ch} : at[u] = "remove" => held'[u] = held[u]
        BY <1>0, <2>1, Zenon DEF QueueIInv, Shape, Placed
  <2>3. ASSUME NEW kind \in Kinds
        PROVE  /\ ~Carries(ch, kind) /\ (Carries(ch, kind)' <=> Head(q[ch]) \in kind)
               /\ \A u \in Threads \ {ch} : Carries(u, kind)' <=> Carries(u, kind)
    <3>1. ~Carries(ch, kind) /\ (Carries(ch, kind)' <=> Head(q[ch]) \in kind)
          BY <2>1, Zenon DEF Carries
    <3>2. \A u \in Threads \ {ch} : Carries(u, kind)' <=> Carries(u, kind)
          BY <2>1, <2>2, Zenon DEF Carries, Outgoing
    <3>3. QED
          BY <3>1, <3>2, Zenon
  <2>4. \A kind \in Kinds : Cardinality(Outstanding(kind)') = Cardinality(Outstanding(kind))
        BY <1>0, <2>1, <2>3, QueueToHand, Zenon
  <2>5. QED
        BY <2>1, <2>4, CountSame, Zenon DEF Account
<1>2. CASE Remove(ch)
  <2>1. /\ q' = q /\ casts' = casts /\ held' = held /\ at[ch] = "remove" /\ at'[ch] = "recover"
        /\ \A u \in Threads \ {ch} : at'[u] = at[u]
        /\ globalQueueBytes' = Less(Bytes(held[ch]))
        BY <1>0, <1>2, Zenon DEF Remove, pipes
  <2>2. ASSUME NEW kind \in Kinds
        PROVE  /\ Carries(ch, kind) <=> held[ch] \in kind
               /\ ~Carries(ch, kind)'
               /\ \A u \in Threads \ {ch} : Carries(u, kind)' <=> Carries(u, kind)
        BY <2>1, Zenon DEF Carries, Outgoing
  <2>3. \A kind \in Kinds :
           /\ IF held[ch] \in kind
              THEN Cardinality(Outstanding(kind)) = Cardinality(Outstanding(kind)') + 1
              ELSE Cardinality(Outstanding(kind)') = Cardinality(Outstanding(kind))
           /\ Cardinality(Outstanding(kind)') \in Nat
        BY <1>0, <2>1, <2>2, Hands, Zenon
  <2>4. QED
        BY <1>0, <2>1, <2>3, CountDown, Zenon DEF Account
<1>3. QED
      BY <1>1, <1>2, Zenon

\* The steps that neither count a frame nor move one: a send begins, a broadcast begins
\* or ends, the state changes, a frame is written.
LEMMA OthersCount ==
    ASSUME QueueIInv, NEW t \in Threads,
           \/ Broadcast(t) \/ RLock(t) \/ EndCast(t) \/ Update(t) \/ Store(t)
           \/ \E ch \in Channels : Unicast(t, ch)
           \/ t \in Channels /\ (Recover(t) \/ Deliver(t))
    PROVE  Account'
<1> USE DEF Go, Forget, shared, pipes
<1>0. /\ Placed /\ at \in [Threads -> Steps] /\ casts \in [Threads -> Seq(Casts)]
      /\ held \in [Channels -> Frames]
      BY Zenon DEF QueueIInv, Shape, QueueTypes
<1>1. q' = q /\ globalQueueBytes' = globalQueueBytes
      BY Zenon DEF Broadcast, RLock, EndCast, Update, Store, Unicast, Recover, Deliver
<1>2. at[t] \notin {"reserved", "remove"}
      BY ZenonT(30) DEF Broadcast, RLock, EndCast, Update, Store, Unicast, Recover, Deliver
<1>3. \E step \in {"idle", "rlock", "cast", "write", "store", "deliver"} :
         at' = [at EXCEPT ![t] = step]
      BY BackIs, SMTT(30)
         DEF Broadcast, RLock, EndCast, Update, Store, Unicast, Recover, Deliver, Announce
<1>4. \A u \in Threads \ {t} : casts'[u] = casts[u]
      BY <1>0, Zenon DEF Broadcast, RLock, EndCast, Update, Store, Unicast, Recover, Deliver, Announce
<1>5. held' = held \/ (t \in Channels /\ held' = [held EXCEPT ![t] = "data"])
      BY Zenon DEF Broadcast, RLock, EndCast, Update, Store, Unicast, Recover, Deliver
<1>6. \A u \in Threads \ {t} : at[u] = "remove" => held'[u] = held[u]
      BY <1>0, <1>5, Zenon DEF Placed
<1>7. at'[t] \notin {"reserved", "remove"} /\ \A u \in Threads \ {t} : at'[u] = at[u]
      BY <1>0, <1>3, Zenon
<1>8. QED
      BY <1>1, <1>2, <1>4, <1>6, <1>7, QuietCount, Zenon

\* Steps that leave the goroutines, the queues and the count alone.
LEMMA IdleCount ==
    ASSUME QueueIInv, UNCHANGED <<q, globalQueueBytes, backpressureState, thread>>
    PROVE  QueueIInv'
<1>1. /\ q' = q /\ globalQueueBytes' = globalQueueBytes /\ at' = at /\ casts' = casts
      /\ held' = held /\ tgt' = tgt /\ backpressureState' = backpressureState
      BY Zenon DEF thread
<1>2. \A kind \in Kinds : Cardinality(Outstanding(kind)') = Cardinality(Outstanding(kind))
      BY <1>1, Zenon DEF Outstanding, Queued, InHand, Outgoing
<1>3. Account'
      BY <1>1, <1>2, CountSame, Zenon DEF Account
<1>4. Shape'
      BY <1>1, Zenon DEF QueueIInv, Shape, QueueTypes, Bounded, Placed
<1>5. QED
      BY <1>3, <1>4, Zenon DEF QueueIInv, Account

\* At the start nothing is queued or counted.
LEMMA QueueInitial ==
    ASSUME Init
    PROVE  QueueIInv
<1>1. Shape
      BY QueueAssumption DEF Init, Shape, QueueTypes, Bounded, Placed, Threads, Steps, States, Frames
<1>2. \A kind : Outstanding(kind) = {}
      BY DEF Init, Outstanding, Queued, InHand
<1>3. Cardinality(Outstanding({"data"})) = 0 /\ Cardinality(Outstanding(States)) = 0
      BY <1>2, FS_EmptySet, Zenon
<1>4. globalQueueBytes = 0
      BY Zenon DEF Init
<1>5. BytesAccounted
      BY <1>3, <1>4, QueueAssumption, SMTT(30) DEF BytesAccounted
<1>6. QED
      BY <1>1, <1>4, <1>5, Zenon DEF QueueIInv

\* Every step of every goroutine keeps the count exact.
LEMMA QueueStep ==
    ASSUME QueueIInv, [Next]_vars
    PROVE  QueueIInv'
<1>0. Shape /\ Producers \subseteq Threads /\ Channels \subseteq Threads
      BY Zenon DEF QueueIInv, Threads
<1>1. ASSUME NEW t \in Producers, Broadcast(t) \/ \E ch \in Channels : Unicast(t, ch)
      PROVE  QueueIInv'
  <2>1. Shape'
        BY <1>0, <1>1, WriteShape, Zenon
  <2>2. Account'
        BY <1>0, <1>1, OthersCount, Zenon
  <2>3. QED
        BY <2>1, <2>2, Zenon DEF QueueIInv, Account
<1>2. ASSUME NEW t \in Threads, WriteStep(t)
      PROVE  QueueIInv'
  <2>1. Shape'
        BY <1>0, <1>2, WriteShape, Zenon
  <2>2. Account'
        BY <1>2, ReserveCounts, EnqueueCounts, OthersCount, Zenon DEF WriteStep
  <2>3. QED
        BY <2>1, <2>2, Zenon DEF QueueIInv, Account
<1>3. ASSUME NEW ch \in Channels, WriterStep(ch) \/ Close(ch)
      PROVE  QueueIInv'
  <2>1. Shape'
        BY <1>0, <1>3, WriterShape, Zenon
  <2>2. CASE Start(ch) \/ Exit(ch) \/ Close(ch)
        BY <2>2, IdleCount, Zenon DEF Start, Exit, Close, shared
  <2>3. CASE Take(ch) \/ Remove(ch)
        BY <2>1, <2>3, WriterCounts, Zenon DEF QueueIInv, Account
  <2>4. CASE Recover(ch) \/ Deliver(ch)
        BY <1>0, <2>1, <2>4, OthersCount, Zenon DEF QueueIInv, Account
  <2>5. QED
        BY <1>3, <2>2, <2>3, <2>4, Zenon DEF WriterStep
<1>4. CASE \/ CooldownOver \/ UNCHANGED vars
           \/ \E r \in Registrars : LockAsk(r) \/ LockGet(r) \/ Unlock(r)
      BY <1>4, IdleCount, Zenon DEF CooldownOver, LockAsk, LockGet, Unlock, vars, shared, pipes
<1>5. QED
      BY <1>1, <1>2, <1>3, <1>4, Zenon DEF Next

\* globalQueueBytes is the bytes of the frames queued, reserved or taken, at every step
\* of every goroutine (asyncWrite, rollbackQueueBytes, removeQueueBytes): for any number
\* of channels and producers, any queue length, any limit and any frame sizes.
THEOREM BytesAreAccounted == Spec => []BytesAccounted
<1>1. Init => QueueIInv
      BY QueueInitial, Zenon
<1>2. QueueIInv /\ [Next]_vars => QueueIInv'
      BY QueueStep, Zenon
<1>3. QueueIInv => BytesAccounted
      BY Zenon DEF QueueIInv
<1>4. QED
      BY <1>1, <1>2, <1>3, PTL DEF Spec

-----------------------------------------------------------------------------
\* Backpressure at the client

\* A reader that waits does so because of a pause that only it could end; and the
\* signal for a sender that waits is kept until it is taken.
WakeIInv ==
    /\ stage \in [Writers -> Stages] /\ cliState \in States /\ resumeCh \in 0..1
    /\ \A c \in Channels : stage[c] # "free" => c \in Readers
    /\ \A c \in Channels : stage[c] \in {"loop", "select"} => cliState # "normal"
    /\ \A s \in Senders : stage[s] = "select" /\ cliState = "normal" => resumeCh = 1

\* The client's variables after a step of one of its goroutines.
LEMMA WakeStep ==
    ASSUME OneWaiter, WakeIInv, [BpNext]_bpVars
    PROVE  WakeIInv'
<1> USE DEF WakeIInv, Writers, Stages, States
<1>0. Senders \cap Channels = {}
      BY BackpressureAssumption, Zenon
<1>1. CASE UNCHANGED client
      BY <1>1, Zenon DEF client
<1>2. ASSUME NEW ch \in Channels, DeliverTo(ch) PROVE WakeIInv'
      BY <1>2, Zenon DEF DeliverTo
<1>3. ASSUME NEW ch \in Channels, HandleBackpressure(ch) PROVE WakeIInv'
  <2>1. /\ stage[ch] = "free" /\ stage' = stage /\ cliState' \in States
        /\ resumeCh' = IF cliState # cliState' /\ cliState' = "normal" THEN 1 ELSE resumeCh
        BY <1>3, Zenon DEF HandleBackpressure, Signal
  <2>2. \A c \in Channels : stage[c] = "free" \/ c = ch
        BY <2>1, Zenon DEF OneWaiter
  <2>3. QED
        BY <2>1, <2>2
<1>4. ASSUME NEW ch \in Channels, HandleData(ch) PROVE WakeIInv'
      BY <1>0, <1>4, Zenon DEF HandleData
<1>5. ASSUME NEW s \in Senders, Begin(s) PROVE WakeIInv'
      BY <1>0, <1>5, Zenon DEF Begin
<1>6. ASSUME NEW g \in Writers, Delay(g) PROVE WakeIInv'
      BY <1>0, <1>6, Zenon DEF Delay
<1>7. ASSUME NEW g \in Writers, Loop(g) PROVE WakeIInv'
      BY <1>0, <1>7, Zenon DEF Loop
<1>8. ASSUME NEW g \in Writers, Select(g) PROVE WakeIInv'
  <2>1. CASE g \in Channels
        BY <1>0, <1>8, <2>1, SMTT(30) DEF Select
  <2>2. CASE g \in Senders
        BY <1>0, <1>8, <2>2, SMTT(30) DEF Select, OneWaiter
  <2>3. QED
        BY <2>1, <2>2, Zenon
<1>9. ASSUME NEW g \in Writers, Deadline(g) PROVE WakeIInv'
      BY <1>9, Zenon DEF Deadline
<1>10. CASE UNCHANGED bpVars
      BY <1>1, <1>10, Zenon DEF bpVars
<1> HIDE DEF WakeIInv
<1>11. QED
      BY <1>1, <1>2, <1>3, <1>4, <1>5, <1>6, <1>7, <1>8, <1>9, <1>10, ZenonT(30) DEF BpNext, Wait

\* With one waiter the signal to go on is never lost, over any number of channels,
\* producers and frames in flight (handleBackpressure and waitForBackpressure).
THEOREM WakeupKept ==
    ASSUME OneWaiter
    PROVE  BpSpec => []NoLostWakeup
<1>1. BpInit => WakeIInv
      BY DEF BpInit, WakeIInv, Stages, States, Writers
<1>2. WakeIInv /\ [BpNext]_bpVars => WakeIInv'
      BY WakeStep, Zenon
<1>3. WakeIInv => NoLostWakeup
      BY Zenon DEF WakeIInv, NoLostWakeup, Writers
<1>4. QED
      BY <1>1, <1>2, <1>3, PTL DEF BpSpec

=============================================================================
