---------------------------- MODULE ServerChannels ----------------------------
(***************************************************************************)
(* The server's channel registry (server_pool.go, connection.go): how a    *)
(* WebSocket becomes a channel of a client, how it stops being one, and    *)
(* what is reclaimed with it.                                              *)
(*                                                                         *)
(* A socket is one ServerWSConn.  Several goroutines work on it at once:   *)
(* handleWebSocket registers it and then runs its read loop, its write     *)
(* loop or Shutdown may close it, and whoever closes it runs               *)
(* cleanupChannel.  Every action below is one critical section of p.mu (or *)
(* of wsConn.mu), so everything between two sections interleaves.          *)
(* Of the messages only three are kept, whose handlers write a table that  *)
(* cleanupChannel reclaims: MsgTCPConnect, MsgTCPClose, MsgHotPairBegin.   *)
(* The choice of a downlink and the data are the subject of TunnelConn.    *)
(***************************************************************************)
EXTENDS Integers, FiniteSets

CONSTANTS Clients,               \* client_id values
          Sockets,               \* the WebSockets that are ever dialled
          ConnIDs,               \* tunnelled connections
          maxAllowedChID,        \* largest channel number of a client
          MaxTotalChannels,      \* 0: no limit
          MaxChannelsPerClient,  \* 0: no limit
          NoSocket, NoClient, NoMsg

ASSUME ChannelsAssumption ==
    /\ IsFiniteSet(Sockets)
    /\ NoSocket \notin Sockets
    /\ NoClient \notin Clients
    /\ maxAllowedChID \in Nat \ {0}
    /\ MaxTotalChannels \in Nat
    /\ MaxChannelsPerClient \in Nat

ChIDs == 1..maxAllowedChID

\* A message in the hands of a read loop.
Messages == [kind : {"begin"}]
            \cup [kind : {"connect", "close"}, id : ConnIDs]

VARIABLES
    phase,          \* handleWebSocket's progress for a socket
    clientID, chID, \* ServerWSConn.clientID, ServerWSConn.chID
    isClosed,       \* ServerWSConn.closed
    wsConns,        \* serverPool.wsConns without its nil slots
    clientChConns,  \* serverPool.clientChConns
    cleaner,        \* progress of close() and the cleanupChannel it calls
    victim,         \* cleanupChannel's local wsConn
    toClose,        \* cleanupChannel's local toClose
    inHand,         \* the message a read loop is handling
    owner,          \* the client that message's handler looked up
    conns,          \* serverPool.conns
    prebindArmed    \* the keys of serverPool.prebindArmed

reg == <<phase, clientID, chID, isClosed, wsConns, clientChConns>>
handling == <<inHand, owner>>
tables == <<conns, prebindArmed>>
registryVars == <<phase, clientID, chID, isClosed, wsConns, clientChConns,
                  cleaner, victim, toClose, inHand, owner, conns, prebindArmed>>

Phases == {"idle", "requested", "upgrading", "refused", "serving"}
Conns == [id : ConnIDs, client : Clients \cup {NoClient},
          up : ChIDs]

RegistryTypeOK ==
    /\ phase \in [Sockets -> Phases]
    /\ clientID \in [Sockets -> Clients \cup {NoClient}]
    /\ chID \in [Sockets -> ChIDs \cup {0}]
    /\ isClosed \in [Sockets -> BOOLEAN]
    /\ wsConns \in SUBSET Sockets
    /\ clientChConns \in [Clients -> [ChIDs -> Sockets \cup {NoSocket}]]
    /\ cleaner \in [Sockets -> {"none", "marked", "swept", "done"}]
    /\ victim \in [Sockets -> Sockets \cup {NoSocket}]
    /\ toClose \in [Sockets -> SUBSET ConnIDs]
    /\ inHand \in [Sockets -> Messages \cup {NoMsg}]
    /\ owner \in [Sockets -> Clients \cup {NoClient, NoMsg}]
    /\ conns \in SUBSET Conns
    /\ prebindArmed \in SUBSET Clients

RegistryInit ==
    /\ phase = [s \in Sockets |-> "idle"]
    /\ clientID = [s \in Sockets |-> NoClient]
    /\ chID = [s \in Sockets |-> 0]
    /\ isClosed = [s \in Sockets |-> FALSE]
    /\ wsConns = {}
    /\ clientChConns = [c \in Clients |-> [k \in ChIDs |-> NoSocket]]
    /\ cleaner = [s \in Sockets |-> "none"]
    /\ victim = [s \in Sockets |-> NoSocket]
    /\ toClose = [s \in Sockets |-> {}]
    /\ inHand = [s \in Sockets |-> NoMsg]
    /\ owner = [s \in Sockets |-> NoMsg]
    /\ conns = {}
    /\ prebindArmed = {}

-----------------------------------------------------------------------------
\* handleWebSocket

Active == {s \in wsConns : ~isClosed[s]}
ActiveOf(c) == {s \in Active : clientID[s] = c}

\* countActiveChannelsLocked compared with the configured limits.
LimitReached(c) ==
    \/ MaxTotalChannels > 0 /\ Cardinality(Active) >= MaxTotalChannels
    \/ MaxChannelsPerClient > 0 /\ Cardinality(ActiveOf(c)) >= MaxChannelsPerClient

\* p.clientChConns[c][k] is set and not closed.
InUse(c, k) ==
    /\ clientChConns[c][k] # NoSocket
    /\ ~isClosed[clientChConns[c][k]]

FreeChIDs(c) == {k \in ChIDs : ~InUse(c, k)}

\* A request that names its ch_id.
Request(s, c, k) ==
    /\ phase[s] = "idle"
    /\ phase' = [phase EXCEPT ![s] = "requested"]
    /\ clientID' = [clientID EXCEPT ![s] = c]
    /\ chID' = [chID EXCEPT ![s] = k]
    /\ UNCHANGED <<isClosed, wsConns, clientChConns, cleaner, victim, toClose,
                   handling, tables>>

\* A request without ch_id: allocClientChIDLocked picks the smallest free
\* number and reserves nothing; with none free the request is refused.
RequestAlloc(s, c) ==
    /\ phase[s] = "idle"
    /\ \/ \E k \in FreeChIDs(c) :
              /\ \A j \in FreeChIDs(c) : k <= j
              /\ phase' = [phase EXCEPT ![s] = "requested"]
              /\ clientID' = [clientID EXCEPT ![s] = c]
              /\ chID' = [chID EXCEPT ![s] = k]
       \/ /\ FreeChIDs(c) = {}
          /\ phase' = [phase EXCEPT ![s] = "refused"]
          /\ UNCHANGED <<clientID, chID>>
    /\ UNCHANGED <<isClosed, wsConns, clientChConns, cleaner, victim, toClose,
                   handling, tables>>

\* The first look at the limits, before the upgrade; the upgrade may fail.
Precheck(s) ==
    /\ phase[s] = "requested"
    /\ \/ /\ ~LimitReached(clientID[s])
          /\ phase' = [phase EXCEPT ![s] = "upgrading"]
       \/ phase' = [phase EXCEPT ![s] = "refused"]
    /\ UNCHANGED <<clientID, chID, isClosed, wsConns, clientChConns, cleaner,
                   victim, toClose, handling, tables>>

\* Faulty form: the second look at the limits is left out.
MayStoreUnlimited(s) == ~InUse(clientID[s], chID[s])

\* Faulty form: the number is not checked again after the upgrade.
MayStoreTaken(s) == ~LimitReached(clientID[s])

\* The limits and the ch_id are checked again under p.mu before storing.
MayStore(s) == ~LimitReached(clientID[s]) /\ ~InUse(clientID[s], chID[s])

StoreChannel(s) ==
    /\ phase[s] = "upgrading"
    /\ \/ /\ MayStore(s)
          /\ phase' = [phase EXCEPT ![s] = "serving"]
          /\ clientChConns' = [clientChConns EXCEPT ![clientID[s]][chID[s]] = s]
          /\ wsConns' = wsConns \cup {s}
       \/ /\ ~MayStore(s)
          /\ phase' = [phase EXCEPT ![s] = "refused"]
          /\ UNCHANGED <<clientChConns, wsConns>>
    /\ UNCHANGED <<clientID, chID, isClosed, cleaner, victim, toClose,
                   handling, tables>>

-----------------------------------------------------------------------------
\* Closing a channel

\* close(), entered when a read or a write fails and from Shutdown.  Only the
\* goroutine that sets the flag goes on to cleanupChannel.
MarkClosed(s) ==
    /\ phase[s] = "serving"
    /\ ~isClosed[s]
    /\ isClosed' = [isClosed EXCEPT ![s] = TRUE]
    /\ cleaner' = [cleaner EXCEPT ![s] = "marked"]
    /\ UNCHANGED <<phase, clientID, chID, wsConns, clientChConns, victim,
                   toClose, handling, tables>>

\* Faulty form: the entry of clientChConns is left behind.
SweepKeepsIndex(s) ==
    LET c == clientID[s]
        k == chID[s]
        found == clientChConns[c][k]
        left == [clientChConns[c] EXCEPT ![k] = NoSocket]
    IN  /\ cleaner[s] = "marked"
        /\ cleaner' = [cleaner EXCEPT ![s] = "swept"]
        /\ victim' = [victim EXCEPT ![s] = found]
        /\ UNCHANGED clientChConns
        /\ wsConns' = wsConns \ {found}
        /\ toClose' = [toClose EXCEPT ![s] =
               {x.id : x \in {y \in conns : y.client = c /\ y.up = k}}]
        /\ prebindArmed' =
               IF /\ \E j \in ChIDs : clientChConns[c][j] # NoSocket
                  /\ \A j \in ChIDs : left[j] = NoSocket
               THEN prebindArmed \ {c} ELSE prebindArmed
        /\ UNCHANGED <<phase, clientID, chID, isClosed, handling, conns>>

\* The locked part of cleanupChannel(clientID, chID): it removes whatever is
\* registered under that number, and the client's armed window with its last
\* channel.
Sweep(s) ==
    LET c == clientID[s]
        k == chID[s]
        found == clientChConns[c][k]
        left == [clientChConns[c] EXCEPT ![k] = NoSocket]
    IN  /\ cleaner[s] = "marked"
        /\ cleaner' = [cleaner EXCEPT ![s] = "swept"]
        /\ victim' = [victim EXCEPT ![s] = found]
        /\ clientChConns' = [clientChConns EXCEPT ![c] = left]
        /\ wsConns' = wsConns \ {found}
        /\ toClose' = [toClose EXCEPT ![s] =
               {x.id : x \in {y \in conns : y.client = c /\ y.up = k}}]
        /\ prebindArmed' =
               IF /\ \E j \in ChIDs : clientChConns[c][j] # NoSocket
                  /\ \A j \in ChIDs : left[j] = NoSocket
               THEN prebindArmed \ {c} ELSE prebindArmed
        /\ UNCHANGED <<phase, clientID, chID, isClosed, handling, conns>>

\* unregisterConn for one connection of toClose.
CloseSwept(s, id) ==
    /\ cleaner[s] = "swept"
    /\ id \in toClose[s]
    /\ toClose' = [toClose EXCEPT ![s] = @ \ {id}]
    /\ conns' = {x \in conns : x.id # id}
    /\ UNCHANGED <<reg, cleaner, victim, handling, prebindArmed>>

\* The end of cleanupChannel closes the socket it found, if it is still open.
FinishCleanup(s) ==
    /\ cleaner[s] = "swept"
    /\ toClose[s] = {}
    /\ cleaner' = [cleaner EXCEPT ![s] = "done"]
    /\ isClosed' = [x \in Sockets |-> isClosed[x] \/ x = victim[s]]
    /\ UNCHANGED <<phase, clientID, chID, wsConns, clientChConns, victim,
                   toClose, handling, tables>>

-----------------------------------------------------------------------------
\* The read loop.  A message read before the socket's ws.Close() is handled
\* whatever happens to the channel meanwhile.

ReadMessage(s, m) ==
    /\ phase[s] = "serving"
    /\ ~isClosed[s] \/ cleaner[s] = "marked"
    /\ inHand[s] = NoMsg
    /\ inHand' = [inHand EXCEPT ![s] = m]
    /\ UNCHANGED <<reg, cleaner, victim, toClose, owner, tables>>

\* The first, read-locked half of handleTCPConnect: whose channel is this?
ResolveOwner(s) ==
    /\ inHand[s] # NoMsg /\ inHand[s].kind = "connect"
    /\ owner[s] = NoMsg
    /\ owner' = [owner EXCEPT ![s] =
           IF clientChConns[clientID[s]][chID[s]] # NoSocket
           THEN clientID[s] ELSE NoClient]
    /\ UNCHANGED <<reg, cleaner, victim, toClose, inHand, tables>>

\* Its second half: the first copy to arrive creates the connection.
HandleTCPConnect(s) ==
    /\ inHand[s] # NoMsg /\ inHand[s].kind = "connect"
    /\ owner[s] # NoMsg
    /\ conns' = IF \E x \in conns : x.id = inHand[s].id THEN conns
                ELSE conns \cup {[id |-> inHand[s].id, client |-> owner[s],
                                  up |-> chID[s]]}
    /\ inHand' = [inHand EXCEPT ![s] = NoMsg]
    /\ owner' = [owner EXCEPT ![s] = NoMsg]
    /\ UNCHANGED <<reg, cleaner, victim, toClose, prebindArmed>>

\* unregisterConn
HandleTCPClose(s) ==
    /\ inHand[s] # NoMsg /\ inHand[s].kind = "close"
    /\ conns' = {x \in conns : x.id # inHand[s].id}
    /\ inHand' = [inHand EXCEPT ![s] = NoMsg]
    /\ UNCHANGED <<reg, cleaner, victim, toClose, owner, prebindArmed>>

HandleHotPairBegin(s) ==
    /\ inHand[s] # NoMsg /\ inHand[s].kind = "begin"
    /\ prebindArmed' = prebindArmed \cup {clientID[s]}
    /\ inHand' = [inHand EXCEPT ![s] = NoMsg]
    /\ UNCHANGED <<reg, cleaner, victim, toClose, owner, conns>>

-----------------------------------------------------------------------------

RegistryNext ==
    \E s \in Sockets :
        \/ \E c \in Clients, k \in ChIDs : Request(s, c, k)
        \/ \E c \in Clients : RequestAlloc(s, c)
        \/ Precheck(s)
        \/ StoreChannel(s)
        \/ MarkClosed(s)
        \/ Sweep(s)
        \/ \E id \in ConnIDs : CloseSwept(s, id)
        \/ FinishCleanup(s)
        \/ \E m \in Messages : ReadMessage(s, m)
        \/ ResolveOwner(s)
        \/ HandleTCPConnect(s)
        \/ HandleTCPClose(s)
        \/ HandleHotPairBegin(s)

RegistrySpec == RegistryInit /\ [][RegistryNext]_registryVars

-----------------------------------------------------------------------------
\* Properties

\* The two indexes of the pool agree: an open socket that broadcasts reach
\* through wsConns is the one that unicasts to its number reach through
\* clientChConns, and nothing is reachable by number only.  (handleWebSocket
\* writes both tables, cleanupChannel clears both by number.)
IndexAgreement ==
    /\ \A s \in Active : clientChConns[clientID[s]][chID[s]] = s
    /\ \A c \in Clients, k \in ChIDs :
           LET s == clientChConns[c][k]
           IN  s # NoSocket => s \in wsConns /\ clientID[s] = c /\ chID[s] = k

\* The open registered channels never exceed MaxTotalChannels, nor those of a
\* client MaxChannelsPerClient, although the first check and the upgrade are
\* outside the lock (handleWebSocket).
WithinLimits ==
    /\ MaxTotalChannels > 0 => Cardinality(Active) <= MaxTotalChannels
    /\ MaxChannelsPerClient > 0 =>
           \A c \in Clients : Cardinality(ActiveOf(c)) <= MaxChannelsPerClient

\* A number in use by an open socket is never handed to another socket: its
\* entry goes away or stays ("防止通道劫持", handleWebSocket).
NoOpenChannelReplaced ==
    [][\A c \in Clients, k \in ChIDs :
          InUse(c, k) => clientChConns'[c][k] \in {clientChConns[c][k], NoSocket}]_registryVars

\* No closed socket is stranded under its number, where broadcasts and lookups
\* would find it for ever: while one is there, the cleanup it called is still to
\* sweep the number, whoever else closed, swept or took it over meanwhile
\* (close, cleanupChannel, handleWebSocket).
NoStrandedChannel ==
    \A c \in Clients, k \in ChIDs :
        LET s == clientChConns[c][k]
        IN  s # NoSocket /\ isClosed[s] => cleaner[s] = "marked"

\* server_pool.go:197: a new connection may take over the number of a closed
\* one, "兼容正常断线重连" (to suit normal reconnection): the cleanup of the old
\* socket then leaves the new one alone.  Not kept: the cleanup goes by the number,
\* and closes the new socket.
TakeoverSurvives ==
    \A s \in Sockets : cleaner[s] \in {"swept", "done"} => victim[s] \in {s, NoSocket}

\* server_pool.go:425: the armed entry is deleted with the client's last
\* channel, under the lock of handleHotPairBegin, "防无界增长" (against unbounded
\* growth): with no channel and no goroutine of the client left, no entry is.
\* Not kept: a MsgHotPairBegin in hand at the sweep arms the client afterwards.
ArmedReclaimed ==
    \A c \in prebindArmed :
        \/ \E k \in ChIDs : clientChConns[c][k] # NoSocket
        \/ \E s \in Sockets :
               /\ clientID[s] = c /\ phase[s] = "serving"
               /\ ~isClosed[s] \/ cleaner[s] \in {"marked", "swept"} \/ inHand[s] # NoMsg

\* server_pool.go:363: until a downlink is chosen a connection's frames are
\* broadcast "只广播给同一客户端的活跃通道" (only to the same client's channels);
\* broadcastWriteToClient sends to every client when the owner is unknown.
\* Not kept: a MsgTCPConnect in hand at the sweep finds no owner.
OwnerKnown == \A x \in conns : x.client # NoClient
=============================================================================
