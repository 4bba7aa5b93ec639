---------------------------- MODULE ReverseDial -----------------------------
(***************************************************************************)
(* One connection of the reverse mode: the server asks                     *)
(* (reverse_server.go), the client dials the target and pumps              *)
(* (reverse.go).  The roles of TunnelConn are swapped, the states are not  *)
(* the same code: the requester keeps a ServerReverseConn with a result,   *)
(* the dialler a reverseConn whose connection is closed by a sync.Once.    *)
(*                                                                         *)
(* As there, a reverseConn is named by the channel whose copy of the       *)
(* connect request created it, which is its recvCh.  The listener in front *)
(* of the server's end and the target behind the client's are external.    *)
(***************************************************************************)
EXTENDS ChannelWires

\* A client has channels (config.go:121).
ASSUME SomeChannel == Channels # {}

VARIABLES
    \* server
    dial,           \* where reverseDialer.DialStream is
    app,            \* the listener's side of the stream is open
    entry,          \* DialStream took the pair from the hot table
    rv,             \* ServerReverseConn: [reg, sendCh, recvCh, result, repaired]
    pump,           \* reverseUpstreamPump
    wrote,          \* payloads written by the listener's side
    got,            \* got[o]: payloads of target o that reached it
    \* client
    rev,            \* the reverseConn registered under the connection's ID
    rc,             \* reverseConn per creating channel
    read,           \* read[o]: payloads read from target o
    tgt             \* tgt[o]: payloads written to target o

serverVars == <<dial, app, entry, rv, pump, wrote, got>>
clientVars == <<rev, rc, read, tgt>>
vars == <<serverVars, clientVars, wires>>

Uplinked == [t : {"ok", "err", "close"}] \cup [t : {"selectUplink"}, ch : Channels]
            \cup [t : {"data"}, o : Channels, n : 1..MaxUp]
Downlinked == [t : {"connect", "close"}] \cup [t : {"selectDownlink"}, ch : Channels]
              \cup [t : {"data"}, n : 1..MaxDown]

TypeOK ==
    /\ up \in [Channels -> Seq(Uplinked)]
    /\ down \in [Channels -> Seq(Downlinked)]
    /\ {cliUp, srvUp} \subseteq [Channels -> BOOLEAN]
    /\ dial \in {"idle", "found", "wait", "open", "failed"}
    /\ {app, entry} \subseteq BOOLEAN
    /\ rv \in [reg : BOOLEAN, sendCh : Channels \cup {NoCh},
               recvCh : Channels \cup {NoCh}, result : {"none", "ok", "err"},
               repaired : BOOLEAN]
    /\ pump \in {"idle", "run", "done"}
    /\ wrote \in 0..MaxDown
    /\ got \in [Channels -> Seq(1..MaxUp)]
    /\ rev \in Channels \cup {NoCh}
    /\ rc \in [Channels -> [stage : {"none", "dial", "pump", "done"},
                            conn : {"none", "open", "closed"}, once : BOOLEAN,
                            sendCh : Channels \cup {NoCh}]]
    /\ read \in [Channels -> 0..MaxUp]
    /\ tgt \in [Channels -> Seq(1..MaxDown)]

Fresh(stage, sendCh) ==
    [stage |-> stage, conn |-> "none", once |-> FALSE, sendCh |-> sendCh]

Init ==
    /\ WiresInit
    /\ dial = "idle" /\ app = TRUE /\ entry = FALSE
    /\ rv = [reg |-> FALSE, sendCh |-> NoCh, recvCh |-> NoCh,
             result |-> "none", repaired |-> FALSE]
    /\ pump = "idle"
    /\ wrote = 0
    /\ got = [o \in Channels |-> <<>>]
    /\ rev = NoCh
    /\ rc = [o \in Channels |-> Fresh("none", NoCh)]
    /\ read = [o \in Channels |-> 0]
    /\ tgt = [o \in Channels |-> <<>>]

-----------------------------------------------------------------------------
\* Sending

\* Server: sendCh when it is known, all channels of the client otherwise.
Below(ch) == IF ch = NoCh THEN OpenAt(srvUp) ELSE {ch} \cap OpenAt(srvUp)

\* Client: the same with the channels it has open.
Above(ch) == IF ch = NoCh THEN OpenAt(cliUp) ELSE {ch} \cap OpenAt(cliUp)

-----------------------------------------------------------------------------
\* Server: reverseDialer.DialStream and the stream it returns

\* settle keeps the first result; removeReverseConn drops the state and closes
\* both ends of the pipe.
Settled(r, result) == IF r.result = "none" THEN [r EXCEPT !.result = result] ELSE r

Removed(r) == IF r.reg THEN [Settled(r, "err") EXCEPT !.reg = FALSE] ELSE r

\* reverseNotifyClose
NotifyClose == down' = Put(down, Below(rv.sendCh), <<[t |-> "close"]>>)

\* The active channels are counted and the newest pair is looked up.
DialLookup ==
    /\ dial = "idle"
    /\ dial' = IF OpenAt(srvUp) = {} THEN "failed" ELSE "found"
    /\ entry' = (Pair # NoPair /\ srvUp[Pair.up] /\ srvUp[Pair.down])
    /\ UNCHANGED <<app, rv, pump, wrote, got, clientVars, wires>>

\* The state is registered, with the pair's channels when there is a pair, and
\* the request sent: to the pair's channel, or to all when that has closed
\* meanwhile, which leaves the channels as they are.
DialSend ==
    /\ dial = "found"
    /\ LET S == IF entry /\ srvUp[Pair.down] THEN {Pair.down} ELSE OpenAt(srvUp)
       IN  /\ down' = Put(down, S, <<[t |-> "connect"]>>)
           /\ rv' = [reg |-> S # {}, sendCh |-> IF entry THEN Pair.down ELSE NoCh,
                     recvCh |-> IF entry THEN Pair.up ELSE NoCh,
                     result |-> IF S = {} THEN "err" ELSE "none", repaired |-> ~entry]
           /\ dial' = IF S = {} THEN "failed" ELSE "wait"
           /\ pump' = IF S = {} THEN "idle" ELSE "run"
    /\ UNCHANGED <<app, entry, wrote, got, clientVars, up, cliUp, srvUp>>

DialResult ==
    /\ dial = "wait" /\ rv.result # "none"
    /\ IF rv.result = "ok"
       THEN dial' = "open" /\ UNCHANGED rv
       ELSE dial' = "failed" /\ rv' = Removed(rv)
    /\ UNCHANGED <<app, entry, pump, wrote, got, clientVars, wires>>

\* The timer, or the end of the caller's context; select may take it although
\* there is a result.
DialTimeout ==
    /\ dial = "wait"
    /\ dial' = "failed"
    /\ NotifyClose
    /\ rv' = Removed(Settled(rv, "err"))
    /\ UNCHANGED <<app, entry, pump, wrote, got, clientVars, up, cliUp, srvUp>>

\* The listener's side writes and reverseUpstreamPump sends it on: to sendCh,
\* or to all channels when that is not known or has closed.
Write ==
    /\ dial = "open" /\ app /\ rv.reg /\ pump = "run" /\ wrote < MaxDown
    /\ wrote' = wrote + 1
    /\ down' = Put(down, IF Below(rv.sendCh) = {} THEN OpenAt(srvUp) ELSE Below(rv.sendCh),
                   <<[t |-> "data", n |-> wrote']>>)
    /\ UNCHANGED <<dial, app, entry, rv, pump, got, clientVars, up, cliUp, srvUp>>

Close ==
    /\ dial = "open" /\ app
    /\ app' = FALSE
    /\ UNCHANGED <<dial, entry, rv, pump, wrote, got, clientVars, wires>>

\* Faulty form: the end of the pump is not passed on.
UpstreamEndsQuiet ==
    /\ pump = "run" /\ (~app \/ ~rv.reg)
    /\ pump' = "done"
    /\ rv' = Removed(rv)
    /\ UNCHANGED <<dial, app, entry, wrote, got, clientVars, wires>>

\* reverseUpstreamPump ends: one of the two ends of the pipe was closed.
UpstreamEnds ==
    /\ pump = "run" /\ (~app \/ ~rv.reg)
    /\ pump' = "done"
    /\ NotifyClose
    /\ rv' = Removed(rv)
    /\ UNCHANGED <<dial, app, entry, wrote, got, clientVars, up, cliUp, srvUp>>

-----------------------------------------------------------------------------
\* Server: handleReverseMessage; without a state a frame changes nothing

Arrived(ch, type) ==
    /\ srvUp[ch] /\ up[ch] # <<>> /\ Head(up[ch]).t = type
    /\ up' = [up EXCEPT ![ch] = Tail(@)]

\* Faulty form: the channels are replaced by every later frame.
HandleSelectUplinkAgain(ch) ==
    /\ Arrived(ch, "selectUplink")
    /\ LET c == Head(up[ch]).ch
       IN  IF rv.reg
           THEN /\ rv' = [rv EXCEPT !.sendCh = c, !.recvCh = ch]
                /\ down' = Put(down, Below(c), <<[t |-> "selectDownlink", ch |-> ch]>>)
           ELSE UNCHANGED <<rv, down>>
    /\ UNCHANGED <<dial, app, entry, pump, wrote, got, clientVars, cliUp, srvUp>>

\* MsgSelectUplink: the first one decides the two channels; after a pair was
\* preset one more may repair them.  The choice goes back over sendCh.
HandleSelectUplink(ch) ==
    /\ Arrived(ch, "selectUplink")
    /\ LET c == Head(up[ch]).ch
       IN  IF rv.reg /\ (rv.sendCh = NoCh \/ ~rv.repaired)
           THEN /\ rv' = [rv EXCEPT !.sendCh = c, !.recvCh = ch,
                                    !.repaired = @ \/ rv.sendCh # NoCh]
                /\ down' = Put(down, Below(c), <<[t |-> "selectDownlink", ch |-> ch]>>)
           ELSE UNCHANGED <<rv, down>>
    /\ UNCHANGED <<dial, app, entry, pump, wrote, got, clientVars, cliUp, srvUp>>

HandleConnStatus(ch) ==
    /\ \E result \in {"ok", "err"} :
          /\ Arrived(ch, result)
          /\ rv' = IF rv.reg THEN Settled(rv, result) ELSE rv
    /\ UNCHANGED <<dial, app, entry, pump, wrote, got, clientVars, down, cliUp, srvUp>>

\* Faulty form: data is taken from every channel.
HandleDataAny(ch) ==
    /\ Arrived(ch, "data")
    /\ LET m == Head(up[ch])
       IN  got' = IF rv.reg /\ app THEN [got EXCEPT ![m.o] = Append(@, m.n)] ELSE got
    /\ UNCHANGED <<dial, app, entry, rv, pump, wrote, clientVars, down, cliUp, srvUp>>

\* MsgTCPData: from recvCh only; a failed write ends the connection.
HandleData(ch) ==
    /\ Arrived(ch, "data")
    /\ LET m == Head(up[ch])
           taken == rv.reg /\ rv.recvCh = ch
       IN  /\ got' = IF taken /\ app THEN [got EXCEPT ![m.o] = Append(@, m.n)] ELSE got
           /\ IF taken /\ ~app THEN NotifyClose /\ rv' = Removed(rv)
              ELSE UNCHANGED <<down, rv>>
    /\ UNCHANGED <<dial, app, entry, pump, wrote, clientVars, cliUp, srvUp>>

HandleClose(ch) ==
    /\ Arrived(ch, "close")
    /\ IF rv.reg THEN NotifyClose /\ rv' = Removed(rv) ELSE UNCHANGED <<down, rv>>
    /\ UNCHANGED <<dial, app, entry, pump, wrote, got, clientVars, cliUp, srvUp>>

-----------------------------------------------------------------------------
\* Client: handleReverseTCPConnect and handleReverseServerMsg

Received(ch, type) ==
    /\ cliUp[ch] /\ down[ch] # <<>> /\ Head(down[ch]).t = type
    /\ down' = [down EXCEPT ![ch] = Tail(@)]

\* The first copy creates the state, later ones are dropped.  With the pair of
\* the connection's key at hand, and on its channel, both directions are known;
\* otherwise MsgSelectUplink starts the race.
HandleReverseTCPConnect(ch) ==
    /\ Received(ch, "connect")
    /\ \E known \in PairKnown :
          LET hot == entry /\ known /\ ch = Pair.down
          IN  IF rev = NoCh
              THEN /\ rev' = ch
                   /\ rc' = [rc EXCEPT ![ch] = Fresh("dial", IF hot THEN Pair.up ELSE NoCh)]
                   /\ up' = IF hot THEN up
                            ELSE Put(up, OpenAt(cliUp), <<[t |-> "selectUplink", ch |-> ch]>>)
              ELSE UNCHANGED <<rev, rc, up>>
    /\ UNCHANGED <<read, tgt, serverVars, cliUp, srvUp>>

\* closeOnce: the connection is closed if there is one by now; a later call
\* finds the Once used up.
Shut(r) == IF r.once THEN r
           ELSE [r EXCEPT !.once = TRUE, !.conn = IF @ = "open" THEN "closed" ELSE @]

\* sendReverseClose; rcs are the states after the caller's own change to them.
SendReverseClose(rcs, o) ==
    /\ rc' = [rcs EXCEPT ![o] = Shut(@)]
    /\ up' = Put(up, Above(rc[o].sendCh), <<[t |-> "close"]>>)
    /\ rev' = NoCh

HandleSelectDownlink(ch) ==
    /\ Received(ch, "selectDownlink")
    /\ rc' = IF rev = ch /\ rc[ch].sendCh = NoCh
             THEN [rc EXCEPT ![ch].sendCh = Head(down[ch]).ch] ELSE rc
    /\ UNCHANGED <<rev, read, tgt, serverVars, up, cliUp, srvUp>>

\* MsgTCPData: from recvCh only, dropped while there is no connection; a write
\* to the target may fail.
HandleServerData(ch) ==
    /\ Received(ch, "data")
    /\ \/ /\ rev # ch \/ rc[ch].conn = "none"
          /\ UNCHANGED <<rev, rc, tgt, up>>
       \/ /\ rev = ch /\ rc[ch].conn = "open"
          /\ tgt' = [tgt EXCEPT ![ch] = Append(@, Head(down[ch]).n)]
          /\ UNCHANGED <<rev, rc, up>>
       \/ /\ rev = ch /\ rc[ch].conn # "none"
          /\ SendReverseClose(rc, ch)
          /\ UNCHANGED tgt
    /\ UNCHANGED <<read, serverVars, cliUp, srvUp>>

HandleServerClose(ch) ==
    /\ Received(ch, "close")
    /\ IF rev = NoCh THEN UNCHANGED <<rev, rc, up>> ELSE SendReverseClose(rc, rev)
    /\ UNCHANGED <<read, tgt, serverVars, cliUp, srvUp>>

-----------------------------------------------------------------------------
\* Client: dialReverseTarget

TargetFails(o) ==
    /\ rc[o].stage = "dial"
    /\ rc' = [rc EXCEPT ![o].stage = "done"]
    /\ up' = Put(up, OpenAt(cliUp), <<[t |-> "err"]>>)
    /\ rev' = NoCh
    /\ UNCHANGED <<read, tgt, serverVars, down, cliUp, srvUp>>

\* Faulty form: the connection is reported before it is kept.
TargetConnectedLate(o) ==
    /\ \/ /\ rc[o].stage = "dial"
          /\ rc' = [rc EXCEPT ![o].stage = "reported"]
          /\ up' = Put(up, OpenAt(cliUp), <<[t |-> "ok"]>>)
       \/ /\ rc[o].stage = "reported"
          /\ rc' = [rc EXCEPT ![o].stage = "pump", ![o].conn = "open"]
          /\ UNCHANGED up
    /\ UNCHANGED <<rev, read, tgt, serverVars, down, cliUp, srvUp>>

\* The connection is kept and reported whether or not the state is still there.
TargetConnected(o) ==
    /\ rc[o].stage = "dial"
    /\ rc' = [rc EXCEPT ![o].stage = "pump", ![o].conn = "open"]
    /\ up' = Put(up, OpenAt(cliUp), <<[t |-> "ok"]>>)
    /\ UNCHANGED <<rev, read, tgt, serverVars, down, cliUp, srvUp>>

PumpRead(o) ==
    /\ rc[o].stage = "pump" /\ rc[o].conn = "open" /\ read[o] < MaxUp
    /\ read' = [read EXCEPT ![o] = @ + 1]
    /\ up' = Put(up, Above(rc[o].sendCh), <<[t |-> "data", o |-> o, n |-> read[o] + 1]>>)
    /\ UNCHANGED <<rev, rc, tgt, serverVars, down, cliUp, srvUp>>

\* The read fails: the target has closed, or closeOnce has.
PumpEnds(o) ==
    /\ rc[o].stage = "pump"
    /\ SendReverseClose([rc EXCEPT ![o].stage = "done"], o)
    /\ UNCHANGED <<read, tgt, serverVars, down, cliUp, srvUp>>

-----------------------------------------------------------------------------
\* A channel fails: each side notices by itself and ends what uses it
\* (reverseCleanupChannel; the server's cleanupChannel).

CleanupClient(ch) ==
    /\ cliUp[ch] /\ MayFail(ch)
    /\ cliUp' = [cliUp EXCEPT ![ch] = FALSE]
    /\ down' = [down EXCEPT ![ch] = <<>>]
    /\ IF rev # NoCh /\ ch \in {rev, rc[rev].sendCh}
       THEN rev' = NoCh /\ rc' = [rc EXCEPT ![rev] = Shut(@)]
       ELSE UNCHANGED <<rev, rc>>
    /\ UNCHANGED <<read, tgt, serverVars, up, srvUp>>

CleanupServer(ch) ==
    /\ srvUp[ch] /\ MayFail(ch)
    /\ srvUp' = [srvUp EXCEPT ![ch] = FALSE]
    /\ up' = [up EXCEPT ![ch] = <<>>]
    /\ rv' = IF ch \in {rv.sendCh, rv.recvCh} THEN Removed(rv) ELSE rv
    /\ UNCHANGED <<dial, app, entry, pump, wrote, got, clientVars, down, cliUp>>

-----------------------------------------------------------------------------
ServerReads(ch) ==
    \/ HandleSelectUplink(ch) \/ HandleConnStatus(ch)
    \/ HandleData(ch) \/ HandleClose(ch)

ClientReads(ch) ==
    \/ HandleReverseTCPConnect(ch) \/ HandleSelectDownlink(ch)
    \/ HandleServerData(ch) \/ HandleServerClose(ch)

Next ==
    \/ DialLookup \/ DialSend \/ DialResult \/ DialTimeout
    \/ Write \/ Close \/ UpstreamEnds
    \/ \E ch \in Channels :
          \/ ServerReads(ch) \/ CleanupServer(ch)
          \/ ClientReads(ch) \/ CleanupClient(ch)
          \/ TargetFails(ch) \/ TargetConnected(ch) \/ PumpRead(ch) \/ PumpEnds(ch)

Spec == Init /\ [][Next]_vars

\* The goroutines run, frames are delivered, dials end, both ends notice a
\* broken channel, and a read of a connection closed locally fails.  Neither
\* the listener's side nor the target has to do anything.
FairSpec ==
    /\ Spec
    /\ WF_vars(DialSend) /\ WF_vars(DialResult \/ DialTimeout) /\ WF_vars(UpstreamEnds)
    /\ \A ch \in Channels :
          /\ WF_vars(ClientReads(ch)) /\ WF_vars(ServerReads(ch))
          /\ WF_vars(~srvUp[ch] /\ CleanupClient(ch))
          /\ WF_vars(~cliUp[ch] /\ CleanupServer(ch))
          /\ WF_vars(TargetFails(ch) \/ TargetConnected(ch))
          /\ WF_vars(rc[ch].conn = "closed" /\ PumpEnds(ch))

-----------------------------------------------------------------------------
\* Properties

\* The targets the client has dialled for the connection.
Dialled == {o \in Channels : rc[o].stage # "none"}

\* The two ends agree on both directions: of all the states the client made, the one
\* that knows its sending channel is the one the server sends to, and the server takes
\* data from that channel, also when a preset pair had to be repaired
\* (handleReverseMessage and handleReverseServerMsg).
ReverseRoutes ==
    \A o \in Channels : rc[o].sendCh # NoCh =>
        rv.sendCh = o /\ rv.recvCh = rc[o].sendCh

FromTarget == INSTANCE ByteStream
              WITH Streams <- Channels, produced <- read, delivered <- got, broken <- {}

\* Of each target connection the listener's side receives a prefix, in order
\* and without duplicates (dialReverseTarget's pump to handleReverseMessage).
FromTargetStream == FromTarget!Spec

\* A target receives payloads in the order in which the listener's side wrote them,
\* none twice, although they are broadcast while, or once again when, no channel is
\* known; and a target that no second one was dialled besides receives the first ones
\* (reverseUpstreamPump to handleReverseServerMsg).
ToTargetPrefix ==
    \A o \in Channels : \A i \in 1..Len(tgt[o]) :
        /\ \A j \in 1..Len(tgt[o]) : i < j => tgt[o][i] < tgt[o][j]
        /\ Dialled = {o} => tgt[o][i] = i

\* Not kept, when a channel fails: every target receives the first payloads.  The
\* second target dialled for a late copy of the request gets what is written after
\* its own connection is there (reverse.go drops what comes before).
EveryTargetPrefix == \A o \in Channels : \A i \in 1..Len(tgt[o]) : tgt[o][i] = i

\* When the listener's side closes the stream, the client closes its
\* connection to the target, unless a channel fails (reverseUpstreamPump to
\* sendReverseClose).
ReverseCloses == ~app ~> Failed # {} \/ \A o \in Channels : rc[o].conn # "open"

\* reverse_server.go:135: after a dial that timed out the client is told, so
\* that no connection leaks on its side.  Not kept: a close during the client's
\* dial uses up closeOnce before there is a connection.
NoOrphan == dial = "failed" ~> \A o \in Channels : rc[o].conn # "open"

=============================================================================
