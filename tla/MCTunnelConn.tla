---------------------------- MODULE MCTunnelConn ----------------------------
\* Instances of TunnelConn for TLC.
EXTENDS TunnelConn, TLC

CONSTANTS a, b

NoHotPair == NoPair
HotPair == [up |-> a, down |-> b]
Either == {TRUE, FALSE}
Never == {FALSE}
Always == {TRUE}

\* Frames that every handler will drop.  On the way down: all of them once the
\* client has dropped the connection (every case of handleChannel looks the state
\* up first), and with both routes chosen the data and the announcements on a
\* channel that is not the downlink.  On the way up: all once the server has no
\* state and no request is left that would make one, and on a channel that is not
\* the uplink everything but requests and closes.  States that differ only in
\* such frames have the same future.
OnTheWay(wire, ch, types) == \E i \in DOMAIN wire[ch] : wire[ch][i].t \in types

UpMatters(ch) ==
    \/ dial = "idle" \/ conns = ch \/ OnTheWay(up, ch, {"connect"})
    \/ /\ OnTheWay(up, ch, {"close"})
       /\ conns # NoCh \/ \E o \in Channels : OnTheWay(up, o, {"connect"})

DownMatters(ch) ==
    /\ st.reg
    /\ \/ st.uplink = NoCh \/ st.downlink \in {NoCh, ch}
       \/ OnTheWay(down, ch, {"err", "close"} \cup (IF st.connected THEN {} ELSE {"ok"}))

Live ==
    <<clientVars, serverVars, cliUp, srvUp,
      [ch \in Channels |-> IF UpMatters(ch) THEN up[ch] ELSE <<>>],
      [ch \in Channels |-> IF DownMatters(ch) THEN down[ch] ELSE <<>>]>>

=============================================================================
