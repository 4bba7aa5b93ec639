-------------------------- MODULE ReverseListeners --------------------------
(***************************************************************************)
(* The listeners that one client asks the server to open for it: whenever a*)
(* channel is ready the client asks for all of them (reverse.go), the      *)
(* server opens those it has not (reverse_listener.go), and closes them    *)
(* all when the client's last channel is gone (server_pool.go              *)
(* cleanupChannel).  A channel may be closed by its writer while its reader*)
(* is still handling a frame, and cleanupChannel calls ShutdownClient after*)
(* it has released the lock under which it found the client gone.  That a  *)
(* cleanup may hit the successor of its channel is left to ServerChannels. *)
(***************************************************************************)
EXTENDS Integers, Sequences, FiniteSets

CONSTANTS
    ListenChannels, \* the client's channels
    Specs,          \* config.ReverseListeners, without its duplicates: a sequence
    NoSpec,
    MaxPerClient,   \* listeners the server grants a client
    MaxReady        \* bound: times a channel becomes ready

SpecSet == {Specs[i] : i \in DOMAIN Specs}

ASSUME ListenAssumption ==
    /\ Specs \in Seq(SpecSet) /\ NoSpec \notin SpecSet
    /\ {MaxPerClient, MaxReady} \subseteq Nat \ {0}

VARIABLES
    linked,         \* channels up at the client
    present,        \* channels the server has, clientChConns[clientID]
    asks,           \* MsgReverseListen under way, per channel
    answers,        \* MsgReverseListenResult under way, per channel
    handling,       \* the request the reader of a channel is handling
    late,           \* the same, for readers whose channel has been closed
    leaving,        \* cleanups that found the client gone and have yet to say so
    listeners,      \* open at the server
    reg,            \* reverseListenerState at the client
    regCheck,       \* checkReverseRegFatal: "off", "armed", "fine", "failed"
    strayed,        \* history: a late reader has opened a listener
    ready           \* history: channels that became ready

listenVars == <<linked, present, asks, answers, handling, late, leaving, listeners,
                reg, regCheck, strayed, ready>>

ListenTypeOK ==
    /\ linked \subseteq ListenChannels /\ present \subseteq ListenChannels
    /\ asks \in [ListenChannels -> Seq(SpecSet)]
    /\ answers \in [ListenChannels -> Seq(SpecSet \X BOOLEAN)]
    /\ handling \in [ListenChannels -> SpecSet \cup {NoSpec}]
    /\ late \subseteq ListenChannels \X SpecSet \X (1..MaxReady)
    /\ leaving \in 0..MaxReady /\ ready \in 0..MaxReady
    /\ listeners \subseteq SpecSet
    /\ reg \in [SpecSet -> {"unanswered", "ok", "refused"}]
    /\ regCheck \in {"off", "armed", "fine", "failed"}
    /\ strayed \in BOOLEAN

ListenInit ==
    /\ linked = {} /\ present = {}
    /\ asks = [ch \in ListenChannels |-> <<>>]
    /\ answers = [ch \in ListenChannels |-> <<>>]
    /\ handling = [ch \in ListenChannels |-> NoSpec]
    /\ late = {} /\ leaving = 0 /\ ready = 0
    /\ listeners = {}
    /\ reg = [s \in SpecSet |-> "unanswered"]
    /\ regCheck = "off" /\ strayed = FALSE

-----------------------------------------------------------------------------
\* Client

\* reverseOnChannelReady: the check is scheduled, once, and every listener asked for.
ReverseOnChannelReady(ch) ==
    /\ ch \notin linked \cup present /\ ready < MaxReady
    /\ linked' = linked \cup {ch} /\ present' = present \cup {ch}
    /\ asks' = [asks EXCEPT ![ch] = Specs]
    /\ regCheck' = IF regCheck = "off" THEN "armed" ELSE regCheck
    /\ ready' = ready + 1
    /\ UNCHANGED <<answers, handling, late, leaving, listeners, reg, strayed>>

HandleReverseListenResult(ch) ==
    /\ ch \in linked /\ answers[ch] # <<>>
    /\ LET answer == Head(answers[ch])
       IN  reg' = [reg EXCEPT ![answer[1]] = IF answer[2] THEN "ok" ELSE "refused"]
    /\ answers' = [answers EXCEPT ![ch] = Tail(@)]
    /\ UNCHANGED <<linked, present, asks, handling, late, leaving, listeners, regCheck,
                   strayed, ready>>

\* The application is told when none is open.
CheckReverseRegFatal ==
    /\ regCheck = "armed"
    /\ regCheck' = IF \E s \in SpecSet : reg[s] = "ok" THEN "fine" ELSE "failed"
    /\ UNCHANGED <<linked, present, asks, answers, handling, late, leaving, listeners, reg,
                   strayed, ready>>

ClientLoses(ch) ==
    /\ ch \in linked
    /\ linked' = linked \ {ch}
    /\ answers' = [answers EXCEPT ![ch] = <<>>]
    /\ UNCHANGED <<present, asks, handling, late, leaving, listeners, reg, regCheck, strayed,
                   ready>>

-----------------------------------------------------------------------------
\* Server

ReadRequest(ch) ==
    /\ ch \in present /\ handling[ch] = NoSpec /\ asks[ch] # <<>>
    /\ handling' = [handling EXCEPT ![ch] = Head(asks[ch])]
    /\ asks' = [asks EXCEPT ![ch] = Tail(@)]
    /\ UNCHANGED <<linked, present, answers, late, leaving, listeners, reg, regCheck, strayed,
                   ready>>

\* HandleReverseListen, under its lock: a listener that is open is confirmed; a new
\* one needs room, a scheme that is known, and an address that is free.  The answer
\* goes to whichever connection has the channel's number.
HandleReverseListen(ch, s) ==
    \E ok \in BOOLEAN :
        /\ s \in listeners => ok
        /\ ok => s \in listeners \/ Cardinality(listeners) < MaxPerClient
        /\ listeners' = IF ok THEN listeners \cup {s} ELSE listeners
        /\ answers' = IF ch \in present /\ ch \in linked
                      THEN [answers EXCEPT ![ch] = Append(@, <<s, ok>>)] ELSE answers

HandleRequest(ch) ==
    /\ handling[ch] # NoSpec
    /\ HandleReverseListen(ch, handling[ch])
    /\ handling' = [handling EXCEPT ![ch] = NoSpec]
    /\ UNCHANGED <<linked, present, asks, late, leaving, reg, regCheck, strayed, ready>>

HandleLateRequest(r) ==
    /\ r \in late
    /\ HandleReverseListen(r[1], r[2])
    /\ late' = late \ {r}
    /\ strayed' = (strayed \/ listeners' # listeners)
    /\ UNCHANGED <<linked, present, asks, handling, leaving, reg, regCheck, ready>>

\* Faulty form: the client counts as gone only if its map was empty before.
CleanupChannelLate(ch) ==
    /\ ch \in present
    /\ present' = present \ {ch}
    /\ leaving' = IF present = {} THEN leaving + 1 ELSE leaving
    /\ late' = IF handling[ch] = NoSpec THEN late
               ELSE late \cup {<<ch, handling[ch], ready>>}
    /\ handling' = [handling EXCEPT ![ch] = NoSpec]
    /\ asks' = [asks EXCEPT ![ch] = <<>>]
    /\ UNCHANGED <<linked, answers, listeners, reg, regCheck, strayed, ready>>

\* cleanupChannel under p.mu: the channel is removed, and clientGone found.
CleanupChannel(ch) ==
    /\ ch \in present
    /\ present' = present \ {ch}
    /\ leaving' = IF present' = {} THEN leaving + 1 ELSE leaving
    /\ late' = IF handling[ch] = NoSpec THEN late
               ELSE late \cup {<<ch, handling[ch], ready>>}
    /\ handling' = [handling EXCEPT ![ch] = NoSpec]
    /\ asks' = [asks EXCEPT ![ch] = <<>>]
    /\ UNCHANGED <<linked, answers, listeners, reg, regCheck, strayed, ready>>

\* Its last step: every listener of the client is closed.
ShutdownClient ==
    /\ leaving > 0
    /\ leaving' = leaving - 1
    /\ listeners' = {}
    /\ UNCHANGED <<linked, present, asks, answers, handling, late, reg, regCheck, strayed,
                   ready>>

-----------------------------------------------------------------------------
ListenNext ==
    \/ CheckReverseRegFatal
    \/ ShutdownClient
    \/ \E ch \in ListenChannels :
          \/ ReverseOnChannelReady(ch) \/ HandleReverseListenResult(ch) \/ ClientLoses(ch)
          \/ ReadRequest(ch) \/ HandleRequest(ch) \/ CleanupChannel(ch)
    \/ \E r \in late : HandleLateRequest(r)

ListenSpec == ListenInit /\ [][ListenNext]_listenVars

-----------------------------------------------------------------------------
\* A client that is gone leaves no listener behind, however its channels fail and
\* return while earlier cleanups are still on their way to ShutdownClient; unless a
\* reader opened one for a channel that had been closed under it.
ListenersReclaimed == present = {} /\ leaving = 0 /\ ~strayed => listeners = {}

\* Not kept: the same without the exception.  The writer closes the client's last
\* channel while its reader is on its way into HandleReverseListen, which opens a
\* listener after ShutdownClient.
NoListenerLeft == present = {} /\ leaving = 0 /\ late = {} => listeners = {}

\* Not kept: when all is quiet, a listener that the client believes registered is
\* open.  ShutdownClient comes late, after the client is back and has registered; a
\* client whose channels all returned is not told.
StaysRegistered ==
    /\ present = ListenChannels /\ linked = ListenChannels /\ leaving = 0 /\ late = {}
    /\ \A ch \in ListenChannels :
           asks[ch] = <<>> /\ answers[ch] = <<>> /\ handling[ch] = NoSpec
    => \A s \in SpecSet : reg[s] = "ok" => s \in listeners

=============================================================================
