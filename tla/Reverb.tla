-------------------------------- MODULE Reverb --------------------------------
(***************************************************************************)
(* The broadcasting server (broadcasting/reverb): sockets that connect,    *)
(* subscribe and go away while events are being broadcast to them.  Every  *)
(* handler is a task of one event loop; an action is what a task does from *)
(* one await to the next.  A client signs in at /broadcasting/auth         *)
(* (broadcasting/provider.py, auth.py) for the channels that need it.      *)
(* Socket ids are never used twice: they are drawn from 10^20.             *)
(***************************************************************************)
EXTENDS Naturals, Sequences, FiniteSets
CONSTANTS Sockets, Users, Events,
          Channels, Private,    \* Private: the channels named private-... or presence-...
          Allowed               \* <<user, channel>>: the authorizers that answer yes
VARIABLES handler,      \* what the task of each socket is at
          alive,        \* the sockets whose client is still there
          channels,     \* ChannelManager: the subscribers of each channel
          signed,       \* the signatures handed out: <<user, socket, channel>>
          cast,         \* the broadcast of each event
          heard,        \* what each client received: <<event, channel>>
          due           \* history: the subscribers a broadcast found, <<event, channel, socket>>
sockets == <<handler, alive, channels, signed, cast, heard, due>>

Open == {s \in Sockets: handler[s] \in {"greets", "receives", "confirms"}}
Unsent == [state |-> "none", on |-> <<>>, to |-> {}]
ReverbInit ==
    /\ handler = [s \in Sockets |-> "none"] /\ alive = {} /\ signed = {} /\ due = {}
    /\ channels = [c \in Channels |-> {}]
    /\ cast = [e \in Events |-> Unsent]
    /\ heard = [s \in Sockets |-> {}]

Broadcasting == <<cast, heard, due>>
Connect(s) ==
    /\ handler[s] = "none"
    /\ handler' = [handler EXCEPT ![s] = "greets"] /\ alive' = alive \cup {s}
    /\ UNCHANGED <<channels, signed>> /\ UNCHANGED Broadcasting
\* connection_established, or the confirmation of a subscription, is sent.
Sent(s) ==
    /\ handler[s] \in {"greets", "confirms"}
    /\ handler' = [handler EXCEPT ![s] = "receives"]
    /\ UNCHANGED <<alive, channels, signed>> /\ UNCHANGED Broadcasting

\* POST /broadcasting/auth by a user, for a socket id it names
Sign(u, s, c) ==
    /\ s \in Open /\ c \in Private /\ <<u, c>> \in Allowed
    /\ signed' = signed \cup {<<u, s, c>>}
    /\ UNCHANGED <<handler, alive, channels>> /\ UNCHANGED Broadcasting

Verifies(s, c, signature) == c \notin Private \/ (signature[2] = s /\ signature[3] = c)
\* A frame that pings, or is refused, is answered and changes nothing here.
Subscribe(s, c) ==
    /\ handler[s] = "receives" /\ s \in alive
    /\ \E signature \in signed \cup {<<"none", "none", "none">>}: Verifies(s, c, signature)
    /\ channels' = [channels EXCEPT ![c] = @ \cup {s}]
    /\ handler' = [handler EXCEPT ![s] = "confirms"]
    /\ UNCHANGED <<alive, signed>> /\ UNCHANGED Broadcasting

GoAway(s) == /\ s \in alive /\ alive' = alive \ {s}
             /\ UNCHANGED <<handler, channels, signed>> /\ UNCHANGED Broadcasting
\* A careless form of the next definition: the subscriptions stay.
EndOnly(s) ==
    /\ s \in Open /\ (s \notin alive \/ handler[s] = "receives")
    /\ handler' = [handler EXCEPT ![s] = "ended"] /\ alive' = alive \ {s}
    /\ UNCHANGED <<channels, signed>> /\ UNCHANGED Broadcasting
\* The finally of handle(): the client has gone, which a receive or a send finds
\* out, or it has sent a message that is too big.
End(s) ==
    /\ s \in Open /\ (s \notin alive \/ handler[s] = "receives")
    /\ handler' = [handler EXCEPT ![s] = "ended"] /\ alive' = alive \ {s}
    /\ channels' = [c \in Channels |-> channels[c] \ {s}]
    /\ UNCHANGED signed /\ UNCHANGED Broadcasting

Connections == <<handler, alive, channels, signed>>
Broadcast(e, on) ==
    /\ cast[e].state = "none"
    /\ cast' = [cast EXCEPT ![e] = [state |-> "next", on |-> on, to |-> {}]]
    /\ UNCHANGED <<heard, due>> /\ UNCHANGED Connections
\* broadcast_to_channel() takes the subscribers of one channel after the other.
Take(e) ==
    /\ cast[e].state = "next" /\ cast[e].on # <<>>
    /\ LET c == Head(cast[e].on) IN
         /\ cast' = [cast EXCEPT ![e].state = "sends", ![e].to = channels[c]]
         /\ due' = due \cup {<<e, c, s>>: s \in channels[c]}
    /\ UNCHANGED heard /\ UNCHANGED Connections
\* A send that raises is passed over.
Send(e) ==
    /\ cast[e].state = "sends"
    /\ \E s \in cast[e].to:
         /\ cast' = [cast EXCEPT ![e].to = @ \ {s}]
         /\ heard' = IF s \in Open \cap alive THEN [heard EXCEPT ![s] = @ \cup {<<e, Head(cast[e].on)>>}] ELSE heard
    /\ UNCHANGED due /\ UNCHANGED Connections
Turn(e) ==
    /\ \/ cast[e].state = "sends" /\ cast[e].to = {} /\ cast' = [cast EXCEPT ![e].state = "next", ![e].on = Tail(@)]
       \/ cast[e].state = "next" /\ cast[e].on = <<>> /\ cast' = [cast EXCEPT ![e].state = "done"]
    /\ UNCHANGED <<heard, due>> /\ UNCHANGED Connections

Lists == {<<c>>: c \in Channels} \cup {<<c, d>>: c, d \in Channels}
ReverbNext ==
    \/ \E s \in Sockets: Connect(s) \/ Sent(s) \/ GoAway(s) \/ End(s) \/ \E c \in Channels: Subscribe(s, c)
    \/ \E u \in Users, s \in Sockets, c \in Channels: Sign(u, s, c)
    \/ \E e \in Events: Take(e) \/ Send(e) \/ Turn(e) \/ \E on \in Lists: Broadcast(e, on)
ReverbSpec == ReverbInit /\ [][ReverbNext]_sockets
-----------------------------------------------------------------------------
(* When a broadcast is over, every socket that was subscribed when its channel *)
(* was taken has the event, whoever else went away in the meantime, unless it  *)
(* has gone itself (reverb/server.py broadcast_to_channel).                    *)
ReachesTheLiving ==
    \A t \in due: cast[t[1]].state = "done" /\ t[3] \in alive => <<t[1], t[2]>> \in heard[t[3]]

(* Nobody hears what it did not subscribe to, of a private channel only a      *)
(* socket for which a user with access asked for the signature; and a handler  *)
(* that has ended leaves no subscription (reverb/server.py handle, _subscribe).*)
OnlySubscribers ==
    /\ \A c \in Channels: channels[c] \subseteq Open
    /\ \A s \in Sockets: \A t \in heard[s]:
         /\ <<t[1], t[2], s>> \in due
         /\ t[2] \in Private => \E u \in Users: <<u, t[2]>> \in Allowed /\ <<u, s, t[2]>> \in signed

(* An event reaches the sockets that are subscribed and alive, and only those  *)
(* that may hear it (reverb/server.py 33-53, 67-113).                       *)
ReachesSubscribers == ReachesTheLiving /\ OnlySubscribers
\* No socket has the name that stands for no signature.
SocketsAreIds == "none" \notin Sockets
=============================================================================
