--------------------------- MODULE ChatConnection ---------------------------
(* The connection as both tasks see it: ConnectionInboundGate and the socket   *)
(* of WebsocketProtocol on one side, the identity the application published    *)
(* for it (ChatProtocolSignals, connect_generation_, chat_protocol_owned_) on  *)
(* the other. A connection is named by its gate epoch, 1, 2, ...               *)
EXTENDS Integers

VARIABLES
    epoch,        \* ConnectionInboundGate::epoch_
    healthy,      \* ConnectionInboundGate::healthy_
    leased,       \* the chat_outbound worker holds the gate across a send
    socketEpoch,  \* websocket_connection_epoch_ (0: no websocket_)
    opened,       \* IsAudioChannelOpened()
    linked,       \* protocol_callback_connect_generation_ = connect_generation_
                  \* once the open worker has taken the request over
    current,      \* the connection for which IsChatConnectionCurrent holds
    adopted,      \* chat_source_connect_generation_ = connect_generation_: never
                  \* selected, no, yes
    opening,      \* the connection PublishOpened announced, until handled
    fault,        \* PublishConnectionFault for this connect generation
    cleanup       \* chat_protocol_state_ with protocol_work_lifetime_.Pending()

gateVars     == <<epoch, healthy, leased, socketEpoch, opened>>
identityVars == <<linked, current, adopted, opening, fault>>

ConnectionInit ==
    /\ epoch = 0 /\ healthy = FALSE /\ leased = FALSE
    /\ socketEpoch = 0 /\ opened = FALSE
    /\ linked = FALSE /\ current = 0 /\ adopted = "never"
    /\ opening = 0 /\ fault = "none" /\ cleanup = "none"

\* protocol_work_lifetime_.Pending(), which also holds chat_protocol_owned_.
Pending == cleanup # "none"

\* HealthyEpoch(), the lock-free snapshot of CurrentConnectionEpoch().
HealthyEpoch == IF healthy THEN epoch ELSE 0

\* TryAcquire(e) of a gate nobody holds.
LeaseAllowed(e) == healthy /\ e = epoch

\* The error and closed callbacks: dropped unless the socket belongs to the
\* connection the application is waiting for and no cleanup owns it.
PublishFault ==
    IF linked /\ ~Pending
    THEN /\ fault' = IF fault = "handled" THEN fault ELSE "new"
         /\ current' = 0
    ELSE UNCHANGED <<fault, current>>

\* The transport loses the connection: it is unusable before anyone is told.
SocketDown ==
    /\ opened
    /\ opened' = FALSE
    /\ UNCHANGED <<epoch, healthy, leased, socketEpoch, identityVars, cleanup>>

DisconnectedUnderSend ==               \* variant: does not take the gate
    /\ healthy /\ socketEpoch = epoch
    /\ healthy' = FALSE /\ opened' = FALSE
    /\ PublishFault
    /\ UNCHANGED <<epoch, leased, socketEpoch, linked, adopted, opening, cleanup>>

\* OnDisconnected takes the gate, so it waits for a send in progress.
SocketDisconnected ==
    /\ ~leased /\ healthy /\ socketEpoch = epoch
    /\ healthy' = FALSE /\ opened' = FALSE
    /\ PublishFault
    /\ UNCHANGED <<epoch, leased, socketEpoch, linked, adopted, opening, cleanup>>

Transport == SocketDown \/ SocketDisconnected
=============================================================================
