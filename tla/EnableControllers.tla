------------------------- MODULE EnableControllers -------------------------
(***************************************************************************)
(* One evaluation of the combinational always block of each behavioural    *)
(* controller, as a function of its registers and input wires.             *)
(* The blocks use blocking assignments, so a statement sees the registers  *)
(* the statements before it have just written.                             *)
(***************************************************************************)

(***************************************************************************)
(* four_phase_enable_sender: one enable token per rise of launch.          *)
(***************************************************************************)
EnableSenderStates ==
    [state : {"IDLE", "ACTIVE", "REARM"}, req : BOOLEAN, data : BOOLEAN]

EnableSenderReset == [state |-> "IDLE", req |-> FALSE, data |-> FALSE]

\* Mutant: the sender rearms without waiting for its acknowledge to fall.
EnableSenderNoRearm(s, value, launch, ack) ==
    IF s.state = "IDLE" /\ launch
      THEN [state |-> "ACTIVE", req |-> TRUE, data |-> value]
    ELSE IF s.state = "ACTIVE" /\ ack
      THEN [s EXCEPT !.state = "IDLE", !.req = FALSE]
    ELSE s

EnableSender(s, value, launch, ack) ==
    CASE s.state = "IDLE" /\ launch /\ ~ack ->
            [state |-> "ACTIVE", req |-> TRUE, data |-> value]
      [] s.state = "ACTIVE" /\ ack /\ ~launch ->
            [s EXCEPT !.state = "REARM", !.req = FALSE]
      [] s.state = "REARM" /\ ~ack /\ ~launch ->
            [s EXCEPT !.state = "IDLE"]
      [] OTHER -> s

(***************************************************************************)
(* en_receive_controller.                                                  *)
(***************************************************************************)
EnReceiveStates ==
    [state : {"IDLE", "WAIT_EXTERNAL", "WAIT_BODY"}, enabled : BOOLEAN,
     enableAck : BOOLEAN, externalAck : BOOLEAN, bodyReq : BOOLEAN]

EnReceiveReset ==
    [state |-> "IDLE", enabled |-> FALSE, enableAck |-> FALSE,
     externalAck |-> FALSE, bodyReq |-> FALSE]

\* Mutant: the external Channel is acknowledged before it requests.
EnReceiveIdleEager(c, enableReq, enableData, externalReq) ==
    IF ~enableReq THEN c
    ELSE [state |-> IF enableData => externalReq THEN "WAIT_BODY" ELSE "WAIT_EXTERNAL",
          enabled |-> enableData, enableAck |-> TRUE, externalAck |-> enableData,
          bodyReq |-> enableData => externalReq]

\* Mutant: a disabled Receive acknowledges its external Channel all the same.
EnReceiveIdleTouches(c, enableReq, enableData, externalReq) ==
    IF ~enableReq THEN c
    ELSE LET launched == enableData => externalReq
         IN [state |-> IF launched THEN "WAIT_BODY" ELSE "WAIT_EXTERNAL",
             enabled |-> enableData, enableAck |-> TRUE,
             externalAck |-> launched, bodyReq |-> launched]

EnReceiveIdle(c, enableReq, enableData, externalReq) ==
    IF ~enableReq THEN c
    ELSE LET launched == enableData => externalReq
         IN [state       |-> IF launched THEN "WAIT_BODY" ELSE "WAIT_EXTERNAL",
             enabled     |-> enableData,
             enableAck   |-> TRUE,
             externalAck |-> c.externalAck \/ (enableData /\ externalReq),
             bodyReq     |-> c.bodyReq \/ launched]

EnReceiveWaitExternal(c, enableReq, externalReq) ==
    [c EXCEPT !.state       = IF externalReq THEN "WAIT_BODY" ELSE @,
              !.enableAck   = @ /\ enableReq,
              !.externalAck = @ \/ externalReq,
              !.bodyReq     = @ \/ externalReq]

EnReceiveWaitBody(c, enableReq, externalReq, bodyAck) ==
    LET enableAck   == c.enableAck /\ enableReq
        externalAck == c.externalAck /\ (c.enabled => externalReq)
        bodyReq     == c.bodyReq /\ ~bodyAck
        done == /\ ~enableReq /\ ~enableAck /\ ~bodyReq /\ ~bodyAck
                /\ c.enabled => ~externalReq /\ ~externalAck
    IN [state       |-> IF done THEN "IDLE" ELSE "WAIT_BODY",
        enabled     |-> c.enabled /\ ~done,
        enableAck   |-> enableAck,
        externalAck |-> externalAck,
        bodyReq     |-> bodyReq]

\* Mutant: the disabled path touches the external Channel as well.
EnReceiveAlwaysExternal(c, enableReq, enableData, externalReq, bodyAck) ==
    CASE c.state = "IDLE"          -> EnReceiveIdle(c, enableReq, TRUE, externalReq)
      [] c.state = "WAIT_EXTERNAL" -> EnReceiveWaitExternal(c, enableReq, externalReq)
      [] c.state = "WAIT_BODY"     -> EnReceiveWaitBody(c, enableReq, externalReq, bodyAck)

EnReceive(c, enableReq, enableData, externalReq, bodyAck) ==
    CASE c.state = "IDLE"          -> EnReceiveIdle(c, enableReq, enableData, externalReq)
      [] c.state = "WAIT_EXTERNAL" -> EnReceiveWaitExternal(c, enableReq, externalReq)
      [] c.state = "WAIT_BODY"     -> EnReceiveWaitBody(c, enableReq, externalReq, bodyAck)

\* The latch bank of an EN_RECV stage: when it is transparent.
EnReceiveStorageOpen(c, externalReq) ==
    c.bodyReq /\ (c.enabled => externalReq /\ c.externalAck)

(***************************************************************************)
(* en_send_controller.  body_ack doubles as the enable of its latch bank.  *)
(***************************************************************************)
EnSendStates ==
    [state : {"IDLE", "WAIT_BODY", "ACTIVE"}, enabled : BOOLEAN,
     enableAck : BOOLEAN, bodyAck : BOOLEAN, externalReq : BOOLEAN]

EnSendReset ==
    [state |-> "IDLE", enabled |-> FALSE, enableAck |-> FALSE,
     bodyAck |-> FALSE, externalReq |-> FALSE]

EnSendIdle(c, enableReq, enableData, bodyReq) ==
    IF ~enableReq THEN c
    ELSE [state       |-> IF bodyReq THEN "ACTIVE" ELSE "WAIT_BODY",
          enabled     |-> enableData,
          enableAck   |-> TRUE,
          bodyAck     |-> c.bodyAck \/ bodyReq,
          externalReq |-> c.externalReq \/ (bodyReq /\ enableData)]

EnSendWaitBody(c, enableReq, bodyReq) ==
    [c EXCEPT !.state       = IF bodyReq THEN "ACTIVE" ELSE @,
              !.enableAck   = @ /\ enableReq,
              !.bodyAck     = @ \/ bodyReq,
              !.externalReq = @ \/ (bodyReq /\ c.enabled)]

EnSendActive(c, enableReq, bodyReq, externalAck) ==
    LET enableAck   == c.enableAck /\ enableReq
        bodyAck     == c.bodyAck /\ bodyReq
        externalReq == c.externalReq /\ ~(c.enabled /\ externalAck)
        done == /\ ~enableReq /\ ~enableAck /\ ~bodyReq /\ ~bodyAck
                /\ c.enabled => ~externalReq /\ ~externalAck
    IN [state       |-> IF done THEN "IDLE" ELSE "ACTIVE",
        enabled     |-> c.enabled /\ ~done,
        enableAck   |-> enableAck,
        bodyAck     |-> bodyAck,
        externalReq |-> externalReq]

\* Mutant: the external Send is launched whatever the enable token says.
EnSendAlways(c, enableReq, enableData, bodyReq, externalAck) ==
    CASE c.state = "IDLE"      -> EnSendIdle(c, enableReq, TRUE, bodyReq)
      [] c.state = "WAIT_BODY" -> EnSendWaitBody(c, enableReq, bodyReq)
      [] c.state = "ACTIVE"    -> EnSendActive(c, enableReq, bodyReq, externalAck)

\* Mutant: the external request is withdrawn without waiting for the receiver.
EnSendNoExternalWait(c, enableReq, enableData, bodyReq, externalAck) ==
    CASE c.state = "IDLE"      -> EnSendIdle(c, enableReq, enableData, bodyReq)
      [] c.state = "WAIT_BODY" -> EnSendWaitBody(c, enableReq, bodyReq)
      [] c.state = "ACTIVE"    -> EnSendActive(c, enableReq, bodyReq, c.externalReq)

EnSend(c, enableReq, enableData, bodyReq, externalAck) ==
    CASE c.state = "IDLE"      -> EnSendIdle(c, enableReq, enableData, bodyReq)
      [] c.state = "WAIT_BODY" -> EnSendWaitBody(c, enableReq, bodyReq)
      [] c.state = "ACTIVE"    -> EnSendActive(c, enableReq, bodyReq, externalAck)
=============================================================================
