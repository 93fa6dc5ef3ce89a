-------------------------------- MODULE Websocket --------------------------------
(***************************************************************************)
(* What sio::client_impl relies on of its websocket connection: the calls  *)
(* of its handlers (on_open, on_fail, on_close) and the local close code   *)
(* it asks for in on_close.  Each connection ends in one on_fail, or in    *)
(* one on_open followed by one on_close, and one that is neither open nor  *)
(* gone does not stay so for ever.  WsConnection implements this, and      *)
(* SioConnection is written against it.                                    *)
(***************************************************************************)
CONSTANT Codes                \* the local close codes, "normal" and "abnormal_close" among them

VARIABLES
    ws,                       \* "none" before connect and after on_fail or on_close
    code                      \* what get_local_close_code returns

vars == <<ws, code>>

Init == ws = "none" /\ code = "abnormal_close"

Connect ==
    /\ ws = "none"
    /\ ws' = "connecting"
    /\ code' = "abnormal_close"

Open ==
    /\ ws = "connecting"
    /\ ws' = "open"
    /\ UNCHANGED code

Fail ==
    /\ ws = "connecting"
    /\ ws' = "none"
    /\ UNCHANGED code

\* The user, the peer or an error begins the end of an open connection.
Close ==
    /\ ws = "open"
    /\ ws' = "closing"
    /\ code' \in Codes

\* The peer's answer to the close cannot be read, or the handshake fails before
\* on_close is called: another code takes the place of the one sent.
Recode ==
    /\ ws = "closing"
    /\ code' \in Codes \ {"normal"}
    /\ UNCHANGED ws

Closed ==
    /\ ws \in {"open", "closing"}
    /\ ws' = "none"
    /\ code' \in {code, "abnormal_close"}

Next == Connect \/ Open \/ Fail \/ Close \/ Recode \/ Closed

Fairness ==
    /\ WF_vars(Open \/ Fail)
    /\ WF_vars(ws = "closing" /\ Closed)

Spec == Init /\ [][Next]_vars /\ Fairness
===============================================================================
