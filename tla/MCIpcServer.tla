----------------------------- MODULE MCIpcServer -----------------------------
(***************************************************************************)
(* Workloads for the message bus: what each client may write, frame by     *)
(* frame.                                                                  *)
(***************************************************************************)
EXTENDS IpcServer, TLC

CONSTANTS c1, c2, c3, app, net, idle

Req(t, n, v) == [type |-> t, name |-> n, val |-> v]

Reg(n) == Req("REGISTER", n, None)
Send(n) == Req("SEND", n, None)
Ask(t) == Req(t, None, None)

\* Three clients after two names and two slots.
Naming ==
    (c1 :> <<{Reg(app)}>>)
    @@ (c2 :> <<{Reg(app), Reg(net)}>>)
    @@ (c3 :> <<{Reg(app)}>>)

\* One client makes every kind of request, registered or not; the other sends
\* to it or sets the state.
Requesting ==
    LET Every == {Reg(app), Ask("STATE_GET"), Req("STATE_SET", None, idle), Send(net),
                  Ask("PING"), Ask("OVERSIZED")} IN
    (c1 :> <<{Reg(app), Ask("PING"), Ask("BAD")}, Every, {Send(net)}>>)
    @@ (c2 :> <<{Reg(net)}, {Send(app), Req("STATE_SET", None, idle)}>>)

\* A client that registers, sends and closes, like video_uploader.
FireAndForget ==
    (c1 :> <<{Reg(app)}, {Send(net)}>>)
    @@ (c2 :> <<{Reg(net)}>>)
=============================================================================
