------------------------------ MODULE MCClient ------------------------------
(***************************************************************************)
(* The parts of the client that keep a state of their own, for TLC: they   *)
(* share no variable, so that a behaviour is of the part that focus names  *)
(* and the others stay in their first state.                               *)
(***************************************************************************)
EXTENDS Connection, Notifies, Copy, Cursor, ServerCursor, Generators,
        Adapters, Pq, Connect

CONSTANT Focus  \* the parts to check

VARIABLE focus

clientVars == <<connVars, notifyVars, copyVars, cursorVars, serverCursorVars,
                ioVars, adaptVars, pqVars, connectVars, focus>>

\* (a negative number can't be written in the cfg)
MCTimeouts == {-1, 0, 1}

MCHostLists == {<<>>, <<"path">>, <<"ip", "name0">>, <<"name2">>}

\* A part out of focus has one initial state.
Rest ==
    /\ focus # "server_cursor" => /\ ~sc.withhold /\ ~tx.auto
                                  /\ sc.itersize = CHOOSE n \in Itersizes : TRUE
    /\ focus # "io" => waiter.strategy = CHOOSE s \in Strategies : TRUE
    /\ focus # "pq" => pqBuild = CHOOSE b \in Builds : TRUE
    /\ focus # "connect" =>
         /\ task = "cancel"
         /\ params.ports = CHOOSE n \in PortCounts : TRUE
         /\ params.timeout = CHOOSE n \in Timeouts : TRUE

Init ==
    /\ focus \in Focus
    /\ ConnInit /\ NotifyInit /\ CopyInit /\ CursorInit /\ ServerCursorInit
    /\ IoInit /\ AdaptInit /\ PqInit /\ ConnectInit
    /\ Rest

NotConn == UNCHANGED <<notifyVars, copyVars, cursorVars, serverCursorVars, ioVars,
                       adaptVars, pqVars, connectVars, focus>>
NotNotify == UNCHANGED <<connVars, copyVars, cursorVars, serverCursorVars, ioVars,
                         adaptVars, pqVars, connectVars, focus>>
NotCopy == UNCHANGED <<connVars, notifyVars, cursorVars, serverCursorVars, ioVars,
                       adaptVars, pqVars, connectVars, focus>>
NotCursor == UNCHANGED <<connVars, notifyVars, copyVars, serverCursorVars, ioVars,
                         adaptVars, pqVars, connectVars, focus>>
NotServerCursor == UNCHANGED <<connVars, notifyVars, copyVars, cursorVars, ioVars,
                               adaptVars, pqVars, connectVars, focus>>
NotIo == UNCHANGED <<connVars, notifyVars, copyVars, cursorVars, serverCursorVars,
                     adaptVars, pqVars, connectVars, focus>>
NotAdapt == UNCHANGED <<connVars, notifyVars, copyVars, cursorVars, serverCursorVars,
                        ioVars, pqVars, connectVars, focus>>
NotPq == UNCHANGED <<connVars, notifyVars, copyVars, cursorVars, serverCursorVars,
                     ioVars, adaptVars, connectVars, focus>>
NotConnect == UNCHANGED <<connVars, notifyVars, copyVars, cursorVars, serverCursorVars,
                          ioVars, adaptVars, pqVars, focus>>

Next ==
    \/ focus = "connection" /\ ConnNext /\ NotConn
    \/ focus = "notifies" /\ NotifyNext /\ NotNotify
    \/ focus = "copy" /\ CopyNext /\ NotCopy
    \/ focus = "cursor" /\ CursorNext /\ NotCursor
    \/ focus = "server_cursor" /\ ServerCursorNext /\ NotServerCursor
    \/ focus = "io" /\ IoNext /\ NotIo
    \/ focus = "adapters" /\ AdaptNext /\ NotAdapt
    \/ focus = "pq" /\ PqNext /\ NotPq
    \/ focus = "connect" /\ ConnectNext /\ NotConnect

\* The fairness of Copy, Generators and Connect, each for its own steps.
Fairness ==
    /\ WF_clientVars(focus = "copy" /\ Producer /\ NotCopy)
    /\ WF_clientVars(focus = "copy" /\ Consumer /\ NotCopy)
    /\ WF_clientVars(focus = "copy" /\ (\E exc \in BOOLEAN : ExitIn(exc)) /\ NotCopy)
    /\ WF_clientVars(focus = "io" /\ WaitReady /\ NotIo)
    /\ WF_clientVars(focus = "io" /\ WaitBad /\ NotIo)
    /\ WF_clientVars(focus = "io" /\ WaitTimeout /\ NotIo)
    /\ WF_clientVars(focus = "io" /\ ServerRead /\ NotIo)
    /\ WF_clientVars(focus = "io" /\ ServerWrite /\ NotIo)
    /\ WF_clientVars(focus = "connect" /\ ConnectStep /\ NotConnect)

Spec == Init /\ [][Next]_clientVars /\ Fairness
=============================================================================
