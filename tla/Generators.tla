----------------------------- MODULE Generators -----------------------------
(***************************************************************************)
(* The generators that talk to the server (psycopg/generators.py and       *)
(* psycopg_c/_psycopg/generators.pyx), the functions that wait for the     *)
(* socket on their behalf (psycopg/waiting.py and _psycopg/waiting.pyx),   *)
(* and Connection.wait(), that cancels the query on an interrupt.          *)
(*                                                                         *)
(* The two buffers of the socket hold Cap units each.  A server that can't *)
(* write its results does not read: a client that waited only to write     *)
(* would wait forever.                                                     *)
(***************************************************************************)
EXTENDS Integers, Sequences, SequencesExt, FiniteSetsExt

CONSTANTS
    Strategies,     \* the wait functions: "poll", "select", "epoll", "selector",
                    \* "c" and "async"
    Cap,            \* units each buffer of the socket holds
    Commands        \* commands in a pipeline, and blocks in a copy

ASSUME GeneratorsAssumption == Cap \in Nat \ {0} /\ Commands \in Nat \ {0}

VARIABLES
    io,             \* the generator and the libpq: see IoInit
    net,            \* the socket: units to the server and to the client, open or not
    srv,            \* the server: alive, units to write, results it has written
    waiter          \* the wait function, how many times it has registered the fd, and
                    \* whether the number of the fd was given to another file

ioVars == <<io, net, srv, waiter>>

U(kind, n) == [kind |-> kind, n |-> n]
Kinds(s) == {s[i].kind : i \in DOMAIN s}

IoInit ==
    /\ io = [op |-> "none", at |-> "idle", out |-> <<>>, in |-> <<>>, todo |-> 0,
             results |-> <<>>, error |-> "none", interrupts |-> 0]
    /\ net = [up |-> <<>>, down |-> <<>>, open |-> TRUE]
    /\ srv = [alive |-> TRUE, out |-> <<>>, said |-> <<>>, failed |-> FALSE]
    /\ waiter \in [strategy : Strategies, registered : {0}, reused : {FALSE}]

-----------------------------------------------------------------------------
(***************************************************************************)
(* libpq: x is the pair of io and net                                      *)
(***************************************************************************)
Here == [io |-> io, net |-> net]

\* PQflush(): after the connection is lost what there is to write is dropped
Flush(x) ==
    LET k == Min({Len(x.io.out), Cap - Len(x.net.up)})
    IN  IF srv.alive
        THEN [io |-> [x.io EXCEPT !.out = SubSeq(@, k + 1, Len(@))],
              net |-> [x.net EXCEPT !.up = @ \o SubSeq(x.io.out, 1, k)]]
        ELSE [x EXCEPT !.io.out = <<>>]

\* PQconsumeInput() fails when there is nothing more to read
HungUp(x) == ~srv.alive /\ x.net.down = <<>>
Consume(x) ==
    [io |-> [x.io EXCEPT !.in = @ \o x.net.down], net |-> [x.net EXCEPT !.down = <<>>]]

Raise(x, error) == [x EXCEPT !.io.at = "done", !.io.error = error]

\* The units that are of none of some kinds
Sift(s, kinds) ==
    LET kept[i \in 0 .. Len(s)] ==
            IF i = 0 THEN <<>>
            ELSE IF s[i].kind \in kinds THEN kept[i - 1] ELSE Append(kept[i - 1], s[i])
    IN  kept[Len(s)]

\* The results that PQgetResult() can return: a part of one keeps PQisBusy() true
Complete(s) == Sift(s, {"part"})

\* What ends the results of a query or of a copy, and those of a pipeline
Finals == {"ready", "copy", "sync"}

-----------------------------------------------------------------------------
(***************************************************************************)
(* fetch() and fetch_many(): results are taken until the last of the       *)
(* command; a loss after an error ends them too.  In a pipeline it is      *)
(* called for each command, up to the sync.                                *)
(***************************************************************************)

\* generators.py:191 looks at all the results, generators.pyx:189 at the last
HadFatal(results) == "fatal" \in Kinds(results)
HadFatalC(results) == results # <<>> /\ Last(results).kind = "fatal"

FetchMany(x) ==
    LET units == Complete(x.io.in)
        ends == {i \in DOMAIN units : units[i].kind \in Finals}
        e == Min(ends)
    IN  IF ends = {}
        THEN [x EXCEPT !.io.at = "fetch", !.io.in = <<>>, !.io.results = @ \o units]
        ELSE [x EXCEPT !.io.at = "done", !.io.in = SubSeq(units, e + 1, Len(units)),
                       !.io.results = @ \o Sift(SubSeq(units, 1, e), {"ready"})]

FetchStep(x) ==
    IF HungUp(x)
    THEN IF HadFatal(x.io.results) THEN [x EXCEPT !.io.at = "done"] ELSE Raise(x, "lost")
    ELSE FetchMany(Consume(x))

\* send(): input is read too while there is something to write
SendStep(x, ready) ==
    IF "R" \in ready /\ HungUp(x) THEN Raise(x, "lost")
    ELSE LET y == Flush(IF "R" \in ready THEN Consume(x) ELSE x)
         IN  IF y.io.out = <<>> THEN FetchMany(y) ELSE y

\* pipeline_communicate(), reading: the results of each command
PipelineResults(x) ==
    [x EXCEPT !.io.in = <<>>, !.io.results = @ \o Complete(x.io.in)]

\* Writing: a command more, the last is the sync. Then what is missing is
\* fetched, after _sync_gen().
PipelineWrite(x) ==
    LET y == Flush(x)
        n == Commands - x.io.todo + 1
    IN  IF x.io.todo > 0
        THEN [y EXCEPT !.io.todo = @ - 1,
                       !.io.out = Append(@, IF x.io.todo = 1 THEN U("sync", n)
                                            ELSE U("command", n))]
        ELSE IF x.io.results # <<>> /\ Last(x.io.results).kind = "sync"
             THEN [y EXCEPT !.io.at = "done"]
             ELSE FetchMany(y)

PipelineStep(x, ready) ==
    IF "R" \in ready /\ HungUp(x) THEN Raise(x, "lost")
    ELSE LET y == IF "R" \in ready THEN PipelineResults(Consume(x)) ELSE x
         IN  IF "W" \in ready THEN PipelineWrite(y) ELSE y

\* copy_to(), for each block, and copy_end(): what is put is flushed before
\* the next; the result comes at the end
CopyStep(x) ==
    LET y == Flush(x)
    IN  IF y.io.out # <<>> THEN y
        ELSE IF x.io.todo > 0
        THEN [y EXCEPT !.io.todo = @ - 1,
                       !.io.out = <<IF x.io.todo = 1 THEN U("end", 0)
                                    ELSE U("data", x.io.todo)>>]
        ELSE FetchMany(y)

\* The generator is resumed with what is ready
Resumed(ready) ==
    CASE io.at = "send" -> SendStep(Here, ready)
      [] io.at = "fetch" -> FetchStep(Here)
      [] io.at = "pipe" -> PipelineStep(Here, ready)
      [] io.at = "copy" -> CopyStep(Here)

\* mutant: pipeline_communicate() waits only to write
Want_Write ==
    CASE io.at \in {"send", "pipe", "copy"} -> {"W"} [] io.at = "fetch" -> {"R"}

\* What the generator waits for
Want ==
    CASE io.at \in {"send", "pipe"} -> {"R", "W"}
      [] io.at = "fetch" -> {"R"} [] io.at = "copy" -> {"W"}

-----------------------------------------------------------------------------
\* A generator starts: a query of two units, a pipeline, or the blocks of a copy
StartOp(op) ==
    /\ io.at = "idle"
    /\ io' = [io EXCEPT !.op = op,
                !.at = CASE op = "execute" -> "send" [] op = "pipeline" -> "pipe"
                         [] op = "copy" -> "copy",
                !.out = IF op = "execute" THEN <<U("query", 1), U("query", 2)>> ELSE <<>>,
                !.todo = IF op = "execute" THEN 0 ELSE Commands + 1]
    /\ UNCHANGED <<net, srv, waiter>>

Waiting == io.at \notin {"idle", "done"}

Ready ==
    Want \cap ((IF net.down # <<>> \/ ~srv.alive THEN {"R"} ELSE {})
               \cup (IF Len(net.up) < Cap \/ ~srv.alive THEN {"W"} ELSE {}))

\* wait_selector() registers the fd at every turn and never unregisters it: the
\* second time is a KeyError
Registers(strategy) == strategy = "selector"

\* The socket is ready. After a timeout the generators only yield again.
WaitReady ==
    /\ Waiting /\ net.open /\ Ready # {}
    /\ LET x == Resumed(Ready)
           again == Registers(waiter.strategy) /\ x.io.at # "done"
       IN  /\ io' = IF again THEN Raise(x, "register").io ELSE x.io
           /\ net' = x.net
           /\ waiter' = [waiter EXCEPT !.registered = IF again THEN 1 ELSE @]
    /\ UNCHANGED srv

\* The fd was closed by another thread: poll(), select() and wait_c() are told
WaitBad ==
    /\ Waiting /\ ~net.open /\ ~waiter.reused /\ waiter.strategy \in {"poll", "select", "c"}
    /\ io' = Raise(Here, "closed").io
    /\ UNCHANGED <<net, srv, waiter>>

\* The others see it when the interval is over: the fd is checked, or can't be
\* added to the loop. With its number given to another file fstat() succeeds, and
\* epoll, from which the closed fd is gone, only times out again, for ever.
WaitTimeout ==
    /\ Waiting /\ ~net.open /\ ~waiter.reused /\ waiter.strategy \in {"epoll", "selector", "async"}
    /\ io' = Raise(Here, "closed").io
    /\ UNCHANGED <<net, srv, waiter>>

\* The functions that pass the number at every turn wait for the other file; when
\* it is ready the generator finds the connection closed
WaitOther ==
    /\ Waiting /\ waiter.reused /\ waiter.strategy \in {"poll", "select", "c", "async"}
    /\ io' = Raise(Here, "closed").io
    /\ UNCHANGED <<net, srv, waiter>>

\* Another thread closes the connection; the number of the fd may be given to a
\* file opened before the wait function looks at it
CloseSocket ==
    /\ Waiting /\ net.open
    /\ net' = [net EXCEPT !.open = FALSE]
    /\ \E reused \in BOOLEAN : waiter' = [waiter EXCEPT !.reused = reused]
    /\ UNCHANGED <<io, srv>>

\* mutant: the interrupt leaves the query where it is
Interrupt_Leave ==
    /\ Waiting /\ io.op = "execute" /\ net.open
    /\ io' = Raise(Here, "interrupted").io
    /\ UNCHANGED <<net, srv, waiter>>

\* Connection.wait(): a cancel is tried, then the generator is waited for
\* again; an interrupt more is not handled
Interrupt ==
    /\ Waiting /\ io.op = "execute" /\ net.open
    /\ io.interrupts < 2
    /\ io' = IF io.interrupts = 0 THEN [io EXCEPT !.interrupts = 1]
             ELSE [Raise(Here, "interrupted").io EXCEPT !.interrupts = 2]
    /\ \/ UNCHANGED srv
       \/ /\ io.interrupts = 0 /\ srv.out # <<>> /\ srv.alive
          /\ srv' = [srv EXCEPT !.out = <<U("fatal", 0), U("ready", 0)>>]
    /\ UNCHANGED <<net, waiter>>

-----------------------------------------------------------------------------
(***************************************************************************)
(* The server                                                              *)
(***************************************************************************)
\* What it answers to a unit: a query may be a script, end in an error, or be
\* a COPY; a copy may fail before its end, and then the rest is ignored
AnswersTo(u) ==
    CASE u.kind = "query" /\ u.n = 1 -> {<<>>}
      [] u.kind = "query" /\ u.n # 1 ->
            {<<U("part", 0), U("ok", 1), U("ready", 0)>>, <<U("copy", 0)>>,
             <<U("ok", 1), U("fatal", 0), U("ready", 0)>>,
             <<U("ok", 1), U("ok", 2), U("ready", 0)>>}
      [] u.kind = "command" -> {<<U("part", 0), U("ok", u.n)>>, <<U("fatal", u.n)>>}
      [] u.kind = "sync" -> {<<U("sync", u.n)>>}
      [] u.kind = "data" ->
            {<<>>} \cup IF srv.failed THEN {} ELSE {<<U("fatal", 0), U("ready", 0)>>}
      [] u.kind = "end" ->
            IF srv.failed THEN {<<>>} ELSE {<<U("ok", 0), U("ready", 0)>>}

\* (an error is small: it never keeps the server from discarding a copy)
ServerRead ==
    /\ srv.alive
    /\ srv.out = <<>> \/ srv.failed
    /\ net.up # <<>>
    /\ \E answer \in AnswersTo(Head(net.up)) :
          srv' = [srv EXCEPT !.out = @ \o answer,
                     !.failed = @ \/ (Head(net.up).kind = "data" /\ answer # <<>>)]
    /\ net' = [net EXCEPT !.up = Tail(@)]
    /\ UNCHANGED <<io, waiter>>

ServerWrite ==
    /\ srv.alive /\ srv.out # <<>> /\ Len(net.down) < Cap
    /\ net' = [net EXCEPT !.down = Append(@, Head(srv.out))]
    /\ srv' = [srv EXCEPT !.out = Tail(@),
                  !.said = IF Head(srv.out).kind \in {"part", "ready"} THEN @
                           ELSE Append(@, Head(srv.out))]
    /\ UNCHANGED <<io, waiter>>

\* It may be lost, often after an error
ServerDies ==
    /\ srv.alive /\ Waiting
    /\ srv' = [srv EXCEPT !.alive = FALSE, !.out = <<>>]
    /\ UNCHANGED <<io, net, waiter>>

IoNext ==
    \/ \E op \in {"execute", "pipeline", "copy"} : StartOp(op)
    \/ WaitReady \/ WaitBad \/ WaitTimeout \/ WaitOther
    \/ CloseSocket \/ Interrupt
    \/ ServerRead \/ ServerWrite \/ ServerDies

\* The wait functions and the server go on; nobody has to interrupt, to close
\* the connection or to die, nor has the other file to be ready
IoFairness ==
    /\ WF_ioVars(WaitReady) /\ WF_ioVars(WaitBad) /\ WF_ioVars(WaitTimeout)
    /\ WF_ioVars(ServerRead) /\ WF_ioVars(ServerWrite)

-----------------------------------------------------------------------------
(***************************************************************************)
(* A generator that ends without an error has returned what the server     *)
(* said, all of it and in order, however it came: in pieces, several       *)
(* results at once, while the query was still being sent, or part in       *)
(* pipeline_communicate() and part in fetch_many().                        *)
(***************************************************************************)
ResultsComplete ==
    io.at = "done" /\ io.error = "none" /\ srv.alive =>
        /\ io.results = srv.said
        /\ io.results # <<>>

(***************************************************************************)
(* An error sent by a server that then goes away is what the program gets, *)
(* not the loss of the connection (generators.py:186-194): Python and C    *)
(* agree, although C looks only at the last result.  In a pipeline and     *)
(* while a query is still being sent the loss hides it.                    *)
(***************************************************************************)
ErrorKept ==
    /\ io.op # "pipeline" => HadFatal(io.results) = HadFatalC(io.results)
    /\ io.error = "lost" /\ io.op # "pipeline" => "fatal" \notin Kinds(io.results)

(***************************************************************************)
(* After an interrupted query nothing of it is left on the way: the next   *)
(* query will not read its results, nor find the connection busy.          *)
(***************************************************************************)
InterruptDrains ==
    /\ io.at = "done" /\ io.op = "execute" /\ srv.alive
    /\ io.error = "interrupted" => io.interrupts < 2
    /\ io.error # "closed" /\ io.error # "register"
    => io.out = <<>> /\ io.in = <<>> /\ net.down = <<>> /\ srv.out = <<>>

(***************************************************************************)
(* The generators return every answer of the server, errors before a loss  *)
(* of the connection included, and an interrupted query leaves none for    *)
(* the next one (generators.py, connection.py).                            *)
(***************************************************************************)
AnswersKept ==
    /\ ResultsComplete
    /\ ErrorKept
    /\ InterruptDrains

(***************************************************************************)
(* Every operation comes to an end: with buffers full in both directions,  *)
(* if the server is lost, if another thread closes the connection, and     *)
(* whatever the wait function.  It is not promised when the connection is  *)
(* closed by another thread and the number of its fd is given to another   *)
(* file within an interval: _check_fd_closed() (waiting.py:40-47) sees     *)
(* nothing then, and wait_epoll() and wait_selector() hang ("BUG: if the   *)
(* connection FD is closed, epoll.poll() hangs", waiting.py:310); the      *)
(* others wait for the other file.                                         *)
(***************************************************************************)
Completes == Waiting ~> (~Waiting \/ waiter.reused)

(***************************************************************************)
(* No wait function fails by itself (waiting.py:67-68, "Consume `!gen`,    *)
(* scheduling `fileno` for completion when it is reported to block").      *)
(***************************************************************************)
WaitWorks == io.error # "register"
=============================================================================
