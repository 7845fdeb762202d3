------------------------------ MODULE Notifies ------------------------------
(***************************************************************************)
(* Notifications: what the server sends, what PGconn keeps, the handlers,  *)
(* the backlog and the notifies() generator of a connection                *)
(* (psycopg/connection.py, _connection_base.py and generators.py).         *)
(*                                                                         *)
(* The generator holds the connection's lock from its start to its end,    *)
(* also while it is suspended: queries are executed only when it is off.   *)
(* Handlers can be added and removed at any time.                          *)
(***************************************************************************)
EXTENDS Naturals, Sequences, SequencesExt

CONSTANTS
    MaxNotifies,    \* bound: notifications sent by the server
    StopAfter       \* values of stop_after, 0 for None

ASSUME NotifiesAssumption == MaxNotifies \in Nat /\ StopAfter \subseteq Nat

VARIABLES
    socket,         \* sent by the server, not read yet
    backlog,        \* _notifies_backlog
    enabled,        \* FALSE if _notifies_backlog is None
    handlers,       \* a handler is registered
    gen,            \* the state of the generator
    got,            \* what the program got: yielded, or passed to the handler
    mixed           \* history: handlers and generator were used together; abandoned

notifyVars == <<socket, backlog, enabled, handlers, gen, got, mixed>>

Off == [at |-> "off", d |-> <<>>, batch |-> <<>>, received |-> 0, stop |-> 0]

NotifyInit ==
    /\ socket = <<>> /\ backlog = <<>> /\ enabled = TRUE /\ handlers = FALSE
    /\ gen = Off
    /\ got = [sent |-> 0, yielded |-> <<>>, handled |-> <<>>]
    /\ mixed = [both |-> {}, abandoned |-> {}]

\* NOTIFY in another session, on a channel the connection listens to
ServerNotify ==
    /\ got.sent < MaxNotifies
    /\ got' = [got EXCEPT !.sent = @ + 1]
    /\ socket' = Append(socket, got.sent + 1)
    /\ UNCHANGED <<backlog, enabled, handlers, gen, mixed>>

AddHandler ==
    /\ ~handlers /\ handlers' = TRUE
    /\ UNCHANGED <<socket, backlog, enabled, gen, got, mixed>>

RemoveHandler ==
    /\ handlers /\ handlers' = FALSE
    /\ UNCHANGED <<socket, backlog, enabled, gen, got, mixed>>

\* _notify_handler() on each of ns: to the handlers, else to the backlog
Handled(ns) ==
    /\ got' = IF handlers THEN [got EXCEPT !.handled = @ \o ns] ELSE got
    /\ backlog' = IF ~handlers /\ enabled THEN backlog \o ns ELSE backlog

\* A query: its results come with the first k notifications
QueryNotifies(k) ==
    /\ gen.at = "off"
    /\ k \in 1 .. Len(socket)
    /\ Handled(SubSeq(socket, 1, k))
    /\ socket' = SubSeq(socket, k + 1, Len(socket))
    /\ UNCHANGED <<enabled, handlers, gen, mixed>>

-----------------------------------------------------------------------------
(***************************************************************************)
(* The generator.  It is "yielded" while the program has one, "waiting"    *)
(* while it waits for the server.                                          *)
(***************************************************************************)
\* mutant: the backlog is dropped
GenOff_Forgets ==
    /\ gen' = Off
    /\ enabled' = TRUE
    /\ backlog' = <<>>

\* The finally clause puts the backlog back
GenOff ==
    /\ gen' = Off
    /\ enabled' = TRUE
    /\ backlog' = gen.d

GenStart(stop) ==
    /\ gen.at = "off"
    /\ enabled' = FALSE /\ backlog' = <<>>
    /\ IF backlog = <<>>
       THEN gen' = [Off EXCEPT !.at = "waiting", !.stop = stop] /\ UNCHANGED got
       ELSE /\ gen' = [Off EXCEPT !.at = "yielded", !.stop = stop, !.d = Tail(backlog)]
            /\ got' = [got EXCEPT !.yielded = Append(@, Head(backlog))]
    /\ UNCHANGED <<socket, handlers, mixed>>

\* Enough notifications, or the deadline is over
Enough(g, expired) == expired \/ (g.stop > 0 /\ g.received >= g.stop)

\* The program asks for the next one
GenResume(expired) ==
    LET g == [gen EXCEPT !.received = @ + 1]
        left == IF g.d # <<>> THEN g.d ELSE g.batch
    IN  /\ gen.at = "yielded"
        /\ IF left # <<>>
           THEN /\ got' = [got EXCEPT !.yielded = Append(@, Head(left))]
                /\ gen' = IF g.d # <<>> THEN [g EXCEPT !.d = Tail(@)]
                          ELSE [g EXCEPT !.batch = Tail(@)]
                /\ UNCHANGED <<backlog, enabled>>
           ELSE /\ IF Enough(g, expired) THEN GenOff
                   ELSE gen' = [g EXCEPT !.at = "waiting"] /\ UNCHANGED <<backlog, enabled>>
                /\ UNCHANGED got
        /\ UNCHANGED <<socket, handlers, mixed>>

\* generators.notifies(): the batch is read, and passed to the handlers too
GenReceive(k, expired) ==
    LET ns == SubSeq(socket, 1, k)
    IN  /\ gen.at = "waiting"
        /\ k \in 0 .. Len(socket)
        /\ socket' = SubSeq(socket, k + 1, Len(socket))
        /\ IF k = 0
           THEN /\ IF Enough(gen, expired) THEN GenOff
                   ELSE UNCHANGED <<gen, backlog, enabled>>
                /\ UNCHANGED <<got, mixed>>
           ELSE /\ gen' = [gen EXCEPT !.at = "yielded", !.batch = Tail(ns)]
                /\ got' = [got EXCEPT !.yielded = Append(@, Head(ns)),
                                      !.handled = IF handlers THEN @ \o ns ELSE @]
                /\ mixed' = IF handlers THEN [mixed EXCEPT !.both = @ \cup ToSet(ns)]
                            ELSE mixed
                /\ backlog' = IF ~handlers /\ enabled THEN backlog \o ns ELSE backlog
                /\ UNCHANGED enabled
        /\ UNCHANGED handlers

\* close(), or an exception at the yield: what is left of the batch goes
GenClose ==
    /\ gen.at = "yielded"
    /\ GenOff
    /\ mixed' = [mixed EXCEPT !.abandoned = @ \cup ToSet(gen.batch)]
    /\ UNCHANGED <<socket, handlers, got>>

\* The wait is interrupted, or the connection fails
GenInterrupted ==
    /\ gen.at = "waiting"
    /\ GenOff
    /\ UNCHANGED <<socket, handlers, got, mixed>>

NotifyNext ==
    \/ ServerNotify \/ AddHandler \/ RemoveHandler
    \/ \E k \in 1 .. MaxNotifies : QueryNotifies(k)
    \/ \E stop \in StopAfter : GenStart(stop)
    \/ \E expired \in BOOLEAN :
          \/ GenResume(expired)
          \/ \E k \in 0 .. MaxNotifies : GenReceive(k, expired)
    \/ GenClose \/ GenInterrupted

NotifySpec == NotifyInit /\ [][NotifyNext]_notifyVars

-----------------------------------------------------------------------------
(***************************************************************************)
(* Every notification the server sent is on its way, kept for the          *)
(* generator or given to the program: none is lost, whenever queries,      *)
(* handlers and generators come and go.  The exception is the rest of the  *)
(* batch of a generator closed at a yield (connection.py:412-420).         *)
(***************************************************************************)
NoneLost ==
    1 .. got.sent = ToSet(socket) \cup ToSet(backlog) \cup ToSet(gen.d) \cup ToSet(gen.batch)
                    \cup ToSet(got.yielded) \cup ToSet(got.handled) \cup mixed.abandoned

(***************************************************************************)
(* The generator yields notifications in the order they were sent and each *)
(* one once, although they come from the backlog and from the server: the  *)
(* backlog is taken away while the generator runs                          *)
(* (connection.py:397-399).                                                *)
(***************************************************************************)
YieldedInOrder ==
    \A i, j \in DOMAIN got.yielded : i < j => got.yielded[i] < got.yielded[j]

(***************************************************************************)
(* The handler and the generator share nothing, but for what is received   *)
(* by a generator while there is a handler (connection.py:388-392 warns).  *)
(***************************************************************************)
HandledOrYielded ==
    ToSet(got.yielded) \cap ToSet(got.handled) \subseteq mixed.both

(***************************************************************************)
(* A notification is delivered once, in order, to the generator or to the  *)
(* handlers, also when it arrives between two batches or with the result   *)
(* of a query (connection.py).                                             *)
(***************************************************************************)
NotifiedOnce ==
    /\ NoneLost
    /\ YieldedInOrder
    /\ HandledOrYielded
=============================================================================
