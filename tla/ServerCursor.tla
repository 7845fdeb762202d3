---------------------------- MODULE ServerCursor ----------------------------
(***************************************************************************)
(* A server-side cursor (psycopg/_server_cursor_base.py and                *)
(* psycopg/_server_cursor.py) and the portal with its name on the server:  *)
(* execute() declares it, fetches and scrolls move it, iteration fetches   *)
(* it by pages, and transactions end it.                                   *)
(*                                                                         *)
(* A portal is at 0 before the first row, at n after row n has been sent,  *)
(* and at TotalRows + 1 when a command asked for more rows than there are. *)
(***************************************************************************)
EXTENDS Integers, Sequences, FiniteSetsExt

CONSTANTS
    TotalRows,      \* rows that the query of the cursor returns
    Itersizes       \* the values of itersize

ASSUME ServerCursorAssumption == TotalRows \in Nat /\ Itersizes \subseteq Nat \ {0}

VARIABLES
    sc,             \* the attributes of the ServerCursor
    portal,         \* the portal: "none", "tx" (of this transaction) or "held"; position
    tx,             \* transaction status: "idle", "intrans", "inerror"; autocommit
    history         \* history: see the properties

serverCursorVars == <<sc, portal, tx, history>>

NoPage == [rows |-> <<>>, at |-> 0, fetched |-> FALSE]
NoPortal == [life |-> "none", at |-> 0]

ServerCursorInit ==
    /\ \E withhold \in BOOLEAN, size \in Itersizes :
          sc = [closed |-> FALSE, described |-> FALSE, withhold |-> withhold,
                pos |-> 0, itersize |-> size, page |-> NoPage]
    /\ portal = NoPortal
    /\ tx \in [status : {"idle"}, auto : BOOLEAN]
    /\ history = [exact |-> FALSE, next |-> 1, alone |-> FALSE, skipped |-> FALSE, released |-> TRUE]

-----------------------------------------------------------------------------
(***************************************************************************)
(* The server                                                              *)
(***************************************************************************)
Exists == portal.life # "none"
Sane == tx.status # "inerror"

\* A command that fails aborts the transaction it is in
Fails(t) == IF t.status = "intrans" THEN [t EXCEPT !.status = "inerror"] ELSE t

\* FETCH FORWARD: the rows after the position, up to num
Answer(at, num) ==
    LET last == Min({at + num, TotalRows})
    IN  [i \in 1 .. Max({0, last - at}) |-> at + i]
After(at, num) == IF at + num > TotalRows THEN TotalRows + 1 ELSE at + num

\* MOVE: never out of the two ends
Clamp(at) == Max({0, Min({at, TotalRows + 1})})

\* _start_query()
BeginIfIdle(t) == IF t.status = "idle" /\ ~t.auto THEN [t EXCEPT !.status = "intrans"] ELSE t

-----------------------------------------------------------------------------
(***************************************************************************)
(* _close_gen(), given what the cursor knows: the portal that remains, and *)
(* whether CLOSE failed                                                    *)
(***************************************************************************)
Closing == Sane /\ (sc.withhold \/ tx.status # "idle")

CloseSent == Closing /\ (sc.described \/ Exists)
CloseFailed == CloseSent /\ ~Exists
Closed == IF CloseSent THEN NoPortal ELSE portal

\* execute(): _declare_gen().  The portal is held from the start in autocommit
\* mode, which refuses one that is not WITH HOLD; the name must be free.
Declare(bad) ==
    /\ ~sc.closed
    /\ IF sc.described /\ CloseFailed
       THEN /\ tx' = Fails(tx)
            /\ UNCHANGED <<sc, portal, history>>
       ELSE LET left == IF sc.described THEN Closed ELSE portal
                t == BeginIfIdle(tx)
                refused == \/ bad \/ t.status = "inerror" \/ left.life # "none"
                           \/ t.status = "idle" /\ ~sc.withhold
            IN  /\ tx' = IF refused THEN Fails(t) ELSE t
                /\ portal' = IF refused THEN left
                             ELSE [life |-> IF t.status = "idle" THEN "held" ELSE "tx",
                                   at |-> 0]
                /\ sc' = [sc EXCEPT !.described = ~refused, !.page = NoPage, !.pos = 0]
                /\ history' = [history EXCEPT !.exact = ~refused, !.next = 1, !.alone = ~refused]

\* close() of the cursor
CloseServerCursor ==
    /\ ~sc.closed
    /\ IF CloseFailed
       THEN /\ tx' = Fails(tx)
            /\ UNCHANGED <<sc, portal, history>>
       ELSE /\ sc' = [sc EXCEPT !.closed = TRUE, !.described = FALSE, !.page = NoPage,
                               !.pos = 0]
            /\ portal' = Closed
            /\ history' = [history EXCEPT !.released = Closed.life = "none" \/ ~Sane,
                                    !.exact = FALSE, !.alone = FALSE]
            /\ UNCHANGED tx

-----------------------------------------------------------------------------
(***************************************************************************)
(* _fetch_gen(): a cursor declared by something else is described first,   *)
(* and is taken to be at its beginning                                     *)
(***************************************************************************)
Steals == ~sc.described
FetchTx == IF Steals THEN BeginIfIdle(tx) ELSE tx
FetchWorks == Exists /\ FetchTx.status # "inerror"

FetchPos == IF Steals THEN 0 ELSE sc.pos

FetchFails ==
    /\ tx' = Fails(FetchTx)
    /\ sc' = [sc EXCEPT !.pos = FetchPos]
    /\ UNCHANGED <<portal, history>>

\* fetchone(), fetchmany(num) and fetchall()
ServerFetch(num) ==
    /\ ~sc.closed
    /\ IF ~FetchWorks THEN FetchFails
       ELSE LET rows == Answer(portal.at, num)
            IN  /\ tx' = FetchTx
                /\ portal' = [portal EXCEPT !.at = After(@, num)]
                /\ sc' = [sc EXCEPT !.described = TRUE, !.pos = FetchPos + Len(rows)]
                /\ history' = [history EXCEPT !.alone = FALSE,
                                        !.exact = IF Steals THEN portal.at = 0 ELSE @]

\* mutant: a full page is taken for the last
PageDone_Last(p, itersize) == p.fetched /\ Len(p.rows) <= itersize

\* The page is finished, and shorter than a full one: there is no other
PageDone(p, itersize) == p.fetched /\ Len(p.rows) < itersize

Unread(p) == Len(p.rows) - p.at

\* __next__(): a row of the page, or of the next page, or StopIteration
Next1 ==
    /\ ~sc.closed
    /\ LET p == sc.page
           fetch == Unread(p) = 0 /\ ~PageDone(p, sc.itersize)
           page == IF fetch THEN [rows |-> Answer(portal.at, sc.itersize),
                                  at |-> 0, fetched |-> TRUE]
                   ELSE p
       IN  IF fetch /\ ~FetchWorks THEN FetchFails
           ELSE /\ IF fetch
                   THEN /\ tx' = FetchTx
                        /\ portal' = [portal EXCEPT !.at = After(@, sc.itersize)]
                   ELSE UNCHANGED <<tx, portal>>
                /\ LET base == IF fetch THEN FetchPos ELSE sc.pos
                       d == sc.described \/ fetch
                       exact == IF fetch /\ Steals THEN portal.at = 0 ELSE history.exact
                   IN  IF Unread(page) = 0
                       THEN /\ sc' = [sc EXCEPT !.page = page, !.pos = base,
                                                !.described = d]
                            /\ history' = [history EXCEPT
                                  !.exact = exact,
                                  !.skipped = @ \/ (history.alone /\ history.next # TotalRows + 1)]
                       ELSE LET row == page.rows[page.at + 1]
                            IN  /\ sc' = [sc EXCEPT !.page = [page EXCEPT !.at = @ + 1],
                                                    !.pos = base + 1,
                                                    !.described = d]
                                /\ history' = [history EXCEPT
                                      !.exact = exact, !.next = row + 1,
                                      !.skipped = @ \/ (history.alone /\ row # history.next)]

\* Bound: how far from the rows a relative scroll() may take the position
PosBound == -1 .. TotalRows + 2

\* scroll(): the position is not verified, and the page being iterated stays
ServerScroll(value, mode) ==
    LET to == IF mode = "relative" THEN portal.at + value ELSE value
    IN  /\ ~sc.closed
        /\ sc.pos + value \in PosBound
        /\ IF ~Exists \/ ~Sane
           THEN tx' = Fails(tx) /\ UNCHANGED <<sc, portal, history>>
           ELSE /\ portal' = [portal EXCEPT !.at = Clamp(to)]
                /\ sc' = [sc EXCEPT !.pos = IF mode = "relative" THEN @ + value ELSE value]
                /\ history' = [history EXCEPT
                      !.alone = FALSE,
                      !.exact = /\ @ /\ sc.described
                                /\ to \in 0 .. TotalRows /\ portal.at <= TotalRows
                                /\ mode = "absolute" => Unread(sc.page) = 0]
                /\ UNCHANGED tx

\* The attribute itersize: a larger one in the middle of an iteration makes
\* the page before it look like the last
SetItersize(size) ==
    /\ sc' = [sc EXCEPT !.itersize = size]
    /\ history' = [history EXCEPT !.alone = @ /\ (size <= sc.itersize \/ ~sc.page.fetched)]
    /\ UNCHANGED <<portal, tx>>

-----------------------------------------------------------------------------
(***************************************************************************)
(* What else happens on the connection                                     *)
(***************************************************************************)
\* commit() or rollback(): a portal of the transaction ends with it, unless it
\* is WITH HOLD and the transaction is committed
EndTransaction(commit) ==
    /\ tx.status # "idle"
    /\ tx' = [tx EXCEPT !.status = "idle"]
    /\ portal' = IF portal.life # "tx" THEN portal
                 ELSE IF commit /\ Sane /\ sc.withhold THEN [portal EXCEPT !.life = "held"]
                 ELSE NoPortal
    /\ history' = [history EXCEPT !.exact = @ /\ portal'.life # "none"]
    /\ UNCHANGED sc

\* A statement of another cursor, that may fail
OtherStatement(ok) ==
    /\ Sane
    /\ tx' = IF ok THEN BeginIfIdle(tx) ELSE Fails(BeginIfIdle(tx))
    /\ UNCHANGED <<sc, portal, history>>

\* A portal of this name is opened otherwise, as by a function
OtherDeclares ==
    /\ ~Exists /\ tx.status = "intrans" /\ ~sc.described
    /\ portal' = [life |-> "tx", at |-> 0]
    /\ UNCHANGED <<sc, tx, history>>

ServerCursorNext ==
    \/ \E bad \in BOOLEAN : Declare(bad)
    \/ CloseServerCursor
    \/ \E num \in {1, 2, TotalRows + 1} : ServerFetch(num)
    \/ Next1
    \/ \E v \in -1 .. 2, mode \in {"relative", "absolute"} : ServerScroll(v, mode)
    \/ \E size \in Itersizes : SetItersize(size)
    \/ \E b \in BOOLEAN : EndTransaction(b) \/ OtherStatement(b)
    \/ OtherDeclares

ServerCursorSpec == ServerCursorInit /\ [][ServerCursorNext]_serverCursorVars

-----------------------------------------------------------------------------
(***************************************************************************)
(* rownumber agrees with the server: with the rows of the page that are    *)
(* still to be given, _pos is where the portal is, through fetches,        *)
(* iteration, relative scrolls and holds over a commit.  It does not after *)
(* a scroll that leaves the result or starts past its end, after an           *)
(* absolute scroll in the middle of a page, or for a portal that was not   *)
(* at its beginning when it was found.                                     *)
(***************************************************************************)
PositionTrue ==
    history.exact /\ Exists => sc.pos + Unread(sc.page) = Min({portal.at, TotalRows})

(***************************************************************************)
(* Iteration alone gives every row, once and in order, before it stops,    *)
(* for every page size, the ones that divide the number of rows too, and   *)
(* also when the page size is lowered on the way.                          *)
(***************************************************************************)
IterationComplete == ~history.skipped

(***************************************************************************)
(* After close(), unless the transaction was in error, there is no portal  *)
(* of this name: also when the cursor did not know it, because a new       *)
(* execute() failed or because it was declared otherwise.                  *)
(***************************************************************************)
CloseReleases == history.released

(***************************************************************************)
(* The cursor follows its portal: the position it tells, the pages it asks *)
(* for and what close() leaves (_server_cursor.py,                         *)
(* _server_cursor_base.py).                                                *)
(***************************************************************************)
PortalFollowed ==
    /\ PositionTrue
    /\ IterationComplete
    /\ CloseReleases
=============================================================================
