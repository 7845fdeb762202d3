------------------------------- MODULE Connect -------------------------------
(***************************************************************************)
(* Connection attempts: Connection.connect(), which splits a list of hosts, *)
(* resolves the names and tries each address in turn, each within a         *)
(* timeout; and the cancellation of a query over a connection of its own.   *)
(* Both are generators (generators.py, or generators.pyx) run by            *)
(* waiting.wait_conn(), that waits on the socket the generator asks for, an *)
(* interval at a time.                                                      *)
(*                                                                         *)
(* Time is counted in ticks from the start of an attempt, up to a cap past  *)
(* which nothing changes. The servers are external: each address is down,   *)
(* silent (accepts and never answers), slow (its answers never end), or a   *)
(* primary or a standby that answers a bounded number of times.             *)
(***************************************************************************)
EXTENDS Integers, Sequences, FiniteSets, SequencesExt

CONSTANTS
    HostLists,      \* "host" parameters: sequences of kinds of host
    AddrCounts,     \* how many "hostaddr" are given
    PortCounts,     \* how many "port" are given
    Timeouts,       \* values of connect_timeout, and of cancel_safe(timeout)
    DefaultTimeout, \* _DEFAULT_CONNECT_TIMEOUT
    Interval,       \* ticks of a single wait
    MaxHosts,       \* bound: hosts of a list, and addresses of a name
    MaxPolls        \* bound: answers a connection takes

HostKinds == {"path", "ip", "name0", "name1", "name2"}

ASSUME ConnectAssumption ==
    /\ DefaultTimeout \in Nat \ {0} /\ Interval \in Nat \ {0}
    /\ MaxHosts \in Nat /\ MaxHosts >= 2 /\ MaxPolls \in Nat
    /\ \A hosts \in HostLists : hosts \in Seq(HostKinds) /\ Len(hosts) <= MaxHosts
    /\ AddrCounts \subseteq 0 .. MaxHosts
    /\ PortCounts \subseteq Nat /\ Timeouts \subseteq Int

VARIABLES
    task,       \* "connect" or "cancel"
    params,     \* [hosts, addrs, ports, attrs, balance, timeout]
    attempts,   \* the attempts left to make
    made,       \* the attempts made, with how each ended
    role,       \* what each address tried turned out to be
    trying,     \* the connection in course, or NoConnecting
    outcome     \* "none", "connected", "failed", "invalid", "interrupted"

connectVars == <<task, params, attempts, made, role, trying, outcome>>

NoAttempt == [host |-> 0, addr |-> 0, port |-> 0, attrs |-> "any"]
NoConnecting == [at |-> NoAttempt, elapsed |-> 0, polls |-> 0,
                 want |-> "none", reg |-> "none", ready |-> FALSE]

Larger(a, b) == IF a > b THEN a ELSE b

-----------------------------------------------------------------------------
(* The list of attempts                                                     *)

\* timeout_from_conninfo(): zero or less is the default, at least 2 seconds.
TimeoutOf(value) ==
    IF value <= 0 THEN DefaultTimeout ELSE Larger(2, value)

\* split_attempts(): lists that do not match are refused.
SplitFails(p) ==
    LET n == Larger(Len(p.hosts), p.addrs) IN
    \/ Len(p.hosts) > 0 /\ p.addrs > 0 /\ Len(p.hosts) /= p.addrs
    \/ p.ports > 1 /\ p.ports /= n

\* A single port is for every host.
PortOf(p, i) == IF p.ports = 1 THEN 1 ELSE IF p.ports = 0 THEN 0 ELSE i

SplitAttempts(p) ==
    [i \in 1..Larger(1, Larger(Len(p.hosts), p.addrs)) |->
        [host |-> IF Len(p.hosts) = 0 THEN 0 ELSE i,
         addr |-> IF p.addrs = 0 THEN 0 ELSE i,
         port |-> PortOf(p, i), attrs |-> "any"]]

\* The addresses a name resolves to; none is an OSError, logged and skipped.
Addresses(kind) == CASE kind = "name0" -> 0 [] kind = "name2" -> 2 [] OTHER -> 1

\* _resolve_hostnames(): nothing to resolve without a host, for a local path,
\* with an address given or a host that is one; else an attempt per address.
HostAttempts(p, a) ==
    IF a.host = 0 \/ a.addr /= 0 \/ p.hosts[a.host] \in {"path", "ip"} THEN <<a>>
    ELSE [j \in 1..Addresses(p.hosts[a.host]) |-> [a EXCEPT !.addr = j]]

AllResolved(p) ==
    LET split == SplitAttempts(p)
    IN  FlattenSeq([i \in DOMAIN split |-> HostAttempts(p, split[i])])

\* load_balance_hosts=random: shuffle().
Orders(p, list) ==
    IF p.balance
    THEN {[i \in DOMAIN list |-> list[f[i]]] :
            f \in {g \in [DOMAIN list -> DOMAIN list] :
                    \A i \in DOMAIN list : \E j \in DOMAIN list : g[j] = i}}
    ELSE {list}

\* target_session_attrs=prefer-standby: all as standby first, then as any.
Preferring(p, list) ==
    IF p.attrs = "prefer-standby"
    THEN [i \in DOMAIN list |-> [list[i] EXCEPT !.attrs = "standby"]] \o list
    ELSE list

-----------------------------------------------------------------------------
(* The servers (external)                                                   *)

Roles == {"down", "silent", "slow", "primary", "standby"}
Target(at) == <<at.host, at.addr>>
Targets == (0 .. MaxHosts) \X (0 .. MaxHosts)

\* Does the server suit target_session_attrs?
Suits(at) == at.attrs = "standby" => role[Target(at)] = "standby"

\* What PQconnectPoll (PQcancelPoll) may answer.
Polled(at, polls) ==
    CASE role[Target(at)] = "down" -> {"FAILED"}
      [] role[Target(at)] = "silent" -> {"R"}
      [] role[Target(at)] = "slow" -> {"R", "W"}
      [] OTHER -> (IF polls < MaxPolls THEN {"R", "W"} ELSE {})
                    \cup (IF polls > 0
                          THEN {IF Suits(at) THEN "OK" ELSE "FAILED"} ELSE {})

-----------------------------------------------------------------------------
(* The clock: ticks since the start, capped.                                *)

\* cancel_safe() takes its timeout as it is given.
Timeout == IF task = "connect" THEN TimeoutOf(params.timeout) ELSE params.timeout

\* `monotonic() + timeout if timeout else 0.0`: zero is no deadline, and one
\* that is negative has passed at once.
HasDeadline == Timeout /= 0

\* The last instant at which an attempt may be waiting.
LastTick == Larger(0, Timeout) + Interval
Capped(t) == IF t > LastTick + 1 THEN LastTick + 1 ELSE t

\* MUTANT of Expired: the deadline is for the wait, not for what is ready.
Expired_Idle(c, ready) == ~ready /\ HasDeadline /\ c.elapsed > Timeout

\* `deadline and monotonic() > deadline`, whatever is ready.
Expired(c, ready) == HasDeadline /\ c.elapsed > Timeout

-----------------------------------------------------------------------------
(* Actions                                                                  *)

NoRole == [t \in Targets |-> "unknown"]

ConnectInit ==
    /\ task \in {"connect", "cancel"}
    /\ params \in [hosts : HostLists, addrs : AddrCounts, ports : PortCounts,
                   attrs : {"any", "prefer-standby"}, balance : BOOLEAN,
                   timeout : Timeouts]
    /\ task = "cancel" => /\ params.hosts = <<>> /\ params.addrs = 0
                          /\ params.attrs = "any" /\ ~params.balance
    /\ attempts = <<NoAttempt>>
    /\ made = <<>>
    /\ role = NoRole
    /\ trying = NoConnecting
    /\ outcome = "unprepared"

\* conninfo_attempts(): the attempts to make, or an error if there is none.
Prepare ==
    /\ outcome = "unprepared"
    /\ task = "connect"
    /\ IF SplitFails(params) \/ AllResolved(params) = <<>>
       THEN /\ outcome' = "invalid"
            /\ attempts' = <<>>
       ELSE /\ outcome' = "none"
            /\ \E list \in Orders(params, AllResolved(params)) :
                    attempts' = Preferring(params, list)
    /\ UNCHANGED <<task, params, made, role, trying>>

\* Connection.cancel_safe(): a connection to the same server, unless the
\* session is closed (nothing to do) or prepared for two-phase (an error).
PrepareCancel ==
    /\ outcome = "unprepared"
    /\ task = "cancel"
    /\ outcome' \in {"none", "invalid"}
    /\ UNCHANGED <<task, params, attempts, made, role, trying>>

\* PQconnectStart(): the next attempt begins; its deadline is its own.
StartAttempt ==
    /\ outcome = "none"
    /\ trying = NoConnecting
    /\ attempts /= <<>>
    /\ trying' = [NoConnecting EXCEPT !.at = Head(attempts), !.ready = TRUE]
    /\ attempts' = Tail(attempts)
    /\ IF role[Target(Head(attempts))] = "unknown"
       THEN \E r \in Roles : role' = [role EXCEPT ![Target(Head(attempts))] = r]
       ELSE UNCHANGED role
    /\ UNCHANGED <<task, params, made, outcome>>

\* MUTANT of EndAttempt: the error of the last attempt is not raised.
EndAttempt_Swallow(how) ==
    /\ made' = Append(made, [at |-> trying.at, how |-> how])
    /\ trying' = NoConnecting
    /\ outcome' = CASE how = "ok" -> "connected"
                    [] how = "interrupted" -> "interrupted"
                    [] OTHER -> "none"
    /\ UNCHANGED <<task, params, attempts, role>>

\* An attempt ends: the loop goes on to the next one after an error.
EndAttempt(how) ==
    /\ made' = Append(made, [at |-> trying.at, how |-> how])
    /\ trying' = NoConnecting
    /\ outcome' = CASE how = "ok" -> "connected"
                    [] how = "interrupted" -> "interrupted"
                    [] how \in {"failed", "timeout"} /\ attempts = <<>> -> "failed"
                    [] OTHER -> "none"
    /\ UNCHANGED <<task, params, attempts, role>>

\* connect_poll(): done, or failed, or the socket to wait on. wait_conn()
\* registers what the generator asks for after something was ready, and
\* throws away what it asks for after an interval with nothing ready.
PollConnection ==
    /\ trying /= NoConnecting
    /\ trying.ready
    /\ task = "cancel" => ~Expired(trying, TRUE)
    /\ \E answer \in Polled(trying.at, trying.polls) :
         CASE answer = "OK" -> EndAttempt("ok")
           [] answer = "FAILED" -> EndAttempt("failed")
           [] OTHER ->
              /\ trying' = [trying EXCEPT !.want = answer,
                                      !.reg = IF @ = "none" THEN answer ELSE @,
                                      !.ready = FALSE,
                                      !.polls = IF @ < MaxPolls THEN @ + 1 ELSE @]
              /\ UNCHANGED <<task, params, attempts, made, role, outcome>>

\* _cancel() tests its deadline before it polls.
CancelExpires ==
    /\ task = "cancel"
    /\ trying /= NoConnecting
    /\ trying.ready
    /\ Expired(trying, TRUE)
    /\ EndAttempt("timeout")

\* The socket is ready after some ticks of the interval: the generator tests
\* the deadline (_connect()), then polls.
SocketReady ==
    /\ trying /= NoConnecting
    /\ ~trying.ready
    /\ trying.reg = trying.want
    /\ role[Target(trying.at)] /= "silent"
    /\ \E t \in 1..Interval :
         LET c == [trying EXCEPT !.elapsed = Capped(@ + t), !.ready = TRUE,
                               !.reg = "none"]
         IN  IF task = "connect" /\ Expired(c, TRUE)
             THEN EndAttempt("timeout")
             ELSE /\ trying' = c
                  /\ UNCHANGED <<task, params, attempts, made, role, outcome>>

\* After an idle interval _cancel() polls again, _connect() waits again.
IdlePolls == task = "cancel"

\* The interval passes with nothing ready.
SocketIdle ==
    /\ trying /= NoConnecting
    /\ ~trying.ready
    /\ LET c == [trying EXCEPT !.elapsed = Capped(@ + Interval),
                             !.ready = IdlePolls]
       IN  IF task = "connect" /\ Expired(c, FALSE)
           THEN EndAttempt("timeout")
           ELSE /\ trying' = c
                /\ UNCHANGED <<task, params, attempts, made, role, outcome>>

\* Ctrl-C, or the cancellation of the task: no more attempts.
Interrupted ==
    /\ trying /= NoConnecting
    /\ ~trying.ready
    /\ EndAttempt("interrupted")

ConnectStep ==
    \/ Prepare
    \/ PrepareCancel
    \/ StartAttempt
    \/ PollConnection
    \/ CancelExpires
    \/ SocketReady
    \/ SocketIdle

ConnectNext == ConnectStep \/ Interrupted

\* The client takes its steps; when a socket is ready is up to the servers:
\* only the passing of an interval is sure.
ConnectFairness == WF_connectVars(ConnectStep)

ConnectSpec == ConnectInit /\ [][ConnectNext]_connectVars /\ ConnectFairness

-----------------------------------------------------------------------------
(* Properties                                                               *)

Done == outcome \notin {"unprepared", "none"}

\* Type invariant of the connection attempts.
ConnectTypeOK ==
    /\ task \in {"connect", "cancel"}
    /\ outcome \in {"unprepared", "none", "connected", "failed", "invalid",
                    "interrupted"}
    /\ trying.elapsed \in Nat
    /\ trying.want \in {"none", "R", "W"} /\ trying.reg \in {"none", "R", "W"}
    /\ \A k \in DOMAIN made : made[k].how \in {"ok", "failed", "timeout", "interrupted"}

\* The servers that the parameters name: each address given, or else each of
\* those a name resolves to, of each host, on the port of that host.
Places(p) ==
    LET n == Larger(Len(p.hosts), p.addrs) IN IF n = 0 THEN {0} ELSE 1 .. n
AddressesOf(p, i) ==
    IF p.addrs > 0 THEN {i}
    ELSE IF i = 0 THEN {0}
    ELSE IF p.hosts[i] \in {"path", "ip"} THEN {0} ELSE 1 .. Addresses(p.hosts[i])
Everywhere(p) ==
    UNION {{[host |-> IF p.hosts = <<>> THEN 0 ELSE i, addr |-> a,
             port |-> IF p.ports <= 1 THEN p.ports ELSE i, attrs |-> "any"] :
                a \in AddressesOf(p, i)} : i \in Places(p)}

\* An attempt was made at that very host, address and port.
Tried(at, attrs) == \E k \in DOMAIN made : made[k].at = [at EXCEPT !.attrs = attrs]

\* connect() fails only when it has tried everywhere, with prefer-standby both
\* as a standby and as any, and none that would have suited did more than run
\* out of time.
FailsOnlyIfAllFail ==
    outcome = "failed" /\ task = "connect" =>
        /\ \A at \in Everywhere(params) :
             /\ Tried(at, "any")
             /\ params.attrs = "prefer-standby" => Tried(at, "standby")
        /\ \A k \in DOMAIN made :
             role[Target(made[k].at)] \in {"primary", "standby"} /\ Suits(made[k].at)
                => made[k].how = "timeout"

\* With target_session_attrs=prefer-standby a session that is not on a
\* standby is opened only after everywhere was tried as a standby, so that
\* the standby servers met are those that took too long.
StandbyPreferred ==
    outcome = "connected" /\ params.attrs = "prefer-standby"
      /\ role[Target(made[Len(made)].at)] = "primary" =>
        /\ \A at \in Everywhere(params) : Tried(at, "standby")
        /\ \A k \in DOMAIN made :
             role[Target(made[k].at)] = "standby" => made[k].how = "timeout"

\* An attempt with a deadline never lasts longer than that and one interval,
\* even if the server keeps the socket ready all the time.
TimeBounded == HasDeadline => trying.elapsed <= LastTick

\* A connection that has begun comes to an end whatever the servers do, as
\* long as intervals pass; so does a cancellation, unless its timeout is zero:
\* then a server that never answers keeps it waiting (generators.py:114).
ConnectEnds == (outcome = "none" /\ HasDeadline) ~> Done

(***************************************************************************)
(* A failure means that every host, address and port was tried, each in    *)
(* its time, and a primary is taken for a standby only when no standby     *)
(* could be reached (connection.py, _conninfo_attempts.py, generators.py). *)
(***************************************************************************)
AttemptsHonest ==
    /\ ConnectTypeOK
    /\ FailsOnlyIfAllFail
    /\ StandbyPreferred
    /\ TimeBounded
=============================================================================
