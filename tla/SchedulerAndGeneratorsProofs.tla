-------------------- MODULE SchedulerAndGeneratorsProofs --------------------
(***************************************************************************)
(* Proofs about two parts that share nothing with the others: Scheduler,   *)
(* for any number of threads and tasks and any length of time; and         *)
(* Generators, for any sizes of the buffers of the socket, of a pipeline   *)
(* and of a copy.                                                          *)
(***************************************************************************)
EXTENDS Scheduler, Generators, Counting, SequenceTheorems, TLAPS

(***************************************************************************)
(* TypeOK holds of every reachable state: among others, a task that runs   *)
(* has been entered and is no longer in the heap (sched.py:66-93).         *)
(***************************************************************************)
THEOREM TypeCorrect == Spec => []TypeOK
<1>1. Init => TypeOK
  <2> SUFFICES ASSUME Init
               PROVE  TypeOK
    OBVIOUS
  <2> USE SchedulerAssumption DEF SchedulerAssumption, Init, Instants
  <2>1. 0 \in Instants
    OBVIOUS
  <2>2. time \in [Tasks -> Instants]
    BY <2>1
  <2>3. now \in Instants /\ queue \subseteq entered /\ entered \subseteq Tasks
    BY <2>1
  <2>4. event \in BOOLEAN /\ setting \subseteq Threads
    OBVIOUS
  <2>5. deadline \in Nat /\ task \in Tasks \cup {NoTask}
    OBVIOUS
  <2>6. runner = "loop"
    OBVIOUS
  <2> QED
    BY <2>2, <2>3, <2>4, <2>5, <2>6 DEF TypeOK
<1>2. TypeOK /\ [Next]_vars => TypeOK'
  <2> SUFFICES ASSUME TypeOK, [Next]_vars
               PROVE  TypeOK'
    OBVIOUS
  <2> USE SchedulerAssumption DEF SchedulerAssumption, TypeOK, Instants
  <2>1. ASSUME NEW p \in Threads, NEW t \in Tasks, NEW at \in Instants,
               EnterAbs(p, t, at)
        PROVE  TypeOK'
    BY <2>1 DEF EnterAbs, IsFirst
  <2>2. ASSUME NEW p \in Threads, SetEvent(p)
        PROVE  TypeOK'
    BY <2>2 DEF SetEvent
  <2>3. ASSUME NEW t \in Tasks, RunnerPop(t)
        PROVE  TypeOK'
    BY <2>3 DEF RunnerPop, IsRoot
  <2>4. CASE RunnerDelay
    <3>1. \A t \in queue : time[t] \in Nat
      OBVIOUS
    <3>2. now + EmptyTimeout \in Nat
      OBVIOUS
    <3>3. deadline' \in Nat
      BY <2>4, <3>1, <3>2 DEF RunnerDelay, IsRoot
    <3> QED
      BY <2>4, <3>3 DEF RunnerDelay
  <2>5. CASE RunnerAct
    BY <2>5 DEF RunnerAct
  <2>6. CASE RunnerWake
    BY <2>6 DEF RunnerWake
  <2>7. CASE Tick
    BY <2>7 DEF Tick
  <2>8. CASE UNCHANGED vars
    BY <2>8 DEF vars
  <2> QED
    BY <2>1, <2>2, <2>3, <2>4, <2>5, <2>6, <2>7, <2>8 DEF Next
<1> QED
  BY <1>1, <1>2, PTL DEF Spec

(***************************************************************************)
(* No wakeup is lost (sched.py:57-62 and 70-80).  The property is          *)
(* inductive on top of the types: a push that does not set the event is a  *)
(* push behind another task, for which the runner already wakes up.        *)
(***************************************************************************)
THEOREM WakeupCorrect == Spec => []NoLostWakeup
<1>1. Init => NoLostWakeup
  BY DEF Init, NoLostWakeup
<1>2. TypeOK /\ NoLostWakeup /\ [Next]_vars => NoLostWakeup'
  <2> SUFFICES ASSUME TypeOK, NoLostWakeup, [Next]_vars
               PROVE  NoLostWakeup'
    OBVIOUS
  <2> USE DEF NoLostWakeup
  <2>1. ASSUME NEW p \in Threads, NEW t \in Tasks, NEW at \in Instants,
               EnterAbs(p, t, at)
        PROVE  NoLostWakeup'
    BY <2>1 DEF EnterAbs, IsFirst, TypeOK, Instants
  <2>2. ASSUME NEW p \in Threads, SetEvent(p)
        PROVE  NoLostWakeup'
    BY <2>2 DEF SetEvent
  <2>3. ASSUME NEW t \in Tasks, RunnerPop(t)
        PROVE  NoLostWakeup'
    BY <2>3 DEF RunnerPop
  <2>4. CASE RunnerDelay
    BY <2>4 DEF RunnerDelay, IsRoot
  <2>5. CASE RunnerAct
    BY <2>5 DEF RunnerAct
  <2>6. CASE RunnerWake
    BY <2>6 DEF RunnerWake
  <2>7. CASE Tick
    BY <2>7 DEF Tick
  <2>8. CASE UNCHANGED vars
    BY <2>8 DEF vars
  <2> QED
    BY <2>1, <2>2, <2>3, <2>4, <2>5, <2>6, <2>7, <2>8 DEF Next
<1> QED
  BY <1>1, <1>2, TypeCorrect, PTL DEF Spec

-----------------------------------------------------------------------------
(***************************************************************************)
(* Generators.  A unit is never lost nor moved: what was received, what is *)
(* in the socket and what the server has still to write are one sequence,  *)
(* to which the server adds at the end, and which ends once it has read    *)
(* the last unit it is sent.  The inductive invariant says what is in that *)
(* sequence, and which unit of what is being sent it waits for.            *)
(***************************************************************************)

\* The state of the generator, of the socket and of the server
Units == [kind : {"query", "command", "data", "end", "part", "ok", "fatal", "ready", "copy",
                  "sync"}, n : Int]
Ios == [op : {"none", "execute", "pipeline", "copy"},
        at : {"idle", "send", "pipe", "copy", "fetch", "done"}, out : Seq(Units),
        in : Seq(Units), todo : Nat, results : Seq(Units),
        error : {"none", "lost", "closed", "register", "interrupted"}, interrupts : Nat]
Nets == [up : Seq(Units), down : Seq(Units), open : BOOLEAN]
Servers == [alive : BOOLEAN, out : Seq(Units), said : Seq(Units), failed : BOOLEAN]

\* What the server has still to read, and what the generator will have received
Asked(i, n) == n.up \o i.out
Incoming(got, in, down, out) == (got \o in) \o (down \o out)
Stream(i, n, s) == Incoming(i.results, i.in, n.down, s.out)

\* What the whole answer follows
Trigger(u) == u.kind \in {"sync", "end"} \/ (u.kind = "query" /\ u.n # 1)
KindsOf(op) ==
    CASE op = "execute" -> {"query"} [] op = "pipeline" -> {"command", "sync"}
      [] op = "copy" -> {"data", "end"} [] op = "none" -> {}

\* The unit that the answer follows is the last one to be read
Asks(asked, op, todo) ==
    /\ Kinds(asked) \subseteq KindsOf(op)
    /\ \A k \in DOMAIN asked : Trigger(asked[k]) <=> todo = 0 /\ k = Len(asked)

\* The unit that ends the answer is the last one to be received
Unended(q) == Kinds(q) \cap Finals = {}
Ending(q) == q # <<>> /\ \A k \in DOMAIN q : q[k].kind \in Finals <=> k = Len(q)

\* An error is followed by errors only, and the end
Last2 == {"fatal", "ready"}
FatalLast(q) == \A k, l \in DOMAIN q : k < l /\ q[k].kind = "fatal" => q[l].kind \in Last2

\* The operation and the place in it
Places(i) ==
    /\ i.at = "idle" <=> i.op = "none"
    /\ i.at = "send" => i.op = "execute"
    /\ i.at = "pipe" => i.op = "pipeline"
    /\ i.at = "copy" => i.op = "copy"
    /\ i.error # "none" => i.at = "done"
    /\ i.error = "interrupted" => i.interrupts = 2

\* The results that are no part of one, and not the end of all
Silent == {"part", "ready"}

\* The server has answered; then the end of the answer is on its way, before it
\* nothing is
Answered(i, n, s) ==
    i.op # "none" /\ (s.failed \/ (i.todo = 0 /\ Asked(i, n) = <<>>))
Answering(i, n, s) ==
    IF Answered(i, n, s)
    THEN /\ i.at # "done" => Ending(Stream(i, n, s))
         /\ s.said # <<>> \/ Kinds(s.out) \ Silent # {}
    ELSE /\ Unended(Stream(i, n, s))
         /\ i.op # "pipeline" => Stream(i, n, s) = <<>>

\* With the server there: what was asked is on its way, and so is the answer; a
\* generator that ended well has received it all
Exchange(i, n, s) ==
    /\ Asks(Asked(i, n), i.op, i.todo)
    /\ s.failed => i.op = "copy"
    /\ Answering(i, n, s)
    /\ s.said = i.results \o Sift(i.in \o n.down, Silent)
    /\ i.at = "done" /\ i.error = "none" =>
          Answered(i, n, s) /\ i.in = <<>> /\ n.down = <<>> /\ s.out = <<>>

\* What was received
Received(i, n, s) ==
    /\ "ready" \notin Kinds(i.results)
    /\ i.op = "none" => Stream(i, n, s) = <<>>
    /\ i.at \in {"send", "copy"} => i.results = <<>>
    /\ i.op = "pipeline" => "ready" \notin Kinds(Stream(i, n, s))
    /\ i.op # "pipeline" => FatalLast(Stream(i, n, s))
    /\ i.error = "lost" => ~s.alive /\ (i.op # "pipeline" => "fatal" \notin Kinds(i.results))

\* The inductive invariant, of any state and of the present one
GenHolds(i, n, s) ==
    /\ i \in Ios /\ n \in Nets /\ s \in Servers /\ Len(n.up) <= Cap
    /\ Places(i)
    /\ s.alive => Exchange(i, n, s)
    /\ Received(i, n, s)

GenIInv == GenHolds(io, net, srv)
-----------------------------------------------------------------------------
(* Sequences of units *)

\* A set of sequences that has the empty one, and each of its own with an element
\* more, has them all
LEMMA AllSequences ==
    ASSUME NEW T, NEW P, <<>> \in P,
           \A s \in Seq(T) : s \in P => \A u \in T : Append(s, u) \in P
    PROVE  \A s \in Seq(T) : s \in P
<1> DEFINE bad == {n \in Nat : \E s \in Seq(T) : Len(s) = n /\ s \notin P}
<1>1. ASSUME bad # {} PROVE FALSE
  <2>1. PICK m \in bad : \A k \in bad : m <= k
    BY <1>1, LeastNat
  <2>2. PICK s \in Seq(T) : Len(s) = m /\ s \notin P
    BY <2>1
  <2>3. s # <<>> /\ m \in Nat /\ m # 0
    BY <2>1, <2>2
  <2> DEFINE q == SubSeq(s, 1, m - 1)
  <2>4. q \in Seq(T) /\ Len(q) = m - 1 /\ s[m] \in T /\ m - 1 \in Nat
    BY <2>2, <2>3
  <2>5. s = Append(q, s[m])
    <3>1. Append(q, s[m]) \in Seq(T) /\ Len(Append(q, s[m])) = m
      BY <2>3, <2>4
    <3>2. \A k \in 1 .. m : Append(q, s[m])[k] = s[k]
      BY <2>2, <2>3
    <3> HIDE DEF q
    <3> QED
      BY <2>2, <3>1, <3>2, SeqEqual
  <2>6. q \in P
    <3>1. m - 1 \notin bad
      BY <2>1, <2>3
    <3> QED
      BY <2>4, <3>1
  <2> HIDE DEF q, bad
  <2> QED
    BY <2>2, <2>4, <2>5, <2>6
<1>2. \A s \in Seq(T) : Len(s) \in Nat
  OBVIOUS
<1> QED
  BY <1>1, <1>2

\* A sequence is empty or has a last element
LEMMA HasLast ==
    ASSUME NEW T, NEW s \in Seq(T), s # <<>>
    PROVE  \E q \in Seq(T) : \E u \in T : s = Append(q, u)
<1> DEFINE P == {<<>>} \cup {t \in Seq(T) : \E q \in Seq(T) : \E u \in T : t = Append(q, u)}
<1>1. \A t \in Seq(T) : \A u \in T : Append(t, u) \in Seq(T)
  OBVIOUS
<1>2. <<>> \in P /\ \A t \in Seq(T) : t \in P => \A u \in T : Append(t, u) \in P
  BY <1>1
<1> HIDE DEF P
<1>3. s \in P
  BY <1>2, AllSequences
<1> QED
  BY <1>3 DEF P

\* Concatenation
LEMMA CatFacts ==
    ASSUME NEW T
    PROVE  /\ \A s, t \in Seq(T) : s \o t \in Seq(T) /\ (s \o t = <<>> <=> s = <<>> /\ t = <<>>)
           /\ \A s \in Seq(T) : s \o <<>> = s /\ <<>> \o s = s
           /\ \A s \in Seq(T) : \A u \in T : Append(s, u) = s \o <<u>> /\ Append(s, u) # <<>>
           /\ \A s, t \in Seq(T) : \A u \in T : s \o Append(t, u) = Append(s \o t, u)
<1>1. \A s, t \in Seq(T) : s \o t \in Seq(T) /\ (s \o t = <<>> <=> s = <<>> /\ t = <<>>)
  OBVIOUS
<1>2. ASSUME NEW s \in Seq(T) PROVE s \o <<>> = s /\ <<>> \o s = s
  BY SeqEqual
<1>3. ASSUME NEW s \in Seq(T), NEW u \in T PROVE Append(s, u) = s \o <<u>> /\ Append(s, u) # <<>>
  BY SeqEqual
<1>5. ASSUME NEW s \in Seq(T), NEW t \in Seq(T), NEW u \in T
      PROVE  s \o Append(t, u) = Append(s \o t, u)
  <2>1. <<u>> \in Seq(T)
    OBVIOUS
  <2> QED
    BY <1>1, <1>3, <2>1, ConcatAssociative
<1> QED
  BY <1>1, <1>2, <1>3, <1>5

\* Sequences of units are put together in any order
CatSame(s, t, r) == (s \o t) \o r = s \o (t \o r)

\* ... whatever the sequences
LEMMA UnitsCat == \A s, t, r \in Seq(Units) : CatSame(s, t, r)
  BY ConcatAssociative DEF CatSame

\* The kinds in a sequence
LEMMA KindsFacts ==
    /\ Kinds(<<>>) = {}
    /\ \A s \in Seq(Units) : Kinds(s) = {} <=> s = <<>>
    /\ \A s, t \in Seq(Units) : Kinds(s \o t) = Kinds(s) \cup Kinds(t)
    /\ \A s \in Seq(Units) : \A u \in Units : Kinds(Append(s, u)) = Kinds(s) \cup {u.kind}
    /\ \A u \in Units : Kinds(<<u>>) = {u.kind}
<1>1. Kinds(<<>>) = {}
  BY DEF Kinds
<1>2. ASSUME NEW s \in Seq(Units) PROVE Kinds(s) = {} <=> s = <<>>
  <2>1. s # <<>> => 1 \in DOMAIN s
    OBVIOUS
  <2> QED
    BY <1>1, <2>1 DEF Kinds
<1>3. ASSUME NEW s \in Seq(Units), NEW t \in Seq(Units) PROVE Kinds(s \o t) = Kinds(s) \cup Kinds(t)
  <2>1. PICK m \in Nat : m = Len(s)
    OBVIOUS
  <2>2. PICK n \in Nat : n = Len(t)
    OBVIOUS
  <2>3. DOMAIN s = 1 .. m /\ DOMAIN t = 1 .. n /\ DOMAIN (s \o t) = 1 .. m + n
    BY <2>1, <2>2
  <2>4. \A k \in 1 .. m : k \in 1 .. m + n /\ (s \o t)[k] = s[k]
    BY <2>1, <2>2
  <2>5. \A k \in 1 .. n : m + k \in 1 .. m + n /\ (s \o t)[m + k] = t[k]
    BY <2>1, <2>2
  <2>6. \A k \in 1 .. m + n : k \in 1 .. m \/ (k - m \in 1 .. n /\ k = m + (k - m))
    OBVIOUS
  <2> DEFINE c == s \o t
  <2>7. \A k \in DOMAIN s : k \in DOMAIN c /\ c[k] = s[k]
    BY <2>3, <2>4
  <2>8. \A k \in DOMAIN t : \E l \in DOMAIN c : c[l] = t[k]
    BY <2>3, <2>5
  <2>9. \A k \in DOMAIN c : (k \in DOMAIN s /\ c[k] = s[k]) \/ \E l \in DOMAIN t : c[k] = t[l]
    BY <2>3, <2>4, <2>5, <2>6
  <2> HIDE DEF c
  <2>10. Kinds(c) = Kinds(s) \cup Kinds(t)
    BY <2>7, <2>8, <2>9 DEF Kinds
  <2> QED
    BY <2>10 DEF c
<1>4. ASSUME NEW u \in Units PROVE Kinds(<<u>>) = {u.kind}
  BY DEF Kinds
<1>5. ASSUME NEW s \in Seq(Units), NEW u \in Units
      PROVE  Kinds(Append(s, u)) = Kinds(s) \cup {u.kind}
  <2>1. <<u>> \in Seq(Units) /\ Append(s, u) = s \o <<u>>
    BY CatFacts
  <2> QED
    BY <1>3, <1>4, <2>1
<1> QED
  BY <1>1, <1>2, <1>3, <1>4, <1>5

\* f sifts the first units of a sequence, for each number of them up to m
Sifts(f, s, kinds, m) ==
    f = [i \in 0 .. m |->
            IF i = 0 THEN <<>>
            ELSE IF s[i].kind \in kinds THEN f[i - 1] ELSE Append(f[i - 1], s[i])]

\* The first units of a sequence can be sifted
LEMMA SiftExists ==
    ASSUME NEW s, NEW kinds, NEW n \in Nat
    PROVE  \E f : Sifts(f, s, kinds, n)
<1> DEFINE bad == {m \in Nat : ~ \E f : Sifts(f, s, kinds, m)}
<1> SUFFICES ASSUME bad # {} PROVE FALSE
  OBVIOUS
<1>1. PICK m \in bad : \A k \in bad : m <= k
  BY LeastNat
<1>2. CASE m = 0
  <2>1. Sifts([i \in 0 .. 0 |-> <<>>], s, kinds, 0)
    BY DEF Sifts
  <2> QED
    BY <1>2, <2>1
<1>3. CASE m # 0
  <2>1. m - 1 \in Nat /\ m - 1 \notin bad /\ m \in Nat
    BY <1>1, <1>3
  <2>2. PICK f : Sifts(f, s, kinds, m - 1)
    BY <2>1
  <2> DEFINE Next1(h, i) == IF s[i].kind \in kinds THEN h[i - 1] ELSE Append(h[i - 1], s[i])
             g == [i \in 0 .. m |-> IF i = m THEN Next1(f, m) ELSE f[i]]
  <2>3. \A i \in 0 .. m - 1 : f[i] = IF i = 0 THEN <<>> ELSE Next1(f, i)
    BY <2>2 DEF Sifts
  <2>4. \A i \in 0 .. m : g[i] = IF i = 0 THEN <<>> ELSE Next1(g, i)
    <3> SUFFICES ASSUME NEW i \in 0 .. m
                 PROVE  g[i] = IF i = 0 THEN <<>> ELSE Next1(g, i)
      OBVIOUS
    <3>1. i # 0 => i - 1 \in 0 .. m - 1 /\ g[i - 1] = f[i - 1]
      BY <2>1
    <3>2. i # m => i \in 0 .. m - 1 /\ g[i] = f[i]
      BY <2>1
    <3>3. i = m => g[i] = Next1(f, m)
      OBVIOUS
    <3> HIDE DEF g
    <3> QED
      BY <1>3, <2>3, <3>1, <3>2, <3>3
  <2>5. g = [i \in 0 .. m |-> g[i]]
    OBVIOUS
  <2> HIDE DEF g
  <2>6. Sifts(g, s, kinds, m)
    BY <2>4, <2>5 DEF Sifts
  <2> QED
    BY <2>6
<1> QED
  BY <1>2, <1>3

\* What Sift() returns
LEMMA SiftDef ==
    ASSUME NEW s, NEW kinds, Len(s) \in Nat
    PROVE  \E f : Sifts(f, s, kinds, Len(s)) /\ Sift(s, kinds) = f[Len(s)]
<1>0. \E f : Sifts(f, s, kinds, Len(s))
  BY SiftExists
<1>1. \E f : f = [i \in 0 .. Len(s) |->
                     IF i = 0 THEN <<>>
                     ELSE IF s[i].kind \in kinds THEN f[i - 1] ELSE Append(f[i - 1], s[i])]
  BY <1>0, Zenon DEF Sifts
<1> DEFINE all == CHOOSE kept : kept = [i \in 0 .. Len(s) |->
                     IF i = 0 THEN <<>>
                     ELSE IF s[i].kind \in kinds THEN kept[i - 1]
                     ELSE Append(kept[i - 1], s[i])]
<1>2. all = [i \in 0 .. Len(s) |->
                IF i = 0 THEN <<>>
                ELSE IF s[i].kind \in kinds THEN all[i - 1] ELSE Append(all[i - 1], s[i])]
  BY <1>1, Zenon
<1>3. Sift(s, kinds) = all[Len(s)]
  BY Zenon DEF Sift
<1> HIDE DEF all
<1> QED
  BY <1>2, <1>3 DEF Sifts

\* Two sequences with the same first units are sifted in the same way up to them
LEMMA SiftsSame ==
    ASSUME NEW n \in Nat, NEW s, NEW t, NEW kinds, NEW f, Sifts(f, s, kinds, n),
           NEW g, Sifts(g, t, kinds, n + 1), \A i \in 1 .. n : t[i] = s[i]
    PROVE  /\ g[n] = f[n]
           /\ g[n + 1] = IF t[n + 1].kind \in kinds THEN f[n] ELSE Append(f[n], t[n + 1])
<1> DEFINE Sifted(h, q, i) ==
        IF i = 0 THEN <<>>
        ELSE IF q[i].kind \in kinds THEN h[i - 1] ELSE Append(h[i - 1], q[i])
<1>1. \A i \in 0 .. n : f[i] = Sifted(f, s, i)
  BY DEF Sifts
<1>2. \A i \in 0 .. n + 1 : g[i] = Sifted(g, t, i)
  BY DEF Sifts
<1> DEFINE bad == {m \in 0 .. n : g[m] # f[m]}
<1>3. ASSUME bad # {} PROVE FALSE
  <2>1. PICK m \in bad : \A k \in bad : m <= k
    <3>1. bad \in SUBSET Nat
      OBVIOUS
    <3> HIDE DEF bad
    <3> QED
      BY <1>3, <3>1, LeastNat
  <2>2. m \in 0 .. n /\ m \in 0 .. n + 1 /\ g[m] # f[m]
    BY <2>1
  <2>3. m # 0
    BY <1>1, <1>2, <2>2
  <2>4. m - 1 \in 0 .. n /\ m - 1 \notin bad /\ m \in 1 .. n
    BY <2>1, <2>2, <2>3
  <2>5. g[m - 1] = f[m - 1] /\ t[m] = s[m]
    BY <2>4
  <2> QED
    BY <1>1, <1>2, <2>2, <2>3, <2>5
<1>4. g[n] = f[n]
  BY <1>3
<1>5. n + 1 \in 0 .. n + 1 /\ n + 1 # 0 /\ (n + 1) - 1 = n
  OBVIOUS
<1> QED
  BY <1>2, <1>4, <1>5

\* Sifting an empty sequence, and one with a unit more
LEMMA SiftStep ==
    ASSUME NEW kinds
    PROVE  /\ Sift(<<>>, kinds) = <<>>
           /\ \A s \in Seq(Units) : \A u \in Units :
                Sift(Append(s, u), kinds) =
                    IF u.kind \in kinds THEN Sift(s, kinds) ELSE Append(Sift(s, kinds), u)
<1>1. Sift(<<>>, kinds) = <<>>
  BY SiftDef DEF Sifts
<1>2. ASSUME NEW s \in Seq(Units), NEW u \in Units
      PROVE  Sift(Append(s, u), kinds) =
                IF u.kind \in kinds THEN Sift(s, kinds) ELSE Append(Sift(s, kinds), u)
  <2>1. PICK n \in Nat : n = Len(s)
    OBVIOUS
  <2>a. Append(s, u) \in Seq(Units)
    OBVIOUS
  <2>2. PICK t \in Seq(Units) : t = Append(s, u)
    BY <2>a
  <2>3. Len(t) = n + 1 /\ n + 1 \in Nat /\ t[n + 1] = u /\ \A i \in 1 .. n : t[i] = s[i]
    BY <2>1, <2>2
  <2>4. PICK f : Sifts(f, s, kinds, n) /\ Sift(s, kinds) = f[n]
    BY <2>1, SiftDef
  <2>5. PICK g : Sifts(g, t, kinds, n + 1) /\ Sift(t, kinds) = g[n + 1]
    BY <2>3, SiftDef
  <2>6. g[n + 1] = IF t[n + 1].kind \in kinds THEN f[n] ELSE Append(f[n], t[n + 1])
    BY <2>3, <2>4, <2>5, SiftsSame
  <2> QED
    BY <2>2, <2>3, <2>4, <2>5, <2>6
<1> QED
  BY <1>1, <1>2

\* What is sifted is made of units, of the kinds that are left
LEMMA SiftKinds ==
    ASSUME NEW kinds
    PROVE  \A s \in Seq(Units) :
              /\ Sift(s, kinds) \in Seq(Units)
              /\ Kinds(Sift(s, kinds)) = Kinds(s) \ kinds
<1> DEFINE P == {s \in Seq(Units) : /\ Sift(s, kinds) \in Seq(Units)
                                    /\ Kinds(Sift(s, kinds)) = Kinds(s) \ kinds}
<1>1. <<>> \in P
  <2>1. <<>> \in Seq(Units)
    OBVIOUS
  <2> QED
    BY <2>1, SiftStep, KindsFacts
<1>2. ASSUME NEW s \in Seq(Units), s \in P, NEW u \in Units PROVE Append(s, u) \in P
  <2>1. Append(s, u) \in Seq(Units) /\ Append(Sift(s, kinds), u) \in Seq(Units)
    BY <1>2
  <2>2. /\ Kinds(Append(s, u)) = Kinds(s) \cup {u.kind}
        /\ Kinds(Append(Sift(s, kinds), u)) = (Kinds(s) \ kinds) \cup {u.kind}
    BY <1>2, KindsFacts
  <2>3. Sift(Append(s, u), kinds) =
            IF u.kind \in kinds THEN Sift(s, kinds) ELSE Append(Sift(s, kinds), u)
    BY SiftStep
  <2>4. CASE u.kind \in kinds
    BY <2>3, <2>4, <1>2, <2>1, <2>2
  <2>5. CASE u.kind \notin kinds
    BY <2>3, <2>5, <1>2, <2>1, <2>2
  <2> QED
    BY <2>4, <2>5
<1> HIDE DEF P
<1>3. \A s \in Seq(Units) : s \in P
  BY <1>1, <1>2, AllSequences
<1> QED
  BY <1>3 DEF P

\* Sifting two sequences, one after the other
LEMMA SiftCat ==
    ASSUME NEW kinds, NEW s \in Seq(Units)
    PROVE  \A t \in Seq(Units) : Sift(s \o t, kinds) = Sift(s, kinds) \o Sift(t, kinds)
<1> DEFINE P == {t \in Seq(Units) : Sift(s \o t, kinds) = Sift(s, kinds) \o Sift(t, kinds)}
<1>1. <<>> \in P
  BY SiftKinds, SiftStep, CatFacts
<1>2. ASSUME NEW t \in Seq(Units), t \in P, NEW u \in Units PROVE Append(t, u) \in P
  <2>1. /\ Append(t, u) \in Seq(Units) /\ s \o t \in Seq(Units)
        /\ Sift(s, kinds) \in Seq(Units) /\ Sift(t, kinds) \in Seq(Units)
    BY <1>2, SiftKinds
  <2>2. s \o Append(t, u) = Append(s \o t, u)
    BY CatFacts
  <2>3. /\ Sift(Append(t, u), kinds) =
             IF u.kind \in kinds THEN Sift(t, kinds) ELSE Append(Sift(t, kinds), u)
        /\ Sift(Append(s \o t, u), kinds) =
             IF u.kind \in kinds THEN Sift(s \o t, kinds) ELSE Append(Sift(s \o t, kinds), u)
    BY <2>1, SiftStep
  <2>4. Sift(s, kinds) \o Append(Sift(t, kinds), u) = Append(Sift(s, kinds) \o Sift(t, kinds), u)
    BY <2>1, CatFacts
  <2>5. Sift(s \o t, kinds) = Sift(s, kinds) \o Sift(t, kinds)
    BY <1>2
  <2>6. Sift(s \o Append(t, u), kinds) = Sift(s, kinds) \o Sift(Append(t, u), kinds)
    BY <2>2, <2>3, <2>4, <2>5
  <2> QED
    BY <2>1, <2>6
<1> HIDE DEF P
<1>3. \A t \in Seq(Units) : t \in P
  BY <1>1, <1>2, AllSequences
<1> QED
  BY <1>3 DEF P

\* Sifting twice, and sifting what has none of the kinds
LEMMA SiftTwice ==
    ASSUME NEW kinds, NEW others
    PROVE  \A s \in Seq(Units) :
              /\ Sift(Sift(s, kinds), others) = Sift(s, kinds \cup others)
              /\ Kinds(s) \cap kinds = {} => Sift(s, kinds) = s
<1> DEFINE Twice(s) == Sift(Sift(s, kinds), others) = Sift(s, kinds \cup others)
           Same(s) == Kinds(s) \cap kinds = {} => Sift(s, kinds) = s
           P == {s \in Seq(Units) : Twice(s) /\ Same(s)}
<1>1. <<>> \in P
  BY SiftStep
<1>2. ASSUME NEW s \in Seq(Units), s \in P, NEW u \in Units PROVE Append(s, u) \in P
  <2>1. Append(s, u) \in Seq(Units) /\ Sift(s, kinds) \in Seq(Units)
    BY SiftKinds
  <2>2. \A k : Sift(Append(s, u), k) = IF u.kind \in k THEN Sift(s, k) ELSE Append(Sift(s, k), u)
    BY SiftStep
  <2>3. Sift(Append(Sift(s, kinds), u), others) =
            IF u.kind \in others THEN Sift(Sift(s, kinds), others)
            ELSE Append(Sift(Sift(s, kinds), others), u)
    BY <2>1, SiftStep
  <2>4. Twice(Append(s, u))
    BY <1>2, <2>2, <2>3
  <2>5. Same(Append(s, u))
    BY KindsFacts, <1>2, <2>2
  <2> QED
    BY <2>1, <2>4, <2>5
<1> HIDE DEF P
<1>3. \A s \in Seq(Units) : s \in P
  BY <1>1, <1>2, AllSequences
<1> QED
  BY <1>3 DEF P

\* Errors are the last in two sequences
LEMMA FatalCat ==
    \A s, t \in Seq(Units) :
        FatalLast(s \o t) <=> /\ FatalLast(s) /\ FatalLast(t)
                              /\ "fatal" \in Kinds(s) => Kinds(t) \subseteq Last2
<1> SUFFICES ASSUME NEW s \in Seq(Units), NEW t \in Seq(Units)
             PROVE  FatalLast(s \o t) <=> /\ FatalLast(s) /\ FatalLast(t)
                                          /\ "fatal" \in Kinds(s) => Kinds(t) \subseteq Last2
  OBVIOUS
<1>1. PICK m \in Nat : m = Len(s)
  OBVIOUS
<1>2. PICK n \in Nat : n = Len(t)
  OBVIOUS
<1>a. s \o t \in Seq(Units)
  OBVIOUS
<1>3. PICK c \in Seq(Units) : c = s \o t
  BY <1>a
<1>4. DOMAIN s = 1 .. m /\ DOMAIN t = 1 .. n /\ DOMAIN c = 1 .. m + n
  BY <1>1, <1>2, <1>3
<1>5. \A k \in 1 .. m : k \in 1 .. m + n /\ c[k] = s[k]
  BY <1>1, <1>2, <1>3
<1>6. \A k \in 1 .. n : m + k \in 1 .. m + n /\ c[m + k] = t[k]
  BY <1>1, <1>2, <1>3
<1>7. \A k \in 1 .. m + n : k \in 1 .. m \/ (k - m \in 1 .. n /\ k = m + (k - m))
  OBVIOUS
<1>8. ASSUME FatalLast(c)
      PROVE  FatalLast(s) /\ FatalLast(t) /\ ("fatal" \in Kinds(s) => Kinds(t) \subseteq Last2)
  <2>1. \A k, l \in 1 .. m + n : k < l /\ c[k].kind = "fatal" => c[l].kind \in Last2
    BY <1>4, <1>8 DEF FatalLast
  <2>2. FatalLast(s)
    BY <1>4, <1>5, <2>1 DEF FatalLast
  <2>3. FatalLast(t)
    <3>1. \A k, l \in 1 .. n : k < l => m + k < m + l
      OBVIOUS
    <3> QED
      BY <1>4, <1>6, <2>1, <3>1 DEF FatalLast
  <2>4. ASSUME "fatal" \in Kinds(s), NEW l \in 1 .. n PROVE t[l].kind \in Last2
    <3>1. PICK k \in 1 .. m : s[k].kind = "fatal"
      BY <1>4, <2>4 DEF Kinds
    <3>2. k < m + l
      OBVIOUS
    <3> QED
      BY <1>5, <1>6, <2>1, <3>1, <3>2
  <2> QED
    BY <1>4, <2>2, <2>3, <2>4 DEF Kinds
<1>9. ASSUME FatalLast(s), FatalLast(t), "fatal" \in Kinds(s) => Kinds(t) \subseteq Last2
      PROVE  FatalLast(c)
  <2>1. SUFFICES ASSUME NEW k \in 1 .. m + n, NEW l \in 1 .. m + n, k < l, c[k].kind = "fatal"
                 PROVE  c[l].kind \in Last2
    BY <1>4 DEF FatalLast
  <2>2. CASE l \in 1 .. m
    <3>1. k \in 1 .. m
      BY <2>1, <2>2
    <3> QED
      BY <1>4, <1>5, <1>9, <2>1, <2>2, <3>1 DEF FatalLast
  <2>3. CASE l \notin 1 .. m
    <3>1. l - m \in 1 .. n /\ c[l] = t[l - m]
      BY <1>6, <1>7, <2>3
    <3>2. CASE k \in 1 .. m
      BY <1>4, <1>5, <2>1, <3>2, <3>1, <1>9 DEF Kinds
    <3>3. CASE k \notin 1 .. m
      <4>1. k - m \in 1 .. n /\ c[k] = t[k - m] /\ k - m < l - m
        BY <1>6, <1>7, <2>1, <3>3
      <4> QED
        BY <1>4, <1>9, <2>1, <3>1, <4>1 DEF FatalLast
    <3> QED
      BY <3>2, <3>3
  <2> QED
    BY <2>2, <2>3
<1> QED
  BY <1>3, <1>8, <1>9

\* Errors are the last of one unit, and of what is sifted
LEMMA FatalFacts ==
    /\ FatalLast(<<>>)
    /\ \A u \in Units : FatalLast(<<u>>)
    /\ \A s \in Seq(Units) : FatalLast(s) /\ "ready" \notin Kinds(s) => HadFatal(s) = HadFatalC(s)
    /\ \A kinds : \A s \in Seq(Units) : FatalLast(s) => FatalLast(Sift(s, kinds))
<1>1. FatalLast(<<>>)
  BY DEF FatalLast
<1>2. ASSUME NEW u \in Units PROVE FatalLast(<<u>>)
  BY DEF FatalLast
<1>3. ASSUME NEW s \in Seq(Units), FatalLast(s), "ready" \notin Kinds(s)
      PROVE  HadFatal(s) = HadFatalC(s)
  <2>1. CASE s = <<>>
    BY <2>1, KindsFacts DEF HadFatal, HadFatalC
  <2>2. CASE s # <<>>
    BY <2>2, <1>3 DEF Last, HadFatal, Kinds, FatalLast, Last2, HadFatalC
  <2> QED
    BY <2>1, <2>2
<1>4. ASSUME NEW kinds PROVE \A s \in Seq(Units) : FatalLast(s) => FatalLast(Sift(s, kinds))
  <2> DEFINE P == {s \in Seq(Units) : FatalLast(s) => FatalLast(Sift(s, kinds))}
  <2>1. <<>> \in P
    BY <1>1, SiftStep
  <2>2. ASSUME NEW s \in Seq(Units), s \in P, NEW u \in Units PROVE Append(s, u) \in P
    <3>1. /\ <<u>> \in Seq(Units) /\ Append(s, u) \in Seq(Units) /\ Append(s, u) = s \o <<u>>
          /\ Sift(s, kinds) \in Seq(Units) /\ Append(Sift(s, kinds), u) = Sift(s, kinds) \o <<u>>
      BY CatFacts, SiftKinds
    <3>2. Kinds(Sift(s, kinds)) = Kinds(s) \ kinds
      BY SiftKinds
    <3>3. SUFFICES ASSUME FatalLast(Append(s, u)) PROVE FatalLast(Sift(Append(s, u), kinds))
      BY <3>1
    <3>4. FatalLast(s) /\ ("fatal" \in Kinds(s) => Kinds(<<u>>) \subseteq Last2)
      BY <3>1, <3>3, FatalCat
    <3>5. FatalLast(Sift(s, kinds))
      BY <2>2, <3>4
    <3>a. PICK w \in Seq(Units) : w = <<u>>
      BY <3>1
    <3>b. PICK r \in Seq(Units) : r = Sift(s, kinds)
      BY <3>1
    <3>c. FatalLast(w) /\ FatalLast(r) /\ ("fatal" \in Kinds(r) => Kinds(w) \subseteq Last2)
      BY <1>2, <3>2, <3>4, <3>5, <3>a, <3>b
    <3>d. FatalLast(r \o w)
      BY <3>c, FatalCat
    <3>6. FatalLast(Append(Sift(s, kinds), u))
      BY <3>1, <3>a, <3>b, <3>d
    <3>7. Sift(Append(s, u), kinds) =
            IF u.kind \in kinds THEN Sift(s, kinds) ELSE Append(Sift(s, kinds), u)
      BY SiftStep
    <3> QED
      BY <3>5, <3>6, <3>7
  <2> HIDE DEF P
  <2>3. \A s \in Seq(Units) : s \in P
    BY <2>1, <2>2, AllSequences
  <2> QED
    BY <2>3 DEF P
<1> QED
  BY <1>1, <1>2, <1>3, <1>4

\* The end of two sequences
LEMMA EndCat ==
    \A s, t \in Seq(Units) :
        Ending(s \o t) <=> IF t = <<>> THEN Ending(s) ELSE Unended(s) /\ Ending(t)
<1> SUFFICES ASSUME NEW s \in Seq(Units), NEW t \in Seq(Units)
             PROVE  Ending(s \o t) <=> IF t = <<>> THEN Ending(s) ELSE Unended(s) /\ Ending(t)
  OBVIOUS
<1>1. CASE t = <<>>
  BY <1>1, CatFacts
<1>2. CASE t # <<>>
  <2>1. PICK m \in Nat : m = Len(s)
    OBVIOUS
  <2>2. PICK n \in Nat : n = Len(t) /\ n # 0
    BY <1>2
  <2>a. s \o t \in Seq(Units) /\ s \o t # <<>>
    BY <1>2
  <2>3. PICK c \in Seq(Units) : c = s \o t /\ c # <<>>
    BY <2>a
  <2>4. /\ DOMAIN s = 1 .. m /\ DOMAIN t = 1 .. n /\ DOMAIN c = 1 .. m + n
        /\ Len(c) = m + n
    BY <2>1, <2>2, <2>3
  <2>5. \A k \in 1 .. m : k \in 1 .. m + n /\ c[k] = s[k] /\ k # m + n
    BY <2>1, <2>2, <2>3
  <2>b. \A k \in 1 .. n : m + k \in 1 .. m + n /\ c[m + k] = t[k]
    BY <2>1, <2>2, <2>3
  <2>c. \A k \in 1 .. n : m + k = m + n <=> k = n
    OBVIOUS
  <2>6. \A k \in 1 .. n : m + k \in 1 .. m + n /\ c[m + k] = t[k] /\ (m + k = m + n <=> k = n)
    BY <2>b, <2>c
  <2>7. \A k \in 1 .. m + n : k \in 1 .. m \/ (k - m \in 1 .. n /\ k = m + (k - m))
    OBVIOUS
  <2>8. ASSUME Ending(c) PROVE Unended(s) /\ Ending(t)
    <3>1. \A k \in 1 .. m + n : c[k].kind \in Finals <=> k = m + n
      BY <2>4, <2>8 DEF Ending
    <3>2. \A k \in 1 .. m : s[k].kind \notin Finals
      BY <2>5, <3>1
    <3>3. \A k \in 1 .. n : t[k].kind \in Finals <=> k = n
      BY <2>6, <3>1
    <3>4. Unended(s)
      BY <2>4, <3>2 DEF Unended, Kinds
    <3> QED
      BY <1>2, <2>2, <2>4, <3>3, <3>4 DEF Ending
  <2>9. ASSUME Unended(s), Ending(t) PROVE Ending(c)
    <3>1. \A k \in 1 .. m : s[k].kind \notin Finals
      BY <2>4, <2>9 DEF Unended, Kinds
    <3>2. \A k \in 1 .. n : t[k].kind \in Finals <=> k = n
      BY <2>2, <2>4, <2>9 DEF Ending
    <3>3. ASSUME NEW k \in 1 .. m + n PROVE c[k].kind \in Finals <=> k = m + n
      <4>1. CASE k \in 1 .. m
        BY <2>5, <3>1, <4>1
      <4>2. CASE k \notin 1 .. m
        <5>1. k - m \in 1 .. n /\ k = m + (k - m)
          BY <2>7, <4>2
        <5> QED
          BY <2>6, <3>2, <5>1
      <4> QED
        BY <4>1, <4>2
    <3> QED
      BY <2>3, <2>4, <3>3 DEF Ending
  <2> QED
    BY <1>2, <2>3, <2>8, <2>9
<1> QED
  BY <1>1, <1>2

\* The end of one unit, of a unit more, and of what is sifted
LEMMA EndFacts ==
    /\ \A u \in Units : Ending(<<u>>) <=> u.kind \in Finals
    /\ \A s \in Seq(Units) : \A u \in Units :
          Ending(Append(s, u)) <=> Unended(s) /\ u.kind \in Finals
    /\ \A s \in Seq(Units) : Ending(s) => Ending(Sift(s, {"part"})) /\ Kinds(s) \cap Finals # {}
<1>1. ASSUME NEW u \in Units PROVE Ending(<<u>>) <=> u.kind \in Finals
  BY DEF Ending
<1>2. ASSUME NEW s \in Seq(Units), NEW u \in Units
      PROVE  Ending(Append(s, u)) <=> Unended(s) /\ u.kind \in Finals
  <2>1. <<u>> \in Seq(Units) /\ <<u>> # <<>> /\ Append(s, u) = s \o <<u>>
    BY CatFacts
  <2>2. PICK w \in Seq(Units) : w = <<u>>
    BY <2>1
  <2>3. Ending(w) <=> u.kind \in Finals
    BY <1>1, <2>2
  <2>4. Ending(s \o w) <=> Unended(s) /\ Ending(w)
    BY <2>1, <2>2, EndCat
  <2> QED
    BY <2>1, <2>2, <2>3, <2>4
<1>3. ASSUME NEW s \in Seq(Units), Ending(s)
      PROVE  Ending(Sift(s, {"part"})) /\ Kinds(s) \cap Finals # {}
  <2>1. s # <<>>
    BY <1>3 DEF Ending
  <2>2. PICK q \in Seq(Units) : \E u \in Units : s = Append(q, u)
    BY <2>1, HasLast
  <2>3. PICK u \in Units : s = Append(q, u)
    BY <2>2
  <2>4. Unended(q) /\ u.kind \in Finals
    BY <1>2, <1>3, <2>3
  <2>5. Sift(s, {"part"}) = Append(Sift(q, {"part"}), u)
    BY <2>3, <2>4, SiftStep DEF Finals
  <2>6. Sift(q, {"part"}) \in Seq(Units) /\ Kinds(Sift(q, {"part"})) \subseteq Kinds(q)
    BY SiftKinds
  <2>7. Unended(Sift(q, {"part"}))
    BY <2>4, <2>6 DEF Unended
  <2>8. Ending(Append(Sift(q, {"part"}), u))
    BY <1>2, <2>4, <2>6, <2>7
  <2>9. Kinds(Append(q, u)) = Kinds(q) \cup {u.kind}
    BY KindsFacts
  <2>10. Kinds(s) \cap Finals # {}
    BY <2>3, <2>4, <2>9
  <2> QED
    BY <2>5, <2>8, <2>10
<1> QED
  BY <1>1, <1>2, <1>3

\* What comes in four parts: each of the parts may be moved on
LEMMA IncomingMoves ==
    \A a, b, d, o \in Seq(Units) :
        /\ Incoming(a, b, d, o) \in Seq(Units)
        /\ Kinds(Incoming(a, b, d, o)) = Kinds(a) \cup Kinds(b) \cup Kinds(d) \cup Kinds(o)
        /\ Incoming(a, b \o d, <<>>, o) = Incoming(a, b, d, o)
        /\ Incoming(a, b, d, o) = <<>> <=> a = <<>> /\ b = <<>> /\ d = <<>> /\ o = <<>>
<1> SUFFICES ASSUME NEW a \in Seq(Units), NEW b \in Seq(Units), NEW d \in Seq(Units),
                    NEW o \in Seq(Units)
    PROVE  /\ Incoming(a, b, d, o) \in Seq(Units)
           /\ Kinds(Incoming(a, b, d, o)) = Kinds(a) \cup Kinds(b) \cup Kinds(d) \cup Kinds(o)
           /\ Incoming(a, b \o d, <<>>, o) = Incoming(a, b, d, o)
           /\ Incoming(a, b, d, o) = <<>> <=> a = <<>> /\ b = <<>> /\ d = <<>> /\ o = <<>>
  OBVIOUS
<1>a. CatSame(a, b, d)
  BY UnitsCat
<1>1. PICK ab \in Seq(Units) : ab = a \o b
  BY CatFacts
<1>2. PICK do \in Seq(Units) : do = d \o o
  BY CatFacts
<1>3. Incoming(a, b, d, o) = ab \o do
  BY <1>1, <1>2 DEF Incoming
<1>4. Kinds(ab \o do) = Kinds(a) \cup Kinds(b) \cup Kinds(d) \cup Kinds(o)
  <2>1. Kinds(ab) = Kinds(a) \cup Kinds(b)
    BY <1>1, KindsFacts
  <2>2. Kinds(do) = Kinds(d) \cup Kinds(o)
    BY <1>2, KindsFacts
  <2>3. Kinds(ab \o do) = Kinds(ab) \cup Kinds(do)
    BY KindsFacts
  <2> QED
    BY <2>1, <2>2, <2>3
<1>5. Incoming(a, b \o d, <<>>, o) = Incoming(a, b, d, o)
  <2>1. b \o d \in Seq(Units) /\ <<>> \o o = o
    BY CatFacts
  <2>a. CatSame(ab, d, o)
    BY UnitsCat
  <2>2. a \o (b \o d) = ab \o d
    BY <1>1, <1>a DEF CatSame
  <2>3. (ab \o d) \o o = ab \o do
    BY <1>2, <2>a DEF CatSame
  <2> QED
    BY <1>3, <2>1, <2>2, <2>3 DEF Incoming
<1>6. ab \o do \in Seq(Units) /\ (ab \o do = <<>> <=> ab = <<>> /\ do = <<>>)
  BY CatFacts
<1>7. (ab = <<>> <=> a = <<>> /\ b = <<>>) /\ (do = <<>> <=> d = <<>> /\ o = <<>>)
  BY <1>1, <1>2, CatFacts
<1> QED
  BY <1>3, <1>4, <1>5, <1>6, <1>7

\* The server has more to write, and writes it
More(a, b, d, o, w) == Incoming(a, b, d, o \o w) = Incoming(a, b, d, o) \o w

\* What it adds comes last of all that will have been received
LEMMA IncomingMore == \A a, b, d, o, w \in Seq(Units) : More(a, b, d, o, w)
<1> SUFFICES ASSUME NEW a \in Seq(Units), NEW b \in Seq(Units), NEW d \in Seq(Units),
                    NEW o \in Seq(Units), NEW w \in Seq(Units)
             PROVE  More(a, b, d, o, w)
  OBVIOUS
<1>1. CatSame(d, o, w)
  BY UnitsCat
<1>2. PICK ab \in Seq(Units) : ab = a \o b
  BY CatFacts
<1>3. PICK do \in Seq(Units) : do = d \o o
  BY CatFacts
<1>4. d \o (o \o w) = do \o w
  BY <1>1, <1>3 DEF CatSame
<1>5. CatSame(ab, do, w)
  BY UnitsCat
<1> QED
  BY <1>2, <1>3, <1>4, <1>5 DEF Incoming, CatSame, More

\* The server writes what it has to write
Sent(a, b, d, o) == Incoming(a, b, Append(d, Head(o)), Tail(o)) = Incoming(a, b, d, o)

\* A write changes nothing of what will have been received
LEMMA IncomingSent == \A a, b, d, o \in Seq(Units) : o # <<>> => Sent(a, b, d, o)
  BY MoveHead DEF Incoming, Sent

\* Errors are the last of the four parts
Follows(s, t) == "fatal" \in Kinds(s) => Kinds(t) \subseteq Last2

\* So they are in the whole when they are in each part, and the parts follow each other so
LEMMA IncomingFatal ==
    \A a, b, d, o \in Seq(Units) :
        FatalLast(Incoming(a, b, d, o)) <=>
            /\ FatalLast(a) /\ FatalLast(b) /\ FatalLast(d) /\ FatalLast(o)
            /\ Follows(a, b) /\ Follows(a, d) /\ Follows(a, o)
            /\ Follows(b, d) /\ Follows(b, o) /\ Follows(d, o)
<1> SUFFICES ASSUME NEW a \in Seq(Units), NEW b \in Seq(Units), NEW d \in Seq(Units),
                    NEW o \in Seq(Units)
    PROVE  FatalLast(Incoming(a, b, d, o)) <=>
            /\ FatalLast(a) /\ FatalLast(b) /\ FatalLast(d) /\ FatalLast(o)
            /\ Follows(a, b) /\ Follows(a, d) /\ Follows(a, o)
            /\ Follows(b, d) /\ Follows(b, o) /\ Follows(d, o)
  OBVIOUS
<1>1. PICK ab \in Seq(Units) : ab = a \o b
  BY CatFacts
<1>2. PICK do \in Seq(Units) : do = d \o o
  BY CatFacts
<1>3. Incoming(a, b, d, o) = ab \o do
  BY <1>1, <1>2 DEF Incoming
<1>4. Kinds(ab) = Kinds(a) \cup Kinds(b) /\ Kinds(do) = Kinds(d) \cup Kinds(o)
  BY <1>1, <1>2, KindsFacts
<1>5. FatalLast(ab) <=> FatalLast(a) /\ FatalLast(b) /\ Follows(a, b)
  BY <1>1, FatalCat DEF Follows
<1>6. FatalLast(do) <=> FatalLast(d) /\ FatalLast(o) /\ Follows(d, o)
  BY <1>2, FatalCat DEF Follows
<1>7. FatalLast(ab \o do) <=> FatalLast(ab) /\ FatalLast(do) /\ Follows(ab, do)
  BY FatalCat DEF Follows
<1>8. Follows(ab, do) <=> Follows(a, d) /\ Follows(a, o) /\ Follows(b, d) /\ Follows(b, o)
  BY <1>4 DEF Follows
<1> QED
  BY <1>3, <1>5, <1>6, <1>7, <1>8

\* The end of the four parts
LEMMA IncomingEnd ==
    \A a, b, d, o \in Seq(Units) :
        Ending(Incoming(a, b, d, o)) <=>
            IF d = <<>> /\ o = <<>>
            THEN IF b = <<>> THEN Ending(a) ELSE Unended(a) /\ Ending(b)
            ELSE Unended(a) /\ Unended(b) /\ Ending(d \o o)
<1> SUFFICES ASSUME NEW a \in Seq(Units), NEW b \in Seq(Units), NEW d \in Seq(Units),
                    NEW o \in Seq(Units)
    PROVE  Ending(Incoming(a, b, d, o)) <=>
            IF d = <<>> /\ o = <<>>
            THEN IF b = <<>> THEN Ending(a) ELSE Unended(a) /\ Ending(b)
            ELSE Unended(a) /\ Unended(b) /\ Ending(d \o o)
  OBVIOUS
<1>1. PICK ab \in Seq(Units) : ab = a \o b
  BY CatFacts
<1>2. PICK do \in Seq(Units) : do = d \o o
  BY CatFacts
<1>3. Incoming(a, b, d, o) = ab \o do
  BY <1>1, <1>2 DEF Incoming
<1>4. do = <<>> <=> d = <<>> /\ o = <<>>
  BY <1>2, CatFacts
<1>5. Unended(ab) <=> Unended(a) /\ Unended(b)
  BY <1>1, KindsFacts DEF Unended
<1>6. Ending(ab) <=> IF b = <<>> THEN Ending(a) ELSE Unended(a) /\ Ending(b)
  BY <1>1, EndCat
<1>7. Ending(ab \o do) <=> IF do = <<>> THEN Ending(ab) ELSE Unended(ab) /\ Ending(do)
  BY EndCat
<1> QED
  BY <1>2, <1>3, <1>4, <1>5, <1>6, <1>7

-----------------------------------------------------------------------------
(* What is returned of what was read *)

\* The results a2 and the input b2 are got from a and b: nothing is added, errors
\* stay the last, and what the server has said is still all there
Taken(a, b, a2, b2, d, o) ==
    /\ a2 \in Seq(Units) /\ b2 \in Seq(Units)
    /\ Kinds(Incoming(a2, b2, d, o)) \subseteq Kinds(Incoming(a, b, d, o))
    /\ FatalLast(Incoming(a, b, d, o)) => FatalLast(Incoming(a2, b2, d, o))
    /\ a2 \o Sift(b2 \o d, Silent) = a \o Sift(b \o d, Silent)
    /\ "ready" \notin Kinds(a) => "ready" \notin Kinds(a2)

\* The kinds of two sequences, and the sequences that have none
LEMMA KindsCat == \A s, t \in Seq(Units) : Kinds(s \o t) = Kinds(s) \cup Kinds(t)
  BY KindsFacts

\* Only the empty sequence has no kind
LEMMA KindsNone == Kinds(<<>>) = {} /\ \A s \in Seq(Units) : Kinds(s) = {} => s = <<>>
  BY KindsFacts

\* The kinds of what comes in four parts
LEMMA IncomingKinds ==
    \A a, b, d, o \in Seq(Units) :
        Kinds(Incoming(a, b, d, o)) = Kinds(a) \cup Kinds(b) \cup Kinds(d) \cup Kinds(o)
  BY IncomingMoves

\* Putting sequences together
LEMMA UnitsTyped == \A s, t \in Seq(Units) : s \o t \in Seq(Units)
  OBVIOUS

\* The empty sequence adds nothing
LEMMA UnitsNothing ==
    /\ <<>> \in Seq(Units)
    /\ \A s \in Seq(Units) : s \o <<>> = s /\ <<>> \o s = s
<1>1. <<>> \in Seq(Units)
  OBVIOUS
<1> QED
  BY <1>1, CatFacts

\* f and g are the first e and the other of the n elements of u: they make it up
PutTogether(f, g, u, e, n) ==
    /\ f \in Seq(Units) /\ g \in Seq(Units) /\ u \in Seq(Units)
    /\ n \in Nat /\ e \in 0 .. n /\ Len(f) = e /\ Len(g) = n - e /\ Len(u) = n
    /\ \A k \in 1 .. e : f[k] = u[k]
    /\ \A k \in 1 .. n - e : g[k] = u[e + k]

\* It is the concatenation
LEMMA JoinedBoth ==
    ASSUME NEW f, NEW g, NEW u, NEW e, NEW n, PutTogether(f, g, u, e, n)
    PROVE  u = f \o g
<1>1. u \in Seq(Units) /\ Len(u) = n
  BY DEF PutTogether
<1>2. n \in Nat /\ e \in 0 .. n
  BY DEF PutTogether
<1>3. f \in Seq(Units) /\ g \in Seq(Units) /\ Len(f) = e /\ Len(g) = n - e
  BY DEF PutTogether
<1>4. /\ \A k \in 1 .. e : f[k] = u[k]
      /\ \A k \in 1 .. n - e : g[k] = u[e + k]
  BY DEF PutTogether
<1>a. /\ f \o g \in Seq(Units) /\ Len(f \o g) = Len(f) + Len(g)
      /\ \A k \in 1 .. Len(f) + Len(g) :
            (f \o g)[k] = IF k <= Len(f) THEN f[k] ELSE g[k - Len(f)]
  BY <1>3, ConcatProperties
<1>5. /\ f \o g \in Seq(Units) /\ Len(f \o g) = e + (n - e)
      /\ \A k \in 1 .. e + (n - e) : (f \o g)[k] = IF k <= e THEN f[k] ELSE g[k - e]
  BY <1>3, <1>a
<1>6. ASSUME NEW k \in 1 .. n PROVE (f \o g)[k] = u[k]
  BY <1>2, <1>5, <1>4
<1> QED
  <2>1. e + (n - e) = n
    BY <1>2
  <2> QED
    BY <1>1, <1>5, <1>6, <2>1, SeqEqual

\* A sequence is what is before a place in it, and what is after
LEMMA SplitBoth ==
    ASSUME NEW u \in Seq(Units), NEW n \in Nat, n = Len(u), NEW e \in 0 .. n
    PROVE  \E f, g \in Seq(Units) :
              /\ f = SubSeq(u, 1, e) /\ g = SubSeq(u, e + 1, Len(u))
              /\ u = f \o g /\ Len(f) = e
<1>1. PICK f : f = SubSeq(u, 1, e)
  OBVIOUS
<1>2. PICK g : g = SubSeq(u, e + 1, Len(u))
  OBVIOUS
<1>3. f \in Seq(Units) /\ g \in Seq(Units) /\ Len(f) = e /\ Len(g) = n - e
  BY <1>1, <1>2
<1>4. /\ \A k \in 1 .. e : f[k] = u[k]
      /\ \A k \in 1 .. n - e : g[k] = u[e + k]
  BY <1>1, <1>2
<1>5. PutTogether(f, g, u, e, n)
  BY <1>3, <1>4 DEF PutTogether
<1>6. u = f \o g
  BY <1>5, JoinedBoth
<1> QED
  BY <1>1, <1>2, <1>3, <1>6, Zenon

\* A place in a sequence is the last one of what is before
LEMMA SplitAt ==
    ASSUME NEW u \in Seq(Units), NEW e \in DOMAIN u
    PROVE  \E p, r \in Seq(Units) :
              /\ p = SubSeq(u, 1, e) /\ r = SubSeq(u, e + 1, Len(u))
              /\ u = p \o r /\ u[e].kind \in Kinds(p)
<1>1. PICK n \in Nat : n = Len(u)
  OBVIOUS
<1>2. e \in 1 .. n /\ e \in 0 .. n
  BY <1>1
<1>3. \E f, g \in Seq(Units) :
              /\ f = SubSeq(u, 1, e) /\ g = SubSeq(u, e + 1, Len(u))
              /\ u = f \o g /\ Len(f) = e
  BY <1>1, <1>2, SplitBoth, ZenonT(40)
<1>4. PICK f \in Seq(Units), g \in Seq(Units) :
              /\ f = SubSeq(u, 1, e) /\ g = SubSeq(u, e + 1, Len(u))
              /\ u = f \o g /\ Len(f) = e
  BY <1>3
<1>5. e \in DOMAIN f /\ f[e] = u[e]
  BY <1>1, <1>2, <1>4, SMTT(40)
<1>6. u[e].kind \in Kinds(f)
  BY <1>5 DEF Kinds
<1> QED
  BY <1>4, <1>6, Zenon

\* Four sequences put together in two ways
CatSame4(a, b, c, d) == (a \o b) \o (c \o d) = a \o ((b \o c) \o d)

\* ... whatever the sequences
LEMMA UnitsCat4 == \A a, b, c, d \in Seq(Units) : CatSame4(a, b, c, d)
<1> SUFFICES ASSUME NEW a \in Seq(Units), NEW b \in Seq(Units), NEW c \in Seq(Units),
                    NEW d \in Seq(Units)
             PROVE  CatSame4(a, b, c, d)
  OBVIOUS
<1>1. PICK cd \in Seq(Units) : cd = c \o d
  BY CatFacts
<1>2. CatSame(a, b, cd) /\ CatSame(b, c, d)
  BY UnitsCat
<1> QED
  BY <1>1, <1>2 DEF CatSame, CatSame4

\* All the input is returned, but parts of results
LEMMA TakenAll ==
    ASSUME NEW a \in Seq(Units), NEW b \in Seq(Units), NEW d \in Seq(Units),
           NEW o \in Seq(Units), NEW u \in Seq(Units), u = Complete(b), "ready" \notin Kinds(b)
    PROVE  /\ Taken(a, b, a \o u, <<>>, d, o)
           /\ Ending(Incoming(a, b, d, o)) => Ending(Incoming(a \o u, <<>>, d, o))
<1>1. u \in Seq(Units) /\ Kinds(u) = Kinds(b) \ {"part"}
  BY SiftKinds DEF Complete
<1>a. <<>> \in Seq(Units)
  OBVIOUS
<1>b. PICK z \in Seq(Units) : z = <<>>
  BY <1>a
<1>2. Kinds(z) = {}
  BY <1>b, KindsNone
<1>3. PICK v \in Seq(Units) : v = a \o u
  BY <1>1, CatFacts
<1>4. Kinds(v) = Kinds(a) \cup Kinds(u)
  BY <1>1, <1>3, KindsFacts
<1>5. /\ Kinds(Incoming(v, z, d, o)) = Kinds(v) \cup Kinds(d) \cup Kinds(o)
      /\ Kinds(Incoming(a, b, d, o)) = Kinds(a) \cup Kinds(b) \cup Kinds(d) \cup Kinds(o)
  <2>1. Kinds(Incoming(v, z, d, o)) = Kinds(v) \cup Kinds(z) \cup Kinds(d) \cup Kinds(o)
    BY IncomingKinds
  <2> QED
    BY <1>2, <2>1, IncomingKinds
<1>6. ASSUME FatalLast(Incoming(a, b, d, o)) PROVE FatalLast(Incoming(v, z, d, o))
  <2>1. /\ FatalLast(a) /\ FatalLast(b) /\ FatalLast(d) /\ FatalLast(o)
        /\ Follows(a, b) /\ Follows(a, d) /\ Follows(a, o)
        /\ Follows(b, d) /\ Follows(b, o) /\ Follows(d, o)
    BY <1>6, IncomingFatal
  <2>2. FatalLast(u)
    BY <2>1, FatalFacts DEF Complete
  <2>3. Follows(a, u)
    BY <1>1, <2>1 DEF Follows
  <2>4. FatalLast(v)
    BY <1>1, <1>3, <2>1, <2>2, <2>3, FatalCat DEF Follows
  <2>5. Follows(v, z) /\ Follows(v, d) /\ Follows(v, o) /\ Follows(z, d) /\ Follows(z, o)
    BY <1>1, <1>2, <1>4, <2>1 DEF Follows
  <2> QED
    BY <1>b, <2>1, <2>4, <2>5, FatalFacts, IncomingFatal
<1>7. v \o Sift(z \o d, Silent) = a \o Sift(b \o d, Silent)
  <2>1. Sift(b, Silent) = u
    <3>1. Sift(Sift(b, {"part"}), {"ready"}) = Sift(b, {"part"} \cup {"ready"})
      BY SiftTwice
    <3>2. Kinds(u) \cap {"ready"} = {} /\ {"part"} \cup {"ready"} = Silent
      BY <1>1 DEF Silent
    <3>3. Sift(u, {"ready"}) = u
      BY <1>1, <3>2, SiftTwice
    <3> QED
      BY <3>1, <3>2, <3>3 DEF Complete
  <2>2. PICK w \in Seq(Units) : w = Sift(d, Silent)
    BY SiftKinds
  <2>b. Sift(b \o d, Silent) = Sift(b, Silent) \o Sift(d, Silent)
    BY SiftCat
  <2>3. Sift(b \o d, Silent) = u \o w
    BY <2>1, <2>2, <2>b
  <2>a. Sift(z \o d, Silent) = w
    BY <1>b, <2>2, UnitsNothing
  <2>4. CatSame(a, u, w)
    BY <1>1, UnitsCat
  <2> QED
    BY <1>3, <2>3, <2>a, <2>4 DEF CatSame
<1>8. ASSUME Ending(Incoming(a, b, d, o)) PROVE Ending(Incoming(v, z, d, o))
  <2>1. CASE d = <<>> /\ o = <<>>
    <3>1. CASE b = <<>>
      BY <1>1, <1>b, <1>2, <3>1, KindsNone, <1>3, UnitsNothing, <1>8
    <3>2. CASE b # <<>>
      <4>1. Unended(a) /\ Ending(b)
        BY <1>8, <2>1, <3>2, IncomingEnd
      <4>2. Ending(u) /\ u # <<>>
        BY <4>1, EndFacts DEF Complete, Ending
      <4>3. Ending(v)
        BY <1>1, <1>3, <4>1, <4>2, EndCat
      <4> QED
        BY <1>b, <2>1, <4>3, IncomingEnd
    <3> QED
      BY <3>1, <3>2
  <2>2. CASE ~(d = <<>> /\ o = <<>>)
    <3>1. Unended(a) /\ Unended(b) /\ Ending(d \o o)
      BY <1>8, <2>2, IncomingEnd
    <3>2. Unended(v) /\ Unended(z)
      BY <1>1, <1>2, <1>4, <3>1 DEF Unended
    <3> QED
      BY <2>2, <3>1, <3>2, IncomingEnd
  <2> QED
    BY <2>1, <2>2
<1>9. "ready" \notin Kinds(a) => "ready" \notin Kinds(v)
  BY <1>1, <1>4
<1> QED
  BY <1>b, <1>1, <1>2, <1>3, <1>4, <1>5, <1>6, <1>7, <1>8, <1>9 DEF Taken

\* The input is returned up to the end of the results
LEMMA TakenEnd ==
    ASSUME NEW a \in Seq(Units), NEW b \in Seq(Units), NEW d \in Seq(Units),
           NEW o \in Seq(Units), NEW u \in Seq(Units), u = Complete(b),
           NEW p \in Seq(Units), NEW r \in Seq(Units), u = p \o r, Kinds(p) \cap Finals # {}
    PROVE  /\ Taken(a, b, a \o Sift(p, {"ready"}), r, d, o)
           /\ Kinds(b) \cap Finals # {}
           /\ Ending(Incoming(a, b, d, o)) => r = <<>> /\ d = <<>> /\ o = <<>>
<1>1. u \in Seq(Units) /\ Kinds(u) = Kinds(b) \ {"part"}
  BY SiftKinds DEF Complete
<1>2. u = p \o r /\ Kinds(p) \cap Finals # {}
  OBVIOUS
<1>3. Kinds(u) = Kinds(p) \cup Kinds(r)
  BY <1>2, KindsCat
<1>4. PICK q \in Seq(Units) : q = Sift(p, {"ready"})
  BY <1>2, SiftKinds
<1>5. Kinds(q) = Kinds(p) \ {"ready"}
  BY <1>2, <1>4, SiftKinds
<1>6. PICK v \in Seq(Units) : v = a \o q
  BY CatFacts
<1>7. Kinds(v) = Kinds(a) \cup Kinds(q)
  BY <1>6, KindsFacts
<1>8. Kinds(Incoming(v, r, d, o)) \subseteq Kinds(Incoming(a, b, d, o))
  <2>1. Kinds(Incoming(v, r, d, o)) = Kinds(v) \cup Kinds(r) \cup Kinds(d) \cup Kinds(o)
    BY IncomingKinds
  <2>2. Kinds(Incoming(a, b, d, o)) = Kinds(a) \cup Kinds(b) \cup Kinds(d) \cup Kinds(o)
    BY IncomingKinds
  <2> QED
    BY <1>1, <1>3, <1>5, <1>7, <2>1, <2>2
<1>9. ASSUME FatalLast(Incoming(a, b, d, o)) PROVE FatalLast(Incoming(v, r, d, o))
  <2>1. /\ FatalLast(a) /\ FatalLast(b) /\ FatalLast(d) /\ FatalLast(o)
        /\ Follows(a, b) /\ Follows(a, d) /\ Follows(a, o)
        /\ Follows(b, d) /\ Follows(b, o) /\ Follows(d, o)
    BY <1>9, IncomingFatal
  <2>2. FatalLast(u)
    BY <2>1, FatalFacts DEF Complete
  <2>3. FatalLast(p) /\ FatalLast(r) /\ Follows(p, r)
    BY <1>2, <2>2, FatalCat DEF Follows
  <2>4. FatalLast(q)
    BY <1>2, <1>4, <2>3, FatalFacts
  <2>5. Follows(a, q) /\ Follows(a, r) /\ Follows(q, r) /\ Follows(r, d) /\ Follows(r, o)
          /\ Follows(q, d) /\ Follows(q, o)
    BY <1>1, <1>3, <1>5, <2>1, <2>3 DEF Follows
  <2>6. FatalLast(v)
    BY <1>6, <2>1, <2>4, <2>5, FatalCat DEF Follows
  <2>7. Follows(v, r) /\ Follows(v, d) /\ Follows(v, o)
    BY <1>7, <2>1, <2>5 DEF Follows
  <2> QED
    BY <1>2, <2>1, <2>3, <2>5, <2>6, <2>7, IncomingFatal
<1>10. v \o Sift(r \o d, Silent) = a \o Sift(b \o d, Silent)
  <2>1. {"part"} \cup {"ready"} = Silent
    BY DEF Silent
  <2>2. Sift(b, Silent) = Sift(u, {"ready"})
    <3>1. Sift(Sift(b, {"part"}), {"ready"}) = Sift(b, {"part"} \cup {"ready"})
      BY SiftTwice
    <3> QED
      BY <2>1, <3>1 DEF Complete
  <2>3. Sift(r, Silent) = Sift(r, {"ready"})
    <3>1. Kinds(r) \cap {"part"} = {}
      BY <1>1, <1>3
    <3>2. Sift(r, {"part"}) = r
      BY <3>1, SiftTwice
    <3>3. Sift(Sift(r, {"part"}), {"ready"}) = Sift(r, {"part"} \cup {"ready"})
      BY SiftTwice
    <3> QED
      BY <2>1, <3>2, <3>3
  <2>4. PICK w \in Seq(Units) : w = Sift(d, Silent)
    BY SiftKinds
  <2>5. PICK g \in Seq(Units) : g = Sift(r, {"ready"})
    BY SiftKinds
  <2>6. Sift(u, {"ready"}) = q \o g
    <3>1. Sift(p \o r, {"ready"}) = Sift(p, {"ready"}) \o Sift(r, {"ready"})
      BY SiftCat
    <3> QED
      BY <1>2, <1>4, <2>5, <3>1
  <2>7. Sift(b \o d, Silent) = (q \o g) \o w
    <3>1. Sift(b \o d, Silent) = Sift(b, Silent) \o Sift(d, Silent)
      BY SiftCat
    <3> QED
      BY <2>2, <2>4, <2>6, <3>1
  <2>8. Sift(r \o d, Silent) = g \o w
    <3>1. Sift(r \o d, Silent) = Sift(r, Silent) \o Sift(d, Silent)
      BY SiftCat
    <3> QED
      BY <2>3, <2>4, <2>5, <3>1
  <2>9. CatSame4(a, q, g, w)
    BY UnitsCat4
  <2> QED
    BY <1>6, <2>7, <2>8, <2>9 DEF CatSame4
<1>11. "ready" \notin Kinds(a) => "ready" \notin Kinds(v)
  BY <1>5, <1>7
<1>12. Kinds(b) \cap Finals # {}
  BY <1>1, <1>2, <1>3
<1>13. ASSUME Ending(Incoming(a, b, d, o)) PROVE r = <<>> /\ d = <<>> /\ o = <<>>
  <2>1. d = <<>> /\ o = <<>>
    BY <1>12, <1>13, IncomingEnd DEF Unended
  <2>2. b # <<>>
    BY <1>12, KindsFacts
  <2>3. Ending(b)
    BY <1>13, <2>1, <2>2, IncomingEnd
  <2>4. Ending(p \o r)
    BY <1>2, <2>3, EndFacts DEF Complete
  <2>5. ~Unended(p)
    BY <1>2 DEF Unended
  <2> QED
    BY <1>2, <2>1, <2>4, <2>5, EndCat
<1> QED
  BY <1>2, <1>4, <1>6, <1>8, <1>9, <1>10, <1>11, <1>12, <1>13 DEF Taken

-----------------------------------------------------------------------------
(* What comes and goes while a generator is waited for *)

\* What was asked, with so many blocks or commands still to ask, and the answer:
\* results that were taken, input, and what is on its way
Whole(asked, todo, s) == s.failed \/ (todo = 0 /\ asked = <<>>)
Flow(op, todo, asked, a, b, d, s) ==
    /\ s.alive =>
        /\ Asks(asked, op, todo)
        /\ s.failed => op = "copy"
        /\ IF Whole(asked, todo, s)
           THEN /\ Ending(Incoming(a, b, d, s.out))
                /\ s.said # <<>> \/ Kinds(s.out) \ Silent # {}
           ELSE /\ Unended(Incoming(a, b, d, s.out))
                /\ op # "pipeline" => Incoming(a, b, d, s.out) = <<>>
        /\ s.said = a \o Sift(b \o d, Silent)
    /\ "ready" \notin Kinds(a)
    /\ op = "pipeline" => "ready" \notin Kinds(Incoming(a, b, d, s.out))
    /\ op # "pipeline" => FatalLast(Incoming(a, b, d, s.out))

FlowOf(i, n, s) == Flow(i.op, i.todo, Asked(i, n), i.results, i.in, n.down, s)
Typed(i, n, s) == i \in Ios /\ n \in Nets /\ s \in Servers /\ Len(n.up) <= Cap
Busy(i) == i.at \notin {"idle", "done"}

\* That is what holds of the state then
LEMMA BusyFlow ==
    ASSUME NEW i, NEW n, NEW s, Busy(i)
    PROVE  GenHolds(i, n, s) <=> /\ Typed(i, n, s) /\ Places(i)
                                 /\ FlowOf(i, n, s)
                                 /\ i.at \in {"send", "copy"} => i.results = <<>>
BY DEF Places, Busy, Answered, Whole, Received, Exchange, Answering, GenHolds, Typed, FlowOf,
   Flow, Stream

\* Reading keeps it
LEMMA FlowRead ==
    ASSUME NEW op, NEW todo, NEW asked, NEW a \in Seq(Units), NEW b \in Seq(Units),
           NEW d \in Seq(Units), NEW s \in Servers, Flow(op, todo, asked, a, b, d, s)
    PROVE  Flow(op, todo, asked, a, b \o d, <<>>, s)
BY IncomingMoves, UnitsTyped, UnitsNothing DEF Servers, Flow

\* Taking results keeps it
LEMMA FlowTaken ==
    ASSUME NEW op, NEW todo, NEW asked, NEW a \in Seq(Units), NEW b \in Seq(Units),
           NEW d \in Seq(Units), NEW s \in Servers, Flow(op, todo, asked, a, b, d, s),
           NEW a2, NEW b2, Taken(a, b, a2, b2, d, s.out),
           Ending(Incoming(a, b, d, s.out)) => Ending(Incoming(a2, b2, d, s.out))
    PROVE  Flow(op, todo, asked, a2, b2, d, s)
<1> DEFINE I == Incoming(a, b, d, s.out)
           J == Incoming(a2, b2, d, s.out)
<1>1. /\ a2 \in Seq(Units) /\ b2 \in Seq(Units) /\ s.out \in Seq(Units)
      /\ Kinds(J) \subseteq Kinds(I)
      /\ FatalLast(I) => FatalLast(J)
      /\ a2 \o Sift(b2 \o d, Silent) = a \o Sift(b \o d, Silent)
      /\ "ready" \notin Kinds(a) => "ready" \notin Kinds(a2)
  BY DEF Taken, Servers
<1>2. I \in Seq(Units) /\ J \in Seq(Units)
  BY <1>1, IncomingMoves
<1>3. Ending(I) => Ending(J)
  OBVIOUS
<1>4. Unended(I) => Unended(J)
  BY <1>1 DEF Unended
<1>5. I = <<>> => J = <<>>
  BY KindsNone, <1>1, <1>2
<1>6. /\ s.alive =>
        /\ Asks(asked, op, todo)
        /\ s.failed => op = "copy"
        /\ IF Whole(asked, todo, s)
           THEN Ending(I) /\ (s.said # <<>> \/ Kinds(s.out) \ Silent # {})
           ELSE Unended(I) /\ (op # "pipeline" => I = <<>>)
        /\ s.said = a \o Sift(b \o d, Silent)
      /\ "ready" \notin Kinds(a)
      /\ op = "pipeline" => "ready" \notin Kinds(I)
      /\ op # "pipeline" => FatalLast(I)
  BY DEF Flow
<1> HIDE DEF I, J
<1>7. /\ s.alive =>
        /\ Asks(asked, op, todo)
        /\ s.failed => op = "copy"
        /\ IF Whole(asked, todo, s)
           THEN Ending(J) /\ (s.said # <<>> \/ Kinds(s.out) \ Silent # {})
           ELSE Unended(J) /\ (op # "pipeline" => J = <<>>)
        /\ s.said = a2 \o Sift(b2 \o d, Silent)
      /\ "ready" \notin Kinds(a2)
      /\ op = "pipeline" => "ready" \notin Kinds(J)
      /\ op # "pipeline" => FatalLast(J)
  BY <1>1, <1>3, <1>4, <1>5, <1>6
<1> QED
  BY <1>7 DEF J, Flow

\* What ends the results is among what was received: they are whole
LEMMA FlowEnded ==
    ASSUME NEW op, NEW todo, NEW asked, NEW a \in Seq(Units), NEW b \in Seq(Units),
           NEW d \in Seq(Units), NEW s \in Servers, Flow(op, todo, asked, a, b, d, s),
           s.alive, (Kinds(a) \cup Kinds(b)) \cap Finals # {}
    PROVE  /\ Whole(asked, todo, s) /\ Ending(Incoming(a, b, d, s.out))
           /\ Kinds(a) \cap Finals # {} => b = <<>> /\ d = <<>> /\ s.out = <<>>
<1>1. s.out \in Seq(Units)
  BY DEF Servers
<1>2. ~Unended(Incoming(a, b, d, s.out))
  BY <1>1, IncomingKinds DEF Unended
<1>3. Whole(asked, todo, s) /\ Ending(Incoming(a, b, d, s.out))
  BY <1>2 DEF Flow
<1>4. ASSUME Kinds(a) \cap Finals # {} PROVE b = <<>> /\ d = <<>> /\ s.out = <<>>
  <2>1. ~Unended(a)
    BY <1>4 DEF Unended
  <2> QED
    BY <1>1, <1>3, <2>1, IncomingEnd
<1> QED
  BY <1>3, <1>4

\* A block or a command more is put
LEMMA FlowAsked ==
    ASSUME NEW op, NEW todo \in Nat, NEW asked \in Seq(Units), NEW a, NEW b, NEW d, NEW s,
           Flow(op, todo, asked, a, b, d, s), todo # 0,
           NEW u \in Units, u.kind \in KindsOf(op), Trigger(u) <=> todo = 1
    PROVE  Flow(op, todo - 1, Append(asked, u), a, b, d, s)
<1>1. Append(asked, u) # <<>>
  BY CatFacts
<1>2. ASSUME Asks(asked, op, todo) PROVE Asks(Append(asked, u), op, todo - 1)
  <2>1. Kinds(Append(asked, u)) = Kinds(asked) \cup {u.kind}
    BY KindsFacts
  <2>2. PICK n \in Nat : n = Len(asked)
    OBVIOUS
  <2>3. /\ Len(Append(asked, u)) = n + 1 /\ DOMAIN Append(asked, u) = 1 .. n + 1
        /\ DOMAIN asked = 1 .. n
        /\ Append(asked, u)[n + 1] = u
        /\ \A k \in 1 .. n : Append(asked, u)[k] = asked[k]
    BY <2>2
  <2>4. \A k \in 1 .. n : ~Trigger(asked[k])
    BY <1>2, <2>3 DEF Asks
  <2>5. \A k \in 1 .. n + 1 : k \in 1 .. n \/ k = n + 1
    OBVIOUS
  <2>6. todo - 1 = 0 <=> todo = 1
    OBVIOUS
  <2>7. \A k \in 1 .. n : k # n + 1
    OBVIOUS
  <2> DEFINE q == Append(asked, u)
  <2>8. ASSUME NEW k \in 1 .. n + 1 PROVE Trigger(q[k]) <=> todo - 1 = 0 /\ k = n + 1
    BY <2>3, <2>4, <2>7, <2>6, <2>5
  <2> HIDE DEF q
  <2>9. Kinds(q) \subseteq KindsOf(op)
    BY <1>2, <2>1 DEF Asks, q
  <2>10. Len(q) = n + 1 /\ DOMAIN q = 1 .. n + 1
    BY <2>3 DEF q
  <2>11. Asks(q, op, todo - 1)
    BY <2>8, <2>9, <2>10 DEF Asks
  <2> QED
    BY <2>11 DEF q
<1>3. Whole(asked, todo, s) <=> Whole(Append(asked, u), todo - 1, s)
  BY <1>1 DEF Whole
<1> QED
  BY <1>2, <1>3 DEF Flow

\* The generator and the socket
Xs == [io : Ios, net : Nets]
Going(x) == x \in Xs /\ Busy(x.io) /\ GenHolds(x.io, x.net, srv)
Holds(x) == x \in Xs /\ GenHolds(x.io, x.net, srv)

\* The same generator, with others of these
Same(i, j) ==
    /\ j.op = i.op /\ j.at = i.at /\ j.error = i.error /\ j.interrupts = i.interrupts
    /\ j.todo = i.todo /\ j.results = i.results

\* What can be said of a generator that goes on
LEMMA GoingFacts ==
    ASSUME NEW x, Going(x)
    PROVE  /\ x.io \in Ios /\ x.net \in Nets /\ srv \in Servers /\ Len(x.net.up) <= Cap
           /\ x.io.results \in Seq(Units) /\ x.io.in \in Seq(Units) /\ x.io.out \in Seq(Units)
           /\ x.net.up \in Seq(Units) /\ x.net.down \in Seq(Units)
           /\ srv.out \in Seq(Units) /\ srv.alive \in BOOLEAN
           /\ x.io.todo \in Nat
           /\ Places(x.io) /\ x.io.op # "none" /\ x.io.error = "none"
           /\ FlowOf(x.io, x.net, srv)
           /\ x.io.at \in {"send", "copy"} => x.io.results = <<>>
BY BusyFlow DEF Going, Busy, Places, Typed, Ios, Nets, Servers

\* A flow that is kept is what is needed
LEMMA GoingFrom ==
    ASSUME NEW x, NEW y \in Xs, Going(x), Len(y.net.up) <= Cap, Same(x.io, y.io),
           FlowOf(y.io, y.net, srv)
    PROVE  Going(y)
BY GoingFacts, BusyFlow DEF Going, Same, Places, Busy, Xs, Typed

\* PQconsumeInput() keeps what was asked and what was answered
LEMMA ConsumeKeeps ==
    ASSUME NEW x, Going(x)
    PROVE  Going(Consume(x)) /\ Same(x.io, Consume(x).io) /\ Consume(x).io.out = x.io.out
<1>1. /\ x.io \in Ios /\ x.net \in Nets /\ srv \in Servers /\ Len(x.net.up) <= Cap
      /\ x.io.results \in Seq(Units) /\ x.io.in \in Seq(Units) /\ x.net.down \in Seq(Units)
      /\ FlowOf(x.io, x.net, srv)
  BY GoingFacts
<1>2. PICK b \in Seq(Units) : b = x.io.in \o x.net.down
  BY <1>1, UnitsTyped
<1>3. PICK y : y = Consume(x)
  OBVIOUS
<1>4. y = [io |-> [x.io EXCEPT !.in = b], net |-> [x.net EXCEPT !.down = <<>>]]
  BY <1>2, <1>3 DEF Consume
<1>a. PICK z \in Seq(Units) : z = <<>>
  BY UnitsNothing
<1>b. PICK i \in Ios : i = x.io
  BY <1>1
<1>c. PICK n \in Nets : n = x.net
  BY <1>1
<1>d. y = [io |-> [i EXCEPT !.in = b], net |-> [n EXCEPT !.down = z]]
  BY <1>4, <1>a, <1>b, <1>c
<1>e. /\ [i EXCEPT !.in = b] \in Ios /\ Same(i, [i EXCEPT !.in = b])
      /\ [i EXCEPT !.in = b].out = i.out /\ [i EXCEPT !.in = b].in = b
  BY DEF Ios, Same
<1>f. /\ [n EXCEPT !.down = z] \in Nets /\ [n EXCEPT !.down = z].up = n.up
      /\ [n EXCEPT !.down = z].down = z
  BY DEF Nets
<1>5. /\ y \in Xs /\ Same(x.io, y.io) /\ y.io.out = x.io.out /\ y.io.in = b
      /\ y.net.up = x.net.up /\ y.net.down = <<>>
  BY <1>a, <1>b, <1>c, <1>d, <1>e, <1>f DEF Xs
<1>6. Asked(y.io, y.net) = Asked(x.io, x.net)
  BY <1>5 DEF Asked
<1>7. Flow(x.io.op, x.io.todo, Asked(x.io, x.net), x.io.results, b, <<>>, srv)
  BY <1>1, <1>2, FlowRead DEF FlowOf
<1>8. FlowOf(y.io, y.net, srv)
  BY <1>5, <1>6, <1>7 DEF FlowOf, Same
<1> QED
  BY <1>1, <1>3, <1>5, <1>8, GoingFrom

\* PQflush() moves what is to be written; if nobody reads it, it does not matter
LEMMA FlushKeeps ==
    ASSUME NEW x, Going(x)
    PROVE  Going(Flush(x)) /\ Same(x.io, Flush(x).io) /\ Flush(x).io.in = x.io.in
<1>1. /\ x.io \in Ios /\ x.net \in Nets /\ srv \in Servers /\ Len(x.net.up) <= Cap
      /\ x.io.out \in Seq(Units) /\ x.net.up \in Seq(Units) /\ srv.alive \in BOOLEAN
      /\ FlowOf(x.io, x.net, srv) /\ x \in Xs
  BY GoingFacts DEF Going
<1>2. PICK y : y = Flush(x)
  OBVIOUS
<1>3. CASE ~srv.alive
  <2>1. y = [x EXCEPT !.io.out = <<>>]
    BY <1>2, <1>3 DEF Flush
  <2>a. PICK z \in Seq(Units) : z = <<>>
    BY UnitsNothing
  <2>b. PICK i \in Ios : i = x.io
    BY <1>1
  <2>c. /\ [i EXCEPT !.out = z] \in Ios /\ Same(i, [i EXCEPT !.out = z])
        /\ [i EXCEPT !.out = z].in = i.in
    BY DEF Ios, Same
  <2>d. y \in Xs /\ y.io = [i EXCEPT !.out = z] /\ y.net = x.net
    BY <1>1, <2>1, <2>a, <2>b, <2>c DEF Xs
  <2>2. /\ y \in Xs /\ Same(x.io, y.io) /\ y.io.in = x.io.in /\ y.net = x.net
    BY <2>b, <2>c, <2>d
  <2>3. FlowOf(y.io, y.net, srv)
    BY <1>1, <1>3, <2>2 DEF FlowOf, Flow, Same
  <2> QED
    BY <1>1, <1>2, <2>2, <2>3, GoingFrom
<1>4. CASE srv.alive
  <2>1. PICK m \in Nat : m = Len(x.io.out)
    BY <1>1
  <2>2. PICK n \in Nat : n = Len(x.net.up)
    BY <1>1
  <2>3. PICK c \in Nat : c = Cap
    BY GeneratorsAssumption
  <2>4. n <= c
    BY <1>1, <2>2, <2>3
  <2> DEFINE k == Min({m, c - n})
  <2>5. k \in 0 .. m /\ n + k <= c
    BY <2>4 DEF Min
  <2>6. y = [io |-> [x.io EXCEPT !.out = SubSeq(@, k + 1, Len(@))],
             net |-> [x.net EXCEPT !.up = @ \o SubSeq(x.io.out, 1, k)]]
    BY <1>2, <1>4, <2>1, <2>2, <2>3 DEF Flush
  <2> HIDE DEF k
  <2>a. PICK q \in Seq(Units) : q = x.io.out
    BY <1>1
  <2>7. \E f, g \in Seq(Units) :
              /\ f = SubSeq(q, 1, k) /\ g = SubSeq(q, k + 1, Len(q))
              /\ q = f \o g /\ Len(f) = k
    BY <2>1, <2>5, <2>a, SplitBoth, ZenonT(40)
  <2>8. PICK f \in Seq(Units), g \in Seq(Units) :
              /\ f = SubSeq(q, 1, k) /\ g = SubSeq(q, k + 1, Len(q))
              /\ q = f \o g /\ Len(f) = k
    BY <2>7
  <2>9. x.io.out = f \o g /\ Len(f) = k
    BY <2>8, <2>a
  <2>10. PICK v \in Seq(Units) : v = x.net.up \o f
    BY <1>1, UnitsTyped
  <2>11. Len(v) <= Cap
    BY <1>1, <2>2, <2>3, <2>5, <2>9, <2>10
  <2>12. y = [io |-> [x.io EXCEPT !.out = g], net |-> [x.net EXCEPT !.up = v]]
    BY <1>1, <2>6, <2>8, <2>10, <2>a
  <2>c. PICK i \in Ios : i = x.io
    BY <1>1
  <2>d. PICK j \in Nets : j = x.net
    BY <1>1
  <2>e. /\ [i EXCEPT !.out = g] \in Ios /\ Same(i, [i EXCEPT !.out = g])
        /\ [i EXCEPT !.out = g].in = i.in /\ [i EXCEPT !.out = g].out = g
    BY DEF Ios, Same
  <2>f. /\ [j EXCEPT !.up = v] \in Nets /\ [j EXCEPT !.up = v].up = v
        /\ [j EXCEPT !.up = v].down = j.down
    BY DEF Nets
  <2>13. /\ y \in Xs /\ Same(x.io, y.io) /\ y.io.in = x.io.in /\ y.io.out = g
         /\ y.net.up = v /\ y.net.down = x.net.down
    BY <2>12, <2>c, <2>d, <2>e, <2>f DEF Xs
  <2>14. CatSame(x.net.up, f, g)
    BY <1>1, UnitsCat
  <2>15. Asked(y.io, y.net) = Asked(x.io, x.net)
    BY <2>9, <2>10, <2>13, <2>14 DEF Asked, CatSame
  <2>16. FlowOf(y.io, y.net, srv)
    BY <1>1, <2>13, <2>15 DEF FlowOf, Same
  <2> QED
    BY <1>2, <2>11, <2>13, <2>16, GoingFrom
<1> QED
  BY <1>1, <1>3, <1>4

-----------------------------------------------------------------------------
(* The end of a generator, and each of its steps *)

\* A generator that ends well: it has taken all there was
LEMMA EndsWell ==
    ASSUME NEW i, NEW n, NEW s, Typed(i, n, s), i.at = "done", i.error = "none", i.op # "none",
           FlowOf(i, n, s) \/
             (/\ s.alive => /\ Asks(Asked(i, n), i.op, i.todo)
                            /\ s.failed => i.op = "copy"
                            /\ s.said # <<>> \/ Kinds(s.out) \ Silent # {}
                            /\ s.said = i.results \o Sift(i.in \o n.down, Silent)
              /\ "ready" \notin Kinds(i.results)
              /\ i.op = "pipeline" => "ready" \notin Kinds(Stream(i, n, s))
              /\ i.op # "pipeline" => FatalLast(Stream(i, n, s))),
           s.alive => /\ Whole(Asked(i, n), i.todo, s)
                      /\ i.in = <<>> /\ n.down = <<>> /\ s.out = <<>>
    PROVE  GenHolds(i, n, s)
BY DEF Places, Answered, Whole, FlowOf, Flow, Stream, Received, Exchange, Answering, GenHolds,
   Typed

\* The generator is where it may be left
Stepped(x) == Holds(x) /\ x.io.at # "idle"

\* One that goes on is
LEMMA GoingStepped ==
    ASSUME NEW x, Going(x) PROVE Stepped(x)
  BY DEF Going, Stepped, Holds, Busy

\* fetch_many() returns what it should and nothing else
LEMMA FetchManyKeeps ==
    ASSUME NEW x, Going(x)
    PROVE  Stepped(FetchMany(x))
<1>1. /\ x.io \in Ios /\ x.net \in Nets /\ srv \in Servers /\ Len(x.net.up) <= Cap
      /\ FlowOf(x.io, x.net, srv) /\ x.io.op # "none" /\ x.io.error = "none"
      /\ srv.out \in Seq(Units) /\ x \in Xs
  BY GoingFacts DEF Going
<1>2. PICK a \in Seq(Units) : a = x.io.results
  BY GoingFacts
<1>3. PICK b \in Seq(Units) : b = x.io.in
  BY GoingFacts
<1>4. PICK d \in Seq(Units) : d = x.net.down
  BY GoingFacts
<1>5. PICK i \in Ios : i = x.io
  BY <1>1
<1>6. PICK n \in Nets : n = x.net
  BY <1>1
<1>7. Complete(b) \in Seq(Units) /\ Kinds(Complete(b)) = Kinds(b) \ {"part"}
  BY SiftKinds DEF Complete
<1>8. PICK u \in Seq(Units) : u = Complete(b)
  BY <1>7
<1>9. PICK z : z = FetchMany(x)
  OBVIOUS
<1>10. Flow(i.op, i.todo, Asked(i, n), a, b, d, srv)
  BY <1>1, <1>2, <1>3, <1>4, <1>5, <1>6 DEF FlowOf
<1> DEFINE ends == {k \in DOMAIN u : u[k].kind \in Finals}
<1>11. CASE ends = {}
  <2>1. z = [x EXCEPT !.io.at = "fetch", !.io.in = <<>>, !.io.results = @ \o u]
    BY <1>3, <1>8, <1>9, <1>11 DEF FetchMany
  <2>2. "ready" \notin Kinds(b)
    BY <1>11, <1>7, <1>8 DEF Kinds, Finals
  <2>3. PICK v \in Seq(Units) : v = a \o u
    BY UnitsTyped
  <2>4. PICK e \in Seq(Units) : e = <<>>
    BY UnitsNothing
  <2> HIDE DEF ends
  <2>5. PICK j \in Ios : j = [i EXCEPT !.at = "fetch", !.in = e, !.results = v]
    BY DEF Ios
  <2>6. /\ j.op = i.op /\ j.at = "fetch" /\ j.out = i.out /\ j.in = e /\ j.todo = i.todo
        /\ j.results = v /\ j.error = i.error /\ j.interrupts = i.interrupts
    BY <2>5 DEF Ios
  <2>7. z \in Xs /\ z.io = j /\ z.net = n
    BY <1>1, <1>2, <1>5, <1>6, <2>1, <2>3, <2>4, <2>5 DEF Xs
  <2>8. Taken(a, b, v, e, d, srv.out)
          /\ (Ending(Incoming(a, b, d, srv.out)) => Ending(Incoming(v, e, d, srv.out)))
    BY <1>1, <1>8, <2>2, <2>3, <2>4, TakenAll
  <2>9. Flow(i.op, i.todo, Asked(i, n), v, e, d, srv)
    BY <1>1, <1>10, <2>8, FlowTaken
  <2>10. Asked(j, n) = Asked(i, n)
    BY <2>6 DEF Asked
  <2>11. FlowOf(j, n, srv)
    BY <1>4, <1>6, <2>6, <2>9, <2>10 DEF FlowOf
  <2>12. Places(j) /\ Busy(j) /\ Typed(j, n, srv) /\ j.at \notin {"send", "copy"}
    BY <1>1, <1>5, <1>6, <2>6 DEF Places, Busy, Typed
  <2>13. GenHolds(j, n, srv)
    BY <2>11, <2>12, BusyFlow
  <2> QED
    BY <1>9, <2>6, <2>7, <2>13 DEF Stepped, Holds
<1>12. CASE ends # {}
  <2> DEFINE e == Min(ends)
  <2>1. e \in ends
    <3>1. ends \in SUBSET Nat
      OBVIOUS
    <3> HIDE DEF ends
    <3>2. \E m \in ends : \A k \in ends : m <= k
      BY <1>12, <3>1, LeastNat
    <3> QED
      BY <3>2 DEF Min
  <2>2. z = [x EXCEPT !.io.at = "done", !.io.in = SubSeq(u, e + 1, Len(u)),
                      !.io.results = @ \o Sift(SubSeq(u, 1, e), {"ready"})]
    BY <1>3, <1>8, <1>9, <1>12 DEF FetchMany
  <2>3. e \in DOMAIN u /\ u[e].kind \in Finals
    BY <2>1
  <2> HIDE DEF e, ends
  <2>4. \E p, r \in Seq(Units) :
              /\ p = SubSeq(u, 1, e) /\ r = SubSeq(u, e + 1, Len(u))
              /\ u = p \o r /\ u[e].kind \in Kinds(p)
    BY <2>3, SplitAt
  <2>5. PICK p \in Seq(Units), r \in Seq(Units) :
              /\ p = SubSeq(u, 1, e) /\ r = SubSeq(u, e + 1, Len(u))
              /\ u = p \o r /\ u[e].kind \in Kinds(p)
    BY <2>4
  <2>6. Kinds(p) \cap Finals # {}
    BY <2>3, <2>5
  <2>7. PICK q \in Seq(Units) : q = Sift(p, {"ready"})
    BY SiftKinds
  <2>8. PICK v \in Seq(Units) : v = a \o q
    BY UnitsTyped
  <2>9. /\ Taken(a, b, v, r, d, srv.out)
        /\ Kinds(b) \cap Finals # {}
        /\ Ending(Incoming(a, b, d, srv.out)) => r = <<>> /\ d = <<>> /\ srv.out = <<>>
    <3>1. u = p \o r
      BY <2>5
    <3> QED
      BY <1>1, <1>8, <2>6, <2>7, <2>8, <3>1, TakenEnd, Zenon
  <2>10. PICK j \in Ios : j = [i EXCEPT !.at = "done", !.in = r, !.results = v]
    BY DEF Ios
  <2>11. /\ j.op = i.op /\ j.at = "done" /\ j.out = i.out /\ j.in = r /\ j.todo = i.todo
         /\ j.results = v /\ j.error = i.error /\ j.interrupts = i.interrupts
    BY <2>10 DEF Ios
  <2>12. z = [x EXCEPT !.io.at = "done", !.io.in = r, !.io.results = @ \o q]
    BY <2>2, <2>5, <2>7
  <2>13. z \in Xs /\ z.io = j /\ z.net = n
    BY <1>1, <1>2, <1>5, <1>6, <2>8, <2>10, <2>12 DEF Xs
  <2>14. Asked(j, n) = Asked(i, n)
    BY <2>11 DEF Asked
  <2>15. srv.alive => /\ Whole(Asked(i, n), i.todo, srv)
                      /\ Ending(Incoming(a, b, d, srv.out))
    BY <1>1, <1>10, <2>9, FlowEnded
  <2>16. Stream(j, n, srv) = Incoming(v, r, d, srv.out)
    BY <1>4, <1>6, <2>11 DEF Stream
  <2>17. /\ srv.alive => /\ Asks(Asked(j, n), j.op, j.todo)
                         /\ srv.failed => j.op = "copy"
                         /\ srv.said # <<>> \/ Kinds(srv.out) \ Silent # {}
                         /\ srv.said = v \o Sift(r \o d, Silent)
         /\ "ready" \notin Kinds(v)
         /\ j.op = "pipeline" => "ready" \notin Kinds(Stream(j, n, srv))
         /\ j.op # "pipeline" => FatalLast(Stream(j, n, srv))
    BY <1>10, <2>9, <2>11, <2>14, <2>15, <2>16 DEF Flow, Taken
  <2>18. Typed(j, n, srv) /\ j.error = "none" /\ j.op # "none"
    BY <1>1, <1>5, <1>6, <2>11 DEF Typed
  <2>19. srv.alive => /\ Whole(Asked(j, n), j.todo, srv)
                      /\ j.in = <<>> /\ n.down = <<>> /\ srv.out = <<>>
    BY <1>4, <1>6, <2>9, <2>11, <2>14, <2>15
  <2>20. srv.alive => srv.said = j.results \o Sift(j.in \o n.down, Silent)
    BY <1>4, <1>6, <2>11, <2>17
  <2>21. GenHolds(j, n, srv)
    BY <2>11, <2>17, <2>18, <2>19, <2>20, EndsWell
  <2> QED
    BY <1>9, <2>11, <2>13, <2>21 DEF Stepped, Holds
<1> QED
  BY <1>11, <1>12

\* An error ends a generator
LEMMA RaiseKeeps ==
    ASSUME NEW x, Going(x), NEW error \in {"lost", "closed", "register", "interrupted"},
           error = "interrupted" => x.io.interrupts = 2,
           error = "lost" => ~srv.alive /\ (x.io.op # "pipeline"
                                              => "fatal" \notin Kinds(x.io.results))
    PROVE  Stepped(Raise(x, error))
<1>1. /\ x.io \in Ios /\ x.net \in Nets /\ srv \in Servers /\ Len(x.net.up) <= Cap
      /\ FlowOf(x.io, x.net, srv) /\ x.io.op # "none" /\ x \in Xs
  BY GoingFacts DEF Going
<1>2. PICK i \in Ios : i = x.io
  BY <1>1
<1>3. PICK z : z = Raise(x, error)
  OBVIOUS
<1>4. PICK j \in Ios : j = [i EXCEPT !.at = "done", !.error = error]
  BY DEF Ios
<1>5. /\ j.op = i.op /\ j.at = "done" /\ j.out = i.out /\ j.in = i.in /\ j.todo = i.todo
      /\ j.results = i.results /\ j.error = error /\ j.interrupts = i.interrupts
  BY <1>4 DEF Ios
<1>6. z \in Xs /\ z.io = j /\ z.net = x.net
  BY <1>1, <1>2, <1>3, <1>4 DEF Raise, Xs
<1>7. Asked(j, x.net) = Asked(i, x.net) /\ Stream(j, x.net, srv) = Stream(i, x.net, srv)
  BY <1>5 DEF Asked, Stream
<1>8. Flow(j.op, j.todo, Asked(j, x.net), j.results, j.in, x.net.down, srv)
  BY <1>1, <1>2, <1>5, <1>7 DEF FlowOf
<1>9. Places(j) /\ j.op # "none" /\ j.error # "none"
  BY <1>1, <1>2, <1>5 DEF Places
<1>10. Received(j, x.net, srv)
  BY <1>2, <1>5, <1>8, <1>9 DEF Received, Flow, Stream
<1>11. srv.alive => Exchange(j, x.net, srv)
  BY <1>9, <1>5, <1>8 DEF Answered, Whole, Exchange, Answering, Flow, Stream
<1> QED
  BY <1>1, <1>3, <1>5, <1>6, <1>9, <1>10, <1>11 DEF Stepped, Holds, GenHolds

\* A lost server that has nothing more to read
LEMMA HungUpLost ==
    ASSUME NEW x, HungUp(x) PROVE ~srv.alive
  BY DEF HungUp

\* fetch() goes on, ends, or tells the loss
LEMMA FetchStepKeeps ==
    ASSUME NEW x, Going(x)
    PROVE  Stepped(FetchStep(x))
<1>1. CASE HungUp(x) /\ HadFatal(x.io.results)
  BY GoingFacts, <1>1, HungUpLost, EndsWell DEF Going, FetchStep, Ios, Xs, Asked, FlowOf,
     Typed, Stepped, Holds
<1>2. CASE HungUp(x) /\ ~HadFatal(x.io.results)
  BY <1>2, HungUpLost, RaiseKeeps DEF HadFatal, FetchStep
<1>3. CASE ~HungUp(x)
  BY <1>3, ConsumeKeeps, FetchManyKeeps DEF FetchStep
<1> QED
  BY <1>1, <1>2, <1>3

\* send() goes on, fetches, or tells the loss
LEMMA SendStepKeeps ==
    ASSUME NEW x, Going(x), x.io.at = "send", NEW ready
    PROVE  Stepped(SendStep(x, ready))
BY GoingFacts, KindsNone, HungUpLost, RaiseKeeps, ConsumeKeeps, FlushKeeps, FetchManyKeeps,
   GoingStepped DEF SendStep

\* A block or a command more is put in what is to be written
LEMMA PutKeeps ==
    ASSUME NEW x, Going(x), x.io.todo # 0, NEW u \in Units, u.kind \in KindsOf(x.io.op),
           Trigger(u) <=> x.io.todo = 1,
           NEW z, z = [x EXCEPT !.io.todo = @ - 1, !.io.out = Append(@, u)]
    PROVE  Going(z)
<1>1. /\ x.io \in Ios /\ x.net \in Nets /\ srv \in Servers /\ Len(x.net.up) <= Cap
      /\ FlowOf(x.io, x.net, srv) /\ x \in Xs /\ Places(x.io) /\ Busy(x.io)
      /\ x.io.at \in {"send", "copy"} => x.io.results = <<>>
  BY GoingFacts DEF Going
<1>2. PICK i \in Ios : i = x.io
  BY <1>1
<1>3. PICK q \in Seq(Units) : q = x.io.out
  BY GoingFacts
<1>4. PICK up \in Seq(Units) : up = x.net.up
  BY GoingFacts
<1>5. PICK m \in Nat : m = x.io.todo /\ m # 0
  BY GoingFacts
<1>6. PICK v \in Seq(Units) : v = Append(q, u)
  <2>1. Append(q, u) \in Seq(Units)
    OBVIOUS
  <2> QED
    BY <2>1
<1>7. PICK j \in Ios : j = [i EXCEPT !.todo = m - 1, !.out = v]
  <2>1. m - 1 \in Nat
    BY <1>5
  <2> QED
    BY <2>1 DEF Ios
<1>8. /\ j.op = i.op /\ j.at = i.at /\ j.out = v /\ j.in = i.in /\ j.todo = m - 1
      /\ j.results = i.results /\ j.error = i.error /\ j.interrupts = i.interrupts
  BY <1>7 DEF Ios
<1>9. z \in Xs /\ z.io = j /\ z.net = x.net
  BY <1>1, <1>2, <1>3, <1>5, <1>6, <1>7 DEF Xs
<1>10. PICK asked \in Seq(Units) : asked = up \o q
  BY UnitsTyped
<1>11. Asked(x.io, x.net) = asked /\ Asked(j, x.net) = Append(asked, u)
  <2>1. up \o Append(q, u) = Append(up \o q, u)
    BY CatFacts
  <2> QED
    BY <1>3, <1>4, <1>6, <1>8, <1>10, <2>1 DEF Asked
<1>12. Flow(i.op, m, asked, i.results, i.in, x.net.down, srv)
  BY <1>1, <1>2, <1>5, <1>11 DEF FlowOf
<1>13. Flow(i.op, m - 1, Append(asked, u), i.results, i.in, x.net.down, srv)
  BY <1>2, <1>5, <1>12, FlowAsked
<1>14. FlowOf(j, x.net, srv)
  BY <1>8, <1>11, <1>13 DEF FlowOf
<1>15. Places(j) /\ Busy(j) /\ (j.at \in {"send", "copy"} => j.results = <<>>)
  BY <1>1, <1>2, <1>8 DEF Places, Busy
<1>16. Typed(j, x.net, srv)
  BY <1>1 DEF Typed
<1>17. GenHolds(j, x.net, srv)
  BY <1>14, <1>15, <1>16, BusyFlow
<1> QED
  BY <1>9, <1>15, <1>17 DEF Going

\* copy_to() and copy_end() go on, or fetch the result
LEMMA CopyStepKeeps ==
    ASSUME NEW x, Going(x), x.io.at = "copy"
    PROVE  Stepped(CopyStep(x))
<1>1. PICK y : y = Flush(x)
  OBVIOUS
<1>2. Going(y) /\ Same(x.io, y.io)
  BY <1>1, FlushKeeps
<1>3. CASE y.io.out # <<>>
  <2>1. CopyStep(x) = y
    BY <1>1, <1>3 DEF CopyStep
  <2> QED
    BY <1>2, <2>1, GoingStepped
<1>4. CASE y.io.out = <<>> /\ x.io.todo > 0
  <2>1. PICK m \in Nat : m = x.io.todo
    BY GoingFacts
  <2>a. U("end", 0) \in Units /\ U("data", m) \in Units
    BY <2>1 DEF Units, U
  <2>2. PICK u \in Units : u = IF m = 1 THEN U("end", 0) ELSE U("data", m)
    BY <2>a
  <2>3. y.io.todo = m /\ m # 0 /\ y.io.op = "copy"
    <3>1. Places(x.io)
      BY GoingFacts
    <3> QED
      BY <1>2, <1>4, <2>1, <3>1 DEF Same, Places
  <2>4. u.kind \in KindsOf(y.io.op) /\ (Trigger(u) <=> m = 1)
    BY <2>2, <2>3 DEF KindsOf, Trigger, U
  <2>5. CopyStep(x) = [y EXCEPT !.io.todo = @ - 1, !.io.out = <<u>>]
    BY <1>1, <1>4, <2>1, <2>2 DEF CopyStep
  <2>6. y \in Xs /\ Append(y.io.out, u) = <<u>>
    BY <1>2, <1>4 DEF Going
  <2>7. CopyStep(x) = [y EXCEPT !.io.todo = @ - 1, !.io.out = Append(@, u)]
    BY <2>5, <2>6
  <2> QED
    BY <1>2, <2>3, <2>4, <2>7, PutKeeps, GoingStepped
<1>5. CASE y.io.out = <<>> /\ ~(x.io.todo > 0)
  <2>1. CopyStep(x) = FetchMany(y)
    BY <1>1, <1>5 DEF CopyStep
  <2> QED
    BY <1>2, <2>1, FetchManyKeeps
<1> QED
  BY <1>3, <1>4, <1>5

\* pipeline_communicate() returns what it has read
LEMMA PipelineResultsKeeps ==
    ASSUME NEW x, Going(x), x.io.op = "pipeline"
    PROVE  Going(PipelineResults(x)) /\ PipelineResults(x).io.at = x.io.at
             /\ PipelineResults(x).io.op = x.io.op
<1>1. /\ x.io \in Ios /\ x.net \in Nets /\ srv \in Servers /\ Len(x.net.up) <= Cap
      /\ FlowOf(x.io, x.net, srv) /\ x \in Xs /\ Places(x.io) /\ Busy(x.io)
      /\ srv.out \in Seq(Units)
  BY GoingFacts DEF Going
<1>2. PICK a \in Seq(Units) : a = x.io.results
  BY GoingFacts
<1>3. PICK b \in Seq(Units) : b = x.io.in
  BY GoingFacts
<1>4. PICK d \in Seq(Units) : d = x.net.down
  BY GoingFacts
<1>5. PICK i \in Ios : i = x.io
  BY <1>1
<1>6. Complete(b) \in Seq(Units)
  BY SiftKinds DEF Complete
<1>7. PICK u \in Seq(Units) : u = Complete(b)
  BY <1>6
<1>8. PICK z : z = PipelineResults(x)
  OBVIOUS
<1>9. Flow(i.op, i.todo, Asked(i, x.net), a, b, d, srv)
  BY <1>1, <1>2, <1>3, <1>4, <1>5 DEF FlowOf
<1>10. "ready" \notin Kinds(b)
  BY <1>5, <1>9, <1>1, IncomingKinds DEF Flow
<1>11. PICK v \in Seq(Units) : v = a \o u
  BY UnitsTyped
<1>12. PICK e \in Seq(Units) : e = <<>>
  BY UnitsNothing
<1>13. PICK j \in Ios : j = [i EXCEPT !.in = e, !.results = v]
  BY DEF Ios
<1>14. /\ j.op = i.op /\ j.at = i.at /\ j.out = i.out /\ j.in = e /\ j.todo = i.todo
       /\ j.results = v /\ j.error = i.error /\ j.interrupts = i.interrupts
  BY <1>13 DEF Ios
<1>15. z = [x EXCEPT !.io.in = e, !.io.results = @ \o u]
  BY <1>3, <1>7, <1>8, <1>12 DEF PipelineResults
<1>16. z \in Xs /\ z.io = j /\ z.net = x.net
  BY <1>1, <1>2, <1>5, <1>11, <1>13, <1>15 DEF Xs
<1>17. Taken(a, b, v, e, d, srv.out)
         /\ (Ending(Incoming(a, b, d, srv.out)) => Ending(Incoming(v, e, d, srv.out)))
  BY <1>1, <1>7, <1>10, <1>11, <1>12, TakenAll
<1>18. Flow(i.op, i.todo, Asked(i, x.net), v, e, d, srv)
  BY <1>1, <1>9, <1>17, FlowTaken
<1>19. Asked(j, x.net) = Asked(i, x.net)
  BY <1>14 DEF Asked
<1>20. FlowOf(j, x.net, srv)
  BY <1>4, <1>14, <1>18, <1>19 DEF FlowOf
<1>21. Places(j) /\ Busy(j) /\ Typed(j, x.net, srv) /\ j.at \notin {"send", "copy"}
  BY <1>1, <1>5, <1>14 DEF Places, Busy, Typed
<1>22. GenHolds(j, x.net, srv)
  BY <1>20, <1>21, BusyFlow
<1> QED
  BY <1>5, <1>8, <1>14, <1>16, <1>21, <1>22 DEF Going

\* pipeline_communicate() puts a command more, ends, or leaves what is missing to
\* fetch_many()
LEMMA PipelineWriteKeeps ==
    ASSUME NEW x, Going(x), x.io.at = "pipe"
    PROVE  Stepped(PipelineWrite(x))
<1>1. PICK y : y = Flush(x)
  OBVIOUS
<1>2. Going(y) /\ Same(x.io, y.io)
  BY <1>1, FlushKeeps
<1>3. CASE x.io.todo > 0
  <2>1. PICK m \in Nat : m = x.io.todo
    BY GoingFacts
  <2>2. PICK n \in Int : n = Commands - m + 1
    BY GeneratorsAssumption
  <2>a. U("sync", n) \in Units /\ U("command", n) \in Units
    BY <2>2 DEF Units, U
  <2>3. PICK u \in Units : u = IF m = 1 THEN U("sync", n) ELSE U("command", n)
    BY <2>a
  <2>4. y.io.todo = m /\ m # 0 /\ y.io.op = "pipeline"
    <3>1. Places(x.io)
      BY GoingFacts
    <3> QED
      BY <1>2, <1>3, <2>1, <3>1 DEF Same, Places
  <2>5. u.kind \in KindsOf(y.io.op) /\ (Trigger(u) <=> m = 1)
    BY <2>3, <2>4 DEF KindsOf, Trigger, U
  <2>6. PipelineWrite(x) = [y EXCEPT !.io.todo = @ - 1, !.io.out = Append(@, u)]
    BY <1>1, <1>3, <2>1, <2>2, <2>3 DEF PipelineWrite
  <2> QED
    BY <1>2, <2>4, <2>5, <2>6, PutKeeps, GoingStepped
<1>4. CASE ~(x.io.todo > 0) /\ x.io.results # <<>> /\ Last(x.io.results).kind = "sync"
  <2>1. /\ y.io \in Ios /\ y.net \in Nets /\ srv \in Servers /\ Len(y.net.up) <= Cap
        /\ FlowOf(y.io, y.net, srv) /\ y.io.op # "none" /\ y.io.error = "none" /\ y \in Xs
        /\ srv.out \in Seq(Units)
    BY <1>2, GoingFacts DEF Going
  <2>2. PICK a \in Seq(Units) : a = y.io.results
    BY <1>2, GoingFacts
  <2>3. PICK b \in Seq(Units) : b = y.io.in
    BY <1>2, GoingFacts
  <2>4. PICK d \in Seq(Units) : d = y.net.down
    BY <1>2, GoingFacts
  <2>5. PICK i \in Ios : i = y.io
    BY <2>1
  <2>6. PICK j \in Ios : j = [i EXCEPT !.at = "done"]
    BY DEF Ios
  <2>7. /\ j.op = i.op /\ j.at = "done" /\ j.out = i.out /\ j.in = i.in /\ j.todo = i.todo
        /\ j.results = i.results /\ j.error = i.error
    BY <2>6 DEF Ios
  <2>8. PICK z : z = PipelineWrite(x)
    OBVIOUS
  <2>9. z = [y EXCEPT !.io.at = "done"]
    BY <1>1, <1>4, <2>8 DEF PipelineWrite
  <2>10. z \in Xs /\ z.io = j /\ z.net = y.net
    BY <2>1, <2>5, <2>6, <2>9 DEF Xs
  <2>11. "sync" \in Kinds(a)
    BY <1>2, <1>4, <2>2 DEF Same, Last, Kinds
  <2>12. Flow(i.op, i.todo, Asked(i, y.net), a, b, d, srv)
    BY <2>1, <2>2, <2>3, <2>4, <2>5 DEF FlowOf
  <2>13. srv.alive => /\ Whole(Asked(i, y.net), i.todo, srv)
                      /\ b = <<>> /\ d = <<>> /\ srv.out = <<>>
    BY <2>11, <2>1, <2>12, FlowEnded DEF Finals
  <2>14. Asked(j, y.net) = Asked(i, y.net)
    BY <2>7 DEF Asked
  <2>15. FlowOf(j, y.net, srv)
    BY <2>1, <2>5, <2>7, <2>14 DEF FlowOf
  <2>16. Typed(j, y.net, srv) /\ j.error = "none" /\ j.op # "none"
    BY <2>1, <2>5, <2>7 DEF Typed
  <2>17. srv.alive => /\ Whole(Asked(j, y.net), j.todo, srv)
                      /\ j.in = <<>> /\ y.net.down = <<>> /\ srv.out = <<>>
    BY <2>3, <2>4, <2>5, <2>7, <2>13, <2>14
  <2>18. GenHolds(j, y.net, srv)
    BY <2>7, <2>15, <2>16, <2>17, EndsWell
  <2> QED
    BY <2>7, <2>8, <2>10, <2>18 DEF Stepped, Holds
<1>5. CASE ~(x.io.todo > 0) /\ ~(x.io.results # <<>> /\ Last(x.io.results).kind = "sync")
  BY <1>1, <1>5, <1>2, FetchManyKeeps DEF PipelineWrite
<1> QED
  BY <1>3, <1>4, <1>5

\* pipeline_communicate() goes on, or tells the loss
LEMMA PipelineStepKeeps ==
    ASSUME NEW x, Going(x), x.io.at = "pipe", NEW ready
    PROVE  Stepped(PipelineStep(x, ready))
BY GoingFacts, HungUpLost, RaiseKeeps, ConsumeKeeps, PipelineResultsKeeps, PipelineWriteKeeps,
   GoingStepped DEF Places, PipelineStep, Same

-----------------------------------------------------------------------------
(* What the server answers *)

\* The sequences of one unit more: what they are made of, and what they end with
LEMMA UnitMore ==
    ASSUME NEW s \in Seq(Units), NEW u \in Units
    PROVE  \E q \in Seq(Units) :
              /\ q = Append(s, u) /\ q # <<>>
              /\ Kinds(q) = Kinds(s) \cup {u.kind}
              /\ Ending(q) <=> Unended(s) /\ u.kind \in Finals
              /\ FatalLast(s) /\ ("fatal" \in Kinds(s) => u.kind \in Last2) => FatalLast(q)
<1>1. <<u>> \in Seq(Units) /\ Append(s, u) = s \o <<u>> /\ Append(s, u) # <<>>
  BY CatFacts
<1>2. PICK w \in Seq(Units) : w = <<u>>
  BY <1>1
<1>3. FatalLast(w) /\ Kinds(w) = {u.kind}
  BY <1>2, FatalFacts, KindsFacts
<1>4. FatalLast(s) /\ ("fatal" \in Kinds(s) => u.kind \in Last2) => FatalLast(s \o w)
  BY <1>3, FatalCat
<1>5. Append(s, u) \in Seq(Units) /\ Append(s, u) = s \o w
  BY <1>1, <1>2
<1>6. Kinds(Append(s, u)) = Kinds(s) \cup {u.kind}
  BY KindsFacts
<1>7. Ending(Append(s, u)) <=> Unended(s) /\ u.kind \in Finals
  BY EndFacts
<1> QED
  BY <1>1, <1>4, <1>5, <1>6, <1>7

\* Sequences written out
LEMMA WrittenOut ==
    ASSUME NEW u, NEW v, NEW w
    PROVE  Append(<<u>>, v) = <<u, v>> /\ Append(<<u, v>>, w) = <<u, v, w>>
<1> DEFINE T == {u, v, w}
<1>1. <<u>> \in Seq(T) /\ <<u, v>> \in Seq(T) /\ <<u, v, w>> \in Seq(T) /\ v \in T /\ w \in T
  OBVIOUS
<1>2. Len(<<u>>) = 1 /\ Len(<<u, v>>) = 2 /\ Len(<<u, v, w>>) = 3
  OBVIOUS
<1>3. /\ <<u>>[1] = u /\ <<u, v>>[1] = u /\ <<u, v>>[2] = v
      /\ <<u, v, w>>[1] = u /\ <<u, v, w>>[2] = v /\ <<u, v, w>>[3] = w
  OBVIOUS
<1> HIDE DEF T
<1>4. Append(<<u>>, v) = <<u, v>>
  <2>1. PICK p \in Seq(T) : p = <<u>>
    BY <1>1
  <2>2. PICK q \in Seq(T) : q = <<u, v>>
    BY <1>1
  <2>3. /\ Append(p, v) \in Seq(T) /\ Len(Append(p, v)) = 2
        /\ Append(p, v)[1] = p[1] /\ Append(p, v)[2] = v
    BY <1>1, <1>2, <2>1
  <2>4. \A k \in 1 .. 2 : k = 1 \/ k = 2
    OBVIOUS
  <2>5. \A k \in 1 .. 2 : Append(p, v)[k] = q[k]
    BY <1>3, <2>1, <2>2, <2>3, <2>4
  <2>6. Append(p, v) = q
    BY <1>2, <2>2, <2>3, <2>5, SeqEqual
  <2> QED
    BY <2>1, <2>2, <2>6
<1>5. Append(<<u, v>>, w) = <<u, v, w>>
  <2>1. PICK p \in Seq(T) : p = <<u, v>>
    BY <1>1
  <2>2. PICK q \in Seq(T) : q = <<u, v, w>>
    BY <1>1
  <2>3. /\ Append(p, w) \in Seq(T) /\ Len(Append(p, w)) = 3
        /\ Append(p, w)[1] = p[1] /\ Append(p, w)[2] = p[2] /\ Append(p, w)[3] = w
    BY <1>1, <1>2, <2>1
  <2>4. \A k \in 1 .. 3 : k = 1 \/ k = 2 \/ k = 3
    OBVIOUS
  <2>5. \A k \in 1 .. 3 : Append(p, w)[k] = q[k]
    BY <1>3, <2>1, <2>2, <2>3, <2>4
  <2>6. Append(p, w) = q
    BY <1>2, <2>2, <2>3, <2>5, SeqEqual
  <2> QED
    BY <2>1, <2>2, <2>6
<1> QED
  BY <1>4, <1>5

\* An answer of one unit, of two or of three
LEMMA OneUnit ==
    ASSUME NEW u \in Units
    PROVE  \E q \in Seq(Units) :
              /\ q = <<u>> /\ q # <<>> /\ Kinds(q) = {u.kind}
              /\ Ending(q) <=> u.kind \in Finals
              /\ FatalLast(q)
<1>1. PICK z \in Seq(Units) : z = <<>>
  BY UnitsNothing
<1>2. Append(z, u) = <<u>>
  BY <1>1
<1>3. Kinds(z) = {} /\ FatalLast(z) /\ Unended(z)
  BY <1>1, KindsNone, FatalFacts DEF Unended
<1>4. PICK q \in Seq(Units) :
              /\ q = Append(z, u) /\ q # <<>>
              /\ Kinds(q) = Kinds(z) \cup {u.kind}
              /\ Ending(q) <=> Unended(z) /\ u.kind \in Finals
              /\ FatalLast(z) /\ ("fatal" \in Kinds(z) => u.kind \in Last2) => FatalLast(q)
  BY UnitMore
<1> QED
  BY <1>2, <1>3, <1>4

\* A sequence of two units, its kinds and its end
LEMMA TwoUnits ==
    ASSUME NEW u \in Units, NEW v \in Units
    PROVE  \E q \in Seq(Units) :
              /\ q = <<u, v>> /\ q # <<>> /\ Kinds(q) = {u.kind, v.kind}
              /\ Ending(q) <=> u.kind \notin Finals /\ v.kind \in Finals
              /\ (u.kind = "fatal" => v.kind \in Last2) => FatalLast(q)
<1>1. PICK s \in Seq(Units) :
              /\ s = <<u>> /\ s # <<>> /\ Kinds(s) = {u.kind}
              /\ Ending(s) <=> u.kind \in Finals
              /\ FatalLast(s)
  BY OneUnit, Zenon
<1>2. Append(s, v) = <<u, v>>
  BY <1>1, WrittenOut
<1>3. Unended(s) <=> u.kind \notin Finals
  BY <1>1 DEF Unended
<1>4. PICK q \in Seq(Units) :
              /\ q = Append(s, v) /\ q # <<>>
              /\ Kinds(q) = Kinds(s) \cup {v.kind}
              /\ Ending(q) <=> Unended(s) /\ v.kind \in Finals
              /\ FatalLast(s) /\ ("fatal" \in Kinds(s) => v.kind \in Last2) => FatalLast(q)
  BY UnitMore
<1>5. Kinds(q) = {u.kind, v.kind}
  BY <1>1, <1>4
<1>6. (u.kind = "fatal" => v.kind \in Last2) => FatalLast(q)
  BY <1>1, <1>4
<1> QED
  BY <1>2, <1>3, <1>4, <1>5, <1>6

\* A sequence of three units, its kinds, its end and its errors
Three(q, u, v, w) ==
    /\ q = <<u, v, w>> /\ q # <<>> /\ Kinds(q) = {u.kind, v.kind, w.kind}
    /\ Ending(q) <=> u.kind \notin Finals /\ v.kind \notin Finals /\ w.kind \in Finals
    /\ u.kind # "fatal" /\ (v.kind = "fatal" => w.kind \in Last2) => FatalLast(q)

\* There is one, of any three units
LEMMA ThreeUnits ==
    ASSUME NEW u \in Units, NEW v \in Units, NEW w \in Units
    PROVE  \E q \in Seq(Units) : Three(q, u, v, w)
<1>1. PICK s \in Seq(Units) :
              /\ s = <<u, v>> /\ s # <<>> /\ Kinds(s) = {u.kind, v.kind}
              /\ Ending(s) <=> u.kind \notin Finals /\ v.kind \in Finals
              /\ (u.kind = "fatal" => v.kind \in Last2) => FatalLast(s)
  BY TwoUnits, Zenon
<1>2. Append(s, w) = <<u, v, w>>
  BY <1>1, WrittenOut
<1>3. Unended(s) <=> u.kind \notin Finals /\ v.kind \notin Finals
  BY <1>1 DEF Unended
<1>4. PICK q \in Seq(Units) :
              /\ q = Append(s, w) /\ q # <<>>
              /\ Kinds(q) = Kinds(s) \cup {w.kind}
              /\ Ending(q) <=> Unended(s) /\ w.kind \in Finals
              /\ FatalLast(s) /\ ("fatal" \in Kinds(s) => w.kind \in Last2) => FatalLast(q)
  BY UnitMore
<1>5. Kinds(q) = {u.kind, v.kind, w.kind}
  BY <1>1, <1>4
<1>6. u.kind # "fatal" /\ (v.kind = "fatal" => w.kind \in Last2) => FatalLast(q)
  BY <1>1, <1>4
<1> QED
  BY <1>2, <1>3, <1>4, <1>5, <1>6 DEF Three

\* An answer to a unit: the last of what is asked, or a failed block, has the whole
\* answer
Fits(w, u, fails) ==
    /\ w \in Seq(Units)
    /\ fails => u.kind = "data"
    /\ IF Trigger(u) \/ fails
       THEN w # <<>> /\ Ending(w) /\ Kinds(w) \ Silent # {}
       ELSE Unended(w) /\ (u.kind # "command" => w = <<>>)
    /\ IF u.kind \in {"command", "sync"} THEN "ready" \notin Kinds(w) ELSE FatalLast(w)

\* Each of the answers is one
LEMMA AnswersFit ==
    ASSUME NEW u \in Units, u.kind \in {"query", "command", "sync", "data", "end"}, ~srv.failed,
           NEW w \in AnswersTo(u)
    PROVE  Fits(w, u, u.kind = "data" /\ w # <<>>)
<1>0. /\ \A k \in {"part", "ok", "fatal", "ready", "copy", "sync"} : \A n \in Int :
             U(k, n) \in Units /\ U(k, n).kind = k
      /\ u.n \in Int
  BY DEF U, Units
<1>1. PICK z \in Seq(Units) : z = <<>>
  BY UnitsNothing
<1>2. Unended(z) /\ FatalLast(z)
  BY <1>1, KindsNone, FatalFacts DEF Unended
<1>3. CASE u.kind = "query" /\ u.n = 1
  <2>1. w = z
    BY <1>1, <1>3 DEF AnswersTo
  <2> QED
    BY <1>1, <1>2, <1>3, <2>1 DEF Fits, Trigger
<1>4. CASE u.kind = "query" /\ u.n # 1
  <2>1. Trigger(u)
    BY <1>4 DEF Trigger
  <2>2. \/ w = <<U("part", 0), U("ok", 1), U("ready", 0)>> \/ w = <<U("copy", 0)>>
        \/ w = <<U("ok", 1), U("fatal", 0), U("ready", 0)>>
        \/ w = <<U("ok", 1), U("ok", 2), U("ready", 0)>>
    BY <1>4 DEF AnswersTo
  <2> SUFFICES w \in Seq(Units) /\ w # <<>> /\ Ending(w) /\ Kinds(w) \ Silent # {} /\ FatalLast(w)
    BY <1>4, <2>1 DEF Fits
  <2>3. CASE w = <<U("part", 0), U("ok", 1), U("ready", 0)>>
    <3>a. PICK part \in Units : part = U("part", 0) /\ part.kind = "part"
      BY <1>0
    <3>b. PICK ok1 \in Units : ok1 = U("ok", 1) /\ ok1.kind = "ok"
      BY <1>0
    <3>h. PICK ready \in Units : ready = U("ready", 0) /\ ready.kind = "ready"
      BY <1>0
    <3>1. PICK q \in Seq(Units) : Three(q, part, ok1, ready)
      BY ThreeUnits
    <3> QED
      BY <3>1, <2>3, <3>a, <3>b, <3>h DEF Three, Finals, Silent, Last2
  <2>4. CASE w = <<U("copy", 0)>>
    <3>i. PICK copy \in Units : copy = U("copy", 0) /\ copy.kind = "copy"
      BY <1>0
    <3>1. PICK q \in Seq(Units) :
            /\ q = <<copy>> /\ q # <<>> /\ Kinds(q) = {copy.kind}
            /\ Ending(q) <=> copy.kind \in Finals
            /\ FatalLast(q)
      BY OneUnit
    <3> QED
      BY <3>1, <2>4, <3>i DEF Finals, Silent, Last2
  <2>5. CASE w = <<U("ok", 1), U("fatal", 0), U("ready", 0)>>
    <3>b. PICK ok1 \in Units : ok1 = U("ok", 1) /\ ok1.kind = "ok"
      BY <1>0
    <3>f. PICK fatal \in Units : fatal = U("fatal", 0) /\ fatal.kind = "fatal"
      BY <1>0
    <3>h. PICK ready \in Units : ready = U("ready", 0) /\ ready.kind = "ready"
      BY <1>0
    <3>1. PICK q \in Seq(Units) : Three(q, ok1, fatal, ready)
      BY ThreeUnits
    <3> QED
      BY <3>1, <2>5, <3>b, <3>f, <3>h DEF Three, Finals, Silent, Last2
  <2>6. CASE w = <<U("ok", 1), U("ok", 2), U("ready", 0)>>
    <3>b. PICK ok1 \in Units : ok1 = U("ok", 1) /\ ok1.kind = "ok"
      BY <1>0
    <3>c. PICK ok2 \in Units : ok2 = U("ok", 2) /\ ok2.kind = "ok"
      BY <1>0
    <3>h. PICK ready \in Units : ready = U("ready", 0) /\ ready.kind = "ready"
      BY <1>0
    <3>1. PICK q \in Seq(Units) : Three(q, ok1, ok2, ready)
      BY ThreeUnits
    <3> QED
      BY <3>1, <2>6, <3>b, <3>c, <3>h DEF Three, Finals, Silent, Last2
  <2> QED
    BY <2>2, <2>3, <2>4, <2>5, <2>6
<1>5. CASE u.kind = "command"
  <2>1. w = <<U("part", 0), U("ok", u.n)>> \/ w = <<U("fatal", u.n)>>
    BY <1>5 DEF AnswersTo
  <2>2. CASE w = <<U("part", 0), U("ok", u.n)>>
    <3>a. PICK part \in Units : part = U("part", 0) /\ part.kind = "part"
      BY <1>0
    <3>e. PICK okn \in Units : okn = U("ok", u.n) /\ okn.kind = "ok"
      BY <1>0
    <3>1. PICK q \in Seq(Units) :
            /\ q = <<part, okn>> /\ q # <<>> /\ Kinds(q) = {part.kind, okn.kind}
            /\ Ending(q) <=> part.kind \notin Finals /\ okn.kind \in Finals
            /\ (part.kind = "fatal" => okn.kind \in Last2) => FatalLast(q)
      BY TwoUnits
    <3> QED
      BY <1>5, <3>1, <2>2, <3>a, <3>e DEF Fits, Trigger, Unended, Finals, Last2
  <2>3. CASE w = <<U("fatal", u.n)>>
    <3>g. PICK fataln \in Units : fataln = U("fatal", u.n) /\ fataln.kind = "fatal"
      BY <1>0
    <3>1. PICK q \in Seq(Units) :
            /\ q = <<fataln>> /\ q # <<>> /\ Kinds(q) = {fataln.kind}
            /\ Ending(q) <=> fataln.kind \in Finals
            /\ FatalLast(q)
      BY OneUnit
    <3> QED
      BY <1>5, <3>1, <2>3, <3>g DEF Fits, Trigger, Unended, Finals, Last2
  <2> QED
    BY <2>1, <2>2, <2>3
<1>6. CASE u.kind = "sync"
  <2>1. w = <<U("sync", u.n)>>
    BY <1>6 DEF AnswersTo
  <2>j. PICK sync \in Units : sync = U("sync", u.n) /\ sync.kind = "sync"
    BY <1>0
  <2>2. PICK q \in Seq(Units) :
          /\ q = <<sync>> /\ q # <<>> /\ Kinds(q) = {sync.kind}
          /\ Ending(q) <=> sync.kind \in Finals
          /\ FatalLast(q)
    BY OneUnit
  <2> QED
    BY <1>6, <2>2, <2>1, <2>j DEF Fits, Trigger, Finals, Silent, Last2
<1>7. CASE u.kind = "data"
  <2>1. w = z \/ w = <<U("fatal", 0), U("ready", 0)>>
    BY <1>1, <1>7 DEF AnswersTo
  <2>2. CASE w = z
    BY <1>1, <1>2, <1>7, <2>2 DEF Fits, Trigger
  <2>3. CASE w = <<U("fatal", 0), U("ready", 0)>>
    <3>f. PICK fatal \in Units : fatal = U("fatal", 0) /\ fatal.kind = "fatal"
      BY <1>0
    <3>h. PICK ready \in Units : ready = U("ready", 0) /\ ready.kind = "ready"
      BY <1>0
    <3>1. PICK q \in Seq(Units) :
            /\ q = <<fatal, ready>> /\ q # <<>> /\ Kinds(q) = {fatal.kind, ready.kind}
            /\ Ending(q) <=> fatal.kind \notin Finals /\ ready.kind \in Finals
            /\ (fatal.kind = "fatal" => ready.kind \in Last2) => FatalLast(q)
      BY TwoUnits
    <3> QED
      BY <1>7, <3>1, <2>3, <3>f, <3>h DEF Fits, Trigger, Finals, Silent, Last2
  <2> QED
    BY <2>1, <2>2, <2>3
<1>8. CASE u.kind = "end"
  <2>1. w = <<U("ok", 0), U("ready", 0)>>
    BY <1>8 DEF AnswersTo
  <2>d. PICK ok0 \in Units : ok0 = U("ok", 0) /\ ok0.kind = "ok"
    BY <1>0
  <2>h. PICK ready \in Units : ready = U("ready", 0) /\ ready.kind = "ready"
    BY <1>0
  <2>2. PICK q \in Seq(Units) :
          /\ q = <<ok0, ready>> /\ q # <<>> /\ Kinds(q) = {ok0.kind, ready.kind}
          /\ Ending(q) <=> ok0.kind \notin Finals /\ ready.kind \in Finals
          /\ (ok0.kind = "fatal" => ready.kind \in Last2) => FatalLast(q)
    BY TwoUnits
  <2> QED
    BY <1>8, <2>2, <2>1, <2>d, <2>h DEF Fits, Trigger, Finals, Silent, Last2
<1> QED
  BY <1>3, <1>4, <1>5, <1>6, <1>7, <1>8

-----------------------------------------------------------------------------
(* What the server does *)

\* What is left to read when the server reads a unit
LEMMA AsksTail ==
    ASSUME NEW asked \in Seq(Units), asked # <<>>, NEW op, NEW todo, Asks(asked, op, todo)
    PROVE  /\ Asks(Tail(asked), op, todo) /\ Head(asked) \in Units
           /\ Head(asked).kind \in KindsOf(op)
           /\ Trigger(Head(asked)) <=> todo = 0 /\ Tail(asked) = <<>>
<1>1. PICK n \in Nat : n = Len(asked) /\ n # 0
  OBVIOUS
<1>a. Tail(asked) \in Seq(Units)
  BY HeadTailProperties
<1>2. PICK t \in Seq(Units) : t = Tail(asked)
  BY <1>a
<1>3. /\ Len(t) = n - 1 /\ DOMAIN t = 1 .. n - 1 /\ DOMAIN asked = 1 .. n
      /\ Head(asked) = asked[1] /\ asked[1] \in Units
  BY <1>1, <1>2
<1>4. \A k \in 1 .. n - 1 : k + 1 \in 1 .. n /\ t[k] = asked[k + 1]
  BY <1>1, <1>2
<1>5. /\ \A k \in 1 .. n : asked[k].kind \in KindsOf(op)
      /\ \A k \in 1 .. n : Trigger(asked[k]) <=> todo = 0 /\ k = n
  BY <1>1, <1>3 DEF Asks, Kinds
<1>6. Kinds(t) \subseteq KindsOf(op)
  BY <1>3, <1>4, <1>5 DEF Kinds
<1>7. \A k \in 1 .. n - 1 : k + 1 = n <=> k = n - 1
  BY <1>1
<1>8. \A k \in 1 .. n - 1 : Trigger(t[k]) <=> todo = 0 /\ k = n - 1
  BY <1>4, <1>5, <1>7
<1>9. Asks(t, op, todo)
  BY <1>3, <1>6, <1>8 DEF Asks
<1>10. 1 \in 1 .. n /\ (1 = n <=> t = <<>>)
  BY <1>1, <1>3
<1>11. Trigger(asked[1]) <=> todo = 0 /\ t = <<>>
  BY <1>5, <1>10
<1>12. asked[1].kind \in KindsOf(op)
  BY <1>5, <1>10
<1> QED
  BY <1>2, <1>3, <1>9, <1>11, <1>12

\* What GenIInv says of the types
LEMMA GenTypes ==
    ASSUME NEW i, NEW n, NEW s, GenHolds(i, n, s)
    PROVE  /\ i \in Ios /\ n \in Nets /\ s \in Servers
           /\ i.results \in Seq(Units) /\ i.in \in Seq(Units) /\ i.out \in Seq(Units)
           /\ n.up \in Seq(Units) /\ n.down \in Seq(Units)
           /\ s.out \in Seq(Units) /\ s.said \in Seq(Units)
           /\ s.alive \in BOOLEAN /\ s.failed \in BOOLEAN
           /\ Asked(i, n) \in Seq(Units) /\ Stream(i, n, s) \in Seq(Units)
BY UnitsTyped, IncomingMoves DEF GenHolds, Ios, Nets, Servers, Asked, Stream

\* The server reads a unit, h, that was not its answer's last: it answers w
LEMMA AnswerKeeps ==
    ASSUME NEW i, NEW n, NEW s, NEW n2, NEW s2, GenHolds(i, n, s), s.alive, ~s.failed,
           Asked(i, n) # <<>>, NEW h, h = Head(Asked(i, n)), NEW w,
           Fits(w, h, h.kind = "data" /\ w # <<>>),
           n2 \in Nets, Len(n2.up) <= Cap, Asked(i, n2) = Tail(Asked(i, n)), n2.down = n.down,
           s2 \in Servers, s2.alive, s2.said = s.said, s2.out = s.out \o w,
           s2.failed = (h.kind = "data" /\ w # <<>>)
    PROVE  GenHolds(i, n2, s2)
<1> DEFINE fails == h.kind = "data" /\ w # <<>>
<1>1. /\ i \in Ios /\ Places(i) /\ Exchange(i, n, s) /\ Received(i, n, s)
  BY DEF GenHolds
<1>2. /\ Asks(Tail(Asked(i, n)), i.op, i.todo)
      /\ h.kind \in KindsOf(i.op)
      /\ Trigger(h) <=> i.todo = 0 /\ Tail(Asked(i, n)) = <<>>
  BY <1>1, GenTypes, AsksTail DEF Exchange
<1>3. /\ i.op \in {"none", "execute", "pipeline", "copy"}
      /\ i.op # "none"
      /\ i.op = "pipeline" <=> h.kind \in {"command", "sync"}
      /\ h.kind = "data" => i.op = "copy"
  BY <1>1, <1>2 DEF Ios, KindsOf
<1>4. ~Answered(i, n, s)
  BY DEF Answered
<1>5. /\ Unended(Stream(i, n, s))
      /\ i.op # "pipeline" => Stream(i, n, s) = <<>>
      /\ ~(i.at = "done" /\ i.error = "none")
  BY <1>1, <1>4 DEF Exchange, Answering
<1>6. /\ w \in Seq(Units)
      /\ Trigger(h) \/ fails => w # <<>> /\ Ending(w) /\ Kinds(w) \ Silent # {}
      /\ ~(Trigger(h) \/ fails) => Unended(w) /\ (h.kind # "command" => w = <<>>)
      /\ h.kind \in {"command", "sync"} => "ready" \notin Kinds(w)
      /\ h.kind \notin {"command", "sync"} => FatalLast(w)
  BY DEF Fits
<1>7. PICK q \in Seq(Units) : q = Stream(i, n, s)
  BY GenTypes
<1>8. Stream(i, n2, s2) = q \o w
  <2>1. PICK a \in Seq(Units) : a = i.results
    BY GenTypes
  <2>2. PICK b \in Seq(Units) : b = i.in
    BY GenTypes
  <2>3. PICK d \in Seq(Units) : d = n.down
    BY GenTypes
  <2>4. PICK o \in Seq(Units) : o = s.out
    BY GenTypes
  <2>5. PICK v \in Seq(Units) : v = w
    BY <1>6
  <2>a. More(a, b, d, o, v)
    BY IncomingMore
  <2>6. Incoming(a, b, d, o \o v) = Incoming(a, b, d, o) \o v
    BY <2>a DEF More
  <2> QED
    BY <1>7, <2>1, <2>2, <2>3, <2>4, <2>5, <2>6 DEF Stream
<1>9. Answered(i, n2, s2) <=> Trigger(h) \/ fails
  BY <1>2, <1>3 DEF Answered
<1> HIDE DEF fails
<1>10. Answering(i, n2, s2)
  <2>1. CASE Trigger(h) \/ fails
    BY <1>5, <1>6, <1>7, <2>1, EndCat, GenTypes, KindsCat, <1>8, <1>9 DEF Answering
  <2>2. CASE ~(Trigger(h) \/ fails)
    BY <1>6, KindsCat, <1>5, <1>7, <2>2, <1>3, CatFacts, <1>8, <1>9 DEF Unended, Answering
  <2> QED
    BY <2>1, <2>2
<1>11. Exchange(i, n2, s2)
  <2>1. s2.failed => i.op = "copy"
    BY <1>3
  <2> QED
    BY <1>1, <1>2, <1>5, <1>10, <2>1 DEF Exchange
<1>12. Received(i, n2, s2)
  <2>1. i.op = "pipeline" => "ready" \notin Kinds(q \o w)
    BY <1>6, KindsCat, <1>1, <1>3, <1>7 DEF Received
  <2>2. ASSUME i.op # "pipeline" PROVE FatalLast(q \o w)
    BY <1>5, <1>6, <1>7, <2>2, UnitsNothing, <1>3
  <2> QED
    BY <1>1, <1>3, <1>8, <2>1, <2>2 DEF Received
<1> QED
  BY <1>1, <1>11, <1>12 DEF GenHolds

\* The server reads a unit
LEMMA ServerReadStep == GenIInv /\ ServerRead => GenIInv'
<1> SUFFICES ASSUME GenIInv, ServerRead PROVE GenIInv'
  OBVIOUS
<1>1. GenHolds(io, net, srv) /\ io' = io
  BY DEF GenIInv, ServerRead
<1>2. PICK up \in Seq(Units) : up = net.up /\ up # <<>>
  BY <1>1, GenTypes DEF ServerRead
<1>3. PICK h \in Units : h = Head(up)
  BY <1>2
<1>a. Tail(up) \in Seq(Units)
  BY <1>2, HeadTailProperties
<1>4. PICK t \in Seq(Units) : t = Tail(up)
  BY <1>a
<1>5. PICK n \in Nets : n = net
  BY <1>1, GenTypes
<1>6. PICK n2 \in Nets : n2 = [n EXCEPT !.up = t]
  BY DEF Nets
<1>7. n2.up = t /\ n2.down = n.down /\ net' = n2
  BY <1>6, <1>2, <1>4, <1>5 DEF Nets, ServerRead
<1>8. PICK out \in Seq(Units) : out = io.out
  BY <1>1, GenTypes
<1>9. /\ Asked(io, net) = up \o out /\ Asked(io, n2) = t \o out
      /\ Tail(up \o out) = t \o out /\ Head(up \o out) = h /\ up \o out # <<>>
  <2>1. Tail(up \o out) = Tail(up) \o out /\ Head(up \o out) = Head(up)
    BY <1>2, TailConcat
  <2>2. up \o out # <<>>
    BY <1>2, CatFacts
  <2> QED
    BY <1>2, <1>3, <1>4, <1>7, <1>8, <2>1, <2>2 DEF Asked
<1>10. Asked(io, net) # <<>> /\ h = Head(Asked(io, net)) /\ Asked(io, n2) = Tail(Asked(io, net))
  BY <1>9
<1>11. Len(n2.up) <= Cap
  BY <1>1, <1>2, <1>4, GeneratorsAssumption, <1>7 DEF GenHolds
<1>12. /\ Exchange(io, net, srv) /\ Received(io, net, srv) /\ srv.alive /\ Places(io)
       /\ io \in Ios /\ srv \in Servers
  BY <1>1 DEF GenHolds, ServerRead
<1>13. Asks(Asked(io, n2), io.op, io.todo) /\ h.kind \in KindsOf(io.op)
  BY <1>1, <1>12, GenTypes, <1>10, AsksTail DEF Exchange
<1>14. PICK w \in AnswersTo(h) :
          srv' = [srv EXCEPT !.out = @ \o w,
                     !.failed = @ \/ (h.kind = "data" /\ w # <<>>)]
  BY <1>2, <1>3 DEF ServerRead
<1>15. PICK s \in Servers : s = srv
  BY <1>12
<1>16. CASE srv.failed
  <2>1. h.kind \in {"data", "end"}
    BY <1>12, <1>13, <1>16 DEF Exchange, KindsOf
  <2>2. w = <<>>
    BY <1>14, <1>16, <2>1 DEF AnswersTo
  <2>3. srv.out \o w = srv.out
    BY <1>1, <2>2, GenTypes, UnitsNothing
  <2>4. srv' = srv
    BY <1>14, <1>15, <1>16, <2>3 DEF Servers
  <2>5. Stream(io, n2, srv) = Stream(io, net, srv)
    BY <1>5, <1>7 DEF Stream
  <2>6. io.op = "copy"
    BY <1>12, <1>16 DEF Exchange
  <2>7. Answered(io, n2, srv) /\ Answered(io, net, srv)
    BY <1>16, <2>6 DEF Answered
  <2>8. Answering(io, n2, srv)
    BY <1>12, <2>5, <2>7 DEF Exchange, Answering
  <2>9. Exchange(io, n2, srv)
    BY <1>5, <1>7, <1>12, <1>13, <2>7, <2>8 DEF Exchange
  <2>10. Received(io, n2, srv)
    BY <1>12, <2>5 DEF Received
  <2>11. GenHolds(io, n2, srv)
    BY <1>11, <1>12, <2>9, <2>10 DEF GenHolds
  <2> QED
    BY <1>1, <1>7, <2>4, <2>11 DEF GenIInv
<1>17. CASE ~srv.failed
  <2>1. h.kind \in {"query", "command", "sync", "data", "end"}
    BY <1>12, <1>13 DEF Ios, KindsOf
  <2>2. Fits(w, h, h.kind = "data" /\ w # <<>>)
    BY <1>14, <1>17, <2>1, AnswersFit
  <2>3. PICK o \in Seq(Units) : o = s.out \o w
    BY <1>15, <2>2, UnitsTyped DEF Fits, Servers
  <2>4. PICK f \in BOOLEAN : f = (h.kind = "data" /\ w # <<>>)
    OBVIOUS
  <2>5. PICK s2 \in Servers : s2 = [s EXCEPT !.out = o, !.failed = f]
    BY DEF Servers
  <2>6. /\ s2.alive = s.alive /\ s2.said = s.said /\ s2.out = o /\ s2.failed = f
    BY <2>5 DEF Servers
  <2>7. srv' = s2
    BY <1>15, <1>17, <2>4, <1>14, <2>3, <2>5 DEF Servers
  <2>8. n2.down = net.down
    BY <1>5, <1>7
  <2>9. GenHolds(io, n2, s2)
    BY <1>1, <1>10, <1>11, <1>12, <1>15, <1>17, <2>2, <2>3, <2>4, <2>6, <2>8, AnswerKeeps
  <2> QED
    BY <1>1, <1>7, <2>7, <2>9 DEF GenIInv
<1> QED
  BY <1>16, <1>17

\* The first unit of a sequence and the others
LEMMA FirstUnit ==
    ASSUME NEW q \in Seq(Units), q # <<>>
    PROVE  \E h \in Units : \E t \in Seq(Units) :
              h = Head(q) /\ t = Tail(q) /\ Kinds(q) = {h.kind} \cup Kinds(t)
<1>1. Head(q) \in Units /\ Tail(q) \in Seq(Units)
  BY HeadTailProperties
<1>2. PICK h \in Units : h = Head(q)
  BY <1>1
<1>3. PICK t \in Seq(Units) : t = Tail(q)
  BY <1>1
<1>4. PICK z \in Seq(Units) : z = <<>>
  BY UnitsNothing
<1>5. Append(z, h) \o t = z \o q
  BY <1>2, <1>3, MoveHead
<1>6. Append(z, h) \in Seq(Units) /\ z \o q = q
  BY <1>4, UnitsNothing
<1>7. Kinds(Append(z, h)) = Kinds(z) \cup {h.kind} /\ Kinds(z) = {}
  BY <1>4, KindsFacts
<1>8. Kinds(Append(z, h) \o t) = Kinds(Append(z, h)) \cup Kinds(t)
  BY <1>6, KindsCat
<1> QED
  BY <1>2, <1>3, <1>5, <1>6, <1>7, <1>8

\* A sequence with a unit more is not empty
LEMMA AppendSome == \A s \in Seq(Units) : \A u \in Units : Append(s, u) # <<>>
  BY CatFacts

\* What is returned and will be, with a unit more
SaidMore(a, b, d, h) ==
    a \o Sift(b \o Append(d, h), Silent) =
        IF h.kind \in Silent THEN a \o Sift(b \o d, Silent) ELSE Append(a \o Sift(b \o d, Silent), h)

\* A unit received is one more result, unless it is none
LEMMA SaidAppend ==
    \A a, b, d \in Seq(Units) : \A h \in Units : SaidMore(a, b, d, h)
<1> SUFFICES ASSUME NEW a \in Seq(Units), NEW b \in Seq(Units), NEW d \in Seq(Units),
                    NEW h \in Units
             PROVE  SaidMore(a, b, d, h)
  OBVIOUS
<1>1. PICK q \in Seq(Units) : q = b \o d
  BY UnitsTyped
<1>2. b \o Append(d, h) = Append(q, h)
  BY <1>1, CatFacts
<1>3. Sift(Append(q, h), Silent) =
        IF h.kind \in Silent THEN Sift(q, Silent) ELSE Append(Sift(q, Silent), h)
  BY SiftStep
<1>4. PICK f \in Seq(Units) : f = Sift(q, Silent)
  BY SiftKinds
<1>5. a \o Append(f, h) = Append(a \o f, h)
  BY CatFacts
<1> QED
  BY <1>1, <1>2, <1>3, <1>4, <1>5 DEF SaidMore

\* The server writes a unit
LEMMA ServerWriteStep == GenIInv /\ ServerWrite => GenIInv'
<1> SUFFICES ASSUME GenIInv, ServerWrite PROVE GenIInv'
  OBVIOUS
<1>1. GenHolds(io, net, srv) /\ io' = io
  BY DEF GenIInv, ServerWrite
<1>2. /\ Exchange(io, net, srv) /\ Received(io, net, srv) /\ srv.alive /\ Places(io)
      /\ io \in Ios /\ net \in Nets /\ srv \in Servers /\ Len(net.up) <= Cap
  BY <1>1 DEF GenHolds, ServerWrite
<1>3. PICK o \in Seq(Units) : o = srv.out /\ o # <<>>
  BY <1>1, GenTypes DEF ServerWrite
<1>4. \E h \in Units : \E t \in Seq(Units) :
         h = Head(o) /\ t = Tail(o) /\ Kinds(o) = {h.kind} \cup Kinds(t)
  BY <1>3, FirstUnit
<1>5. PICK h \in Units, t \in Seq(Units) :
         h = Head(o) /\ t = Tail(o) /\ Kinds(o) = {h.kind} \cup Kinds(t)
  BY <1>4
<1>6. PICK a \in Seq(Units) : a = io.results
  BY <1>1, GenTypes
<1>7. PICK b \in Seq(Units) : b = io.in
  BY <1>1, GenTypes
<1>8. PICK d \in Seq(Units) : d = net.down
  BY <1>1, GenTypes
<1>9. PICK said \in Seq(Units) : said = srv.said
  BY <1>1, GenTypes
<1>10. Append(d, h) \in Seq(Units) /\ Append(said, h) \in Seq(Units)
  OBVIOUS
<1>11. PICK d2 \in Seq(Units) : d2 = Append(d, h)
  BY <1>10
<1>12. PICK said2 \in Seq(Units) : said2 = IF h.kind \in Silent THEN said ELSE Append(said, h)
  BY <1>10
<1>13. PICK n \in Nets : n = net
  BY <1>2
<1>14. PICK s \in Servers : s = srv
  BY <1>2
<1>15. PICK n2 \in Nets : n2 = [n EXCEPT !.down = d2]
  BY DEF Nets
<1>16. n2.up = n.up /\ n2.down = d2
  BY <1>15 DEF Nets
<1>17. PICK s2 \in Servers : s2 = [s EXCEPT !.out = t, !.said = said2]
  BY DEF Servers
<1>18. s2.alive = s.alive /\ s2.failed = s.failed /\ s2.out = t /\ s2.said = said2
  BY <1>17 DEF Servers
<1>19. net' = n2
  BY <1>3, <1>5, <1>8, <1>11, <1>13, <1>15 DEF ServerWrite
<1>20. srv' = s2
  BY <1>3, <1>5, <1>9, <1>12, <1>14, <1>17 DEF ServerWrite, Silent
<1>21. Stream(io, n2, s2) = Stream(io, net, srv)
  <2>1. Sent(a, b, d, o)
    BY <1>3, IncomingSent
  <2>2. Incoming(a, b, d2, t) = Incoming(a, b, d, o)
    BY <1>5, <1>11, <2>1 DEF Sent
  <2> QED
    BY <1>3, <1>6, <1>7, <1>8, <1>16, <1>18, <2>2 DEF Stream
<1>22. Asked(io, n2) = Asked(io, net)
  BY <1>13, <1>16 DEF Asked
<1>23. Answered(io, n2, s2) <=> Answered(io, net, srv)
  BY <1>14, <1>18, <1>22 DEF Answered
<1>24. said2 = a \o Sift(b \o d2, Silent)
  <2>1. SaidMore(a, b, d, h)
    BY SaidAppend
  <2>2. said = a \o Sift(b \o d, Silent)
    BY <1>2, <1>6, <1>7, <1>8, <1>9 DEF Exchange
  <2> QED
    BY <1>11, <1>12, <2>1, <2>2 DEF SaidMore
<1>25. said # <<>> \/ Kinds(o) \ Silent # {} => said2 # <<>> \/ Kinds(t) \ Silent # {}
  <2>1. Append(said, h) # <<>>
    BY AppendSome
  <2> QED
    BY <1>5, <1>12, <2>1
<1>26. Answering(io, n2, s2)
  BY <1>2, <1>3, <1>9, <1>18, <1>21, <1>23, <1>25 DEF Exchange, Answering
<1>27. Exchange(io, n2, s2)
  <2>1. ~(io.at = "done" /\ io.error = "none")
    BY <1>2, <1>3 DEF Exchange
  <2>2. s2.said = io.results \o Sift(io.in \o n2.down, Silent)
    BY <1>6, <1>7, <1>16, <1>18, <1>24
  <2>3. s2.failed => io.op = "copy"
    BY <1>2, <1>14, <1>18 DEF Exchange
  <2> QED
    BY <1>2, <1>22, <1>26, <2>1, <2>2, <2>3 DEF Exchange
<1>28. Received(io, n2, s2)
  BY <1>2, <1>14, <1>18, <1>21 DEF Received
<1>29. Len(n2.up) <= Cap
  BY <1>2, <1>13, <1>16
<1>30. GenHolds(io, n2, s2)
  BY <1>2, <1>27, <1>28, <1>29 DEF GenHolds
<1> QED
  BY <1>1, <1>19, <1>20, <1>30 DEF GenIInv

\* The server is lost
LEMMA ServerDiesStep == GenIInv /\ ServerDies => GenIInv'
<1> SUFFICES ASSUME GenIInv, ServerDies PROVE GenIInv'
  OBVIOUS
<1>1. /\ GenHolds(io, net, srv) /\ io' = io /\ net' = net
      /\ srv' = [srv EXCEPT !.alive = FALSE, !.out = <<>>] /\ io.at \notin {"idle", "done"}
  BY DEF GenIInv, ServerDies, Waiting
<1>2. /\ Received(io, net, srv) /\ Places(io)
      /\ io \in Ios /\ net \in Nets /\ srv \in Servers /\ Len(net.up) <= Cap
  BY <1>1 DEF GenHolds
<1>3. PICK a \in Seq(Units) : a = io.results
  BY <1>1, GenTypes
<1>4. PICK b \in Seq(Units) : b = io.in
  BY <1>1, GenTypes
<1>5. PICK d \in Seq(Units) : d = net.down
  BY <1>1, GenTypes
<1>6. PICK o \in Seq(Units) : o = srv.out
  BY <1>1, GenTypes
<1>7. PICK z \in Seq(Units) : z = <<>>
  BY UnitsNothing
<1>8. PICK s \in Servers : s = srv
  BY <1>2
<1>9. PICK s2 \in Servers : s2 = [s EXCEPT !.alive = FALSE, !.out = z]
  BY DEF Servers
<1>10. s2.alive = FALSE /\ s2.out = z
  BY <1>9 DEF Servers
<1>11. srv' = s2
  BY <1>1, <1>7, <1>8, <1>9
<1>12. Stream(io, net, srv) = Incoming(a, b, d, o) /\ Stream(io, net, s2) = Incoming(a, b, d, z)
  BY <1>3, <1>4, <1>5, <1>6, <1>10 DEF Stream
<1>13. Kinds(z) = {} /\ FatalLast(z)
  BY <1>7, KindsNone, FatalFacts
<1>14. Kinds(Incoming(a, b, d, z)) \subseteq Kinds(Incoming(a, b, d, o))
  BY IncomingKinds, <1>13
<1>15. FatalLast(Incoming(a, b, d, o)) => FatalLast(Incoming(a, b, d, z))
  BY IncomingFatal, <1>13 DEF Follows
<1>16. io.op # "none" /\ io.error = "none"
  BY <1>1, <1>2 DEF Places
<1>17. Received(io, net, s2)
  BY <1>2, <1>12, <1>14, <1>15, <1>16 DEF Received
<1>18. GenHolds(io, net, s2)
  BY <1>2, <1>10, <1>17 DEF GenHolds
<1> QED
  BY <1>1, <1>11, <1>18 DEF GenIInv

-----------------------------------------------------------------------------
(* What the program and the wait functions do *)

\* There is nothing at first
LEMMA GenInitHolds == IoInit => GenIInv
<1> SUFFICES ASSUME IoInit PROVE GenIInv
  OBVIOUS
<1>1. PICK z \in Seq(Units) : z = <<>>
  BY UnitsNothing
<1>2. /\ io = [op |-> "none", at |-> "idle", out |-> z, in |-> z, todo |-> 0,
               results |-> z, error |-> "none", interrupts |-> 0]
      /\ net = [up |-> z, down |-> z, open |-> TRUE]
      /\ srv = [alive |-> TRUE, out |-> z, said |-> z, failed |-> FALSE]
  BY <1>1 DEF IoInit
<1>3. io \in Ios /\ net \in Nets /\ srv \in Servers
  BY <1>2 DEF Ios, Nets, Servers
<1>4. /\ io.op = "none" /\ io.at = "idle" /\ io.out = z /\ io.in = z /\ io.results = z
      /\ io.error = "none" /\ net.up = z /\ net.down = z
      /\ srv.alive = TRUE /\ srv.out = z /\ srv.said = z /\ srv.failed = FALSE
  BY <1>2
<1>5. Len(net.up) <= Cap
  <2>1. Len(net.up) = 0
    BY <1>1, <1>4
  <2> QED
    BY <2>1, GeneratorsAssumption
<1>6. Asked(io, net) = z
  BY <1>1, <1>4, UnitsNothing DEF Asked
<1>7. Stream(io, net, srv) = z
  <2>1. Incoming(z, z, z, z) = z
    BY <1>1, IncomingMoves
  <2> QED
    BY <1>4, <2>1 DEF Stream
<1>8. Kinds(z) = {} /\ FatalLast(z) /\ DOMAIN z = {}
  BY <1>1, KindsNone, FatalFacts
<1>9. Places(io)
  BY <1>4 DEF Places
<1>10. Received(io, net, srv)
  BY <1>1, <1>4, <1>7, <1>8 DEF Received
<1>11. Asks(Asked(io, net), io.op, io.todo)
  BY <1>6, <1>8 DEF Asks
<1>12. Answering(io, net, srv)
  <2>1. ~Answered(io, net, srv)
    BY <1>4 DEF Answered
  <2> QED
    BY <1>1, <1>7, <1>8, <2>1 DEF Answering, Unended
<1>13. srv.said = io.results \o Sift(io.in \o net.down, Silent)
  BY <1>1, UnitsNothing, SiftStep, <1>4
<1>14. Exchange(io, net, srv)
  BY <1>4, <1>11, <1>12, <1>13 DEF Exchange
<1> QED
  BY <1>3, <1>5, <1>9, <1>10, <1>14 DEF GenIInv, GenHolds

\* A generator starts: what it has to write, and what is to be put
LEMMA StartKeeps ==
    ASSUME NEW i, NEW n, NEW s, GenHolds(i, n, s), i.at = "idle",
           NEW j \in Ios, Places(j), j.at # "done", j.error = "none", j.op # "none",
           j.in = i.in, j.results = i.results,
           Asks(j.out, j.op, j.todo), j.todo # 0 \/ j.out # <<>>
    PROVE  GenHolds(j, n, s)
<1>1. /\ Received(i, n, s) /\ Places(i) /\ i.op = "none"
      /\ i \in Ios /\ n \in Nets /\ s \in Servers /\ Len(n.up) <= Cap
      /\ s.alive => Exchange(i, n, s)
  BY DEF GenHolds, Places
<1>2. Stream(i, n, s) = <<>> /\ Stream(j, n, s) = <<>>
  BY <1>1 DEF Received, Stream
<1>3. /\ Kinds(<<>>) = {} /\ FatalLast(<<>>)
  BY KindsNone, FatalFacts
<1>4. j.results = <<>>
  <2>1. PICK a \in Seq(Units) : a = i.results
    BY GenTypes
  <2>2. PICK b \in Seq(Units) : b = i.in
    BY GenTypes
  <2>3. PICK d \in Seq(Units) : d = n.down
    BY GenTypes
  <2>4. PICK o \in Seq(Units) : o = s.out
    BY GenTypes
  <2>5. Incoming(a, b, d, o) = <<>>
    BY <1>2, <2>1, <2>2, <2>3, <2>4 DEF Stream
  <2>6. a = <<>>
    BY <2>5, IncomingMoves
  <2> QED
    BY <2>1, <2>6
<1>5. Received(j, n, s)
  BY <1>2, <1>3, <1>4 DEF Received
<1>6. ASSUME s.alive PROVE Exchange(j, n, s)
  <2>1. Exchange(i, n, s) /\ ~s.failed
    BY <1>1, <1>6 DEF Exchange
  <2>2. n.up = <<>>
    <3>1. Kinds(Asked(i, n)) = {}
      BY <1>1, <2>1 DEF Exchange, Asks, KindsOf
    <3>2. Asked(i, n) = <<>>
      BY <3>1, GenTypes, KindsNone
    <3>3. PICK up \in Seq(Units) : up = n.up
      BY GenTypes
    <3>4. PICK q \in Seq(Units) : q = i.out
      BY GenTypes
    <3>5. up \o q = <<>>
      BY <3>2, <3>3, <3>4 DEF Asked
    <3> QED
      BY <3>3, <3>5, CatFacts
  <2>3. Asked(j, n) = j.out
    BY <2>2, UnitsNothing DEF Ios, Asked
  <2>4. ~Answered(j, n, s)
    BY <2>1, <2>3 DEF Answered
  <2>5. Answering(j, n, s)
    BY <1>2, <1>3, <2>4 DEF Answering, Unended
  <2> QED
    BY <2>1, <2>3, <2>5 DEF Exchange
<1> QED
  BY <1>1, <1>5, <1>6 DEF GenHolds

\* A generator starts
LEMMA StartOpStep ==
    ASSUME GenIInv, NEW op \in {"execute", "pipeline", "copy"}, StartOp(op)
    PROVE  GenIInv'
<1>1. GenHolds(io, net, srv) /\ net' = net /\ srv' = srv /\ io.at = "idle" /\ io \in Ios
  BY GenTypes DEF GenIInv, StartOp
<1>2. PICK i \in Ios : i = io
  BY <1>1
<1>3. i.op = "none" /\ i.error = "none"
  BY <1>1, <1>2 DEF GenHolds, Places
<1>4. PICK at \in {"send", "pipe", "copy"} :
         at = CASE op = "execute" -> "send" [] op = "pipeline" -> "pipe" [] op = "copy" -> "copy"
  OBVIOUS
<1>5. U("query", 1) \in Units /\ U("query", 2) \in Units
  BY DEF U, Units
<1>6. PICK u \in Units : u = U("query", 1) /\ u.kind = "query" /\ u.n = 1
  BY <1>5 DEF U
<1>7. PICK v \in Units : v = U("query", 2) /\ v.kind = "query" /\ v.n = 2
  BY <1>5 DEF U
<1>8. PICK z \in Seq(Units) : z = <<>>
  BY UnitsNothing
<1>9. <<u, v>> \in Seq(Units) /\ <<u, v>> # <<>> /\ Len(<<u, v>>) = 2 /\ DOMAIN <<u, v>> = 1 .. 2
      /\ <<u, v>>[1] = u /\ <<u, v>>[2] = v
  OBVIOUS
<1>10. PICK q \in Seq(Units) : q = <<u, v>>
  BY <1>9
<1>11. PICK out \in Seq(Units) : out = IF op = "execute" THEN q ELSE z
  OBVIOUS
<1>12. PICK todo \in Nat : todo = IF op = "execute" THEN 0 ELSE Commands + 1
  BY GeneratorsAssumption
<1>13. PICK j \in Ios : j = [i EXCEPT !.op = op, !.at = at, !.out = out, !.todo = todo]
  BY DEF Ios
<1>14. /\ j.op = op /\ j.at = at /\ j.out = out /\ j.in = i.in /\ j.todo = todo
       /\ j.results = i.results /\ j.error = i.error /\ j.interrupts = i.interrupts
  BY <1>13 DEF Ios
<1>15. io' = j
  BY <1>2, <1>4, <1>6, <1>7, <1>8, <1>10, <1>11, <1>12, <1>13 DEF StartOp
<1>16. Places(j) /\ j.at # "done" /\ j.error = "none" /\ j.op # "none"
  BY <1>3, <1>4, <1>14 DEF Places
<1>17. Asks(out, op, todo)
  <2>1. CASE op = "execute"
    BY <1>11, <1>12, <2>1, <1>6, <1>7, <1>9, <1>10 DEF Kinds, Trigger, Asks, KindsOf
  <2>2. CASE op # "execute"
    BY <1>11, <1>12, <2>2, GeneratorsAssumption, <1>8, KindsNone DEF Asks
  <2> QED
    BY <2>1, <2>2
<1>18. j.todo # 0 \/ j.out # <<>>
  BY <1>9, <1>10, <1>11, <1>12, <1>14, GeneratorsAssumption
<1>19. GenHolds(j, net, srv)
  BY <1>1, <1>2, <1>14, <1>16, <1>17, <1>18, StartKeeps
<1> QED
  BY <1>1, <1>15, <1>19 DEF GenIInv

\* A generator that is waited for
LEMMA HereGoing ==
    ASSUME GenIInv, Waiting
    PROVE  Here \in Xs /\ Here.io = io /\ Here.net = net /\ Going(Here)
BY GenTypes DEF GenIInv, Here, Xs, Waiting, Busy, Going

\* The socket is ready
LEMMA WaitReadyStep == GenIInv /\ WaitReady => GenIInv'
<1> SUFFICES ASSUME GenIInv, WaitReady PROVE GenIInv'
  OBVIOUS
<1>1. Waiting /\ srv' = srv
  BY DEF WaitReady
<1>2. Going(Here) /\ Here.io = io /\ Here.net = net
  BY <1>1, HereGoing
<1>3. PICK ready : ready = Ready
  OBVIOUS
<1>4. PICK x : x = Resumed(ready)
  OBVIOUS
<1>5. Stepped(x)
  <2>1. io.at \in {"send", "fetch", "pipe", "copy"}
    BY <1>2, GoingFacts, <1>1 DEF Ios, Waiting
  <2>2. CASE io.at = "send"
    BY <1>4, <2>2, <1>2, SendStepKeeps DEF Resumed
  <2>3. CASE io.at = "fetch"
    <3>1. x = FetchStep(Here)
      BY <1>4, <2>3 DEF Resumed
    <3> QED
      BY <1>2, <3>1, FetchStepKeeps
  <2>4. CASE io.at = "pipe"
    BY <1>4, <2>4, <1>2, PipelineStepKeeps DEF Resumed
  <2>5. CASE io.at = "copy"
    BY <1>4, <2>5, <1>2, CopyStepKeeps DEF Resumed
  <2> QED
    BY <2>1, <2>2, <2>3, <2>4, <2>5
<1>6. /\ io' = IF Registers(waiter.strategy) /\ x.io.at # "done"
               THEN Raise(x, "register").io ELSE x.io
      /\ net' = x.net
  BY <1>3, <1>4 DEF WaitReady
<1>7. CASE Registers(waiter.strategy) /\ x.io.at # "done"
  BY <1>5, <1>7, RaiseKeeps, <1>1, <1>6 DEF Stepped, Holds, Going, Busy, Raise, Xs, GenIInv
<1>8. CASE ~(Registers(waiter.strategy) /\ x.io.at # "done")
  BY <1>1, <1>5, <1>6, <1>8 DEF Stepped, Holds, GenIInv
<1> QED
  BY <1>7, <1>8

\* The connection was closed: it is seen, at once or later
LEMMA WaitClosedStep == GenIInv /\ (WaitBad \/ WaitTimeout \/ WaitOther) => GenIInv'
<1> SUFFICES ASSUME GenIInv, WaitBad \/ WaitTimeout \/ WaitOther PROVE GenIInv'
  OBVIOUS
<1>1. Waiting /\ io' = Raise(Here, "closed").io /\ net' = net /\ srv' = srv
  BY DEF WaitBad, WaitTimeout, WaitOther
<1>2. Going(Here) /\ Here.io = io /\ Here.net = net
  BY <1>1, HereGoing
<1>3. PICK y : y = Raise(Here, "closed")
  OBVIOUS
<1>4. Stepped(y)
  BY <1>2, <1>3, RaiseKeeps
<1>5. y.net = net
  BY <1>2, <1>3 DEF Raise, Going, Xs
<1> QED
  BY <1>1, <1>3, <1>4, <1>5 DEF Stepped, Holds, GenIInv

\* The connection is closed
LEMMA CloseSocketStep == GenIInv /\ CloseSocket => GenIInv'
BY DEF GenIInv, CloseSocket, GenHolds, Nets, Asked, Stream, Received, Exchange, Answering,
   Answered

\* A query is canceled: what the server had to write is an error and the end
LEMMA CanceledFlow ==
    ASSUME NEW todo, NEW asked, NEW a \in Seq(Units), NEW b \in Seq(Units), NEW d \in Seq(Units),
           NEW s \in Servers, Flow("execute", todo, asked, a, b, d, s), s.alive,
           NEW o \in Seq(Units), o = s.out, o # <<>>,
           NEW w \in Seq(Units), Ending(w), FatalLast(w), w # <<>>, Kinds(w) = {"fatal", "ready"},
           NEW s2, s2.alive = s.alive, s2.out = w, s2.said = s.said, s2.failed = s.failed
    PROVE  Flow("execute", todo, asked, a, b, d, s2)
<1>1. /\ Asks(asked, "execute", todo) /\ ~s.failed
      /\ IF Whole(asked, todo, s) THEN Ending(Incoming(a, b, d, o))
         ELSE Incoming(a, b, d, o) = <<>>
      /\ s.said = a \o Sift(b \o d, Silent)
      /\ "ready" \notin Kinds(a)
      /\ FatalLast(Incoming(a, b, d, o))
  BY DEF Flow
<1>2. Incoming(a, b, d, o) # <<>>
  BY IncomingMoves
<1>3. Whole(asked, todo, s) /\ Ending(Incoming(a, b, d, o))
  BY <1>1, <1>2
<1>4. Unended(a) /\ Unended(b) /\ Ending(d \o o)
  BY <1>3, IncomingEnd
<1>5. Unended(d)
  BY <1>4, EndCat
<1>6. Ending(d \o w)
  BY <1>5, EndCat
<1>7. Ending(Incoming(a, b, d, w))
  BY <1>4, <1>6, IncomingEnd
<1>8. FatalLast(Incoming(a, b, d, w))
  <2>1. /\ FatalLast(a) /\ FatalLast(b) /\ FatalLast(d)
        /\ Follows(a, b) /\ Follows(a, d) /\ Follows(b, d)
    BY <1>1, IncomingFatal
  <2>2. Follows(a, w) /\ Follows(b, w) /\ Follows(d, w)
    BY DEF Follows, Last2
  <2> QED
    BY <2>1, <2>2, IncomingFatal
<1>9. Kinds(w) \ Silent # {}
  <2>1. "fatal" \in Kinds(w)
    OBVIOUS
  <2>2. "fatal" \notin Silent
    BY DEF Silent
  <2> QED
    BY <2>1, <2>2
<1>10. Whole(asked, todo, s2)
  BY <1>3 DEF Whole
<1> QED
  BY <1>1, <1>7, <1>8, <1>9, <1>10 DEF Flow

\* The program is interrupted
LEMMA InterruptStep == GenIInv /\ Interrupt => GenIInv'
<1> SUFFICES ASSUME GenIInv, Interrupt PROVE GenIInv'
  OBVIOUS
<1>1. Waiting /\ io.op = "execute" /\ net' = net
  BY DEF Interrupt
<1>2. Going(Here) /\ Here \in Xs /\ Here.io = io /\ Here.net = net
  BY <1>1, HereGoing
<1>3. /\ io \in Ios /\ net \in Nets /\ srv \in Servers /\ Len(net.up) <= Cap
      /\ FlowOf(io, net, srv) /\ Places(io) /\ Busy(io)
      /\ io.at \in {"send", "copy"} => io.results = <<>>
  BY <1>2, GoingFacts DEF Going
<1>4. PICK i \in Ios : i = io
  BY <1>3
<1>5. CASE io.interrupts = 0
  <2>1. PICK j \in Ios : j = [i EXCEPT !.interrupts = 1]
    BY DEF Ios
  <2>2. Same([j EXCEPT !.interrupts = i.interrupts], i) /\ j.out = i.out /\ j.in = i.in
        /\ j.op = i.op /\ j.at = i.at /\ j.error = i.error /\ j.todo = i.todo
        /\ j.results = i.results
    BY <2>1 DEF Ios, Same
  <2>3. io' = j
    BY <1>4, <1>5, <2>1 DEF Interrupt
  <2>4. Asked(j, net) = Asked(i, net)
    BY <2>2 DEF Asked
  <2>5. Places(j) /\ Busy(j) /\ (j.at \in {"send", "copy"} => j.results = <<>>)
    BY <1>3, <1>4, <2>2 DEF Places, Busy
  <2>6. CASE srv' = srv
    BY <1>3, <1>4, <2>2, <2>4, <2>5, BusyFlow, <1>1, <2>3, <2>6 DEF FlowOf, Typed, GenIInv
  <2>7. CASE srv.out # <<>> /\ srv.alive /\ srv' = [srv EXCEPT !.out = <<U("fatal", 0), U("ready", 0)>>]
    <3>1. U("fatal", 0) \in Units /\ U("ready", 0) \in Units
      BY DEF U, Units
    <3>2. PICK fatal \in Units : fatal = U("fatal", 0) /\ fatal.kind = "fatal"
      BY <3>1 DEF U
    <3>3. PICK ready \in Units : ready = U("ready", 0) /\ ready.kind = "ready"
      BY <3>1 DEF U
    <3>4. PICK w \in Seq(Units) :
              /\ w = <<fatal, ready>> /\ w # <<>> /\ Kinds(w) = {fatal.kind, ready.kind}
              /\ Ending(w) <=> fatal.kind \notin Finals /\ ready.kind \in Finals
              /\ (fatal.kind = "fatal" => ready.kind \in Last2) => FatalLast(w)
      BY TwoUnits
    <3>5. w # <<>> /\ Kinds(w) = {"fatal", "ready"} /\ Ending(w) /\ FatalLast(w)
      BY <3>2, <3>3, <3>4 DEF Finals, Last2
    <3>6. PICK s \in Servers : s = srv
      BY <1>3
    <3>7. PICK s2 \in Servers : s2 = [s EXCEPT !.out = w]
      BY DEF Servers
    <3>8. s2.alive = s.alive /\ s2.out = w /\ s2.said = s.said /\ s2.failed = s.failed
      BY <3>7 DEF Servers
    <3>9. srv' = s2
      BY <2>7, <3>2, <3>3, <3>4, <3>6, <3>7
    <3>10. PICK a \in Seq(Units) : a = i.results
      BY <1>2, <1>4, GoingFacts
    <3>11. PICK b \in Seq(Units) : b = i.in
      BY <1>2, <1>4, GoingFacts
    <3>12. PICK d \in Seq(Units) : d = net.down
      BY <1>2, GoingFacts
    <3>13. PICK o \in Seq(Units) : o = s.out /\ o # <<>>
      BY <1>2, <2>7, <3>6, GoingFacts
    <3>14. PICK asked : asked = Asked(i, net)
      OBVIOUS
    <3>15. Flow("execute", i.todo, asked, a, b, d, s) /\ s.alive
      BY <1>1, <1>3, <1>4, <2>7, <3>6, <3>10, <3>11, <3>12, <3>14 DEF FlowOf
    <3>16. Flow("execute", i.todo, asked, a, b, d, s2)
      BY <3>5, <3>8, <3>13, <3>15, CanceledFlow
    <3>17. FlowOf(j, net, s2)
      BY <1>1, <1>4, <2>2, <2>4, <3>10, <3>11, <3>12, <3>14, <3>16 DEF FlowOf
    <3>18. Typed(j, net, s2)
      BY <1>3 DEF Typed
    <3>19. GenHolds(j, net, s2)
      BY <2>5, <3>17, <3>18, BusyFlow
    <3> QED
      BY <1>1, <2>3, <3>9, <3>19 DEF GenIInv
  <2> QED
    BY <2>6, <2>7 DEF Interrupt
<1>6. CASE io.interrupts # 0
  <2>1. srv' = srv
    BY <1>6 DEF Interrupt
  <2>2. PICK j \in Ios : j = [i EXCEPT !.interrupts = 2]
    BY DEF Ios
  <2>3. /\ j.op = i.op /\ j.at = i.at /\ j.error = i.error /\ j.todo = i.todo
        /\ j.results = i.results /\ j.out = i.out /\ j.in = i.in /\ j.interrupts = 2
    BY <2>2 DEF Ios
  <2>4. PICK x \in Xs : x = [io |-> j, net |-> net]
    BY <1>3 DEF Xs
  <2>5. x.io = j /\ x.net = net
    BY <2>4
  <2>6. Going(x)
    BY <2>3, <1>3, <1>4, BusyFlow, <2>5 DEF Asked, FlowOf, Typed, Places, Busy, Going
  <2>7. PICK y : y = Raise(x, "interrupted")
    OBVIOUS
  <2>8. Stepped(y)
    BY <2>3, <2>5, <2>6, <2>7, RaiseKeeps
  <2>9. y.net = net /\ y.io = [j EXCEPT !.at = "done", !.error = "interrupted"]
    BY <2>4, <2>5, <2>7 DEF Raise
  <2>10. io' = [Raise(Here, "interrupted").io EXCEPT !.interrupts = 2]
    BY <1>6 DEF Interrupt
  <2>11. Raise(Here, "interrupted").io = [i EXCEPT !.at = "done", !.error = "interrupted"]
    BY <1>4 DEF Raise, Here
  <2>12. io' = y.io
    BY <2>2, <2>9, <2>10, <2>11 DEF Ios
  <2> QED
    BY <1>1, <2>1, <2>8, <2>9, <2>12 DEF Stepped, Holds, GenIInv
<1> QED
  BY <1>5, <1>6

\* What is asked of the generators
LEMMA ImpliesAnswersKept == GenIInv => AnswersKept
<1> SUFFICES ASSUME GenIInv PROVE AnswersKept
  OBVIOUS
<1>1. GenHolds(io, net, srv)
  BY DEF GenIInv
<1>2. /\ Received(io, net, srv) /\ Places(io) /\ io \in Ios
      /\ srv.alive => Exchange(io, net, srv)
  BY <1>1 DEF GenHolds
<1>3. ResultsComplete
  <2> SUFFICES ASSUME io.at = "done", io.error = "none", srv.alive
               PROVE  io.results = srv.said /\ io.results # <<>>
    BY DEF ResultsComplete
  <2>1. /\ Answered(io, net, srv) /\ io.in = <<>> /\ net.down = <<>> /\ srv.out = <<>>
        /\ Answering(io, net, srv)
        /\ srv.said = io.results \o Sift(io.in \o net.down, Silent)
    BY <1>2 DEF Exchange
  <2>2. Sift(io.in \o net.down, Silent) = <<>>
    <3>1. <<>> \o <<>> = <<>>
      BY UnitsNothing
    <3> QED
      BY <2>1, <3>1, SiftStep
  <2>3. srv.said = io.results
    BY <1>1, <2>1, <2>2, GenTypes, UnitsNothing
  <2>4. srv.said # <<>>
    BY <2>1, KindsNone DEF Answering
  <2> QED
    BY <2>3, <2>4
<1>4. ErrorKept
  BY <1>1, GenTypes, <1>2, IncomingFatal, FatalFacts DEF Received, Stream, ErrorKept
<1>5. InterruptDrains
  BY <1>2, <1>1, GenTypes, CatFacts DEF InterruptDrains, Ios, Received, Places, Exchange,
     Answered, Asked
<1> QED
  BY <1>3, <1>4, <1>5 DEF AnswersKept

\* Every step keeps the invariant
LEMMA GenStep == GenIInv /\ [IoNext]_ioVars => GenIInv'
BY StartOpStep, WaitReadyStep, WaitClosedStep, CloseSocketStep, InterruptStep, ServerReadStep,
   ServerWriteStep, ServerDiesStep DEF IoNext, ioVars, GenIInv

(***************************************************************************)
(* Whatever the sizes of the buffers and of the operations, however the    *)
(* units come, and whenever the program is interrupted, the connection     *)
(* closed by another thread or lost, a generator returns the answers of    *)
(* the server, all and in order, tells an error before the loss that       *)
(* follows it, and leaves nothing of an interrupted query for the next     *)
(* (generators.py:133-363, connection.py:476-496).                         *)
(***************************************************************************)
THEOREM AnswersCorrect == IoInit /\ [][IoNext]_ioVars => []AnswersKept
<1>1. IoInit /\ [][IoNext]_ioVars => []GenIInv
  BY GenInitHolds, GenStep, PTL
<1> QED
  BY <1>1, ImpliesAnswersKept, PTL
=============================================================================
