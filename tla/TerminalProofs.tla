---------------------------- MODULE TerminalProofs ----------------------------
(***************************************************************************)
(* Theorems about TerminalDaemon for every set of panes, every number of   *)
(* sessions, inputs and connections, whichever socket is read first.       *)
(***************************************************************************)
EXTENDS TerminalDaemon, SequenceTheorems, TLAPS

-----------------------------------------------------------------------------
(* Numbered input.                                                          *)

\* q holds the inputs that follow the first n.
NumberedFrom(q, n) == q \in Seq(Nat) /\ \A k \in 1 .. Len(q) : q[k] = n + k

LEMMA NumberedEmpty == \A n \in Nat : NumberedFrom(<<>>, n) /\ Len(<<>>) = 0
BY EmptySeq DEF NumberedFrom

LEMMA NumberedEntries ==
  ASSUME NEW q, NEW n, NumberedFrom(q, n)
  PROVE  /\ \A k \in DOMAIN q : q[k] = n + k
         /\ n = 0 => \A k \in DOMAIN q : q[k] = k
<1>1. q \in Seq(Nat) /\ DOMAIN q = 1 .. Len(q) /\ Len(q) \in Nat
  BY DEF NumberedFrom
<1> QED
  BY <1>1 DEF NumberedFrom

LEMMA NumberedAppend ==
  ASSUME NEW n \in Nat, NEW q, NumberedFrom(q, n), NEW e, e = n + Len(q) + 1
  PROVE  NumberedFrom(Append(q, e), n) /\ Len(Append(q, e)) = Len(q) + 1
<1>1. q \in Seq(Nat) /\ Len(q) \in Nat
  BY DEF NumberedFrom
<1>2. e \in Nat
  BY <1>1
<1>3. /\ Append(q, e) \in Seq(Nat)
      /\ Len(Append(q, e)) = Len(q) + 1
      /\ \A i \in 1 .. Len(q) : Append(q, e)[i] = q[i]
      /\ Append(q, e)[Len(q) + 1] = e
  BY <1>1, <1>2, AppendProperties
<1> QED
  BY <1>1, <1>3 DEF NumberedFrom

LEMMA NumberedNext ==
  ASSUME NEW n \in Nat, NEW q, NumberedFrom(q, n), NEW m \in Nat, n + Len(q) = m
  PROVE  NumberedFrom(Append(q, m + 1), n) /\ n + Len(Append(q, m + 1)) = m + 1
<1> DEFINE e == m + 1
<1>1. Len(q) \in Nat
  BY DEF NumberedFrom
<1>2. e = n + Len(q) + 1 /\ e \in Nat
  BY <1>1
<1> HIDE DEF e
<1>3. NumberedFrom(Append(q, e), n) /\ Len(Append(q, e)) = Len(q) + 1
  BY <1>2, NumberedAppend
<1>4. n + (Len(q) + 1) = e
  BY <1>1, <1>2
<1>5. NumberedFrom(Append(q, e), n) /\ n + Len(Append(q, e)) = e
  BY <1>3, <1>4, Zenon
<1> QED
  BY <1>5 DEF e

LEMMA NumberedConcat ==
  ASSUME NEW p, NEW q, NumberedFrom(p, 0), NumberedFrom(q, Len(p))
  PROVE  NumberedFrom(p \o q, 0) /\ Len(p \o q) = Len(p) + Len(q)
<1>1. p \in Seq(Nat) /\ q \in Seq(Nat) /\ Len(p) \in Nat /\ Len(q) \in Nat
  BY DEF NumberedFrom
<1>2. /\ p \o q \in Seq(Nat)
      /\ Len(p \o q) = Len(p) + Len(q)
      /\ \A i \in 1 .. Len(p) + Len(q) :
           (p \o q)[i] = IF i <= Len(p) THEN p[i] ELSE q[i - Len(p)]
  BY <1>1, ConcatProperties
<1>3. ASSUME NEW i \in 1 .. Len(p \o q)
      PROVE  (p \o q)[i] = 0 + i
  <2>1. CASE i <= Len(p)
    BY <1>1, <1>2, <2>1 DEF NumberedFrom
  <2>2. CASE ~(i <= Len(p))
    <3>1. i - Len(p) \in 1 .. Len(q)
      BY <1>1, <1>2, <2>2
    <3>2. q[i - Len(p)] = Len(p) + (i - Len(p))
      BY <3>1 DEF NumberedFrom
    <3> QED
      BY <1>1, <1>2, <2>2, <3>2
  <2> QED
    BY <2>1, <2>2
<1> QED
  BY <1>2, <1>3 DEF NumberedFrom

-----------------------------------------------------------------------------
(* What holds of one session.                                               *)

\* The pty has had the first inputs, the queue has the next ones, and there is a
\* queue only as long as something will flush it.
InputInv(r) ==
  /\ NumberedFrom(r.received, 0)
  /\ IsAlive(r) /\ r.child = "alive" =>
       Len(r.received) + Len(r.queue) = r.sent /\ NumberedFrom(r.queue, Len(r.received))
  /\ IsAlive(r) /\ ~Holds(r) => r.queue = <<>>
  /\ r.gate # "off" => r.shell # "pending"

\* A session that runs has told nobody and has somebody to tell; one that has
\* ended without being disposed of has no exit callback to come.
LifeInv(r) ==
  /\ r.told \in {0, 1}
  /\ IsAlive(r) => /\ ~r.disposed /\ r.told = 0 /\ r.client # 0
                   /\ r.child \in {"alive", "gone"}
  /\ r.child = "alive" => IsAlive(r)
  /\ ~IsAlive(r) /\ ~r.disposed => r.child = "reaped"

SessionInv(r) == r \in SessionRec /\ InputInv(r) /\ LifeInv(r)

\* A method may end a session, which is told once, and never starts it again.
Follows(r, q) ==
  /\ SessionInv(q)
  /\ q.id = r.id
  /\ IsAlive(q) => IsAlive(r)
  /\ ~IsAlive(q) => IF IsAlive(r) THEN q.told = 1 ELSE q.told = r.told

LEMMA PtyTakesType ==
  ASSUME NEW r \in SessionRec, NEW q \in Seq(Nat)
  PROVE  PtyTakes(r, q) \in Seq(Nat)
BY ConcatProperties DEF PtyTakes, SessionRec

LEMMA NewSessionInv ==
  ASSUME NEW i \in Id, NEW barrier \in BOOLEAN, NEW c \in Nat \ {0}
  PROVE  SessionInv(NewSession(i, barrier, c)) /\ IsAlive(NewSession(i, barrier, c))
BY NumberedEmpty, EmptySeq
   DEF NewSession, SessionInv, SessionRec, InputInv, LifeInv, IsAlive, Holds, NumberedFrom

LEMMA AttachFollows ==
  ASSUME NEW r, SessionInv(r), IsAlive(r), NEW c \in Nat \ {0}
  PROVE  Follows(r, [r EXCEPT !.client = c])
BY DEF SessionInv, SessionRec, InputInv, LifeInv, IsAlive, Holds, Follows

-----------------------------------------------------------------------------
(* Input and output of a session.                                           *)

LEMMA WriteFollows ==
  ASSUME NEW r, SessionInv(r)
  PROVE  Follows(r, Write(r))
<1> DEFINE n == r.sent + 1
           held == [r EXCEPT !.sent = n, !.queue = Append(@, n)]
           direct == [r EXCEPT !.sent = n, !.received = PtyTakes(r, <<n>>)]
<1>1. r \in SessionRec /\ n \in Nat /\ <<n>> \in Seq(Nat) /\ Len(<<n>>) = 1
  BY DEF SessionInv, SessionRec
<1>2. CASE ~IsAlive(r) \/ r.disposed
  BY <1>2 DEF Write, Follows, SessionInv, LifeInv
<1>3. CASE IsAlive(r) /\ ~r.disposed /\ Holds(r)
  <2>1. Write(r) = held
    BY <1>3 DEF Write
  <2>2. held \in SessionRec
    <3>1. Append(r.queue, n) \in Seq(Nat)
      BY <1>1, AppendProperties DEF SessionRec
    <3> QED
      BY <1>1, <3>1 DEF SessionRec
  <2>3. /\ held.received = r.received /\ held.queue = Append(r.queue, n) /\ held.sent = n
        /\ held.gate = r.gate /\ held.shell = r.shell /\ held.state = r.state
        /\ held.child = r.child /\ held.disposed = r.disposed /\ held.told = r.told
        /\ held.client = r.client /\ held.id = r.id
    BY <1>1 DEF SessionRec
  <2>4. InputInv(held)
    <3>1. ASSUME r.child = "alive"
          PROVE  /\ NumberedFrom(Append(r.queue, n), Len(r.received))
                 /\ Len(r.received) + Len(Append(r.queue, n)) = n
      <4>1. /\ Len(r.received) + Len(r.queue) = r.sent
            /\ NumberedFrom(r.queue, Len(r.received))
        BY <1>3, <3>1 DEF SessionInv, InputInv
      <4>2. Len(r.received) \in Nat /\ Len(r.queue) \in Nat /\ r.sent \in Nat
        BY <1>1 DEF SessionRec
      <4> QED
        BY <4>1, <4>2, NumberedNext, Zenon
    <3> QED
      BY <1>3, <2>3, <3>1 DEF SessionInv, InputInv, IsAlive, Holds
  <2>5. LifeInv(held)
    BY <2>3 DEF SessionInv, LifeInv, IsAlive
  <2> QED
    BY <1>3, <2>1, <2>2, <2>3, <2>4, <2>5 DEF Follows, SessionInv, IsAlive
<1>4. CASE IsAlive(r) /\ ~r.disposed /\ ~Holds(r)
  <2>1. Write(r) = direct
    BY <1>4 DEF Write
  <2>2. direct \in SessionRec
    <3>1. PtyTakes(r, <<n>>) \in Seq(Nat)
      BY <1>1, PtyTakesType
    <3> QED
      BY <1>1, <3>1 DEF SessionRec
  <2>3. /\ direct.received = PtyTakes(r, <<n>>) /\ direct.queue = r.queue /\ direct.sent = n
        /\ direct.gate = r.gate /\ direct.shell = r.shell /\ direct.state = r.state
        /\ direct.child = r.child /\ direct.disposed = r.disposed /\ direct.told = r.told
        /\ direct.client = r.client /\ direct.id = r.id
    BY <1>1 DEF SessionRec
  <2>4. InputInv(direct)
    <3>0. r.queue = <<>> /\ NumberedFrom(r.received, 0) /\ Len(r.received) \in Nat
      BY <1>1, <1>4 DEF SessionInv, InputInv, SessionRec
    <3>1. CASE r.child = "alive"
      <4>1. Len(r.received) = r.sent
        BY <1>1, <1>4, <3>0, <3>1 DEF SessionInv, InputInv, SessionRec
      <4>2. NumberedFrom(<<n>>, Len(r.received))
        BY <1>1, <3>0, <4>1 DEF NumberedFrom
      <4>3. PtyTakes(r, <<n>>) = r.received \o <<n>>
        BY <1>4, <3>1 DEF PtyTakes
      <4>4. NumberedFrom(PtyTakes(r, <<n>>), 0) /\ Len(PtyTakes(r, <<n>>)) = n
        BY <1>1, <3>0, <4>1, <4>2, <4>3, NumberedConcat
      <4>5. NumberedFrom(<<>>, n) /\ Len(<<>>) = 0
        BY <1>1, NumberedEmpty
      <4> QED
        BY <1>1, <1>4, <2>3, <3>0, <4>4, <4>5 DEF SessionInv, InputInv, IsAlive, Holds
    <3>2. CASE r.child # "alive"
      <4>1. PtyTakes(r, <<n>>) = r.received
        BY <1>4, <3>2 DEF PtyTakes, SessionInv, LifeInv
      <4> QED
        BY <1>4, <2>3, <3>0, <3>2, <4>1 DEF SessionInv, InputInv, IsAlive, Holds
    <3> QED
      BY <3>1, <3>2
  <2>5. LifeInv(direct)
    BY <2>3 DEF SessionInv, LifeInv, IsAlive
  <2> QED
    BY <1>4, <2>1, <2>2, <2>3, <2>4, <2>5 DEF Follows, SessionInv, IsAlive
<1> QED
  BY <1>2, <1>3, <1>4

LEMMA HandleDataFollows ==
  ASSUME NEW r, SessionInv(r), NEW marker \in BOOLEAN
  PROVE  Follows(r, HandleData(r, marker))
BY DEF HandleData, TransitionToReady, NotifyData,
       SessionInv, SessionRec, InputInv, LifeInv, IsAlive, Holds, Follows

\* The flush keeps the order: the queue continues what the pty has had.
LEMMA FlushKeepsOrder ==
  ASSUME NEW r, SessionInv(r)
  PROVE  /\ PtyTakes(r, r.queue) \in Seq(Nat)
         /\ NumberedFrom(PtyTakes(r, r.queue), 0)
         /\ IsAlive(r) /\ r.child = "alive" => Len(PtyTakes(r, r.queue)) = r.sent
<1>1. CASE r.child = "alive"
  <2>1. /\ NumberedFrom(r.received, 0)
        /\ Len(r.received) + Len(r.queue) = r.sent
        /\ NumberedFrom(r.queue, Len(r.received))
        /\ PtyTakes(r, r.queue) = r.received \o r.queue
    BY <1>1 DEF SessionInv, InputInv, LifeInv, PtyTakes
  <2>2. /\ NumberedFrom(r.received \o r.queue, 0)
        /\ Len(r.received \o r.queue) = Len(r.received) + Len(r.queue)
    BY <2>1, NumberedConcat
  <2> QED
    BY <2>1, <2>2 DEF NumberedFrom
<1>2. CASE r.child # "alive"
  <2>1. PtyTakes(r, r.queue) = r.received
    BY <1>2 DEF PtyTakes, SessionInv, LifeInv
  <2> QED
    BY <1>2, <2>1 DEF SessionInv, InputInv, NumberedFrom
<1> QED
  BY <1>1, <1>2

LEMMA ReadyTimeoutFollows ==
  ASSUME NEW r, SessionInv(r), IsAlive(r), r.shell = "pending"
  PROVE  Follows(r, OnShellReadyTimeout(r))
<1> DEFINE p == PtyTakes(r, r.queue)
           q == [r EXCEPT !.shell = "timed_out", !.queue = <<>>, !.received = p]
<1>1. OnShellReadyTimeout(r) = q
  BY DEF OnShellReadyTimeout, FlushPreReadyQueue, PtyTakes, IsAlive, SessionInv, SessionRec
<1>2. p \in Seq(Nat) /\ NumberedFrom(p, 0) /\ (r.child = "alive" => Len(p) = r.sent)
  BY FlushKeepsOrder
<1>3. NumberedFrom(<<>>, r.sent) /\ Len(<<>>) = 0 /\ <<>> \in Seq(Nat)
  BY NumberedEmpty DEF SessionInv, SessionRec, NumberedFrom
<1> HIDE DEF p
<1>4. q \in SessionRec
  BY <1>2, <1>3 DEF SessionInv, SessionRec
<1>5. InputInv(q) /\ LifeInv(q)
  BY <1>2, <1>3 DEF SessionInv, SessionRec, InputInv, LifeInv, IsAlive, Holds
<1> QED
  BY <1>1, <1>4, <1>5 DEF Follows, SessionInv, SessionRec, IsAlive

LEMMA GateFiresFollows ==
  ASSUME NEW r, SessionInv(r)
  PROVE  Follows(r, GateFires(r))
<1> DEFINE p == PtyTakes(r, r.queue)
           q == [r EXCEPT !.gate = "off", !.queue = <<>>, !.received = p]
<1>1. GateFires(r) = q
  BY DEF GateFires, FlushPreReadyQueue, PtyTakes, IsAlive, SessionInv, SessionRec
<1>2. /\ p \in Seq(Nat) /\ NumberedFrom(p, 0)
      /\ IsAlive(r) /\ r.child = "alive" => Len(p) = r.sent
  BY FlushKeepsOrder
<1>3. NumberedFrom(<<>>, r.sent) /\ Len(<<>>) = 0 /\ <<>> \in Seq(Nat)
  BY NumberedEmpty DEF SessionInv, SessionRec, NumberedFrom
<1> HIDE DEF p
<1>4. q \in SessionRec
  BY <1>2, <1>3 DEF SessionInv, SessionRec
<1>5. InputInv(q) /\ LifeInv(q)
  BY <1>2, <1>3 DEF SessionInv, SessionRec, InputInv, LifeInv, IsAlive, Holds
<1> QED
  BY <1>1, <1>4, <1>5 DEF Follows, SessionInv, SessionRec, IsAlive

-----------------------------------------------------------------------------
(* The end of a session.                                                    *)

LEMMA KillFollows ==
  ASSUME NEW r, SessionInv(r)
  PROVE  Follows(r, Kill(r))
BY DEF Kill, Attachable, SessionInv, SessionRec, InputInv, LifeInv, IsAlive, Holds, Follows

LEMMA ChildEndsFollows ==
  ASSUME NEW r, SessionInv(r), r.child \in {"alive", "doomed"}
  PROVE  Follows(r, [r EXCEPT !.child = "gone"])
BY DEF SessionInv, SessionRec, InputInv, LifeInv, IsAlive, Holds, Follows

\* What is left of a session that has ended.
LEMMA EndedInv ==
  ASSUME NEW q \in SessionRec, ~IsAlive(q), q.received = <<>>,
         q.gate # "off" => q.shell # "pending", q.told \in {0, 1},
         q.child # "alive", q.disposed \/ q.child = "reaped"
  PROVE  SessionInv(q)
BY NumberedEmpty DEF SessionInv, InputInv, LifeInv, IsAlive

LEMMA EmptySequence == <<>> \in Seq(Nat)
BY EmptySeq

LEMMA TornDownFields ==
  ASSUME NEW r \in SessionRec
  PROVE  /\ TornDown(r) \in SessionRec /\ TornDown(r).state = "exited"
         /\ TornDown(r).received = <<>> /\ TornDown(r).disposed
         /\ TornDown(r).child = r.child /\ TornDown(r).id = r.id
         /\ TornDown(r).told = r.told /\ TornDown(r).client = r.client
         /\ TornDown(r).gate = r.gate /\ TornDown(r).shell = r.shell
BY EmptySequence DEF TornDown, Ended, SessionRec

LEMMA KilledFields ==
  ASSUME NEW r \in SessionRec
  PROVE  /\ Killed(r) \in SessionRec /\ Killed(r).child # "alive"
         /\ Killed(r).id = r.id /\ Killed(r).told = r.told
         /\ Killed(r).gate = r.gate /\ Killed(r).shell = r.shell
BY DEF Killed, SessionRec

LEMMA EmptiedFields ==
  ASSUME NEW r \in SessionRec
  PROVE  /\ Emptied(r) \in SessionRec /\ Emptied(r).gate = "off"
         /\ Emptied(r).state = r.state /\ Emptied(r).received = r.received
         /\ Emptied(r).disposed = r.disposed /\ Emptied(r).child = r.child
         /\ Emptied(r).id = r.id /\ Emptied(r).told = r.told
BY EmptySequence DEF Emptied, SessionRec

LEMMA TellFields ==
  ASSUME NEW r \in SessionRec, NEW c \in Nat, c # 0, r.told = 0
  PROVE  /\ Tell(r, c) \in SessionRec /\ Tell(r, c).told = 1
         /\ Tell(r, c).state = r.state /\ Tell(r, c).received = r.received
         /\ Tell(r, c).disposed = r.disposed /\ Tell(r, c).child = r.child
         /\ Tell(r, c).id = r.id /\ Tell(r, c).gate = r.gate
<1> DEFINE q == [r EXCEPT !.told = 1]
<1>1. Tell(r, c) = q
  BY DEF Tell
<1>2. /\ q \in SessionRec /\ q.told = 1 /\ q.state = r.state /\ q.received = r.received
      /\ q.disposed = r.disposed /\ q.child = r.child /\ q.id = r.id /\ q.gate = r.gate
  BY DEF SessionRec
<1> HIDE DEF q
<1> QED
  BY <1>1, <1>2, Zenon

\* A running session is killed, torn down and told of.
LEMMA KilledAndDisposed ==
  ASSUME NEW r, SessionInv(r), IsAlive(r)
  PROVE  Follows(r, Tell(Emptied(TornDown([Killed(r) EXCEPT !.terminating = FALSE])), r.client))
         /\ ~IsAlive(Tell(Emptied(TornDown([Killed(r) EXCEPT !.terminating = FALSE])), r.client))
<1> DEFINE k == [Killed(r) EXCEPT !.terminating = FALSE]
           t == TornDown(k)
           e == Emptied(t)
           q == Tell(e, r.client)
<1>1. r \in SessionRec /\ r.told = 0 /\ r.client # 0
  BY DEF SessionInv, LifeInv
<1>0. r.client \in Nat
  BY <1>1 DEF SessionRec
<1>2. k \in SessionRec /\ k.child # "alive" /\ k.id = r.id /\ k.told = 0
  BY <1>1, KilledFields DEF SessionRec
<1>3. /\ t \in SessionRec /\ t.received = <<>> /\ t.disposed /\ t.state = "exited"
      /\ t.child # "alive" /\ t.id = r.id /\ t.told = 0
  <2> HIDE DEF k
  <2> QED
    BY <1>2, TornDownFields
<1>4. /\ e \in SessionRec /\ e.received = <<>> /\ e.disposed /\ e.state = "exited"
      /\ e.gate = "off" /\ e.child # "alive" /\ e.id = r.id /\ e.told = 0
  <2> HIDE DEF t
  <2> QED
    BY <1>3, EmptiedFields
<1>5. /\ q \in SessionRec /\ q.received = <<>> /\ q.disposed /\ q.state = "exited"
      /\ q.gate = "off" /\ q.child # "alive" /\ q.id = r.id /\ q.told = 1
  <2> HIDE DEF e
  <2> QED
    BY <1>0, <1>1, <1>4, TellFields, Zenon
<1> HIDE DEF q
<1>6. SessionInv(q) /\ ~IsAlive(q)
  BY <1>5, EndedInv DEF IsAlive
<1>7. Follows(r, q)
  BY <1>5, <1>6 DEF Follows
<1> QED
  BY <1>6, <1>7 DEF q

\* A session is disposed of only once it has ended or while it is being killed.
LEMMA DisposeFollows ==
  ASSUME NEW r, SessionInv(r), ~Attachable(r)
  PROVE  Follows(r, Dispose(r)) /\ ~IsAlive(Dispose(r))
<1>1. CASE r.disposed
  BY <1>1 DEF Dispose, Follows, SessionInv, LifeInv
<1>2. CASE ~r.disposed /\ IsAlive(r)
  <2>1. Dispose(r) = Tell(Emptied(TornDown([Killed(r) EXCEPT !.terminating = FALSE])), r.client)
    BY <1>2 DEF Dispose, Attachable
  <2> QED
    BY <1>2, <2>1, KilledAndDisposed
<1>3. CASE ~r.disposed /\ ~IsAlive(r)
  <2> DEFINE t == TornDown(r)
             e == Emptied(t)
  <2>1. Dispose(r) = e
    BY <1>3 DEF Dispose
  <2>2. r \in SessionRec /\ r.told \in {0, 1} /\ r.child = "reaped"
    BY <1>3 DEF SessionInv, LifeInv
  <2>3. /\ t \in SessionRec /\ t.received = <<>> /\ t.disposed /\ t.state = "exited"
        /\ t.child = "reaped" /\ t.id = r.id /\ t.told = r.told
    BY <2>2, TornDownFields
  <2>4. /\ e \in SessionRec /\ e.received = <<>> /\ e.disposed /\ e.state = "exited"
        /\ e.gate = "off" /\ e.child = "reaped" /\ e.id = r.id /\ e.told = r.told
    <3> HIDE DEF t
    <3> QED
      BY <2>3, EmptiedFields
  <2> HIDE DEF e
  <2>5. SessionInv(e) /\ ~IsAlive(e)
    BY <2>2, <2>4, EndedInv DEF IsAlive
  <2> QED
    BY <1>3, <2>1, <2>4, <2>5 DEF Follows
<1> QED
  BY <1>1, <1>2, <1>3

LEMMA ForceDisposeFollows ==
  ASSUME NEW r, SessionInv(r)
  PROVE  Follows(r, ForceDispose(r))
<1>1. CASE ~IsAlive(r)
  BY <1>1 DEF ForceDispose, Follows
<1>2. CASE IsAlive(r)
  BY <1>2, KilledAndDisposed DEF ForceDispose
<1> QED
  BY <1>1, <1>2

LEMMA HandleExitFollows ==
  ASSUME NEW r, SessionInv(r), r.child = "gone"
  PROVE  Follows(r, HandleExit(r))
<1> DEFINE x == [r EXCEPT !.child = "reaped", !.gate = "off"]
           e == Ended(x)
           q == Tell(e, r.client)
<1>1. CASE r.disposed
  BY <1>1 DEF HandleExit, Follows, SessionInv, SessionRec, InputInv, LifeInv, IsAlive, Holds
<1>2. CASE ~r.disposed
  <2>1. r \in SessionRec /\ IsAlive(r) /\ r.told = 0 /\ r.client # 0 /\ HandleExit(r) = q
    BY <1>2 DEF SessionInv, LifeInv, HandleExit
  <2>0. r.client \in Nat
    BY <2>1 DEF SessionRec
  <2>2. /\ e \in SessionRec /\ e.state = "exited" /\ e.received = <<>> /\ e.gate = "off"
        /\ e.child = "reaped" /\ e.id = r.id /\ e.told = 0
    BY <2>1, EmptySequence DEF Ended, SessionRec
  <2>3. /\ q \in SessionRec /\ q.state = "exited" /\ q.received = <<>> /\ q.gate = "off"
        /\ q.child = "reaped" /\ q.id = r.id /\ q.told = 1
    <3> HIDE DEF e
    <3> QED
      BY <2>0, <2>1, <2>2, TellFields, Zenon
  <2> HIDE DEF q
  <2>4. SessionInv(q) /\ ~IsAlive(q)
    BY <2>3, EndedInv DEF IsAlive
  <2> QED
    BY <2>1, <2>3, <2>4 DEF Follows
<1> QED
  BY <1>1, <1>2

\* What the daemon's shutdown leaves of a session that is in its table.
Stopped(r) ==
  [IF IsAlive(r) THEN ForceKillAndDispose(r) ELSE TornDown(r) EXCEPT !.client = 0]

LEMMA StoppedInv ==
  ASSUME NEW r, SessionInv(r)
  PROVE  SessionInv(Stopped(r)) /\ Stopped(r).id = r.id /\ ~IsAlive(Stopped(r))
<1> DEFINE k == IF IsAlive(r) THEN Killed(r) ELSE r
           t == TornDown(k)
           q == [t EXCEPT !.client = 0]
<1>1. Stopped(r) = q
  BY DEF Stopped, ForceKillAndDispose
<1>2. /\ k \in SessionRec /\ k.child # "alive" /\ k.id = r.id /\ k.told \in {0, 1}
      /\ k.gate # "off" => k.shell # "pending"
  BY KilledFields DEF SessionInv, InputInv, LifeInv, SessionRec
<1>3. /\ t \in SessionRec /\ t.state = "exited" /\ t.received = <<>> /\ t.disposed
      /\ t.child # "alive" /\ t.id = r.id /\ t.told \in {0, 1}
      /\ t.gate # "off" => t.shell # "pending"
  <2> HIDE DEF k
  <2> QED
    BY <1>2, TornDownFields
<1>4. /\ q \in SessionRec /\ q.state = "exited" /\ q.received = <<>> /\ q.disposed
      /\ q.child # "alive" /\ q.id = r.id /\ q.told \in {0, 1}
      /\ q.gate # "off" => q.shell # "pending"
  <2> HIDE DEF t
  <2> QED
    BY <1>3 DEF SessionRec
<1> HIDE DEF q
<1>5. SessionInv(q) /\ ~IsAlive(q)
  BY <1>4, EndedInv DEF IsAlive
<1> QED
  BY <1>1, <1>4, <1>5

-----------------------------------------------------------------------------
(* The table of sessions.                                                   *)

\* Every session obeys SessionInv, a running one is in the table under its id,
\* and one that has ended since the last stop of a daemon has told its client.
Table(ss, aa, w) ==
  /\ ss \in Seq(SessionRec)
  /\ aa \in [Id -> 0 .. Len(ss)]
  /\ w \in 0 .. Len(ss)
  /\ \A s \in 1 .. Len(ss) : /\ SessionInv(ss[s])
                             /\ IsAlive(ss[s]) => aa[ss[s].id] = s
                             /\ s > w => IsAlive(ss[s]) \/ ss[s].told = 1
  /\ \A i \in Id : aa[i] # 0 => ss[aa[i]].id = i

LEMMA TableEntry ==
  ASSUME NEW ss, NEW aa, NEW w, Table(ss, aa, w), NEW s \in 1 .. Len(ss)
  PROVE  /\ ss[s] \in SessionRec /\ ss[s].id \in Id /\ SessionInv(ss[s])
         /\ IsAlive(ss[s]) => aa[ss[s].id] = s
         /\ s > w => IsAlive(ss[s]) \/ ss[s].told = 1
<1>1. ss[s] \in SessionRec
  BY DEF Table
<1>2. ss[s].id \in Id
  BY <1>1 DEF SessionRec
<1> QED
  BY <1>1, <1>2 DEF Table

LEMMA TableStep ==
  ASSUME NEW ss, NEW aa, NEW w, Table(ss, aa, w), NEW s \in 1 .. Len(ss),
         NEW q, Follows(ss[s], q)
  PROVE  Table([ss EXCEPT ![s] = q], aa, w)
<1> DEFINE tt == [ss EXCEPT ![s] = q]
<1>1. ss \in Seq(SessionRec) /\ q \in SessionRec
  BY DEF Table, Follows, SessionInv
<1>2. /\ tt \in Seq(SessionRec) /\ Len(tt) = Len(ss) /\ tt[s] = q
      /\ \A j \in 1 .. Len(ss) : j # s => tt[j] = ss[j]
  BY <1>1, ExceptSeq
<1>3. /\ aa \in [Id -> 0 .. Len(ss)] /\ w \in 0 .. Len(ss)
      /\ \A i \in Id : aa[i] # 0 => ss[aa[i]].id = i
      /\ \A j \in 1 .. Len(ss) : /\ SessionInv(ss[j])
                                 /\ IsAlive(ss[j]) => aa[ss[j].id] = j
                                 /\ j > w => IsAlive(ss[j]) \/ ss[j].told = 1
  BY DEF Table
<1>4. /\ SessionInv(q) /\ q.id = ss[s].id /\ (IsAlive(q) => IsAlive(ss[s]))
      /\ ~IsAlive(q) /\ ~IsAlive(ss[s]) => q.told = ss[s].told
      /\ ~IsAlive(q) /\ IsAlive(ss[s]) => q.told = 1
  BY DEF Follows
<1> HIDE DEF tt
<1>5. ASSUME NEW j \in 1 .. Len(ss)
      PROVE  /\ SessionInv(tt[j])
             /\ IsAlive(tt[j]) => aa[tt[j].id] = j
             /\ j > w => IsAlive(tt[j]) \/ tt[j].told = 1
  <2>1. CASE j = s
    BY <1>2, <1>3, <1>4, <2>1
  <2>2. CASE j # s
    BY <1>2, <1>3, <2>2
  <2> QED
    BY <2>1, <2>2
<1>6. ASSUME NEW i \in Id, aa[i] # 0
      PROVE  tt[aa[i]].id = i
  BY <1>2, <1>3, <1>4, <1>6
<1> QED
  BY <1>2, <1>3, <1>5, <1>6 DEF Table, tt

LEMMA TableForget ==
  ASSUME NEW ss, NEW aa, NEW w, Table(ss, aa, w), NEW i \in Id,
         \A s \in 1 .. Len(ss) : IsAlive(ss[s]) => ss[s].id # i
  PROVE  Table(ss, [aa EXCEPT ![i] = 0], w)
<1> DEFINE bb == [aa EXCEPT ![i] = 0]
<1>1. ss \in Seq(SessionRec) /\ aa \in [Id -> 0 .. Len(ss)] /\ Len(ss) \in Nat
  BY DEF Table
<1>2. bb \in [Id -> 0 .. Len(ss)] /\ bb[i] = 0 /\ \A j \in Id : j # i => bb[j] = aa[j]
  BY <1>1
<1> HIDE DEF bb
<1>3. ASSUME NEW s \in 1 .. Len(ss), IsAlive(ss[s])
      PROVE  bb[ss[s].id] = s
  <2>1. ss[s].id \in Id /\ ss[s].id # i /\ aa[ss[s].id] = s
    BY <1>3, TableEntry
  <2> QED
    BY <1>2, <2>1
<1>4. ASSUME NEW j \in Id, bb[j] # 0
      PROVE  ss[bb[j]].id = j
  BY <1>2, <1>4 DEF Table
<1> QED
  BY <1>2, <1>3, <1>4 DEF Table, bb

LEMMA TableCreate ==
  ASSUME NEW ss, NEW aa, NEW w, Table(ss, aa, w), NEW i \in Id,
         \A s \in 1 .. Len(ss) : IsAlive(ss[s]) => ss[s].id # i,
         NEW r, SessionInv(r), IsAlive(r), r.id = i
  PROVE  Table(Append(ss, r), [aa EXCEPT ![i] = Len(ss) + 1], w)
<1> DEFINE tt == Append(ss, r)
           bb == [aa EXCEPT ![i] = Len(ss) + 1]
<1>1. /\ ss \in Seq(SessionRec) /\ aa \in [Id -> 0 .. Len(ss)] /\ Len(ss) \in Nat
      /\ w \in 0 .. Len(ss) /\ r \in SessionRec
  BY DEF Table, SessionInv
<1>2. /\ tt \in Seq(SessionRec) /\ Len(tt) = Len(ss) + 1 /\ tt[Len(ss) + 1] = r
      /\ \A j \in 1 .. Len(ss) : tt[j] = ss[j]
  BY <1>1, AppendProperties
<1>3. /\ bb \in [Id -> 0 .. Len(ss) + 1] /\ bb[i] = Len(ss) + 1
      /\ \A j \in Id : j # i => bb[j] = aa[j]
  BY <1>1
<1> HIDE DEF tt, bb
<1>4. ASSUME NEW s \in 1 .. Len(tt)
      PROVE  /\ SessionInv(tt[s])
             /\ IsAlive(tt[s]) => bb[tt[s].id] = s
             /\ s > w => IsAlive(tt[s]) \/ tt[s].told = 1
  <2>1. CASE s = Len(ss) + 1
    BY <1>2, <1>3, <2>1
  <2>2. CASE s # Len(ss) + 1
    <3>1. s \in 1 .. Len(ss) /\ tt[s] = ss[s]
      BY <1>1, <1>2, <2>2
    <3>2. /\ ss[s].id \in Id /\ SessionInv(ss[s])
          /\ IsAlive(ss[s]) => aa[ss[s].id] = s
          /\ s > w => IsAlive(ss[s]) \/ ss[s].told = 1
      BY <3>1, TableEntry
    <3> QED
      BY <1>3, <3>1, <3>2
  <2> QED
    BY <2>1, <2>2
<1>5. ASSUME NEW j \in Id, bb[j] # 0
      PROVE  tt[bb[j]].id = j
  <2>1. CASE j = i
    BY <1>2, <1>3, <2>1
  <2>2. CASE j # i
    <3>1. aa[j] \in 1 .. Len(ss) /\ bb[j] = aa[j]
      BY <1>1, <1>3, <1>5, <2>2
    <3> QED
      BY <1>2, <3>1 DEF Table
  <2> QED
    BY <2>1, <2>2
<1> QED
  BY <1>1, <1>2, <1>3, <1>4, <1>5 DEF Table, tt, bb

LEMMA TableStopped ==
  ASSUME NEW ss, NEW aa, NEW w, Table(ss, aa, w)
  PROVE  Table([s \in DOMAIN ss |-> IF \A i \in Id : aa[i] # s THEN ss[s] ELSE Stopped(ss[s])],
               [i \in Id |-> 0], Len(ss))
<1> DEFINE tt == [s \in DOMAIN ss |-> IF \A i \in Id : aa[i] # s THEN ss[s] ELSE Stopped(ss[s])]
<1>1. ss \in Seq(SessionRec) /\ Len(ss) \in Nat /\ DOMAIN ss = 1 .. Len(ss)
  BY DEF Table
<1>2. ASSUME NEW s \in 1 .. Len(ss)
      PROVE  SessionInv(tt[s]) /\ ~IsAlive(tt[s])
  <2>1. SessionInv(ss[s]) /\ ss[s].id \in Id /\ (IsAlive(ss[s]) => aa[ss[s].id] = s)
    BY TableEntry
  <2>3. CASE \A i \in Id : aa[i] # s
    BY <1>1, <2>1, <2>3
  <2>4. CASE ~(\A i \in Id : aa[i] # s)
    BY <1>1, <2>1, <2>4, StoppedInv
  <2> QED
    BY <2>3, <2>4
<1>3. tt \in Seq(SessionRec) /\ Len(tt) = Len(ss)
  <2>1. ASSUME NEW s \in 1 .. Len(ss)
        PROVE  tt[s] \in SessionRec
    BY <1>2 DEF SessionInv
  <2>2. tt \in [1 .. Len(ss) -> SessionRec]
    BY <1>1, <2>1
  <2> HIDE DEF tt
  <2> QED
    BY <1>1, <2>2
<1> HIDE DEF tt
<1> QED
  BY <1>1, <1>2, <1>3 DEF Table, tt

-----------------------------------------------------------------------------
(* The inductive invariant.                                                 *)

Wire ==
  /\ net \in Seq(Msg)
  /\ link \in Nat \ {0}
  /\ active \in SUBSET Id /\ tomb \in SUBSET Id
  /\ restarting \in {"no", "told", "down"}
  /\ raced \in SUBSET Id

Inv == Table(sess, at, swept) /\ Wire

LEMMA TableDomain ==
  ASSUME Table(sess, at, swept)
  PROVE  DOMAIN sess = 1 .. Len(sess) /\ Len(sess) \in Nat
BY DEF Table

LEMMA OneMessage ==
  ASSUME NEW i \in Id, NEW type \in {"created", "failed", "closed", "slept", "exit"}
  PROVE  <<[type |-> type, id |-> i]>> \in Seq(Msg)
<1>1. [type |-> type, id |-> i] \in Msg
  BY DEF Msg
<1> QED
  BY <1>1

LEMMA ExitsType ==
  ASSUME NEW s, NEW r, s.id \in Id
  PROVE  Exits(s, r) \in Seq(Msg)
<1>1. <<[type |-> "exit", id |-> s.id]>> \in Seq(Msg)
  BY OneMessage
<1>2. <<>> \in Seq(Msg)
  OBVIOUS
<1> QED
  BY <1>1, <1>2 DEF Exits

LEMMA SendType ==
  ASSUME net \in Seq(Msg), NEW q \in Seq(Msg), Send(q)
  PROVE  net' \in Seq(Msg)
BY ConcatProperties DEF Send

\* A session that one of its methods has changed takes its own place again.
LEMMA BecomesStep ==
  ASSUME Inv, NEW s \in DOMAIN sess, NEW q, Follows(sess[s], q), Becomes(s, q)
  PROVE  Inv'
<1>1. s \in 1 .. Len(sess)
  BY TableDomain DEF Inv
<1>2. sess' = [sess EXCEPT ![s] = q] /\ at' = at /\ swept' = swept
  BY DEF Becomes
<1>3. Table(sess', at', swept')
  BY <1>1, <1>2, TableStep DEF Inv
<1>4. sess[s].id \in Id
  BY <1>1, TableEntry DEF Inv
<1>5. Exits(sess[s], q) \in Seq(Msg)
  BY <1>4, ExitsType
<1>6. net' \in Seq(Msg)
  BY <1>5, ConcatProperties DEF Becomes, Inv, Wire
<1>7. Wire'
  BY <1>6 DEF Becomes, Inv, Wire
<1> QED
  BY <1>3, <1>7 DEF Inv

\* The session that an id names.
LEMMA Named ==
  ASSUME Inv, NEW i \in Id, at[i] # 0
  PROVE  /\ at[i] \in 1 .. Len(sess) /\ at[i] \in DOMAIN sess
         /\ SessionInv(sess[at[i]]) /\ sess[at[i]].id = i
<1>1. at[i] \in 1 .. Len(sess)
  BY DEF Inv, Table
<1>2. SessionInv(sess[at[i]]) /\ sess[at[i]].id = i
  BY <1>1 DEF Inv, Table
<1> QED
  BY <1>1, <1>2, TableDomain DEF Inv

LEMMA AttachStep ==
  ASSUME Inv, NEW i \in Id, CanAttach(i), Attach(i),
         raced' = raced \ {i}, UNCHANGED <<swept, link, active, tomb, restarting>>
  PROVE  Inv'
<1> DEFINE q == [sess[at[i]] EXCEPT !.client = link]
<1>1. /\ at[i] \in 1 .. Len(sess) /\ SessionInv(sess[at[i]]) /\ IsAlive(sess[at[i]])
      /\ link \in Nat \ {0}
  BY Named DEF CanAttach, Attachable, Inv, Wire
<1>2. Follows(sess[at[i]], q)
  BY <1>1, AttachFollows
<1>3. sess' = [sess EXCEPT ![at[i]] = q] /\ at' = at /\ swept' = swept
  BY DEF Attach
<1> HIDE DEF q
<1>4. Table(sess', at', swept')
  BY <1>1, <1>2, <1>3, TableStep DEF Inv
<1>5. <<[type |-> "created", id |-> i]>> \in Seq(Msg)
  BY OneMessage
<1>6. net' \in Seq(Msg)
  BY <1>5, SendType DEF Attach, Inv, Wire
<1>7. Wire'
  BY <1>6 DEF Inv, Wire
<1> QED
  BY <1>4, <1>7 DEF Inv

\* What is in the way of a new session is disposed of first.
LEMMA ReplacedTable ==
  ASSUME Inv, NEW i \in Id, ~CanAttach(i)
  PROVE  /\ Table(Replaced(i), at, swept) /\ Len(Replaced(i)) = Len(sess)
         /\ \A s \in 1 .. Len(sess) : IsAlive(Replaced(i)[s]) => Replaced(i)[s].id # i
         /\ ReplacedExits(i) \in Seq(Msg)
<1>1. CASE at[i] = 0
  <2>1. Replaced(i) = sess /\ ReplacedExits(i) = <<>>
    BY <1>1 DEF Replaced, ReplacedExits
  <2>2. ASSUME NEW s \in 1 .. Len(sess), IsAlive(sess[s])
        PROVE  sess[s].id # i
    <3>1. at[sess[s].id] = s /\ s # 0
      BY <2>2, TableEntry DEF Inv
    <3> QED
      BY <1>1, <3>1
  <2> QED
    BY <2>1, <2>2 DEF Inv
<1>2. CASE at[i] # 0
  <2> DEFINE q == Dispose(sess[at[i]])
             tt == [sess EXCEPT ![at[i]] = q]
  <2>1. /\ at[i] \in 1 .. Len(sess) /\ SessionInv(sess[at[i]]) /\ sess[at[i]].id = i
        /\ ~Attachable(sess[at[i]])
    BY <1>2, Named DEF CanAttach
  <2>2. Replaced(i) = tt /\ ReplacedExits(i) = Exits(sess[at[i]], q)
    BY <1>2 DEF Replaced, ReplacedExits
  <2>3. Follows(sess[at[i]], q) /\ ~IsAlive(q) /\ q \in SessionRec
    BY <2>1, DisposeFollows DEF Follows, SessionInv
  <2> HIDE DEF q
  <2>4. Table(tt, at, swept)
    BY <2>1, <2>3, TableStep DEF Inv
  <2>5. /\ Len(tt) = Len(sess) /\ tt[at[i]] = q
        /\ \A s \in 1 .. Len(sess) : s # at[i] => tt[s] = sess[s]
    BY <2>1, <2>3, ExceptSeq DEF Inv, Table
  <2> HIDE DEF tt
  <2>6. ASSUME NEW s \in 1 .. Len(sess), IsAlive(tt[s])
        PROVE  tt[s].id # i
    <3>1. s # at[i] /\ tt[s] = sess[s]
      BY <2>3, <2>5, <2>6
    <3>2. at[sess[s].id] = s
      BY <2>6, <3>1, TableEntry DEF Inv
    <3> QED
      BY <3>1, <3>2
  <2>7. Exits(sess[at[i]], q) \in Seq(Msg)
    BY <2>1, ExitsType
  <2> QED
    BY <2>2, <2>4, <2>5, <2>6, <2>7
<1> QED
  BY <1>1, <1>2

LEMMA CreateStep ==
  ASSUME Inv, NEW i \in Id, ~CanAttach(i), NEW command \in BOOLEAN, NEW barrier \in BOOLEAN,
         Create(i, command, barrier), raced' = raced \ {i},
         UNCHANGED <<swept, link, active, tomb, restarting>>
  PROVE  Inv'
<1> DEFINE r == NewSession(i, barrier, link)
           q == IF command THEN Write(r) ELSE r
<1>1. link \in Nat \ {0}
  BY DEF Inv, Wire
<1>2. SessionInv(r) /\ IsAlive(r) /\ r.id = i
  BY <1>1, NewSessionInv DEF NewSession
<1>3. sess' = Append(Replaced(i), q) /\ at' = [at EXCEPT ![i] = Len(sess) + 1] /\ swept' = swept
  BY DEF Create
<1> HIDE DEF r
<1>4. SessionInv(q) /\ IsAlive(q) /\ q.id = i
  <2>1. Follows(r, Write(r)) /\ IsAlive(Write(r))
    <3>1. Write(r).state = r.state
      BY <1>2 DEF Write, SessionInv, SessionRec
    <3> QED
      BY <1>2, <3>1, WriteFollows DEF IsAlive
  <2> QED
    BY <1>2, <2>1 DEF Follows
<1> HIDE DEF q
<1>5. Table(Append(Replaced(i), q), [at EXCEPT ![i] = Len(Replaced(i)) + 1], swept)
  <2>1. /\ Table(Replaced(i), at, swept)
        /\ \A s \in 1 .. Len(Replaced(i)) : IsAlive(Replaced(i)[s]) => Replaced(i)[s].id # i
    BY ReplacedTable
  <2> QED
    BY <1>4, <2>1, TableCreate
<1>6. Table(sess', at', swept')
  BY <1>3, <1>5, ReplacedTable
<1>7. ReplacedExits(i) \o <<[type |-> "created", id |-> i]>> \in Seq(Msg)
  BY ReplacedTable, OneMessage, ConcatProperties
<1>8. net' \in Seq(Msg)
  BY <1>7, SendType DEF Create, Inv, Wire
<1>9. Wire'
  BY <1>8 DEF Inv, Wire
<1> QED
  BY <1>6, <1>9 DEF Inv

LEMMA SpawnThrowsStep ==
  ASSUME Inv, NEW i \in Id, ~CanAttach(i), SpawnThrows(i),
         raced' = raced \ {i}, UNCHANGED <<swept, link, active, tomb, restarting>>
  PROVE  Inv'
<1>1. sess' = Replaced(i) /\ at' = [at EXCEPT ![i] = 0] /\ swept' = swept
  BY DEF SpawnThrows
<1>2. Table(Replaced(i), [at EXCEPT ![i] = 0], swept)
  <2>1. /\ Table(Replaced(i), at, swept)
        /\ \A s \in 1 .. Len(Replaced(i)) : IsAlive(Replaced(i)[s]) => Replaced(i)[s].id # i
    BY ReplacedTable
  <2> QED
    BY <2>1, TableForget
<1>3. ReplacedExits(i) \o <<[type |-> "failed", id |-> i]>> \in Seq(Msg)
  BY ReplacedTable, OneMessage, ConcatProperties
<1>4. net' \in Seq(Msg)
  BY <1>3, SendType DEF SpawnThrows, Inv, Wire
<1>5. Wire'
  BY <1>4 DEF Inv, Wire
<1> QED
  BY <1>1, <1>2, <1>5 DEF Inv

LEMMA InputStep ==
  ASSUME Inv, NEW i \in Id, Input(i)
  PROVE  Inv'
<1>1. CASE /\ Live(i)
           /\ sess' = [sess EXCEPT ![at[i]] = Write(@)]
           /\ UNCHANGED net
  <2> DEFINE q == Write(sess[at[i]])
  <2>1. at[i] \in 1 .. Len(sess) /\ SessionInv(sess[at[i]])
    BY <1>1, Named DEF Live
  <2>2. Follows(sess[at[i]], q)
    BY <2>1, WriteFollows
  <2>3. sess' = [sess EXCEPT ![at[i]] = q] /\ at' = at /\ swept' = swept
    BY <1>1 DEF Input
  <2> HIDE DEF q
  <2>4. Table(sess', at', swept')
    BY <2>1, <2>2, <2>3, TableStep DEF Inv
  <2>5. Wire'
    BY <1>1 DEF Input, Inv, Wire
  <2> QED
    BY <2>4, <2>5 DEF Inv
<1>2. CASE Send(<<[type |-> "exit", id |-> i]>>) /\ UNCHANGED sess
  <2>1. net' \in Seq(Msg)
    BY <1>2, OneMessage, SendType DEF Inv, Wire
  <2>2. Wire' /\ at' = at /\ swept' = swept
    BY <2>1 DEF Input, Inv, Wire
  <2> QED
    BY <1>2, <2>2 DEF Inv
<1> QED
  BY <1>1, <1>2 DEF Input

LEMMA ShutdownStep ==
  ASSUME Inv, NEW i \in Id, NEW kind \in {"closed", "slept"}, Shutdown(i, kind)
  PROVE  Inv'
<1>1. CASE /\ Live(i)
           /\ sess' = [sess EXCEPT ![at[i]] = Kill(@)]
           /\ Send(<<[type |-> kind, id |-> i]>>)
  <2> DEFINE q == Kill(sess[at[i]])
  <2>1. at[i] \in 1 .. Len(sess) /\ SessionInv(sess[at[i]])
    BY <1>1, Named DEF Live
  <2>2. Follows(sess[at[i]], q)
    BY <2>1, KillFollows
  <2>3. sess' = [sess EXCEPT ![at[i]] = q] /\ at' = at /\ swept' = swept
    BY <1>1 DEF Shutdown
  <2> HIDE DEF q
  <2>4. Table(sess', at', swept')
    BY <2>1, <2>2, <2>3, TableStep DEF Inv
  <2>5. net' \in Seq(Msg)
    BY <1>1, OneMessage, SendType DEF Inv, Wire
  <2>6. Wire'
    BY <2>5 DEF Shutdown, Inv, Wire
  <2> QED
    BY <2>4, <2>6 DEF Inv
<1>2. CASE Send(<<[type |-> "failed", id |-> i]>>) /\ UNCHANGED sess
  <2>1. net' \in Seq(Msg)
    BY <1>2, OneMessage, SendType DEF Inv, Wire
  <2>2. Wire' /\ at' = at /\ swept' = swept
    BY <2>1 DEF Shutdown, Inv, Wire
  <2> QED
    BY <1>2, <2>2 DEF Inv
<1> QED
  BY <1>1, <1>2 DEF Shutdown

LEMMA SessionStep ==
  ASSUME Inv, NEW s \in DOMAIN sess,
         \/ \E marker \in BOOLEAN : Output(s, marker)
         \/ ChildEnds(s) \/ ExitCallback(s)
         \/ ReadyTimeout(s) \/ GateTimer(s) \/ KillTimer(s)
  PROVE  Inv'
<1>0. SessionInv(sess[s])
  BY TableDomain, TableEntry DEF Inv
<1>1. ASSUME NEW marker \in BOOLEAN, Output(s, marker)
      PROVE  Inv'
  BY <1>0, <1>1, HandleDataFollows, BecomesStep DEF Output
<1>2. CASE ChildEnds(s)
  BY <1>0, <1>2, ChildEndsFollows, BecomesStep DEF ChildEnds
<1>3. CASE ExitCallback(s)
  BY <1>0, <1>3, HandleExitFollows, BecomesStep DEF ExitCallback
<1>4. CASE ReadyTimeout(s)
  BY <1>0, <1>4, ReadyTimeoutFollows, BecomesStep DEF ReadyTimeout
<1>5. CASE GateTimer(s)
  BY <1>0, <1>5, GateFiresFollows, BecomesStep DEF GateTimer
<1>6. CASE KillTimer(s)
  BY <1>0, <1>6, ForceDisposeFollows, BecomesStep DEF KillTimer
<1> QED
  BY <1>1, <1>2, <1>3, <1>4, <1>5, <1>6

LEMMA DeliverStep ==
  ASSUME Inv, Deliver
  PROVE  Inv'
<1>1. PICK k \in DOMAIN net :
        /\ Receive(net[k])
        /\ raced' = IF \E j \in 1 .. k - 1 : net[j].id = net[k].id
                    THEN raced \cup {net[k].id} ELSE raced
        /\ net' = [j \in 1 .. Len(net) - 1 |-> IF j < k THEN net[j] ELSE net[j + 1]]
        /\ UNCHANGED <<sess, at, swept, link, restarting>>
  BY DEF Deliver
<1>2. net \in Seq(Msg) /\ Len(net) \in Nat /\ k \in 1 .. Len(net)
  BY DEF Inv, Wire
<1>3. net' \in Seq(Msg)
  <2>1. Len(net) - 1 \in Nat
    BY <1>2
  <2>2. ASSUME NEW j \in 1 .. Len(net) - 1
        PROVE  (IF j < k THEN net[j] ELSE net[j + 1]) \in Msg
    <3>1. j \in 1 .. Len(net) /\ j + 1 \in 1 .. Len(net)
      BY <1>2
    <3>2. net[j] \in Msg /\ net[j + 1] \in Msg
      BY <1>2, <3>1
    <3> QED
      BY <3>2
  <2>3. net' \in [1 .. Len(net) - 1 -> Msg]
    BY <1>1, <2>2
  <2> QED
    BY <2>1, <2>3
<1>4. net[k] \in Msg /\ net[k].id \in Id
  <2>1. net[k] \in Msg
    BY <1>2
  <2> QED
    BY <2>1 DEF Msg
<1>5. active' \in SUBSET Id
  <2>1. active' \in {active \cup {net[k].id}, active \ {net[k].id}, active}
    BY <1>1 DEF Receive
  <2> QED
    BY <1>4, <2>1 DEF Inv, Wire
<1>6. tomb' \in SUBSET Id
  BY <1>1, <1>4 DEF Receive, Inv, Wire
<1>8. raced' \in SUBSET Id
  <2>1. raced' \in {raced \cup {net[k].id}, raced}
    BY <1>1
  <2> QED
    BY <1>4, <2>1 DEF Inv, Wire
<1>7. Wire'
  BY <1>1, <1>3, <1>5, <1>6, <1>8 DEF Inv, Wire
<1> QED
  BY <1>1, <1>7 DEF Inv

LEMMA RestartStopsStep ==
  ASSUME Inv, RestartStops
  PROVE  Inv'
<1>1. Table(sess', at', swept')
  BY TableStopped DEF RestartStops, Stopped, Inv
<1>2. link + 1 \in Nat \ {0} /\ <<>> \in Seq(Msg)
  BY DEF Inv, Wire
<1>3. Wire'
  BY <1>2 DEF RestartStops, Inv, Wire
<1> QED
  BY <1>1, <1>3 DEF Inv

LEMMA InitInv == Init => Inv
<1> SUFFICES ASSUME Init PROVE Inv
  OBVIOUS
<1>1. <<>> \in Seq(SessionRec) /\ Len(<<>>) = 0 /\ <<>> \in Seq(Msg)
  BY EmptySeq
<1>2. Table(sess, at, swept)
  BY <1>1 DEF Init, Table
<1>3. Wire
  <2>1. link \in Nat \ {0}
    BY DEF Init
  <2>2. active \in SUBSET Id /\ tomb \in SUBSET Id
        /\ restarting \in {"no", "told", "down"} /\ raced \in SUBSET Id
    BY DEF Init
  <2> QED
    BY <1>1, <2>1, <2>2 DEF Init, Wire
<1> QED
  BY <1>2, <1>3 DEF Inv

LEMMA StepInv == Inv /\ [Next]_vars => Inv'
<1> SUFFICES ASSUME Inv, [Next]_vars PROVE Inv'
  OBVIOUS
<1>1. ASSUME NEW i \in Id, Spawn(i)
      PROVE  Inv'
  BY <1>1, AttachStep, CreateStep, SpawnThrowsStep DEF Spawn
<1>2. ASSUME NEW i \in Id, Input(i)
      PROVE  Inv'
  BY <1>2, InputStep
<1>3. ASSUME NEW i \in Id, NEW kind \in {"closed", "slept"}, Shutdown(i, kind)
      PROVE  Inv'
  BY <1>3, ShutdownStep
<1>4. ASSUME NEW s \in DOMAIN sess,
             \/ \E marker \in BOOLEAN : Output(s, marker)
             \/ ChildEnds(s) \/ ExitCallback(s)
             \/ ReadyTimeout(s) \/ GateTimer(s) \/ KillTimer(s)
      PROVE  Inv'
  BY <1>4, SessionStep
<1>5. CASE Deliver
  BY <1>5, DeliverStep
<1>6. CASE Reconnect
  <2>1. link + 1 \in Nat \ {0} /\ <<>> \in Seq(Msg)
    BY DEF Inv, Wire
  <2> QED
    BY <1>6, <2>1 DEF Reconnect, Inv, Wire
<1>7. CASE RestartBegins
  BY <1>7 DEF RestartBegins, Inv, Wire
<1>8. CASE RestartStops
  BY <1>8, RestartStopsStep
<1>9. CASE RestartEnds
  <2>1. link + 1 \in Nat \ {0} /\ <<>> \in Seq(Msg) /\ {} \in SUBSET Id
    BY DEF Inv, Wire
  <2> QED
    BY <1>9, <2>1 DEF RestartEnds, Inv, Wire
<1>10. CASE UNCHANGED vars
  BY <1>10 DEF vars, Inv, Wire
<1> QED
  BY <1>1, <1>2, <1>3, <1>4, <1>5, <1>6, <1>7, <1>8, <1>9, <1>10 DEF Next

LEMMA InvHolds == Spec => []Inv
<1>1. Init => Inv
  BY InitInv
<1>2. Inv /\ [Next]_vars => Inv'
  BY StepInv
<1> QED
  BY <1>1, <1>2, PTL DEF Spec

-----------------------------------------------------------------------------
(* What follows.                                                            *)

\* Every variable of the daemon and the app keeps its type, and the table never
\* names a session that was not created, however many calls, exits and restarts.
THEOREM TerminalTypeOK == Spec => []TypeOK
<1>1. Inv => TypeOK
  BY DEF Inv, Table, Wire, TypeOK
<1> QED
  BY <1>1, InvHolds, PTL

\* The shell-ready barrier and its flush gate (session.ts) never reorder the
\* input of a session, and never lose any of it while the child runs.
THEOREM TerminalInputOrder == Spec => []InputOrder
<1>1. Inv => InputOrder
  <2> SUFFICES ASSUME Inv, NEW s \in DOMAIN sess
               PROVE  /\ \A k \in DOMAIN sess[s].received : sess[s].received[k] = k
                      /\ IsAlive(sess[s]) /\ sess[s].child = "alive" =>
                           /\ Len(sess[s].received) + Len(sess[s].queue) = sess[s].sent
                           /\ \A k \in DOMAIN sess[s].queue :
                                sess[s].queue[k] = Len(sess[s].received) + k
    BY DEF InputOrder
  <2> DEFINE r == sess[s]
  <2>1. SessionInv(r)
    BY TableDomain, TableEntry DEF Inv
  <2> HIDE DEF r
  <2>2. /\ \A k \in DOMAIN r.received : r.received[k] = k
        /\ IsAlive(r) /\ r.child = "alive" =>
             /\ Len(r.received) + Len(r.queue) = r.sent
             /\ \A k \in DOMAIN r.queue : r.queue[k] = Len(r.received) + k
    <3>1. NumberedFrom(r.received, 0)
      BY <2>1 DEF SessionInv, InputInv
    <3>2. \A k \in DOMAIN r.received : r.received[k] = k
      BY <3>1, NumberedEntries
    <3>3. ASSUME IsAlive(r), r.child = "alive"
          PROVE  /\ Len(r.received) + Len(r.queue) = r.sent
                 /\ \A k \in DOMAIN r.queue : r.queue[k] = Len(r.received) + k
      <4>1. Len(r.received) + Len(r.queue) = r.sent /\ NumberedFrom(r.queue, Len(r.received))
        BY <2>1, <3>3 DEF SessionInv, InputInv
      <4> QED
        BY <4>1, NumberedEntries
    <3> QED
      BY <3>2, <3>3
  <2> QED
    BY <2>2 DEF r
<1> QED
  BY <1>1, InvHolds, PTL

\* A child that nobody has sent SIGKILL belongs to a running session, and the
\* table of terminal-host.ts still holds that session under its id.
THEOREM TerminalNoOrphanChild == Spec => []NoOrphanChild
<1>1. Inv => NoOrphanChild
  <2> SUFFICES ASSUME Inv, NEW s \in DOMAIN sess, sess[s].child = "alive"
               PROVE  IsAlive(sess[s]) /\ \E i \in Id : at[i] = s
    BY DEF NoOrphanChild
  <2>1. SessionInv(sess[s]) /\ sess[s].id \in Id /\ (IsAlive(sess[s]) => at[sess[s].id] = s)
    BY TableDomain, TableEntry DEF Inv
  <2>2. IsAlive(sess[s])
    BY <2>1 DEF SessionInv, LifeInv
  <2> QED
    BY <2>1, <2>2
<1> QED
  BY <1>1, InvHolds, PTL

\* Whichever of the kill timer, the child's exit, a new session in its place
\* and the daemon's stop ends a session, its client is told once, and of an end
\* that is not the daemon's stop it is told.
THEOREM TerminalToldOnce == Spec => []ToldOnce
<1>1. Inv => ToldOnce
  <2> SUFFICES ASSUME Inv, NEW s \in DOMAIN sess
               PROVE  /\ sess[s].told <= 1
                      /\ s > swept => (sess[s].told = 1 <=> ~IsAlive(sess[s]))
    BY DEF ToldOnce
  <2>1. /\ SessionInv(sess[s])
        /\ s > swept => IsAlive(sess[s]) \/ sess[s].told = 1
    BY TableDomain, TableEntry DEF Inv
  <2>2. sess[s].told \in {0, 1} /\ (IsAlive(sess[s]) => sess[s].told = 0)
    BY <2>1 DEF SessionInv, LifeInv
  <2> QED
    BY <2>1, <2>2
<1> QED
  BY <1>1, InvHolds, PTL

-----------------------------------------------------------------------------
(* What the app will hold for active once it has read what is on its way.   *)

\* A message that decides whether i is active.
Says(m, i) == m.id = i /\ m.type # "failed"

\* After the messages q, given the active sessions before them.
Shown(i, q, before) ==
  \/ i \in before /\ \A k \in 1 .. Len(q) : ~Says(q[k], i)
  \/ \E k \in 1 .. Len(q) : /\ Says(q[k], i) /\ q[k].type = "created"
                            /\ \A j \in 1 .. Len(q) : Says(q[j], i) => j <= k

LEMMA ShownWhenRead ==
  ASSUME NEW i, NEW before
  PROVE  Shown(i, <<>>, before) <=> i \in before
BY DEF Shown

LEMMA Joined ==
  ASSUME NEW q \in Seq(Msg), NEW p \in Seq(Msg)
  PROVE  /\ Len(q) \in Nat /\ Len(p) \in Nat /\ Len(q \o p) = Len(q) + Len(p)
         /\ \A k \in 1 .. Len(q) : (q \o p)[k] = q[k]
         /\ \A k \in 1 .. Len(p) : (q \o p)[Len(q) + k] = p[k]
         /\ \A k \in 1 .. Len(q) + Len(p) : k > Len(q) => k - Len(q) \in 1 .. Len(p)
OBVIOUS

\* Messages about other sessions make no difference.
LEMMA Unsaid ==
  ASSUME NEW q \in Seq(Msg), NEW p \in Seq(Msg), NEW i, NEW before,
         \A k \in 1 .. Len(p) : ~Says(p[k], i)
  PROVE  Shown(i, q \o p, before) <=> Shown(i, q, before)
<1> DEFINE n == Len(q)
           t == q \o p
<1>1. /\ n \in Nat /\ Len(p) \in Nat /\ Len(t) = n + Len(p)
      /\ \A k \in 1 .. n : t[k] = q[k] /\ k \in 1 .. Len(t)
      /\ \A k \in 1 .. Len(t) : k > n => ~Says(t[k], i)
  <2>1. ASSUME NEW k \in 1 .. Len(t), k > n
        PROVE  ~Says(t[k], i)
    <3>1. k - n \in 1 .. Len(p) /\ t[n + (k - n)] = p[k - n] /\ n + (k - n) = k
      BY <2>1, Joined
    <3> QED
      BY <3>1
  <2> QED
    BY <2>1, Joined
<1> HIDE DEF n, t
<1>2. \A k \in 1 .. Len(t) : Says(t[k], i) => k \in 1 .. n /\ t[k] = q[k]
  BY <1>1
<1>3. \A k \in 1 .. Len(q) : t[k] = q[k] /\ k \in 1 .. Len(t)
  BY <1>1 DEF n
<1> QED
  BY <1>1, <1>2, <1>3 DEF Shown, n, t

\* The last message decides.
LEMMA LastSays ==
  ASSUME NEW q \in Seq(Msg), NEW p \in Seq(Msg), NEW i, NEW before,
         Len(p) > 0, Says(p[Len(p)], i)
  PROVE  Shown(i, q \o p, before) <=> p[Len(p)].type = "created"
<1> DEFINE t == q \o p
           n == Len(t)
<1>1. n \in Nat \ {0} /\ t[n] = p[Len(p)]
  BY Joined
<1> HIDE DEF n, t
<1>2. n \in 1 .. Len(t) /\ Says(t[n], i)
  BY <1>1 DEF n
<1>3. \A k \in 1 .. Len(t) : k <= n /\ (n <= k => k = n)
  BY <1>1 DEF n
<1>4. Shown(i, t, before) <=> t[n].type = "created"
  BY <1>2, <1>3 DEF Shown
<1> QED
  BY <1>1, <1>4 DEF t

\* What reading a message makes of the active sessions.
Reads(m, before, after) ==
  after = CASE m.type = "created" -> before \cup {m.id}
            [] m.type \in {"closed", "slept", "exit"} -> before \ {m.id}
            [] OTHER -> before

\* The messages q without the k-th, and where the j-th of them was.
Without(q, k) == [j \in 1 .. Len(q) - 1 |-> IF j < k THEN q[j] ELSE q[j + 1]]

Place(k, j) == IF j < k THEN j ELSE j + 1

\* The n messages t are q without the k-th.
Places(t, n, q, k) ==
  /\ n \in Nat /\ Len(q) = n + 1 /\ Len(t) = n
  /\ \A x \in 1 .. n : Place(k, x) \in 1 .. n + 1 /\ Place(k, x) # k /\ q[Place(k, x)] = t[x]
  /\ \A x, y \in 1 .. n : x <= y <=> Place(k, x) <= Place(k, y)
  /\ \A x \in 1 .. n + 1 : x # k => \E y \in 1 .. n : Place(k, y) = x

LEMMA WithoutPlaces ==
  ASSUME NEW q \in Seq(Msg), NEW k \in 1 .. Len(q)
  PROVE  Places(Without(q, k), Len(q) - 1, q, k)
<1> SUFFICES ASSUME NEW n, n = Len(q) - 1
             PROVE  Places(Without(q, k), n, q, k)
  OBVIOUS
<1> DEFINE t == Without(q, k)
<1>1. n \in Nat /\ Len(q) = n + 1 /\ k \in 1 .. n + 1
  OBVIOUS
<1>2. t = [j \in 1 .. n |-> IF j < k THEN q[j] ELSE q[j + 1]]
  BY DEF Without
<1> HIDE DEF t
<1>3. Len(t) = n
  <2>1. ASSUME NEW j \in 1 .. n
        PROVE  t[j] \in Msg
    <3>1. j \in 1 .. Len(q) /\ j + 1 \in 1 .. Len(q)
      BY <1>1
    <3> QED
      BY <1>2, <3>1
  <2>2. t \in [1 .. n -> Msg]
    BY <1>2, <2>1
  <2>3. t \in Seq(Msg) /\ DOMAIN t = 1 .. n
    BY <1>1, <2>2
  <2> QED
    BY <1>1, <2>3
<1>4. ASSUME NEW x \in 1 .. n
      PROVE  Place(k, x) \in 1 .. n + 1 /\ Place(k, x) # k /\ q[Place(k, x)] = t[x]
  BY <1>1, <1>2 DEF Place
<1>5. ASSUME NEW x \in 1 .. n, NEW y \in 1 .. n
      PROVE  x <= y <=> Place(k, x) <= Place(k, y)
  BY <1>1 DEF Place
<1>6. ASSUME NEW x \in 1 .. n + 1, x # k
      PROVE  \E y \in 1 .. n : Place(k, y) = x
  <2>1. CASE x < k
    <3>1. x \in 1 .. n /\ Place(k, x) = x
      BY <1>1, <2>1 DEF Place
    <3> QED
      BY <3>1
  <2>2. CASE x > k
    <3>1. x - 1 \in 1 .. n /\ Place(k, x - 1) = x
      BY <1>1, <2>2 DEF Place
    <3> QED
      BY <3>1
  <2> QED
    BY <1>1, <1>6, <2>1, <2>2
<1> QED
  BY <1>1, <1>3, <1>4, <1>5, <1>6 DEF Places, t

\* What the app will hold of i stays when a message is read that no message
\* about the same session was written before.
LEMMA ReadAway ==
  ASSUME NEW q \in Seq(Msg), NEW k \in 1 .. Len(q), NEW i, NEW before, NEW after,
         Reads(q[k], before, after),
         q[k].id = i => \A j \in 1 .. k - 1 : q[j].id # i
  PROVE  Shown(i, Without(q, k), after) <=> Shown(i, q, before)
<1> SUFFICES ASSUME NEW n, n = Len(q) - 1, NEW t, t = Without(q, k)
             PROVE  Shown(i, t, after) <=> Shown(i, q, before)
  OBVIOUS
<1>1. /\ n \in Nat /\ Len(q) = n + 1 /\ Len(t) = n
      /\ \A x \in 1 .. n : Place(k, x) \in 1 .. n + 1 /\ Place(k, x) # k /\ q[Place(k, x)] = t[x]
      /\ \A x, y \in 1 .. n : x <= y <=> Place(k, x) <= Place(k, y)
      /\ \A x \in 1 .. n + 1 : x # k => \E y \in 1 .. n : Place(k, y) = x
  <2>1. Places(t, n, q, k)
    BY WithoutPlaces
  <2> QED
    BY <2>1 DEF Places
<1>2. k \in 1 .. n + 1 /\ q[k] \in Msg
  BY <1>1
<1>3. q[k].type \in {"created", "failed", "closed", "slept", "exit"}
  BY <1>2 DEF Msg
<1>4. i \in after <=> IF Says(q[k], i) THEN q[k].type = "created" ELSE i \in before
  BY <1>3 DEF Reads, Says
<1>5. Says(q[k], i) => \A x \in 1 .. n + 1 : Says(q[x], i) => k <= x
  <2>1. ASSUME Says(q[k], i), NEW x \in 1 .. n + 1, Says(q[x], i), ~(k <= x)
        PROVE  FALSE
    <3>1. x \in 1 .. k - 1
      BY <1>1, <1>2, <2>1
    <3> QED
      BY <2>1, <3>1 DEF Says
  <2> QED
    BY <2>1
<1>6. CASE \A x \in 1 .. n : ~Says(t[x], i)
  <2>1. Shown(i, t, after) <=> i \in after
    BY <1>1, <1>6 DEF Shown
  <2>2. \A x \in 1 .. n + 1 : Says(q[x], i) => x = k
    BY <1>1, <1>6
  <2>3. k \in 1 .. Len(q) /\ k <= k /\ \A x \in 1 .. Len(q) : Says(q[x], i) => x = k
    BY <1>1, <1>2, <2>2
  <2>4. Shown(i, q, before) <=> IF Says(q[k], i) THEN q[k].type = "created" ELSE i \in before
    BY <2>3 DEF Shown
  <2> QED
    BY <1>4, <2>1, <2>4
<1>7. CASE \E x \in 1 .. n : Says(t[x], i)
  <2>1. PICK z \in 1 .. n : Says(t[z], i)
    BY <1>7
  <2>2. Place(k, z) \in 1 .. n + 1 /\ Says(q[Place(k, z)], i) /\ Place(k, z) # k
    BY <1>1, <2>1
  <2>3. Shown(i, t, after) <=>
          \E x \in 1 .. n : /\ Says(t[x], i) /\ t[x].type = "created"
                            /\ \A j \in 1 .. n : Says(t[j], i) => j <= x
    BY <1>1, <2>1 DEF Shown
  <2>4. Shown(i, q, before) <=>
          \E x \in 1 .. n + 1 : /\ Says(q[x], i) /\ q[x].type = "created"
                                /\ \A j \in 1 .. n + 1 : Says(q[j], i) => j <= x
    BY <1>1, <2>2 DEF Shown
  <2>5. ASSUME NEW x \in 1 .. n, Says(t[x], i), t[x].type = "created",
               \A j \in 1 .. n : Says(t[j], i) => j <= x
        PROVE  Shown(i, q, before)
    <3>1. Place(k, x) \in 1 .. n + 1 /\ Says(q[Place(k, x)], i) /\ q[Place(k, x)].type = "created"
      BY <1>1, <2>5
    <3>2. ASSUME NEW j \in 1 .. n + 1, Says(q[j], i)
          PROVE  j <= Place(k, x)
      <4>1. CASE j = k
        BY <1>5, <3>1, <3>2, <4>1
      <4>2. CASE j # k
        <5>1. PICK y \in 1 .. n : Place(k, y) = j
          BY <1>1, <4>2
        <5>2. Says(t[y], i)
          BY <1>1, <3>2, <5>1
        <5> QED
          BY <1>1, <2>5, <5>1, <5>2
      <4> QED
        BY <4>1, <4>2
    <3> QED
      BY <2>4, <3>1, <3>2
  <2>6. ASSUME NEW x \in 1 .. n + 1, Says(q[x], i), q[x].type = "created",
               \A j \in 1 .. n + 1 : Says(q[j], i) => j <= x
        PROVE  Shown(i, t, after)
    <3>1. x # k
      <4>1. Place(k, z) <= x
        BY <2>2, <2>6
      <4>2. x = k => k <= Place(k, z)
        BY <1>5, <2>2, <2>6
      <4> QED
        BY <1>1, <1>2, <2>2, <4>1, <4>2
    <3>2. PICK y \in 1 .. n : Place(k, y) = x
      BY <1>1, <3>1
    <3>3. Says(t[y], i) /\ t[y].type = "created"
      BY <1>1, <2>6, <3>2
    <3>4. ASSUME NEW j \in 1 .. n, Says(t[j], i)
          PROVE  j <= y
      <4>1. Place(k, j) \in 1 .. n + 1 /\ Says(q[Place(k, j)], i)
        BY <1>1, <3>4
      <4>2. Place(k, j) <= Place(k, y)
        BY <2>6, <3>2, <4>1
      <4> QED
        BY <1>1, <4>2
    <3> QED
      BY <2>3, <3>3, <3>4
  <2> QED
    BY <2>3, <2>4, <2>5, <2>6
<1> QED
  BY <1>6, <1>7


-----------------------------------------------------------------------------
(* The app and the table.                                                   *)

\* What Agreed says, of the moment when everything has been read.
Agrees(i) ==
  at[i] # 0 /\ sess[at[i]].client = link =>
    (Shown(i, net, active) <=> Attachable(sess[at[i]]))

\* No session waits for a connection to come.
ClientsKnown == \A s \in 1 .. Len(sess) : sess[s].client <= link

Agreement ==
  ClientsKnown /\ (restarting # "told" => \A i \in Id \ raced : Agrees(i))

\* A step of a session by itself: it tells when it ends, and only then.
Moves(r, q) ==
  /\ q.client \in {r.client, 0}
  /\ q.told = r.told => (Attachable(q) <=> Attachable(r))
  /\ q.told > r.told => IsAlive(r) /\ ~IsAlive(q)
  /\ q.told >= r.told

LEMMA HandleDataMoves ==
  ASSUME NEW r, SessionInv(r), NEW marker \in BOOLEAN
  PROVE  Moves(r, HandleData(r, marker))
BY DEF SessionInv, SessionRec, Moves, HandleData, NotifyData, TransitionToReady, Attachable,
       IsAlive

LEMMA ChildEndsMoves ==
  ASSUME NEW r, SessionInv(r)
  PROVE  Moves(r, [r EXCEPT !.child = "gone"])
BY DEF SessionInv, SessionRec, Moves, Attachable, IsAlive

LEMMA TimersMove ==
  ASSUME NEW r, SessionInv(r)
  PROVE  Moves(r, OnShellReadyTimeout(r)) /\ Moves(r, GateFires(r))
BY DEF SessionInv, SessionRec, Moves, OnShellReadyTimeout, GateFires, FlushPreReadyQueue,
       PtyTakes, Attachable, IsAlive

LEMMA ForceDisposeMoves ==
  ASSUME NEW r, SessionInv(r)
  PROVE  Moves(r, ForceDispose(r))
BY DEF SessionInv, SessionRec, LifeInv, Moves, ForceDispose, Tell, Emptied, TornDown, Ended, Killed,
       Attachable, IsAlive

LEMMA HandleExitMoves ==
  ASSUME NEW r, SessionInv(r), r.child = "gone"
  PROVE  Moves(r, HandleExit(r))
BY DEF SessionInv, SessionRec, LifeInv, Moves, HandleExit, Tell, Ended, Attachable, IsAlive

\* Writing, killing and disposing.
LEMMA WriteAttachable ==
  ASSUME NEW r, SessionInv(r)
  PROVE  (Attachable(Write(r)) <=> Attachable(r)) /\ Write(r).client = r.client
BY DEF SessionInv, SessionRec, Write, Attachable, IsAlive

LEMMA KillAttachable ==
  ASSUME NEW r, SessionInv(r)
  PROVE  ~Attachable(Kill(r)) /\ Kill(r).client = r.client
BY DEF SessionInv, SessionRec, Kill, Attachable, IsAlive

LEMMA DisposeClient ==
  ASSUME NEW r, SessionInv(r)
  PROVE  Dispose(r).client \in {r.client, 0}
BY DEF SessionInv, SessionRec, Dispose, Tell, Emptied, TornDown, Ended, Killed, IsAlive

\* What is said of one session changes what the app will hold of no other.
LEMMA OthersSay ==
  ASSUME NEW q \in Seq(Msg), NEW p \in Seq(Msg), NEW i, NEW before,
         \A k \in 1 .. Len(p) : p[k].id # i
  PROVE  Shown(i, q \o p, before) <=> Shown(i, q, before)
BY Unsaid DEF Says

LEMMA OneSays ==
  ASSUME NEW i \in Id, NEW type \in {"created", "failed", "closed", "slept", "exit"}
  PROVE  LET p == <<[type |-> type, id |-> i]>>
         IN /\ p \in Seq(Msg) /\ Len(p) = 1
            /\ p[Len(p)].id = i /\ p[Len(p)].type = type
            /\ \A k \in 1 .. Len(p) : p[k].id = i
<1>1. <<[type |-> type, id |-> i]>> \in Seq(Msg)
  BY OneMessage
<1> QED
  BY <1>1

LEMMA OneDecides ==
  ASSUME NEW q \in Seq(Msg), NEW i \in Id, NEW type \in {"created", "closed", "slept", "exit"},
         NEW before
  PROVE  Shown(i, q \o <<[type |-> type, id |-> i]>>, before) <=> type = "created"
<1> DEFINE p == <<[type |-> type, id |-> i]>>
<1>1. /\ p \in Seq(Msg) /\ Len(p) = 1
      /\ p[Len(p)].id = i /\ p[Len(p)].type = type /\ type # "failed"
  BY OneSays
<1> HIDE DEF p
<1>2. Len(p) > 0 /\ Says(p[Len(p)], i)
  BY <1>1 DEF Says
<1>3. Shown(i, q \o p, before) <=> p[Len(p)].type = "created"
  BY <1>1, <1>2, LastSays
<1> QED
  BY <1>1, <1>3 DEF p

LEMMA BecomesAgrees ==
  ASSUME Inv, Agreement, NEW s \in DOMAIN sess, NEW q, Follows(sess[s], q), Moves(sess[s], q),
         Becomes(s, q)
  PROVE  Agreement'
<1>0. /\ s \in 1 .. Len(sess) /\ SessionInv(sess[s]) /\ sess[s].id \in Id
      /\ IsAlive(sess[s]) => at[sess[s].id] = s
      /\ sess[s].client \in Nat /\ sess[s].told \in {0, 1} /\ q.told \in Nat
      /\ link \in Nat \ {0} /\ net \in Seq(Msg)
  BY TableDomain, TableEntry DEF Inv, Wire, SessionInv, SessionRec, LifeInv, Follows
<1>1. /\ sess' = [sess EXCEPT ![s] = q] /\ UNCHANGED <<at, link, active, restarting, raced>>
      /\ net' = net \o Exits(sess[s], q)
  BY DEF Becomes
<1>2. /\ Len(sess') = Len(sess) /\ sess'[s] = q
      /\ \A j \in 1 .. Len(sess) : j # s => sess'[j] = sess[j]
  <2>1. q \in SessionRec /\ sess \in Seq(SessionRec)
    BY DEF Follows, SessionInv, Inv, Table
  <2> QED
    BY <1>0, <1>1, <2>1, ExceptSeq
<1>3. ClientsKnown'
  BY <1>0, <1>1, <1>2 DEF Agreement, ClientsKnown, Moves
<1>4. ASSUME NEW i \in Id \ raced, restarting # "told", at[i] # 0, at[i] # s, sess[at[i]].client = link
      PROVE  Shown(i, net', active') <=> Attachable(sess[at[i]])
  <2>1. \A k \in 1 .. Len(Exits(sess[s], q)) : Exits(sess[s], q)[k].id # i
    <3>1. CASE q.told > sess[s].told
      <4>1. sess[s].id # i
        BY <1>0, <1>4, <3>1 DEF Moves
      <4> QED
        BY <1>0, <4>1, OneSays DEF Exits
    <3>2. CASE ~(q.told > sess[s].told)
      BY <3>2 DEF Exits
    <3> QED
      BY <3>1, <3>2
  <2>2. Shown(i, net', active') <=> Shown(i, net, active)
    <3>1. net' = net \o Exits(sess[s], q) /\ active' = active
      BY <1>1
    <3> QED
      BY <1>0, <2>1, <3>1, ExitsType, OthersSay
  <2> QED
    BY <1>4, <2>2 DEF Agreement, Agrees
<1>5. ASSUME NEW i \in Id \ raced, restarting # "told", at[i] = s, q.client = link
      PROVE  Shown(i, net', active') <=> Attachable(q)
  <2>1. sess[s].client = link /\ sess[s].id = i /\ at[i] # 0
    BY <1>0, <1>5, Named DEF Moves
  <2>2. CASE q.told > sess[s].told
    <3>1. Exits(sess[s], q) = <<[type |-> "exit", id |-> i]>>
      BY <2>1, <2>2 DEF Exits
    <3>2. ~Shown(i, net', active')
      <4>1. net' = net \o <<[type |-> "exit", id |-> i]>> /\ active' = active
        BY <1>1, <3>1
      <4> QED
        BY <1>0, <4>1, OneDecides
    <3> QED
      BY <2>2, <3>2 DEF Moves, Attachable
  <2>3. CASE q.told = sess[s].told
    <3>1. Exits(sess[s], q) = <<>>
      BY <1>0, <2>3 DEF Exits
    <3>2. net' = net
      BY <1>0, <1>1, <3>1
    <3> QED
      BY <1>1, <1>5, <2>1, <2>3, <3>2 DEF Agreement, Agrees, Moves
  <2> QED
    BY <1>0, <2>2, <2>3 DEF Moves
<1>6. ASSUME NEW i \in Id \ raced, restarting # "told"
      PROVE  Agrees(i)'
  <2>1. at[i] # 0 => at[i] \in 1 .. Len(sess)
    BY Named
  <2>2. CASE at[i] = s
    BY <1>1, <1>2, <1>5, <1>6, <2>2 DEF Agrees
  <2>3. CASE at[i] # s
    BY <1>1, <1>2, <1>4, <1>6, <2>1, <2>3 DEF Agrees
  <2> QED
    BY <2>2, <2>3
<1> QED
  BY <1>1, <1>3, <1>6 DEF Agreement

LEMMA NetType ==
  ASSUME Inv
  PROVE  net \in Seq(Msg) /\ link \in Nat \ {0}
BY DEF Inv, Wire

\* A call about i: the sessions of the other ids stay, and so does what the app
\* will hold of them.
LEMMA CallAgrees ==
  ASSUME Inv, Agreement, NEW i \in Id, NEW p \in Seq(Msg), net' = net \o p,
         UNCHANGED <<link, active, restarting>>, raced' \in {raced, raced \ {i}},
         \A k \in 1 .. Len(p) : p[k].id = i,
         \A j \in Id \ {i} : at'[j] = at[j] /\ (at[j] # 0 => sess'[at[j]] = sess[at[j]]),
         ClientsKnown',
         at'[i] # 0 /\ sess'[at'[i]].client = link /\ restarting # "told" =>
           (Shown(i, net', active) <=> Attachable(sess'[at'[i]]))
  PROVE  Agreement'
<1>1. ASSUME NEW j \in Id \ raced', j # i, restarting # "told"
      PROVE  Agrees(j)'
  <2>1. Shown(j, net \o p, active) <=> Shown(j, net, active)
    BY <1>1, NetType, OthersSay
  <2> QED
    BY <1>1, <2>1 DEF Agreement, Agrees
<1>2. restarting # "told" => Agrees(i)'
  BY DEF Agrees
<1> QED
  BY <1>1, <1>2 DEF Agreement

LEMMA AttachAgrees ==
  ASSUME Inv, Agreement, NEW i \in Id, CanAttach(i), Attach(i),
         raced' = raced \ {i}, UNCHANGED <<swept, link, active, tomb, restarting>>
  PROVE  Agreement'
<1> DEFINE q == [sess[at[i]] EXCEPT !.client = link]
           p == <<[type |-> "created", id |-> i]>>
<1>1. /\ at[i] # 0 /\ at[i] \in 1 .. Len(sess) /\ SessionInv(sess[at[i]])
      /\ Attachable(sess[at[i]]) /\ link \in Nat \ {0}
  BY Named, NetType DEF CanAttach
<1>2. sess' = [sess EXCEPT ![at[i]] = q] /\ at' = at
  BY DEF Attach
<1>3. q \in SessionRec /\ q.client = link /\ Attachable(q)
  BY <1>1 DEF SessionInv, SessionRec, Attachable, IsAlive
<1>4. net' = net \o p
  BY DEF Attach, Send
<1>5. p \in Seq(Msg) /\ \A k \in 1 .. Len(p) : p[k].id = i
  BY OneSays
<1>6. Shown(i, net \o p, active)
  BY NetType, OneDecides
<1> HIDE DEF q, p
<1>7. /\ Len(sess') = Len(sess) /\ sess'[at[i]] = q
      /\ \A j \in 1 .. Len(sess) : j # at[i] => sess'[j] = sess[j]
  BY <1>1, <1>2, <1>3, ExceptSeq DEF Inv, Table
<1>8. ClientsKnown'
  BY <1>1, <1>3, <1>7 DEF Agreement, ClientsKnown
<1>9. ASSUME NEW j \in Id \ {i}, at[j] # 0
      PROVE  sess'[at[j]] = sess[at[j]]
  <2>1. at[j] \in 1 .. Len(sess) /\ at[j] # at[i]
    BY <1>1, <1>9, Named
  <2> QED
    BY <1>7, <2>1
<1> QED
  BY <1>2, <1>3, <1>4, <1>5, <1>6, <1>7, <1>8, <1>9, CallAgrees

\* Whatever was in the way of a new session of i, nothing is said of the others.
LEMMA ReplacedAgrees ==
  ASSUME Inv, Agreement, NEW i \in Id, ~CanAttach(i)
  PROVE  /\ ReplacedExits(i) \in Seq(Msg)
         /\ \A k \in 1 .. Len(ReplacedExits(i)) : ReplacedExits(i)[k].id = i
         /\ Replaced(i) \in Seq(SessionRec) /\ Len(Replaced(i)) = Len(sess)
         /\ \A s \in 1 .. Len(sess) : /\ Replaced(i)[s].client <= link
                                      /\ s # at[i] => Replaced(i)[s] = sess[s]
<1>1. /\ ReplacedExits(i) \in Seq(Msg) /\ Replaced(i) \in Seq(SessionRec)
      /\ Len(Replaced(i)) = Len(sess)
  BY ReplacedTable DEF Table
<1>2. CASE at[i] = 0
  BY <1>1, <1>2 DEF Replaced, ReplacedExits, Agreement, ClientsKnown
<1>3. CASE at[i] # 0
  <2> DEFINE q == Dispose(sess[at[i]])
  <2>1. /\ at[i] \in 1 .. Len(sess) /\ SessionInv(sess[at[i]]) /\ sess[at[i]].id = i
        /\ link \in Nat \ {0}
    BY <1>3, Named, NetType
  <2>2. q.client \in {sess[at[i]].client, 0} /\ q \in SessionRec
    BY <2>1, <1>3, DisposeClient, DisposeFollows DEF Follows, SessionInv, CanAttach
  <2>3. Replaced(i) = [sess EXCEPT ![at[i]] = q] /\ ReplacedExits(i) = Exits(sess[at[i]], q)
    BY <1>3 DEF Replaced, ReplacedExits
  <2> HIDE DEF q
  <2>4. /\ Replaced(i)[at[i]] = q
        /\ \A s \in 1 .. Len(sess) : s # at[i] => Replaced(i)[s] = sess[s]
    BY <2>1, <2>2, <2>3, ExceptSeq DEF Inv, Table
  <2>5. \A s \in 1 .. Len(sess) : Replaced(i)[s].client <= link
    BY <2>1, <2>2, <2>4 DEF Agreement, ClientsKnown
  <2>6. \A k \in 1 .. Len(ReplacedExits(i)) : ReplacedExits(i)[k].id = i
    <3>1. Exits(sess[at[i]], q) \in {<<>>, <<[type |-> "exit", id |-> i]>>}
      BY <2>1 DEF Exits
    <3>2. ASSUME NEW k \in 1 .. Len(<<[type |-> "exit", id |-> i]>>)
          PROVE  <<[type |-> "exit", id |-> i]>>[k].id = i
      OBVIOUS
    <3>3. CASE ReplacedExits(i) = <<>>
      BY <3>3
    <3>4. CASE ReplacedExits(i) = <<[type |-> "exit", id |-> i]>>
      BY <3>2, <3>4
    <3> QED
      BY <2>3, <3>1, <3>3, <3>4
  <2> QED
    BY <1>1, <2>4, <2>5, <2>6
<1> QED
  BY <1>2, <1>3

\* One more message about i.
LEMMA SaysMore ==
  ASSUME NEW i \in Id, NEW p \in Seq(Msg), \A k \in 1 .. Len(p) : p[k].id = i,
         NEW type \in {"created", "failed"}
  PROVE  LET t == p \o <<[type |-> type, id |-> i]>>
         IN  t \in Seq(Msg) /\ Len(t) > 0 /\ t[Len(t)].type = type
             /\ \A k \in 1 .. Len(t) : t[k].id = i
<1> DEFINE m == [type |-> type, id |-> i]
           t == p \o <<m>>
<1>1. m \in Msg /\ m.id = i /\ m.type = type
  BY DEF Msg
<1> HIDE DEF m
<1>2. /\ t \in Seq(Msg) /\ Len(t) = Len(p) + 1 /\ t[Len(p) + 1] = m
      /\ \A k \in 1 .. Len(p) : t[k] = p[k]
  BY <1>1
<1>3. \A k \in 1 .. Len(t) : k \in 1 .. Len(p) \/ k = Len(p) + 1
  BY <1>2
<1> QED
  BY <1>1, <1>2, <1>3 DEF m

LEMMA CreateAgrees ==
  ASSUME Inv, Agreement, NEW i \in Id, ~CanAttach(i), NEW command \in BOOLEAN,
         NEW barrier \in BOOLEAN, Create(i, command, barrier),
         raced' = raced \ {i}, UNCHANGED <<swept, link, active, tomb, restarting>>
  PROVE  Agreement'
<1> DEFINE r == NewSession(i, barrier, link)
           q == IF command THEN Write(r) ELSE r
           p == ReplacedExits(i) \o <<[type |-> "created", id |-> i]>>
<1>1. link \in Nat \ {0} /\ net \in Seq(Msg)
  BY NetType
<1>2. SessionInv(r) /\ Attachable(r) /\ r.client = link
  BY <1>1, NewSessionInv DEF NewSession, Attachable, IsAlive
<1>3. sess' = Append(Replaced(i), q) /\ at' = [at EXCEPT ![i] = Len(sess) + 1] /\ net' = net \o p
  BY DEF Create, Send
<1> HIDE DEF r
<1>4. q \in SessionRec /\ Attachable(q) /\ q.client = link
  BY <1>2, WriteAttachable, WriteFollows DEF Follows, SessionInv
<1> HIDE DEF q
<1>5. /\ p \in Seq(Msg) /\ Len(p) > 0 /\ p[Len(p)].type = "created"
      /\ \A k \in 1 .. Len(p) : p[k].id = i
  <2>1. /\ ReplacedExits(i) \in Seq(Msg)
        /\ \A k \in 1 .. Len(ReplacedExits(i)) : ReplacedExits(i)[k].id = i
    BY ReplacedAgrees
  <2> QED
    BY <2>1, SaysMore
<1> HIDE DEF p
<1>6. Shown(i, net \o p, active)
  <2>1. Len(p) \in 1 .. Len(p) /\ Says(p[Len(p)], i)
    BY <1>5 DEF Says
  <2> QED
    BY <1>1, <1>5, <2>1, LastSays
<1>7. /\ Len(sess') = Len(sess) + 1 /\ sess'[Len(sess) + 1] = q
      /\ \A s \in 1 .. Len(sess) : sess'[s] = Replaced(i)[s]
      /\ Len(sess) \in Nat
  BY <1>3, <1>4, ReplacedAgrees, TableDomain DEF Inv
<1>8. ClientsKnown'
  BY <1>1, <1>4, <1>7, ReplacedAgrees DEF ClientsKnown
<1>9. at'[i] = Len(sess) + 1 /\ \A j \in Id \ {i} : at'[j] = at[j]
  BY <1>3 DEF Inv, Table
<1>10. ASSUME NEW j \in Id \ {i}, at[j] # 0
       PROVE  sess'[at[j]] = sess[at[j]]
  <2>1. at[j] \in 1 .. Len(sess) /\ at[j] # at[i]
    <3>1. at[j] \in 1 .. Len(sess) /\ sess[at[j]].id = j
      BY <1>10, Named
    <3>2. at[i] # 0 => sess[at[i]].id = i
      BY Named
    <3> QED
      BY <1>10, <3>1, <3>2
  <2> QED
    BY <1>7, <2>1, ReplacedAgrees
<1>11. net' = net \o p
  BY <1>3
<1>12. Shown(i, net', active) /\ Attachable(sess'[at'[i]])
  BY <1>4, <1>6, <1>7, <1>9, <1>11
<1> QED
  BY <1>5, <1>8, <1>9, <1>10, <1>11, <1>12, CallAgrees

LEMMA SpawnThrowsAgrees ==
  ASSUME Inv, Agreement, NEW i \in Id, ~CanAttach(i), SpawnThrows(i),
         raced' = raced \ {i}, UNCHANGED <<swept, link, active, tomb, restarting>>
  PROVE  Agreement'
<1> DEFINE p == ReplacedExits(i) \o <<[type |-> "failed", id |-> i]>>
<1>1. sess' = Replaced(i) /\ at' = [at EXCEPT ![i] = 0] /\ net' = net \o p
  BY DEF SpawnThrows, Send
<1>2. p \in Seq(Msg) /\ \A k \in 1 .. Len(p) : p[k].id = i
  BY SaysMore, ReplacedAgrees
<1> HIDE DEF p
<1>3. ClientsKnown'
  BY <1>1, ReplacedAgrees DEF ClientsKnown
<1>4. at'[i] = 0 /\ \A j \in Id \ {i} : at'[j] = at[j]
  BY <1>1 DEF Inv, Table
<1>5. ASSUME NEW j \in Id \ {i}, at[j] # 0
      PROVE  sess'[at[j]] = sess[at[j]]
  <2>1. at[j] \in 1 .. Len(sess) /\ at[j] # at[i]
    <3>1. at[j] \in 1 .. Len(sess) /\ sess[at[j]].id = j
      BY <1>5, Named
    <3>2. at[i] # 0 => sess[at[i]].id = i
      BY Named
    <3> QED
      BY <1>5, <3>1, <3>2
  <2> QED
    BY <1>1, <2>1, ReplacedAgrees
<1> QED
  BY <1>1, <1>2, <1>3, <1>4, <1>5, CallAgrees

\* A session that is written to or killed takes its own place again.
LEMMA TakesPlace ==
  ASSUME Inv, Agreement, NEW i \in Id, at[i] # 0, NEW q, q \in SessionRec,
         q.client = sess[at[i]].client, sess' = [sess EXCEPT ![at[i]] = q], link' = link
  PROVE  /\ ClientsKnown' /\ sess'[at[i]] = q
         /\ \A j \in Id \ {i} : at[j] # 0 => sess'[at[j]] = sess[at[j]]
<1>1. at[i] \in 1 .. Len(sess) /\ sess[at[i]].id = i
  BY Named
<1>2. /\ Len(sess') = Len(sess) /\ sess'[at[i]] = q
      /\ \A s \in 1 .. Len(sess) : s # at[i] => sess'[s] = sess[s]
  BY <1>1, ExceptSeq DEF Inv, Table
<1>3. ClientsKnown'
  BY <1>1, <1>2 DEF Agreement, ClientsKnown
<1>4. ASSUME NEW j \in Id \ {i}, at[j] # 0
      PROVE  sess'[at[j]] = sess[at[j]]
  <2>1. at[j] \in 1 .. Len(sess) /\ at[j] # at[i]
    BY <1>1, <1>4, Named
  <2> QED
    BY <1>2, <2>1
<1> QED
  BY <1>2, <1>3, <1>4

LEMMA InputAgrees ==
  ASSUME Inv, Agreement, NEW i \in Id, Input(i)
  PROVE  Agreement'
<1>0. UNCHANGED <<at, link, active, restarting, raced>>
  BY DEF Input
<1>1. CASE /\ Live(i)
           /\ sess' = [sess EXCEPT ![at[i]] = Write(@)]
           /\ UNCHANGED net
  <2> DEFINE q == Write(sess[at[i]])
  <2>1. at[i] # 0 /\ SessionInv(sess[at[i]])
    BY <1>1, Named DEF Live
  <2>2. /\ q \in SessionRec /\ q.client = sess[at[i]].client
        /\ Attachable(q) <=> Attachable(sess[at[i]])
    BY <2>1, WriteFollows, WriteAttachable DEF Follows, SessionInv
  <2>3. sess' = [sess EXCEPT ![at[i]] = q]
    BY <1>1
  <2> HIDE DEF q
  <2>4. /\ ClientsKnown' /\ sess'[at[i]] = q
        /\ \A j \in Id \ {i} : at[j] # 0 => sess'[at[j]] = sess[at[j]]
    BY <1>0, <2>1, <2>2, <2>3, TakesPlace
  <2>5. ASSUME NEW j \in Id \ raced, restarting # "told"
        PROVE  Agrees(j)'
    <3>1. CASE j = i
      BY <1>0, <1>1, <2>1, <2>2, <2>4, <2>5, <3>1 DEF Agreement, Agrees
    <3>2. CASE j # i
      BY <1>0, <1>1, <2>4, <2>5, <3>2 DEF Agreement, Agrees
    <3> QED
      BY <3>1, <3>2
  <2> QED
    BY <1>0, <2>4, <2>5 DEF Agreement
<1>2. CASE ~Live(i) /\ Send(<<[type |-> "exit", id |-> i]>>) /\ UNCHANGED sess
  <2> DEFINE p == <<[type |-> "exit", id |-> i]>>
  <2>1. p \in Seq(Msg) /\ \A k \in 1 .. Len(p) : p[k].id = i
    BY OneSays
  <2>2. ~Shown(i, net \o p, active)
    BY NetType, OneDecides
  <2>3. net' = net \o p
    BY <1>2 DEF Send
  <2> HIDE DEF p
  <2>4. ClientsKnown'
    BY <1>0, <1>2 DEF Agreement, ClientsKnown
  <2>5. at[i] # 0 => ~Attachable(sess[at[i]])
    BY <1>2 DEF Live, Attachable
  <2>6. at'[i] # 0 => (Shown(i, net', active) <=> Attachable(sess'[at'[i]]))
    BY <1>0, <1>2, <2>2, <2>3, <2>5
  <2>7. \A j \in Id \ {i} : at'[j] = at[j] /\ (at[j] # 0 => sess'[at[j]] = sess[at[j]])
    BY <1>0, <1>2
  <2> QED
    BY <1>0, <2>1, <2>3, <2>4, <2>6, <2>7, CallAgrees
<1> QED
  BY <1>1, <1>2 DEF Input

LEMMA ShutdownAgrees ==
  ASSUME Inv, Agreement, NEW i \in Id, NEW kind \in {"closed", "slept"}, Shutdown(i, kind)
  PROVE  Agreement'
<1>0. UNCHANGED <<at, link, active, restarting, raced>>
  BY DEF Shutdown
<1>1. CASE /\ Live(i)
           /\ sess' = [sess EXCEPT ![at[i]] = Kill(@)]
           /\ Send(<<[type |-> kind, id |-> i]>>)
  <2> DEFINE q == Kill(sess[at[i]])
             p == <<[type |-> kind, id |-> i]>>
  <2>1. at[i] # 0 /\ SessionInv(sess[at[i]])
    BY <1>1, Named DEF Live
  <2>2. q \in SessionRec /\ q.client = sess[at[i]].client /\ ~Attachable(q)
    BY <2>1, KillFollows, KillAttachable DEF Follows, SessionInv
  <2>3. sess' = [sess EXCEPT ![at[i]] = q]
    BY <1>1
  <2> HIDE DEF q
  <2>4. /\ ClientsKnown' /\ sess'[at[i]] = q
        /\ \A j \in Id \ {i} : at[j] # 0 => sess'[at[j]] = sess[at[j]]
    BY <1>0, <2>1, <2>2, <2>3, TakesPlace
  <2>5. p \in Seq(Msg) /\ \A k \in 1 .. Len(p) : p[k].id = i
    <3>1. kind \in {"created", "failed", "closed", "slept", "exit"}
      OBVIOUS
    <3>2. p \in Seq(Msg)
      BY <3>1, OneMessage
    <3>3. \A k \in 1 .. Len(p) : p[k].id = i
      OBVIOUS
    <3> QED
      BY <3>2, <3>3
  <2>6. ~Shown(i, net \o p, active)
    <3>1. Shown(i, net \o p, active) <=> kind = "created"
      BY NetType, OneDecides
    <3> QED
      BY <3>1
  <2>7. net' = net \o p
    BY <1>1 DEF Send
  <2> HIDE DEF p
  <2>8. Shown(i, net', active) <=> Attachable(sess'[at'[i]])
    BY <1>0, <2>2, <2>4, <2>6, <2>7
  <2>9. \A j \in Id \ {i} : at'[j] = at[j] /\ (at[j] # 0 => sess'[at[j]] = sess[at[j]])
    BY <1>0, <2>4
  <2> QED
    BY <1>0, <2>4, <2>5, <2>7, <2>8, <2>9, CallAgrees
<1>2. CASE ~Live(i) /\ Send(<<[type |-> "failed", id |-> i]>>) /\ UNCHANGED sess
  <2> DEFINE p == <<[type |-> "failed", id |-> i]>>
  <2>1. p \in Seq(Msg) /\ \A k \in 1 .. Len(p) : p[k].type = "failed"
    <3>1. p \in Seq(Msg)
      BY OneMessage
    <3> QED
      BY <3>1
  <2>2. net' = net \o p
    BY <1>2 DEF Send
  <2> HIDE DEF p
  <2>3. ASSUME NEW j \in Id
        PROVE  Shown(j, net \o p, active) <=> Shown(j, net, active)
    <3>1. \A k \in 1 .. Len(p) : ~Says(p[k], j)
      BY <2>1 DEF Says
    <3> QED
      BY <2>1, <3>1, NetType, Unsaid
  <2>4. ASSUME NEW j \in Id \ raced, restarting # "told"
        PROVE  Agrees(j)'
    BY <1>0, <1>2, <2>2, <2>3, <2>4 DEF Agreement, Agrees
  <2> QED
    BY <1>0, <1>2, <2>4 DEF Agreement, ClientsKnown
<1> QED
  BY <1>1, <1>2 DEF Shutdown

LEMMA SessionAgrees ==
  ASSUME Inv, Agreement, NEW s \in DOMAIN sess,
         \/ \E marker \in BOOLEAN : Output(s, marker)
         \/ ChildEnds(s) \/ ExitCallback(s)
         \/ ReadyTimeout(s) \/ GateTimer(s) \/ KillTimer(s)
  PROVE  Agreement'
<1>0. SessionInv(sess[s])
  BY TableDomain, TableEntry DEF Inv
<1>1. ASSUME NEW marker \in BOOLEAN, Output(s, marker)
      PROVE  Agreement'
  BY <1>0, <1>1, HandleDataFollows, HandleDataMoves, BecomesAgrees DEF Output
<1>2. CASE ChildEnds(s)
  BY <1>0, <1>2, ChildEndsFollows, ChildEndsMoves, BecomesAgrees DEF ChildEnds
<1>3. CASE ExitCallback(s)
  BY <1>0, <1>3, HandleExitFollows, HandleExitMoves, BecomesAgrees DEF ExitCallback
<1>4. CASE ReadyTimeout(s)
  BY <1>0, <1>4, ReadyTimeoutFollows, TimersMove, BecomesAgrees DEF ReadyTimeout
<1>5. CASE GateTimer(s)
  BY <1>0, <1>5, GateFiresFollows, TimersMove, BecomesAgrees DEF GateTimer
<1>6. CASE KillTimer(s)
  BY <1>0, <1>6, ForceDisposeFollows, ForceDisposeMoves, BecomesAgrees DEF KillTimer
<1> QED
  BY <1>1, <1>2, <1>3, <1>4, <1>5, <1>6

\* A message that is read out of the order of its id's messages spoils no more
\* than that id.
LEMMA DeliverAgrees ==
  ASSUME Inv, Agreement, Deliver
  PROVE  Agreement'
<1>1. PICK k \in DOMAIN net :
        /\ Receive(net[k])
        /\ raced' = IF \E j \in 1 .. k - 1 : net[j].id = net[k].id
                    THEN raced \cup {net[k].id} ELSE raced
        /\ net' = [j \in 1 .. Len(net) - 1 |-> IF j < k THEN net[j] ELSE net[j + 1]]
        /\ UNCHANGED <<sess, at, swept, link, restarting>>
  BY DEF Deliver
<1>2. net \in Seq(Msg) /\ k \in 1 .. Len(net)
  BY NetType
<1>3. Reads(net[k], active, active')
  BY <1>1 DEF Receive, Reads
<1>4. ASSUME NEW i \in Id \ raced'
      PROVE  Shown(i, net', active') <=> Shown(i, net, active)
  <2>1. net[k].id = i => \A j \in 1 .. k - 1 : net[j].id # i
    BY <1>1, <1>4
  <2>2. Shown(i, Without(net, k), active') <=> Shown(i, net, active)
    BY <1>2, <1>3, <2>1, ReadAway
  <2> QED
    BY <1>1, <2>2 DEF Without
<1>5. ASSUME NEW i \in Id \ raced', restarting # "told"
      PROVE  Agrees(i)'
  <2>1. i \in Id \ raced
    BY <1>1, <1>5
  <2>2. Agrees(i)
    BY <1>5, <2>1 DEF Agreement
  <2> QED
    BY <1>1, <1>4, <2>2 DEF Agrees
<1> QED
  BY <1>1, <1>5 DEF Agreement, ClientsKnown

\* On a new connection the app has attached nothing yet.
LEMMA NewLinkAgrees ==
  ASSUME Inv, Agreement, link' = link + 1, UNCHANGED <<sess, at>>
  PROVE  Agreement'
<1>1. /\ link \in Nat
      /\ \A s \in 1 .. Len(sess) : sess[s].client \in Nat /\ sess[s].client <= link
  BY NetType, TableEntry DEF Inv, Agreement, ClientsKnown, SessionRec
<1>2. \A s \in 1 .. Len(sess) : sess[s].client <= link' /\ sess[s].client # link'
  BY <1>1
<1>3. \A i \in Id : at[i] # 0 => at[i] \in 1 .. Len(sess)
  BY Named
<1> QED
  BY <1>2, <1>3 DEF Agreement, ClientsKnown, Agrees

LEMMA RestartStopsAgrees ==
  ASSUME Inv, Agreement, RestartStops
  PROVE  Agreement'
<1>1. link' = link + 1 /\ link \in Nat /\ DOMAIN sess = 1 .. Len(sess) /\ Len(sess) \in Nat
  BY NetType, TableDomain DEF RestartStops, Inv
<1>2. /\ DOMAIN sess' = 1 .. Len(sess)
      /\ \A s \in 1 .. Len(sess) : /\ sess[s].client \in Nat
                                   /\ sess'[s].client \in {0, sess[s].client}
  <2>1. ASSUME NEW s \in 1 .. Len(sess)
        PROVE  sess[s].client \in Nat /\ sess'[s].client \in {0, sess[s].client}
    <3>1. sess[s] \in SessionRec
      BY TableEntry DEF Inv
    <3> QED
      BY <1>1, <3>1 DEF RestartStops, SessionRec, ForceKillAndDispose, TornDown, Ended, Killed
  <2> QED
    BY <1>1, <2>1 DEF RestartStops
<1>3. Len(sess') = Len(sess)
  <2>1. DOMAIN sess' = 1 .. Len(sess') /\ Len(sess') \in Nat
    BY RestartStopsStep DEF Inv, Table
  <2> QED
    BY <1>1, <1>2, <2>1
<1>4. ClientsKnown'
  BY <1>1, <1>2, <1>3 DEF Agreement, ClientsKnown
<1>5. \A i \in Id : at'[i] = 0
  BY DEF RestartStops
<1> QED
  BY <1>4, <1>5 DEF Agreement, Agrees

LEMMA StepAgrees ==
  ASSUME Inv, Agreement, [Next]_vars
  PROVE  Agreement'
<1>1. ASSUME NEW i \in Id, Spawn(i)
      PROVE  Agreement'
  BY <1>1, AttachAgrees, CreateAgrees, SpawnThrowsAgrees DEF Spawn
<1>2. ASSUME NEW i \in Id, Input(i)
      PROVE  Agreement'
  BY <1>2, InputAgrees
<1>3. ASSUME NEW i \in Id, NEW kind \in {"closed", "slept"}, Shutdown(i, kind)
      PROVE  Agreement'
  BY <1>3, ShutdownAgrees
<1>4. ASSUME NEW s \in DOMAIN sess,
             \/ \E marker \in BOOLEAN : Output(s, marker)
             \/ ChildEnds(s) \/ ExitCallback(s)
             \/ ReadyTimeout(s) \/ GateTimer(s) \/ KillTimer(s)
      PROVE  Agreement'
  BY <1>4, SessionAgrees
<1>5. CASE Deliver
  BY <1>5, DeliverAgrees
<1>6. CASE Reconnect
  BY <1>6, NewLinkAgrees DEF Reconnect
<1>7. CASE RestartBegins
  BY <1>7 DEF RestartBegins, Agreement, ClientsKnown
<1>8. CASE RestartStops
  BY <1>8, RestartStopsAgrees
<1>9. CASE RestartEnds
  BY <1>9, NewLinkAgrees DEF RestartEnds
<1>10. CASE UNCHANGED vars
  BY <1>10 DEF vars, Agreement, ClientsKnown, Agrees
<1> QED
  BY <1>1, <1>2, <1>3, <1>4, <1>5, <1>6, <1>7, <1>8, <1>9, <1>10 DEF Next

\* The order in which the app reads its two sockets is all that can make it and
\* the daemon disagree: of every other session of this connection the app holds
\* for active, once it has read everything, exactly those that are there to be
\* used, whatever kill, timer, exit, re-creation, failed spawn, reconnection and
\* restart came between.
THEOREM TerminalAgreement == Spec => []OnlyRacesDisagree
<1>1. Init => Inv /\ Agreement
  <2>1. Init => Agreement
    BY DEF Init, Agreement, ClientsKnown, Agrees
  <2> QED
    BY <2>1, InitInv
<1>2. Inv /\ Agreement /\ [Next]_vars => Inv' /\ Agreement'
  BY StepInv, StepAgrees
<1>3. Inv /\ Agreement => OnlyRacesDisagree
  BY ShownWhenRead DEF Agreement, Agrees, Agreed, OnlyRacesDisagree
<1> QED
  BY <1>1, <1>2, <1>3, PTL DEF Spec

=============================================================================
