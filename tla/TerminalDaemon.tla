--------------------------- MODULE TerminalDaemon ----------------------------
(***************************************************************************)
(* The daemon's table of sessions (src/main/daemon/terminal-host.ts), the  *)
(* calls its server routes to it (daemon-server.ts) and what the app knows *)
(* of the sessions (daemon-pty-adapter.ts).                                *)
(*                                                                         *)
(* The app and the daemon share two sockets: replies come on one, exits on *)
(* the other. "net" is what the daemon has written and the app not read.   *)
(* The app's requests need no such queue: they are handled in the order    *)
(* they are sent, and sending one changes nothing in the app, so a request *)
(* is sent in the step that handles it. A call that finds the connection   *)
(* gone makes a new one first, in a step of its own (Reconnect).           *)
(***************************************************************************)
EXTENDS TerminalSession

CONSTANTS MaxSessions,  \* bound: sessions ever created
          MaxInput,     \* bound: inputs per session
          MaxNet,       \* bound: messages on their way to the app when it is sent a reply
          MaxLink       \* bound: connections made, the new adapter's of a restart not counted

ASSUME TerminalAssumption == {MaxSessions, MaxInput, MaxNet, MaxLink} \subseteq Nat

VARIABLES sess,        \* the session objects in the order they were created
          at,          \* TerminalHost.sessions: the object of each id (0: none)
          swept,       \* the sessions up to this one belonged to a daemon that was stopped
          net,         \* messages to the app, oldest first
          link,        \* the app's connection
          active,      \* activeSessionIds
          tomb,        \* killedSessionTombstones of the app
          restarting,  \* how far restartDaemon is: its panes are told, its daemon is down
          raced        \* history: ids of which an exit and a reply were read out of
                       \* the order they were written in, since they were last spawned

vars == <<sess, at, swept, net, link, active, tomb, restarting, raced>>

Msg == [type : {"created", "failed", "closed", "slept", "exit"}, id : Id]

Init == /\ sess = <<>>
        /\ at = [i \in Id |-> 0]
        /\ swept = 0
        /\ net = <<>>
        /\ link = 1
        /\ active = {}
        /\ tomb = {}
        /\ restarting = "no"
        /\ raced = {}

Live(i) == at[i] # 0 /\ IsAlive(sess[at[i]])

\* The bound holds the app's calls back; no session waits for it.
Send(q) == Len(net) < MaxNet /\ net' = net \o q

\* The exits that the step s -> r of a session writes: its client's closure
\* writes to the connection it was made on, and to no other.
Exits(s, r) ==
  IF r.told > s.told /\ s.client = link THEN <<[type |-> "exit", id |-> s.id]>> ELSE <<>>

-----------------------------------------------------------------------------
(* createOrAttach.                                                          *)

Attach(i) ==
  /\ sess' = [sess EXCEPT ![at[i]].client = link]
  /\ UNCHANGED at
  /\ Send(<<[type |-> "created", id |-> i]>>)

\* What becomes of the object that is in the way of a new one.
Replaced(i) == IF at[i] = 0 THEN sess ELSE [sess EXCEPT ![at[i]] = Dispose(@)]

ReplacedExits(i) == IF at[i] = 0 THEN <<>> ELSE Exits(sess[at[i]], Dispose(sess[at[i]]))

\* The startup command is the session's first input. Only with a command does
\* the session wait for the shell, and only if the shell can tell.
Create(i, command, barrier) ==
  /\ Len(sess) < MaxSessions
  /\ barrier => command
  /\ sess' = LET r == NewSession(i, barrier, link)
             IN Append(Replaced(i), IF command THEN Write(r) ELSE r)
  /\ at' = [at EXCEPT ![i] = Len(sess) + 1]
  /\ Send(ReplacedExits(i) \o <<[type |-> "created", id |-> i]>>)

\* Mutant: the table names the new session before its pty is there.
SpawnThrowsLate(i) ==
  /\ sess' = Replaced(i)
  /\ at' = [at EXCEPT ![i] = Len(sess) + 1]
  /\ Send(ReplacedExits(i) \o <<[type |-> "failed", id |-> i]>>)

\* The pty cannot be made; the old session has been disposed of already.
SpawnThrows(i) ==
  /\ sess' = Replaced(i)
  /\ at' = [at EXCEPT ![i] = 0]
  /\ Send(ReplacedExits(i) \o <<[type |-> "failed", id |-> i]>>)

\* Mutant: a session that is being killed is handed out.
CanAttachWhileAlive(i) == Live(i)

CanAttach(i) == at[i] # 0 /\ Attachable(sess[at[i]])

\* spawn of the adapter. A pane may call it again, and again before the reply.
\* While the daemon is down, the call starts a daemon and goes to that one.
Spawn(i) ==
  /\ i \notin tomb
  /\ \/ CanAttach(i) /\ Attach(i)
     \/ /\ ~CanAttach(i)
        /\ \/ \E command, barrier \in BOOLEAN : Create(i, command, barrier)
           \/ SpawnThrows(i)
  /\ raced' = raced \ {i}
  /\ UNCHANGED <<swept, link, active, tomb, restarting>>

-----------------------------------------------------------------------------
(* The other calls.                                                         *)

\* A write, or a resize, to a session that is not there is answered with an exit.
Input(i) ==
  /\ \/ /\ Live(i) /\ sess[at[i]].sent < MaxInput
        /\ sess' = [sess EXCEPT ![at[i]] = Write(@)]
        /\ UNCHANGED net
     \/ /\ ~Live(i)
        /\ Send(<<[type |-> "exit", id |-> i]>>)
        /\ UNCHANGED sess
  /\ UNCHANGED <<at, swept, link, active, tomb, restarting, raced>>

\* shutdown of the adapter, with keepHistory for a worktree that goes to sleep.
Shutdown(i, kind) ==
  /\ \/ /\ Live(i)
        /\ sess' = [sess EXCEPT ![at[i]] = Kill(@)]
        /\ Send(<<[type |-> kind, id |-> i]>>)
     \/ /\ ~Live(i)
        /\ Send(<<[type |-> "failed", id |-> i]>>)
        /\ UNCHANGED sess
  /\ UNCHANGED <<at, swept, link, active, tomb, restarting, raced>>

-----------------------------------------------------------------------------
(* What the sessions' children and timers do.                               *)

Becomes(s, r) ==
  /\ sess' = [sess EXCEPT ![s] = r]
  /\ net' = net \o Exits(sess[s], r)
  /\ UNCHANGED <<at, swept, link, active, tomb, restarting, raced>>

Output(s, marker) ==
  /\ sess[s].child = "alive"
  /\ Becomes(s, HandleData(sess[s], marker))

\* A child ends by itself, because of SIGHUP, or because of SIGKILL.
ChildEnds(s) ==
  /\ sess[s].child \in {"alive", "doomed"}
  /\ Becomes(s, [sess[s] EXCEPT !.child = "gone"])

ExitCallback(s) == sess[s].child = "gone" /\ Becomes(s, HandleExit(sess[s]))

ReadyTimeout(s) ==
  /\ IsAlive(sess[s]) /\ sess[s].shell = "pending"
  /\ Becomes(s, OnShellReadyTimeout(sess[s]))

\* One of the flush gate's timers fires; a teardown at shutdown does not clear them.
GateTimer(s) == sess[s].gate # "off" /\ Becomes(s, GateFires(sess[s]))

\* Mutant: the timer only asks the child once more.
KillTimerAsksAgain(s) ==
  /\ IsAlive(sess[s]) /\ sess[s].terminating
  /\ Becomes(s, Kill(sess[s]))

KillTimer(s) ==
  /\ IsAlive(sess[s]) /\ sess[s].terminating
  /\ Becomes(s, ForceDispose(sess[s]))

-----------------------------------------------------------------------------
(* The app's end of the connection.                                         *)

OnStream(m) == m.type = "exit"

\* A message is the oldest of its socket: nothing orders the two sockets.
MayRead(k) ==
  /\ k \in DOMAIN net
  /\ \A j \in 1 .. k - 1 : OnStream(net[j]) # OnStream(net[k])

\* doSpawn after the reply, shutdown after the reply, and an exit event.
Receive(m) ==
  /\ active' = CASE m.type = "created" -> active \cup {m.id}
                 [] m.type \in {"closed", "slept", "exit"} -> active \ {m.id}
                 [] OTHER -> active
  /\ tomb' = IF m.type = "closed" THEN tomb \cup {m.id} ELSE tomb

Deliver ==
  \E k \in DOMAIN net :
    /\ MayRead(k)
    /\ Receive(net[k])
    /\ raced' = IF \E j \in 1 .. k - 1 : net[j].id = net[k].id
                THEN raced \cup {net[k].id} ELSE raced
    /\ net' = [j \in 1 .. Len(net) - 1 |-> IF j < k THEN net[j] ELSE net[j + 1]]
    /\ UNCHANGED <<sess, at, swept, link, restarting>>

\* The sockets close and the next call connects again. What was on its way is
\* lost, and the daemon's sessions keep the closures of the old connection.
Reconnect ==
  /\ link < MaxLink
  /\ link' = link + 1
  /\ net' = <<>>
  /\ UNCHANGED <<sess, at, swept, active, tomb, restarting, raced>>

\* restartDaemon: every pane is told first ...
RestartBegins ==
  /\ restarting = "no" /\ link < MaxLink
  /\ restarting' = "told"
  /\ active' = {}
  /\ UNCHANGED <<sess, at, swept, net, link, tomb, raced>>

\* ... then the daemon disposes of its sessions, which tell nobody, and ends ...
RestartStops ==
  /\ restarting = "told" /\ link < MaxLink
  /\ restarting' = "down"
  /\ sess' = [s \in DOMAIN sess |->
                IF \A i \in Id : at[i] # s THEN sess[s]
                ELSE [IF IsAlive(sess[s]) THEN ForceKillAndDispose(sess[s])
                                          ELSE TornDown(sess[s]) EXCEPT !.client = 0]]
  /\ at' = [i \in Id |-> 0]
  /\ swept' = Len(sess)
  /\ net' = <<>>
  /\ link' = link + 1
  /\ UNCHANGED <<active, tomb, raced>>

\* ... and once a new daemon runs, a new adapter takes the place of the old one,
\* through which panes may have spawned sessions meanwhile.
RestartEnds ==
  /\ restarting = "down"
  /\ restarting' = "no"
  /\ net' = <<>>
  /\ link' = link + 1
  /\ active' = {}
  /\ tomb' = {}
  /\ UNCHANGED <<sess, at, swept, raced>>

-----------------------------------------------------------------------------

Next == \/ \E i \in Id : \/ Spawn(i)
                         \/ Input(i)
                         \/ \E kind \in {"closed", "slept"} : Shutdown(i, kind)
        \/ \E s \in DOMAIN sess : \/ \E marker \in BOOLEAN : Output(s, marker)
                                  \/ ChildEnds(s) \/ ExitCallback(s)
                                  \/ ReadyTimeout(s) \/ GateTimer(s) \/ KillTimer(s)
        \/ Deliver \/ Reconnect \/ RestartBegins \/ RestartStops \/ RestartEnds

Spec == Init /\ [][Next]_vars

\* The daemon's timers and callbacks are not held up for ever: timers fire, a
\* child that was sent SIGKILL ends, the end of a child is noticed. Each of these
\* happens finitely often to a session, so none of them can hold up the others.
\* Nothing makes the user type, a shell get ready or a child obey SIGHUP.
Fairness ==
  WF_vars(\E s \in DOMAIN sess :
            \/ ExitCallback(s) \/ ReadyTimeout(s) \/ GateTimer(s) \/ KillTimer(s)
            \/ sess[s].child = "doomed" /\ ChildEnds(s))

FairSpec == Spec /\ Fairness

-----------------------------------------------------------------------------
(* Properties.                                                              *)

\* Every variable keeps its type; the table names sessions that were created.
TypeOK == /\ sess \in Seq(SessionRec)
          /\ at \in [Id -> 0 .. Len(sess)]
          /\ swept \in 0 .. Len(sess)
          /\ net \in Seq(Msg)
          /\ link \in Nat
          /\ active \in SUBSET Id
          /\ tomb \in SUBSET Id
          /\ restarting \in {"no", "told", "down"}
          /\ raced \in SUBSET Id

\* The shell-ready barrier: whatever the order of marker, prompt, timeouts and
\* keystrokes, the pty gets the startup command and then the input in the order
\* it was written, and while the child runs none of it is lost.
InputOrder ==
  \A s \in DOMAIN sess :
    LET r == sess[s]
    IN /\ \A k \in DOMAIN r.received : r.received[k] = k
       /\ IsAlive(r) /\ r.child = "alive" =>
            /\ Len(r.received) + Len(r.queue) = r.sent
            /\ \A k \in DOMAIN r.queue : r.queue[k] = Len(r.received) + k

\* No child outlives its session: one that has not been sent SIGKILL belongs to
\* a running session that the table still holds, so that someone can kill it.
NoOrphanChild ==
  \A s \in DOMAIN sess :
    sess[s].child = "alive" => IsAlive(sess[s]) /\ \E i \in Id : at[i] = s

\* A session tells of its exit once: not twice when the kill timer, a new
\* session and the child's own end race, and not never. The sessions of a
\* daemon that is stopped do not tell; the app has told their panes.
ToldOnce ==
  \A s \in DOMAIN sess : /\ sess[s].told <= 1
                         /\ s > swept => (sess[s].told = 1 <=> ~IsAlive(sess[s]))

\* What the app should hold of a session it attached on this connection, when
\* all messages have been read and no restart has told the panes of their end.
Agreed(i) ==
  net = <<>> /\ restarting # "told" /\ at[i] # 0 /\ sess[at[i]].client = link =>
    (i \in active <=> Attachable(sess[at[i]]))

\* The app holds a session for active exactly if it runs and is not being killed,
\* whatever kill, timer, failed spawn, lost connection and restart did, unless an
\* exit and a reply of its id were read in another order than they were written.
OnlyRacesDisagree == \A i \in Id \ raced : Agreed(i)

\* A pane that gets a new session in the place of one that was being killed keeps
\* it: the exit of the old one does not end the new one for the app.
NewHandleStays ==
  \A i \in Id :
    /\ net = <<>> /\ restarting # "told" /\ CanAttach(i) /\ sess[at[i]].client = link
    /\ \E s \in 1 .. at[i] - 1 : sess[s].id = i /\ sess[s].disposed
    => i \in active

HeldBack(s) == s \in DOMAIN sess /\ IsAlive(sess[s]) /\ sess[s].queue # <<>>

\* Input that is held back reaches the shell, or the session ends.
InputFlushed == \A s \in 1 .. MaxSessions : HeldBack(s) ~> ~HeldBack(s)

Dying(s) == s \in DOMAIN sess /\ sess[s].terminating

\* A session that is killed ends, also when its child ignores SIGHUP, and so
\* does the child.
KillEnds ==
  \A s \in 1 .. MaxSessions :
    Dying(s) ~> s \in DOMAIN sess /\ ~IsAlive(sess[s]) /\ sess[s].child = "reaped"

=============================================================================
