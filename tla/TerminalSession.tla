--------------------------- MODULE TerminalSession ---------------------------
(***************************************************************************)
(* One terminal session of the daemon: the Session object of               *)
(* src/main/daemon/session.ts with its flush gate                          *)
(* (post-ready-flush-gate.ts) and the pty child behind it                  *)
(* (pty-subprocess.ts). The object is a record, and each of its methods an *)
(* operator from the object before the call to the object after it.        *)
(*                                                                         *)
(* The ready timer runs exactly while the shell is "pending" and the kill  *)
(* timer exactly while "terminating", of a session that has not exited:    *)
(* whatever ends one of these clears the timer. They are no fields here.   *)
(***************************************************************************)
EXTENDS Naturals, Sequences

CONSTANT Id   \* session ids, one per pane

\* "gate" is the state of the PostReadyFlushGate: "prompt" with the fallback
\* timer set, "delay" with the timer after the first output set. "client" is
\* the connection whose exit closure is attached (0: none). Of the child,
\* "doomed" has been sent SIGKILL, "gone" has ended and its exit callback is
\* due, "reaped" has had it. The input is numbered in the order of write():
\* "sent" were given to the session and "received" reached the pty (both are
\* forgotten with the pty), and "told" counts the calls of a client's onExit.
SessionRec == [id          : Id,
               state       : {"running", "exited"},
               shell       : {"pending", "ready", "timed_out", "unsupported"},
               terminating : BOOLEAN,
               disposed    : BOOLEAN,
               queue       : Seq(Nat),
               gate        : {"off", "prompt", "delay"},
               client      : Nat,
               child       : {"alive", "doomed", "gone", "reaped"},
               sent        : Nat,
               received    : Seq(Nat),
               told        : Nat]

NewSession(i, barrier, c) ==
  [id |-> i, state |-> "running", shell |-> IF barrier THEN "pending" ELSE "unsupported",
   terminating |-> FALSE, disposed |-> FALSE, queue |-> <<>>, gate |-> "off",
   client |-> c, child |-> "alive", sent |-> 0, received |-> <<>>, told |-> 0]

IsAlive(r) == r.state = "running"

Attachable(r) == IsAlive(r) /\ ~r.terminating

-----------------------------------------------------------------------------
(* Input.                                                                   *)

\* subprocess.write: a pty that is disposed of, or whose child has ended, takes
\* nothing more.
PtyTakes(r, q) ==
  IF IsAlive(r) /\ r.child \in {"alive", "doomed"} THEN r.received \o q ELSE r.received

\* Mutant: the short delay after the prompt is not part of the gate's window.
HoldsUntilPrompt(r) == r.shell = "pending" \/ r.gate = "prompt"

\* Input is held back: the shell is not ready, or the gate's flush is still due.
Holds(r) == r.shell = "pending" \/ r.gate # "off"

Write(r) ==
  LET n == r.sent + 1
  IN IF ~IsAlive(r) \/ r.disposed THEN r
     ELSE IF Holds(r) THEN [r EXCEPT !.sent = n, !.queue = Append(@, n)]
     ELSE [r EXCEPT !.sent = n, !.received = PtyTakes(r, <<n>>)]

FlushPreReadyQueue(r) == [r EXCEPT !.queue = <<>>, !.received = PtyTakes(r, r.queue)]

\* Mutant: the first output cancels the fallback and sets no timer of its own.
NotifyDataCancels(r) == [r EXCEPT !.gate = IF @ = "prompt" THEN "off" ELSE @]

NotifyData(r) == [r EXCEPT !.gate = IF @ = "prompt" THEN "delay" ELSE @]

\* transitionToReady: the gate is armed when there is something to flush.
TransitionToReady(r) ==
  [r EXCEPT !.shell = "ready", !.gate = IF r.queue = <<>> THEN "off" ELSE "prompt"]

\* A chunk of output, with or without the end of the shell-ready marker in it.
HandleData(r, marker) ==
  IF r.disposed THEN r
  ELSE IF r.shell = "pending"
       THEN IF marker THEN TransitionToReady(r) ELSE r
       ELSE NotifyData(r)

OnShellReadyTimeout(r) == FlushPreReadyQueue([r EXCEPT !.shell = "timed_out"])

\* The callback of either of the gate's timers.
GateFires(r) == FlushPreReadyQueue([r EXCEPT !.gate = "off"])

-----------------------------------------------------------------------------
(* The end of a session.                                                    *)

Killed(r) == [r EXCEPT !.child = IF @ = "alive" THEN "doomed" ELSE @]

\* The client's onExit is called; "clients" is the list the code iterates over.
Tell(r, clients) == [r EXCEPT !.told = IF clients = 0 THEN @ ELSE @ + 1]

Kill(r) == IF Attachable(r) THEN [r EXCEPT !.terminating = TRUE] ELSE r

Ended(r) == [r EXCEPT !.state = "exited", !.sent = 0, !.received = <<>>]

TornDown(r) == Ended([r EXCEPT !.disposed = TRUE])

Emptied(r) == [r EXCEPT !.client = 0, !.queue = <<>>, !.gate = "off"]

\* Mutant: whether a kill is in flight is looked up after the teardown.
DisposeLooksLate(r) == IF r.disposed THEN r ELSE Emptied(TornDown(r))

Dispose(r) ==
  LET wasTerminating == r.terminating /\ IsAlive(r)
  IN IF r.disposed THEN r
     ELSE IF wasTerminating
          THEN Tell(Emptied(TornDown([Killed(r) EXCEPT !.terminating = FALSE])), r.client)
          ELSE Emptied(TornDown(r))

\* The kill timer's callback.
ForceDispose(r) ==
  IF ~IsAlive(r) THEN r
  ELSE Tell(Emptied(TornDown([Killed(r) EXCEPT !.terminating = FALSE])), r.client)

\* The daemon's shutdown: the gate and the queue are left as they are.
ForceKillAndDispose(r) == TornDown(Killed(r))

\* Mutant: an exit that comes after a teardown is fanned out all the same.
HandleExitAnyway(r) ==
  Tell(Ended([r EXCEPT !.child = "reaped", !.gate = "off"]), 1)

\* The exit callback. After a teardown nobody listens; otherwise the session
\* stays undisposed, and its clients attached, until it is disposed of.
HandleExit(r) ==
  IF r.disposed THEN [r EXCEPT !.child = "reaped"]
  ELSE Tell(Ended([r EXCEPT !.child = "reaped", !.gate = "off"]), r.client)

=============================================================================
