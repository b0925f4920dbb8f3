------------------------------ MODULE Messages -------------------------------
(***************************************************************************)
(* How a message gets to an agent: the messages table of                   *)
(* src/main/runtime/orchestration/db.ts, the calls send, check, reply and  *)
(* ask of src/main/runtime/rpc/methods/orchestration.ts, and the waiters   *)
(* and the push on idle of src/main/runtime/orca-runtime.ts.               *)
(*                                                                         *)
(* A message reaches its agent in one of two ways: a caller reads it,      *)
(* which sets "read", or the runtime types it into the agent's terminal    *)
(* and, half a second later, presses Enter, which sets "delivered_at". The *)
(* two bits are independent. Calls that wait are woken when a message      *)
(* arrives; what they do then runs before anything else does, as "woken"   *)
(* says.                                                                   *)
(***************************************************************************)
EXTENDS Naturals, Sequences, FiniteSets, SequencesExt

CONSTANTS Handle,      \* the handles messages are sent from and to
          Terminal,    \* those of terminals whose agent the runtime watches
          Sender,      \* who calls send: handles, or Nobody that is one
          Filters,     \* values of --types (Types: none given)
          Nobody,
          MaxCalls,    \* bound: calls of check and ask that wait at a time
          MaxMsg,      \* bound: messages ever sent
          MaxEnter     \* bound: Enter keys that are due

Types == {"status", "decision_gate", "exit"}

Party == Handle \cup {Nobody}

ASSUME MessagesAssumption == /\ IsFiniteSet(Handle) /\ Terminal \subseteq Handle
                             /\ Nobody \notin Handle /\ Sender \subseteq Party
                             /\ Filters \subseteq SUBSET Types
                             /\ {MaxCalls, MaxMsg, MaxEnter} \subseteq Nat

VARIABLES msgs,     \* messages in the order of their sequence number
          call,     \* the calls that wait
          woken,    \* waiting calls whose promise has been resolved
          cursor,   \* terminals that run a Cursor agent, which gets no Enter
          idle,     \* handles whose agent's last status is idle
          up,       \* handles whose terminal is live and writable
          enter     \* timers that will press Enter, in the order they were set

vars == <<msgs, call, woken, cursor, idle, up, enter>>

\* "text" is where the text is: "typed" into the agent's prompt or "entered".
\* "taken": how many checks for unread messages returned it; "answers": the
\* question whose ask returned it (0: none). A reset deletes rows; their numbers
\* are not issued again. The escalation that the runtime writes when a worker
\* exits has the type "exit" here.
MsgRow == [from : Party, to : Party, type : Types, thread : Nat,
           state : {"unread", "read", "deleted"}, stamped : BOOLEAN,
           text : {"none", "typed", "entered"}, taken : Nat, answers : Nat]

\* A call of check or ask that waits. check --all marks nothing and is left out.
CallRec == [op : {"none", "check", "ask"}, by : Party, filter : SUBSET Types, thread : Nat]

NoCall == [op |-> "none", by |-> Nobody, filter |-> {}, thread |-> 0]

Call == 1 .. MaxCalls

Init == /\ msgs = <<>>
        /\ call = [k \in Call |-> NoCall]
        /\ woken = {}
        /\ cursor \in SUBSET Terminal
        /\ idle = {}
        /\ up = Terminal
        /\ enter = <<>>

-----------------------------------------------------------------------------
(* The table.                                                               *)

Row(f, t, ty, th) ==
  [from |-> f, to |-> t, type |-> ty, thread |-> th, state |-> "unread",
   stamped |-> FALSE, text |-> "none", taken |-> 0, answers |-> 0]

For(M, h) == {m \in DOMAIN M : M[m].to = h /\ M[m].state # "deleted"}

Unread(M, h, F) == {m \in For(M, h) : M[m].state = "unread" /\ M[m].type \in F}

\* getUndeliveredUnreadMessages.
Unpushed(M, h) == {m \in Unread(M, h, Types) : ~M[m].stamped}

\* Mutant: any message to the asker that comes after the question.
ThreadForAnything(M, th, h) == {m \in For(M, h) : m > th}

\* getThreadMessagesFor, after the message that opened the thread.
ThreadFor(M, th, h) == {m \in For(M, h) : M[m].thread = th /\ m > th}

MarkRead(M, S) == [m \in DOMAIN M |-> IF m \in S THEN [M[m] EXCEPT !.state = "read"] ELSE M[m]]

\* markAsRead by a call that returns the messages S.
Take(M, S, c) ==
  [m \in DOMAIN M |->
     IF m \in S THEN [M[m] EXCEPT !.state = "read",
                                  !.taken = IF c.op = "check" THEN @ + 1 ELSE @,
                                  !.answers = IF c.op = "ask" THEN c.thread ELSE @]
     ELSE M[m]]

\* markAsDelivered; a row that is deleted stays so.
Stamp(M, S) ==
  [m \in DOMAIN M |-> IF m \in S /\ M[m].state # "deleted"
                      THEN [M[m] EXCEPT !.stamped = TRUE] ELSE M[m]]

Typed(M, S) == [m \in DOMAIN M |-> IF m \in S THEN [M[m] EXCEPT !.text = "typed"] ELSE M[m]]

\* Enter submits whatever is in the prompt.
Entered(M, h) ==
  [m \in DOMAIN M |-> IF M[m].to = h /\ M[m].text = "typed"
                      THEN [M[m] EXCEPT !.text = "entered"] ELSE M[m]]

-----------------------------------------------------------------------------
(* Push on idle.                                                            *)

\* Mutant: the stamp is set with the text, before Enter.
PushStampsEarly(M, h, takes) ==
  [table  |-> IF takes THEN Stamp(Typed(M, Unpushed(M, h)), Unpushed(M, h)) ELSE M,
   timers |-> IF takes THEN <<[to |-> h, ids |-> Unpushed(M, h)]>> ELSE <<>>]

\* deliverPendingMessages when there is something to push and the terminal is
\* writable; "takes" says whether the pty takes the text.
Push(M, h, takes) ==
  [table  |-> IF ~takes THEN M
              ELSE IF h \in cursor THEN Stamp(Typed(M, Unpushed(M, h)), Unpushed(M, h))
              ELSE Typed(M, Unpushed(M, h)),
   timers |-> IF takes /\ h \notin cursor THEN <<[to |-> h, ids |-> Unpushed(M, h)]>>
              ELSE <<>>]

CanPush(M, h) == h \in up /\ Unpushed(M, h) # {}

\* deliverPendingMessagesForHandle for each of the handles of S that got a message.
DeliverTo(S, M) ==
  LET P == {h \in S \cap idle : CanPush(M, h)}
  IN \E takes \in SUBSET P :
       /\ msgs' = [m \in DOMAIN M |->
                     IF M[m].to \in P THEN Push(M, M[m].to, M[m].to \in takes).table[m]
                     ELSE M[m]]
       /\ \E order \in SetToSeqs(takes \ cursor) :
            enter' = enter \o [j \in DOMAIN order |-> Push(M, order[j], TRUE).timers[1]]
       /\ Len(enter') <= MaxEnter

Waiters(h) == {k \in Call : call[k] # NoCall /\ call[k].by = h}

Notify(S) == woken' = UNION {Waiters(h) : h \in S}

-----------------------------------------------------------------------------
(* send, reply and reset.                                                   *)

Calm == woken = {}

Room(n) == Len(msgs) + n <= MaxMsg

\* The threads a sender has seen and may name.
Questions == {m \in DOMAIN msgs : msgs[m].type = "decision_gate"}

\* To one handle, or to a group, which is resolved to the handles S: a row each.
Send(f, S, ty, th) ==
  /\ Calm /\ Room(Cardinality(S))
  /\ S # {} /\ (Cardinality(S) > 1 => f \notin S)
  /\ th = 0 \/ th \in Questions
  /\ \E order \in SetToSeqs(S) :
       DeliverTo(S, msgs \o [j \in DOMAIN order |-> Row(f, order[j], ty, th)])
  /\ Notify(S)
  /\ UNCHANGED <<call, cursor, idle, up>>

\* Mutant: the waiters of the one who gets the reply are not woken.
ReplySilently(m) ==
  /\ Calm /\ Room(1)
  /\ m \in DOMAIN msgs /\ msgs[m].state # "deleted"
  /\ LET th == IF msgs[m].thread = 0 THEN m ELSE msgs[m].thread
     IN msgs' = Append(MarkRead(msgs, {m}), Row(msgs[m].to, msgs[m].from, "status", th))
  /\ UNCHANGED <<call, woken, cursor, idle, up, enter>>

\* reply pushes nothing, also if the one who gets it is idle.
Reply(m) ==
  /\ Calm /\ Room(1)
  /\ m \in DOMAIN msgs /\ msgs[m].state # "deleted"
  /\ LET th == IF msgs[m].thread = 0 THEN m ELSE msgs[m].thread
     IN msgs' = Append(MarkRead(msgs, {m}), Row(msgs[m].to, msgs[m].from, "status", th))
  /\ Notify({msgs[m].from})
  /\ UNCHANGED <<call, cursor, idle, up, enter>>

ResetMessages ==
  /\ Calm
  /\ msgs' = [m \in DOMAIN msgs |-> [msgs[m] EXCEPT !.state = "deleted", !.stamped = FALSE,
                                                    !.text = "none"]]
  /\ UNCHANGED <<call, woken, cursor, idle, up, enter>>

-----------------------------------------------------------------------------
(* check and ask.                                                           *)

First(S) == {m \in S : \A n \in S : m <= n}

Finds(c) ==
  CASE c.op = "check" -> Unread(msgs, c.by, c.filter)
    [] c.op = "ask"   -> First(ThreadFor(msgs, c.thread, c.by))

\* Mutant: a check notes what it returns and does not mark it read.
ReturnsUnmarked(c) ==
  msgs' = [m \in DOMAIN msgs |-> [Take(msgs, Finds(c), c)[m] EXCEPT !.state = msgs[m].state]]

\* What the call finds it returns, and marks read.
Returns(c) == msgs' = Take(msgs, Finds(c), c)

Free(k) == call[k] = NoCall /\ \A l \in 1 .. k - 1 : call[l] # NoCall

\* The first look, and with --wait a waiter if it finds nothing.
Check(k, h, F) ==
  /\ Calm /\ Free(k)
  /\ LET c == [op |-> "check", by |-> h, filter |-> F, thread |-> 0]
     IN \/ Finds(c) # {} /\ Returns(c) /\ UNCHANGED call
        \/ Finds(c) = {} /\ call' = [call EXCEPT ![k] = c] /\ UNCHANGED msgs
  /\ UNCHANGED <<woken, cursor, idle, up, enter>>

\* ask sends its question; its own waiter is registered after that.
Ask(k, h, t) ==
  /\ Calm /\ Room(1) /\ Free(k)
  /\ DeliverTo({t}, Append(msgs, Row(h, t, "decision_gate", 0)))
  /\ Notify({t})
  /\ call' = [call EXCEPT ![k] = [op |-> "ask", by |-> h, filter |-> {}, thread |-> Len(msgs) + 1]]
  /\ UNCHANGED <<cursor, idle, up>>

Ends(k) == call' = [call EXCEPT ![k] = NoCall]

\* Mutant: the waiter that is resolved is not removed.
ResumeKeepsWaiter(k) ==
  /\ k \in woken /\ UNCHANGED woken
  /\ \/ (Finds(call[k]) # {} \/ call[k].op # "ask") /\ Returns(call[k]) /\ Ends(k)
     \/ Finds(call[k]) = {} /\ call[k].op = "ask" /\ UNCHANGED <<msgs, call>>
  /\ UNCHANGED <<cursor, idle, up, enter>>

\* A woken check returns with what there is, if only nothing; a woken ask goes
\* on waiting until there is a reply in its thread.
Resume(k) ==
  /\ k \in woken
  /\ woken' = woken \ {k}
  /\ \/ (Finds(call[k]) # {} \/ call[k].op # "ask") /\ Returns(call[k]) /\ Ends(k)
     \/ Finds(call[k]) = {} /\ call[k].op = "ask" /\ UNCHANGED <<msgs, call>>
  /\ UNCHANGED <<cursor, idle, up, enter>>

\* Mutant: an ask whose time is over waits on for its reply.
TimesOutOnReply(k) ==
  /\ Calm /\ call[k] # NoCall
  /\ Finds(call[k]) # {} \/ call[k].op # "ask"
  /\ Returns(call[k]) /\ Ends(k)
  /\ UNCHANGED <<woken, cursor, idle, up, enter>>

\* The waiter's timer, which for ask is the deadline.
TimesOut(k) ==
  /\ Calm /\ call[k] # NoCall
  /\ Returns(call[k]) /\ Ends(k)
  /\ UNCHANGED <<woken, cursor, idle, up, enter>>

\* The caller's socket closes. check returns nothing then, ask looks once more.
Abort(k) ==
  /\ Calm /\ call[k] # NoCall
  /\ \/ call[k].op = "ask" /\ Returns(call[k])
     \/ call[k].op # "ask" /\ UNCHANGED msgs
  /\ Ends(k)
  /\ UNCHANGED <<woken, cursor, idle, up, enter>>

-----------------------------------------------------------------------------
(* The terminals.                                                           *)

\* Mutant: nothing is pushed when an agent turns idle.
BecomesIdleSilently(h) ==
  /\ Calm /\ h \in up \ idle
  /\ idle' = idle \cup {h}
  /\ UNCHANGED <<msgs, call, woken, cursor, up, enter>>

\* An OSC title says that the agent is idle, from whatever status it had.
BecomesIdle(h) ==
  /\ Calm /\ h \in up \ idle
  /\ idle' = idle \cup {h}
  /\ \/ /\ CanPush(msgs, h)
        /\ \E takes \in BOOLEAN : /\ msgs' = Push(msgs, h, takes).table
                                  /\ enter' = enter \o Push(msgs, h, takes).timers
        /\ Len(enter') <= MaxEnter
     \/ ~CanPush(msgs, h) /\ UNCHANGED <<msgs, enter>>
  /\ UNCHANGED <<call, woken, cursor, up>>

\* An OSC title says otherwise.
BecomesBusy(h) ==
  /\ Calm /\ h \in up \cap idle
  /\ idle' = idle \ {h}
  /\ UNCHANGED <<msgs, call, woken, cursor, up, enter>>

\* The timer set with the text: the messages it stamps are those of the text,
\* whatever has become of them.
Enter(takes) ==
  /\ Calm /\ enter # <<>>
  /\ LET e == Head(enter)
     IN \/ takes /\ e.to \in up /\ msgs' = Stamp(Entered(msgs, e.to), e.ids)
        \/ (~takes \/ e.to \notin up) /\ UNCHANGED msgs
  /\ enter' = Tail(enter)
  /\ UNCHANGED <<call, woken, cursor, idle, up>>

\* A terminal exits. If its agent had a dispatch of a running coordinator, c
\* gets an escalation: a row, that is, and neither a push nor a notification.
Exits(h) ==
  /\ Calm /\ h \in up
  /\ up' = up \ {h}
  /\ \/ UNCHANGED msgs
     \/ Room(1) /\ \E c \in Handle : msgs' = Append(msgs, Row(h, c, "exit", 0))
  /\ UNCHANGED <<call, woken, cursor, idle, enter>>

-----------------------------------------------------------------------------

Next == \/ \E f \in Sender, S \in SUBSET Handle, th \in 0 .. MaxMsg : Send(f, S, "status", th)
        \/ \E m \in 1 .. MaxMsg : Reply(m)
        \/ ResetMessages
        \/ \E k \in Call : \/ \E h \in Handle, F \in Filters : Check(k, h, F)
                           \/ \E h, t \in Handle : Ask(k, h, t)
                           \/ Resume(k) \/ TimesOut(k) \/ Abort(k)
        \/ \E h \in Terminal : BecomesIdle(h) \/ BecomesBusy(h) \/ Exits(h)
        \/ \E takes \in BOOLEAN : Enter(takes)

Spec == Init /\ [][Next]_vars

\* Promises that are resolved go on and timers fire. For the push: an agent
\* whose terminal lives turns idle again and again, and again and again its
\* terminal takes what is written to it.
Fairness ==
  /\ WF_vars(\E k \in Call : Resume(k))
  /\ \A k \in Call : WF_vars(TimesOut(k))
  /\ WF_vars(\E takes \in BOOLEAN : Enter(takes))
  /\ SF_vars(Enter(TRUE))
  /\ \A h \in Terminal :
       /\ WF_vars(BecomesBusy(h))
       /\ SF_vars(BecomesIdle(h) /\ <<msgs, enter>>' # <<msgs, enter>>)

FairSpec == Spec /\ Fairness

-----------------------------------------------------------------------------
(* Properties.                                                              *)

\* Every variable keeps its type.
TypeOK == /\ msgs \in Seq(MsgRow)
          /\ call \in [Call -> CallRec]
          /\ woken \subseteq {k \in Call : call[k] # NoCall}
          /\ cursor \subseteq Terminal /\ idle \subseteq Terminal /\ up \subseteq Terminal
          /\ \A j \in DOMAIN enter : enter[j].ids \subseteq DOMAIN msgs

\* delivered_at is set only when the agent has had the message: its text was
\* typed and Enter was pressed after it; a Cursor agent has it in the prompt.
\* Not when the terminal died in between.
StampedWasEntered ==
  \A m \in DOMAIN msgs :
    msgs[m].stamped => msgs[m].text = IF msgs[m].to \in cursor THEN "typed" ELSE "entered"

\* Readers of one handle share its messages: two calls of check never return
\* the same message, whoever waits and whoever is woken with them.
ReadOnce == \A m \in DOMAIN msgs : msgs[m].taken <= 1

\* Nobody sleeps beside what he waits for: when a message arrives all who wait
\* for it wake up. The escalation of an exit is the exception: it wakes nobody.
NoLostWakeup ==
  \A k \in Call \ woken :
    call[k] # NoCall => \A m \in Finds(call[k]) : msgs[m].type = "exit"

\* ask returns a message to the asker that answers its own question, and not
\* another one that came in while it waited.
AskGetsItsAnswer ==
  \A m \in DOMAIN msgs :
    LET q == msgs[m].answers
    IN q # 0 => msgs[m].thread = q /\ msgs[m].to = msgs[q].from

\* A call that waits ends: a distraction does not make an ask wait for ever.
WaitEnds == \A k \in Call : call[k] # NoCall ~> call[k] = NoCall

Pending(m) == /\ m \in DOMAIN msgs /\ msgs[m].state = "unread" /\ ~msgs[m].stamped
              /\ msgs[m].to \in up

\* No message is forgotten: it is pushed or read unless its terminal goes away.
Delivered == \A m \in 1 .. MaxMsg : Pending(m) ~> ~Pending(m)

=============================================================================
