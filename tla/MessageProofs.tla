---------------------------- MODULE MessageProofs -----------------------------
(***************************************************************************)
(* Theorems about Messages for any finite set of handles, any terminals,   *)
(* senders and filters, and any number of messages, calls and timers. Rows *)
(* come first: RowStep says what a step may make of one. Then tables, what *)
(* each write does to them, the timers and calls that refer to rows, and   *)
(* one lemma per action.                                                   *)
(***************************************************************************)
EXTENDS Messages, FiniteSetTheorems, SequenceTheorems, WellFoundedInduction, TLAPS

Shown == {"typed", "entered"}

-----------------------------------------------------------------------------
(* Rows.                                                                    *)

StampOK(r) == r.stamped => r.text = IF r.to \in cursor THEN "typed" ELSE "entered"

TakenOK(r) == r.taken \in {0, 1} /\ (r.taken = 1 => r.state # "unread")

\* What a step may make of a row, whatever the step is.
RowStep(r, n) ==
  /\ n \in MsgRow
  /\ n.from = r.from /\ n.to = r.to /\ n.type = r.type /\ n.thread = r.thread
  /\ r.state # "unread" => n.state # "unread"
  /\ r.state = "deleted" => n.state = "deleted"
  /\ \/ n.taken = r.taken
     \/ r.state = "unread" /\ n.state # "unread" /\ n.taken = r.taken + 1
  /\ StampOK(n)
  /\ r.stamped => n.stamped \/ n.state = "deleted"
  /\ r.text \in Shown => n.text \in Shown \/ n.state = "deleted"
  /\ n.text = "typed" => r.text = "typed" \/ (r.state = "unread" /\ ~r.stamped)

LEMMA RowSame ==
  ASSUME NEW r \in MsgRow, StampOK(r)
  PROVE  RowStep(r, r)
BY DEF RowStep

LEMMA RowStepTwice ==
  ASSUME NEW r, NEW a, NEW n, RowStep(r, a), RowStep(a, n)
  PROVE  RowStep(r, n)
BY DEF RowStep

LEMMA RowStepTaken ==
  ASSUME NEW r, NEW n, RowStep(r, n), TakenOK(r)
  PROVE  TakenOK(n)
BY DEF RowStep, TakenOK

LEMMA ReadRow ==
  ASSUME NEW r \in MsgRow, StampOK(r), r.state # "deleted",
         NEW n, n = [r EXCEPT !.state = "read"]
  PROVE  RowStep(r, n) /\ n.answers = r.answers
BY DEF RowStep, MsgRow, StampOK, Shown

LEMMA TypedRow ==
  ASSUME NEW r \in MsgRow, StampOK(r), r.state = "unread", ~r.stamped,
         NEW n, n = [r EXCEPT !.text = "typed"]
  PROVE  RowStep(r, n) /\ n.answers = r.answers /\ n.text = "typed" /\ n.state = "unread"
BY DEF RowStep, MsgRow, StampOK, Shown

LEMMA EnteredRow ==
  ASSUME NEW r \in MsgRow, StampOK(r), r.to \notin cursor, r.text = "typed",
         ~r.stamped, NEW n, n = [r EXCEPT !.text = "entered"]
  PROVE  RowStep(r, n) /\ n.answers = r.answers /\ n.text = "entered" /\ n.state = r.state
BY DEF RowStep, MsgRow, StampOK, Shown

LEMMA StampedRow ==
  ASSUME NEW r \in MsgRow, r.state # "deleted",
         r.text = IF r.to \in cursor THEN "typed" ELSE "entered",
         NEW n, n = [r EXCEPT !.stamped = TRUE]
  PROVE  RowStep(r, n) /\ n.answers = r.answers /\ n.text = r.text
BY DEF RowStep, MsgRow, StampOK, Shown

LEMMA DeletedRow ==
  ASSUME NEW r \in MsgRow,
         NEW n, n = [r EXCEPT !.state = "deleted", !.stamped = FALSE, !.text = "none"]
  PROVE  RowStep(r, n) /\ n.answers = r.answers
BY DEF RowStep, MsgRow, StampOK, Shown

LEMMA NewRow ==
  ASSUME NEW f \in Party, NEW t \in Party, NEW ty \in Types, NEW th \in Nat
  PROVE  /\ Row(f, t, ty, th) \in MsgRow /\ StampOK(Row(f, t, ty, th))
         /\ TakenOK(Row(f, t, ty, th)) /\ Row(f, t, ty, th).answers = 0
         /\ Row(f, t, ty, th).from = f /\ Row(f, t, ty, th).to = t
BY DEF Row, MsgRow, StampOK, TakenOK

-----------------------------------------------------------------------------
(* Tables.                                                                  *)

\* The question that a row was returned for as an answer.
AnswersOK(M, r) ==
  r.answers # 0 => /\ r.answers \in 1 .. Len(M)
                   /\ r.thread = r.answers /\ r.to = M[r.answers].from

Table(M) ==
  /\ M \in Seq(MsgRow)
  /\ \A m \in 1 .. Len(M) : StampOK(M[m]) /\ TakenOK(M[m]) /\ AnswersOK(M, M[m])

Evolves(M, N) ==
  /\ Len(M) <= Len(N)
  /\ \A m \in 1 .. Len(M) : RowStep(M[m], N[m])

LEMMA TableRow ==
  ASSUME NEW M, Table(M), NEW m \in 1 .. Len(M)
  PROVE  M[m] \in MsgRow /\ StampOK(M[m]) /\ TakenOK(M[m]) /\ AnswersOK(M, M[m])
BY DEF Table

LEMMA TableLen ==
  ASSUME NEW M, Table(M)
  PROVE  Len(M) \in Nat /\ DOMAIN M = 1 .. Len(M)
BY DEF Table

LEMMA Stays == ASSUME NEW M, Table(M) PROVE Evolves(M, M)
<1>1. \A m \in 1 .. Len(M) : RowStep(M[m], M[m])
  BY TableRow, RowSame
<1> QED
  BY <1>1, TableLen DEF Evolves

LEMMA EvolvesTwice ==
  ASSUME NEW M, NEW A, NEW N, Table(M), Table(A), Table(N), Evolves(M, A), Evolves(A, N)
  PROVE  Evolves(M, N)
<1>1. Len(M) \in Nat /\ Len(A) \in Nat /\ Len(N) \in Nat
  BY TableLen
<1>2. Len(M) <= Len(N)
  BY <1>1 DEF Evolves
<1>3. ASSUME NEW m \in 1 .. Len(M)
      PROVE  RowStep(M[m], N[m])
  <2>1. m \in 1 .. Len(A)
    BY <1>1 DEF Evolves
  <2>2. RowStep(M[m], A[m]) /\ RowStep(A[m], N[m])
    BY <2>1 DEF Evolves
  <2> QED
    BY <2>2, RowStepTwice
<1> QED
  BY <1>2, <1>3 DEF Evolves

\* Every row takes a step, and what it answers is right.
LEMMA RowWise ==
  ASSUME NEW M, Table(M), NEW N, N = [m \in DOMAIN M |-> N[m]],
         \A m \in 1 .. Len(M) :
           /\ RowStep(M[m], N[m])
           /\ N[m].answers = M[m].answers \/ AnswersOK(M, N[m])
  PROVE  Table(N) /\ Evolves(M, N) /\ Len(N) = Len(M)
<1>1. Len(M) \in Nat /\ DOMAIN M = 1 .. Len(M)
  BY TableLen
<1>2. \A m \in 1 .. Len(M) : N[m] \in MsgRow
  BY DEF RowStep
<1>3. N \in Seq(MsgRow) /\ Len(N) = Len(M)
  <2>1. N \in [1 .. Len(M) -> MsgRow]
    BY <1>1, <1>2
  <2> QED
    BY <1>1, <2>1
<1>4. ASSUME NEW m \in 1 .. Len(M)
      PROVE  StampOK(N[m]) /\ TakenOK(N[m]) /\ AnswersOK(N, N[m])
  <2>1. RowStep(M[m], N[m]) /\ TakenOK(M[m]) /\ AnswersOK(M, M[m])
    BY TableRow
  <2>2. StampOK(N[m]) /\ TakenOK(N[m])
    BY <2>1, RowStepTaken DEF RowStep
  <2>3. AnswersOK(M, N[m])
    BY <2>1 DEF AnswersOK, RowStep
  <2>4. \A q \in 1 .. Len(M) : N[q].from = M[q].from
    BY DEF RowStep
  <2> QED
    BY <1>3, <2>2, <2>3, <2>4 DEF AnswersOK
<1>5. Table(N)
  BY <1>3, <1>4 DEF Table
<1>6. Evolves(M, N)
  BY <1>1, <1>3 DEF Evolves
<1> QED
  BY <1>3, <1>5, <1>6

\* Rows that nobody has seen yet are added at the end.
LEMMA Added ==
  ASSUME NEW M, Table(M), NEW q \in Seq(MsgRow),
         \A j \in 1 .. Len(q) : StampOK(q[j]) /\ TakenOK(q[j]) /\ q[j].answers = 0
  PROVE  Table(M \o q) /\ Evolves(M, M \o q) /\ Len(M \o q) = Len(M) + Len(q)
<1> DEFINE N == M \o q
<1>1. M \in Seq(MsgRow) /\ Len(M) \in Nat /\ Len(q) \in Nat
  BY DEF Table
<1>2. /\ N \in Seq(MsgRow) /\ Len(N) = Len(M) + Len(q)
      /\ \A i \in 1 .. Len(M) + Len(q) : N[i] = IF i <= Len(M) THEN M[i] ELSE q[i - Len(M)]
  BY <1>1, ConcatProperties
<1> HIDE DEF N
<1>3. \A i \in 1 .. Len(M) : i \in 1 .. Len(N) /\ N[i] = M[i]
  BY <1>1, <1>2
<1>4. ASSUME NEW i \in 1 .. Len(N)
      PROVE  StampOK(N[i]) /\ TakenOK(N[i]) /\ AnswersOK(N, N[i])
  <2>1. CASE i <= Len(M)
    <3>1. i \in 1 .. Len(M) /\ N[i] = M[i]
      BY <1>1, <1>2, <2>1
    <3>2. StampOK(M[i]) /\ TakenOK(M[i]) /\ AnswersOK(M, M[i])
      BY <3>1, TableRow
    <3> QED
      BY <1>3, <3>1, <3>2 DEF AnswersOK
  <2>2. CASE ~(i <= Len(M))
    <3>1. i - Len(M) \in 1 .. Len(q) /\ N[i] = q[i - Len(M)]
      BY <1>1, <1>2, <2>2
    <3> QED
      BY <3>1 DEF AnswersOK
  <2> QED
    BY <2>1, <2>2
<1>5. Table(N)
  BY <1>2, <1>4 DEF Table
<1>6. \A m \in 1 .. Len(M) : RowStep(M[m], N[m])
  BY <1>3, TableRow, RowSame
<1>7. Evolves(M, N)
  BY <1>1, <1>2, <1>6 DEF Evolves
<1> QED
  BY <1>2, <1>5, <1>7 DEF N

-----------------------------------------------------------------------------
(* The writes of the table.                                                 *)

LEMMA MarkReadTable ==
  ASSUME NEW M, Table(M), NEW k \in 1 .. Len(M), M[k].state # "deleted"
  PROVE  LET N == MarkRead(M, {k}) IN Table(N) /\ Evolves(M, N) /\ Len(N) = Len(M)
<1> DEFINE N == MarkRead(M, {k})
<1>1. ASSUME NEW m \in 1 .. Len(M)
      PROVE  RowStep(M[m], N[m]) /\ N[m].answers = M[m].answers
  <2>1. M[m] \in MsgRow /\ StampOK(M[m]) /\ DOMAIN M = 1 .. Len(M)
    BY TableRow, TableLen
  <2>2. CASE m = k
    <3>1. N[m] = [M[m] EXCEPT !.state = "read"]
      BY <2>1, <2>2 DEF MarkRead
    <3> QED
      BY <2>1, <2>2, <3>1, ReadRow
  <2>3. CASE m # k
    BY <2>1, <2>3, RowSame DEF MarkRead
  <2> QED
    BY <2>2, <2>3
<1>2. N = [m \in DOMAIN M |-> N[m]]
  BY DEF MarkRead
<1> HIDE DEF N
<1>3. Table(N) /\ Evolves(M, N) /\ Len(N) = Len(M)
  BY <1>1, <1>2, RowWise
<1> QED
  BY <1>3 DEF N

ValidCall(c, M) ==
  /\ c \in CallRec /\ c.op \in {"check", "ask"}
  /\ c.op = "ask" => c.thread \in 1 .. Len(M) /\ M[c.thread].from = c.by

LEMMA TakeTable ==
  ASSUME Table(msgs), NEW c, ValidCall(c, msgs)
  PROVE  LET N == Take(msgs, Finds(c), c)
         IN Table(N) /\ Evolves(msgs, N) /\ Len(N) = Len(msgs)
<1> DEFINE S == Finds(c)
           N == Take(msgs, S, c)
<1>1. ASSUME NEW m \in 1 .. Len(msgs)
      PROVE  /\ RowStep(msgs[m], N[m])
             /\ N[m].answers = msgs[m].answers \/ AnswersOK(msgs, N[m])
  <2> DEFINE r == msgs[m]
  <2>1. r \in MsgRow /\ StampOK(r) /\ DOMAIN msgs = 1 .. Len(msgs)
    BY TableRow, TableLen
  <2>2. r.taken \in Nat /\ r.answers \in Nat
    BY <2>1 DEF MsgRow
  <2>3. CASE m \notin S
    <3>1. N[m] = r
      BY <2>1, <2>3 DEF Take
    <3> QED
      BY <2>1, <3>1, RowSame
  <2>4. CASE m \in S /\ c.op = "check"
    <3>1. N[m] = [r EXCEPT !.state = "read", !.taken = r.taken + 1, !.answers = r.answers]
      BY <2>1, <2>4 DEF Take
    <3>2. r.state = "unread" /\ r.taken + 1 \in Nat
      BY <2>2, <2>4 DEF Finds, Unread
    <3> HIDE DEF N, r
    <3>3. RowStep(r, N[m]) /\ N[m].answers = r.answers
      BY <2>1, <2>2, <3>1, <3>2 DEF RowStep, MsgRow, StampOK, Shown
    <3> QED
      BY <3>3 DEF r
  <2>5. CASE m \in S /\ c.op = "ask"
    <3>1. N[m] = [r EXCEPT !.state = "read", !.taken = r.taken, !.answers = c.thread]
      BY <2>1, <2>5 DEF Take
    <3>2. r.state # "deleted" /\ r.thread = c.thread /\ r.to = c.by
      BY <2>5 DEF Finds, First, ThreadFor, For
    <3>3. c.thread \in Nat /\ c.thread \in 1 .. Len(msgs) /\ msgs[c.thread].from = c.by
      BY <2>5 DEF ValidCall, CallRec
    <3> HIDE DEF N, r
    <3>4. /\ RowStep(r, N[m]) /\ N[m].answers = c.thread
          /\ N[m].thread = r.thread /\ N[m].to = r.to
      BY <2>1, <2>2, <3>1, <3>2, <3>3 DEF RowStep, MsgRow, StampOK, Shown
    <3>5. AnswersOK(msgs, N[m])
      BY <3>2, <3>3, <3>4 DEF AnswersOK
    <3> QED
      BY <3>4, <3>5 DEF r
  <2> QED
    BY <2>3, <2>4, <2>5 DEF ValidCall
<1>2. N = [m \in DOMAIN msgs |-> N[m]]
  BY DEF Take
<1> HIDE DEF N
<1>3. Table(N) /\ Evolves(msgs, N) /\ Len(N) = Len(msgs)
  BY <1>1, <1>2, RowWise
<1> QED
  BY <1>3 DEF N

LEMMA ResetTable ==
  ASSUME Table(msgs)
  PROVE  LET N == [m \in DOMAIN msgs |->
                     [msgs[m] EXCEPT !.state = "deleted", !.stamped = FALSE, !.text = "none"]]
         IN Table(N) /\ Evolves(msgs, N) /\ Len(N) = Len(msgs)
<1> DEFINE N == [m \in DOMAIN msgs |->
                   [msgs[m] EXCEPT !.state = "deleted", !.stamped = FALSE, !.text = "none"]]
<1>1. ASSUME NEW m \in 1 .. Len(msgs)
      PROVE  RowStep(msgs[m], N[m]) /\ N[m].answers = msgs[m].answers
  <2>1. /\ msgs[m] \in MsgRow /\ DOMAIN msgs = 1 .. Len(msgs)
        /\ N[m] = [msgs[m] EXCEPT !.state = "deleted", !.stamped = FALSE, !.text = "none"]
    BY TableRow, TableLen
  <2> QED
    BY <2>1, DeletedRow
<1>2. N = [m \in DOMAIN msgs |-> N[m]]
  OBVIOUS
<1> HIDE DEF N
<1>3. Table(N) /\ Evolves(msgs, N) /\ Len(N) = Len(msgs)
  BY <1>1, <1>2, RowWise
<1> QED
  BY <1>3 DEF N

\* What is pushed is unread and not stamped, and a Cursor agent has it at once.
LEMMA PushRow ==
  ASSUME NEW M, Table(M), NEW h, NEW takes \in BOOLEAN, NEW m \in 1 .. Len(M),
         NEW n, n = Push(M, h, takes).table[m]
  PROVE  /\ RowStep(M[m], n) /\ n.answers = M[m].answers
         /\ takes /\ m \in Unpushed(M, h) => n.text = "typed"
<1> DEFINE U == Unpushed(M, h)
           r == M[m]
           T == Typed(M, U)
<1>1. r \in MsgRow /\ StampOK(r) /\ DOMAIN M = 1 .. Len(M)
  BY TableRow, TableLen
<1>2. m \in U => r.state = "unread" /\ ~r.stamped /\ r.to = h
  BY DEF Unpushed, Unread, For
<1>3. DOMAIN T = 1 .. Len(M) /\ T[m] = IF m \in U THEN [r EXCEPT !.text = "typed"] ELSE r
  BY <1>1 DEF Typed
<1>4. n = IF ~takes THEN r ELSE IF h \in cursor THEN Stamp(T, U)[m] ELSE T[m]
  BY DEF Push
<1> DEFINE t == T[m]
<1>5. h \in cursor /\ takes
        => n = IF m \in U /\ t.state # "deleted" THEN [t EXCEPT !.stamped = TRUE] ELSE t
  BY <1>3, <1>4 DEF Stamp
<1>6. /\ RowStep(r, t) /\ t.answers = r.answers
      /\ m \in U => t.text = "typed" /\ t.state = "unread"
  <2>1. CASE m \in U
    <3>1. t = [r EXCEPT !.text = "typed"]
      BY <1>3, <2>1
    <3> HIDE DEF t, r, U
    <3> QED
      BY <1>1, <1>2, <2>1, <3>1, TypedRow
  <2>2. CASE m \notin U
    <3>1. t = r
      BY <1>3, <2>2
    <3> HIDE DEF t, r, U
    <3> QED
      BY <1>1, <2>2, <3>1, RowSame
  <2> QED
    BY <2>1, <2>2
<1> HIDE DEF t, r, T, U
<1>7. /\ RowStep(r, n) /\ n.answers = r.answers
      /\ takes /\ m \in U => n.text = "typed"
  <2>1. CASE ~takes
    BY <1>1, <1>4, <2>1, RowSame
  <2>2. CASE takes /\ h \notin cursor
    <3>1. n = t
      BY <1>4, <2>2 DEF t
    <3> QED
      BY <1>6, <3>1
  <2>3. CASE takes /\ h \in cursor /\ m \in U
    <3>1. t \in MsgRow /\ t.to = h /\ t.text = "typed" /\ t.state # "deleted"
      BY <1>2, <1>6, <2>3 DEF RowStep
    <3>2. n = [t EXCEPT !.stamped = TRUE]
      BY <1>5, <2>3, <3>1
    <3>3. RowStep(t, n) /\ n.answers = t.answers /\ n.text = t.text
      BY <2>3, <3>1, <3>2, StampedRow
    <3> QED
      BY <1>6, <3>1, <3>3, RowStepTwice
  <2>4. CASE takes /\ h \in cursor /\ m \notin U
    <3>1. n = t
      BY <1>5, <2>4
    <3> QED
      BY <1>6, <2>4, <3>1
  <2> QED
    BY <2>1, <2>2, <2>3, <2>4
<1> QED
  BY <1>7 DEF r, U

-----------------------------------------------------------------------------
(* Timers and calls.                                                        *)

Timer == [to : Terminal, ids : SUBSET Nat]

\* What a timer will stamp has been typed, unless a reset removed it.
TimerOK(e, M) ==
  /\ e.to \notin cursor
  /\ \A m \in e.ids : /\ m \in 1 .. Len(M) /\ M[m].to = e.to
                      /\ M[m].state = "deleted" \/ M[m].text \in Shown

TimersOK(E, M) == E \in Seq(Timer) /\ \A j \in 1 .. Len(E) : TimerOK(E[j], M)

CallsOK(C, M) ==
  C \in [Call -> CallRec] /\ \A k \in Call : C[k] = NoCall \/ ValidCall(C[k], M)

LEMMA TimersStay ==
  ASSUME NEW M, NEW N, Table(M), Table(N), Evolves(M, N), NEW E, TimersOK(E, M)
  PROVE  TimersOK(E, N)
<1>1. Len(M) \in Nat /\ Len(N) \in Nat /\ Len(M) <= Len(N)
  BY TableLen DEF Evolves
<1>2. ASSUME NEW j \in 1 .. Len(E), NEW m \in E[j].ids
      PROVE  /\ m \in 1 .. Len(N) /\ N[m].to = E[j].to
             /\ N[m].state = "deleted" \/ N[m].text \in Shown
  <2>1. /\ m \in 1 .. Len(M) /\ M[m].to = E[j].to
        /\ M[m].state = "deleted" \/ M[m].text \in Shown
    BY DEF TimersOK, TimerOK
  <2>2. RowStep(M[m], N[m])
    BY <2>1 DEF Evolves
  <2> QED
    BY <1>1, <2>1, <2>2 DEF RowStep
<1> QED
  BY <1>2 DEF TimersOK, TimerOK

LEMMA TimersAdded ==
  ASSUME NEW M, NEW E, TimersOK(E, M), NEW q \in Seq(Timer),
         \A j \in 1 .. Len(q) : TimerOK(q[j], M)
  PROVE  TimersOK(E \o q, M)
<1> DEFINE X == E \o q
<1>1. E \in Seq(Timer) /\ Len(E) \in Nat /\ Len(q) \in Nat
  BY DEF TimersOK
<1>2. /\ X \in Seq(Timer) /\ Len(X) = Len(E) + Len(q)
      /\ \A i \in 1 .. Len(E) + Len(q) : X[i] = IF i <= Len(E) THEN E[i] ELSE q[i - Len(E)]
  BY <1>1, ConcatProperties
<1> HIDE DEF X
<1>3. ASSUME NEW j \in 1 .. Len(X)
      PROVE  TimerOK(X[j], M)
  <2>1. CASE j <= Len(E)
    <3>1. j \in 1 .. Len(E) /\ X[j] = E[j]
      BY <1>1, <1>2, <2>1
    <3> QED
      BY <3>1 DEF TimersOK
  <2>2. CASE ~(j <= Len(E))
    <3>1. j - Len(E) \in 1 .. Len(q) /\ X[j] = q[j - Len(E)]
      BY <1>1, <1>2, <2>2
    <3> QED
      BY <3>1
  <2> QED
    BY <2>1, <2>2
<1>4. TimersOK(X, M)
  BY <1>2, <1>3 DEF TimersOK
<1> QED
  BY <1>4 DEF X

LEMMA CallsStay ==
  ASSUME NEW M, NEW N, Table(M), Table(N), Evolves(M, N), NEW C, CallsOK(C, M)
  PROVE  CallsOK(C, N)
<1>1. Len(M) \in Nat /\ Len(N) \in Nat /\ Len(M) <= Len(N)
  BY TableLen DEF Evolves
<1>2. ASSUME NEW k \in Call, ValidCall(C[k], M)
      PROVE  ValidCall(C[k], N)
  <2>1. CASE C[k].op = "ask"
    <3>1. C[k].thread \in 1 .. Len(M) /\ M[C[k].thread].from = C[k].by
      BY <1>2, <2>1 DEF ValidCall
    <3>2. RowStep(M[C[k].thread], N[C[k].thread])
      BY <3>1 DEF Evolves
    <3> QED
      BY <1>1, <1>2, <3>1, <3>2 DEF ValidCall, RowStep
  <2>2. CASE C[k].op # "ask"
    BY <1>2, <2>2 DEF ValidCall
  <2> QED
    BY <2>1, <2>2
<1> QED
  BY <1>2 DEF CallsOK

-----------------------------------------------------------------------------
(* New rows and their push.                                                 *)

LEMMA Orders ==
  ASSUME NEW S \in SUBSET Handle, NEW order \in SetToSeqs(S)
  PROVE  order \in Seq(S) /\ DOMAIN order = 1 .. Len(order) /\ Len(order) \in Nat
<1>1. Cardinality(S) \in Nat
  BY MessagesAssumption, FS_Subset, FS_CardinalityType
<1>2. order \in [1 .. Cardinality(S) -> S]
  BY DEF SetToSeqs
<1> QED
  BY <1>1, <1>2

LEMMA SentTable ==
  ASSUME Table(msgs), NEW f \in Party, NEW S \in SUBSET Handle, NEW order \in SetToSeqs(S),
         NEW ty \in Types, NEW th \in Nat
  PROVE  LET M == msgs \o [j \in DOMAIN order |-> Row(f, order[j], ty, th)]
         IN /\ Table(M) /\ Evolves(msgs, M)
            /\ \A m \in 1 .. Len(M) : m > Len(msgs) => M[m].to \in S
<1> DEFINE q == [j \in DOMAIN order |-> Row(f, order[j], ty, th)]
<1>1. order \in Seq(S) /\ DOMAIN order = 1 .. Len(order) /\ Len(order) \in Nat
  BY Orders
<1>2. ASSUME NEW j \in 1 .. Len(order)
      PROVE  /\ q[j] \in MsgRow /\ StampOK(q[j]) /\ TakenOK(q[j])
             /\ q[j].answers = 0 /\ q[j].to \in S
  <2>1. order[j] \in Party /\ order[j] \in S
    BY <1>1 DEF Party
  <2>2. q[j] = Row(f, order[j], ty, th)
    BY <1>1
  <2> QED
    BY <2>1, <2>2, NewRow
<1>3. DOMAIN q = 1 .. Len(order) /\ q = [j \in 1 .. Len(order) |-> q[j]]
  BY <1>1
<1> HIDE DEF q
<1>4. q \in Seq(MsgRow) /\ Len(q) = Len(order)
  <2>1. q \in [1 .. Len(order) -> MsgRow]
    BY <1>2, <1>3
  <2> QED
    BY <1>1, <2>1
<1>5. /\ Table(msgs \o q) /\ Evolves(msgs, msgs \o q)
      /\ Len(msgs \o q) = Len(msgs) + Len(q)
  BY <1>2, <1>4, Added
<1>6. ASSUME NEW m \in 1 .. Len(msgs \o q), m > Len(msgs)
      PROVE  (msgs \o q)[m].to \in S
  <2>1. msgs \in Seq(MsgRow) /\ Len(msgs) \in Nat /\ Len(q) \in Nat
    BY <1>4 DEF Table
  <2>2. m - Len(msgs) \in 1 .. Len(order) /\ (msgs \o q)[m] = q[m - Len(msgs)]
    BY <1>4, <1>5, <1>6, <2>1, ConcatProperties
  <2> QED
    BY <1>2, <2>2
<1> QED
  BY <1>5, <1>6 DEF q

LEMMA AppendedTable ==
  ASSUME NEW M, Table(M), NEW x \in MsgRow, StampOK(x), TakenOK(x), x.answers = 0
  PROVE  LET N == Append(M, x)
         IN Table(N) /\ Evolves(M, N) /\ Len(N) = Len(M) + 1 /\ N[Len(M) + 1] = x
<1> DEFINE q == <<x>>
<1>1. M \in Seq(MsgRow)
  BY DEF Table
<1>2. /\ q \in Seq(MsgRow) /\ Len(q) = 1
      /\ \A j \in 1 .. Len(q) : q[j] = x
  OBVIOUS
<1>3. Append(M, x) = M \o q
  BY <1>1, AppendIsConcat
<1>4. Append(M, x)[Len(M) + 1] = x
  BY <1>1, AppendProperties
<1> HIDE DEF q
<1>5. Table(M \o q) /\ Evolves(M, M \o q) /\ Len(M \o q) = Len(M) + 1
  BY <1>2, Added
<1> QED
  BY <1>3, <1>4, <1>5

LEMMA UnpushedIds ==
  ASSUME NEW M, Table(M), NEW h
  PROVE  /\ Unpushed(M, h) \subseteq 1 .. Len(M) /\ Unpushed(M, h) \subseteq Nat
         /\ \A m \in Unpushed(M, h) : M[m].to = h
BY TableLen DEF Unpushed, Unread, For

LEMMA DeliverTable ==
  ASSUME NEW S, S \subseteq Handle, NEW M, Table(M), TimersOK(enter, M), idle \subseteq Terminal,
         DeliverTo(S, M)
  PROVE  /\ Table(msgs') /\ Evolves(M, msgs') /\ Len(msgs') = Len(M)
         /\ TimersOK(enter', msgs')
<1> DEFINE P == {h \in S \cap idle : CanPush(M, h)}
           due(o) == [j \in DOMAIN o |-> Push(M, o[j], TRUE).timers[1]]
<1>1. PICK takes \in SUBSET P :
        /\ msgs' = [m \in DOMAIN M |->
                      IF M[m].to \in P THEN Push(M, M[m].to, M[m].to \in takes).table[m]
                      ELSE M[m]]
        /\ \E order \in SetToSeqs(takes \ cursor) : enter' = enter \o due(order)
  BY DEF DeliverTo
<1>2. PICK order \in SetToSeqs(takes \ cursor) : enter' = enter \o due(order)
  BY <1>1
<1>3. DOMAIN M = 1 .. Len(M) /\ Len(M) \in Nat
  BY TableLen
<1>4. ASSUME NEW m \in 1 .. Len(M)
      PROVE  /\ RowStep(M[m], msgs'[m]) /\ msgs'[m].answers = M[m].answers
             /\ \A h \in takes : m \in Unpushed(M, h) => msgs'[m].text = "typed"
  <2>1. M[m] \in MsgRow /\ StampOK(M[m])
    BY TableRow
  <2>2. CASE M[m].to \in P
    <3> DEFINE h == M[m].to
               t == h \in takes
    <3>1. msgs'[m] = Push(M, h, t).table[m]
      BY <1>1, <1>3, <2>2
    <3>2. t \in BOOLEAN
      OBVIOUS
    <3>3. \A g \in takes : m \in Unpushed(M, g) => t /\ m \in Unpushed(M, h)
      BY UnpushedIds
    <3> HIDE DEF t, h
    <3>4. /\ RowStep(M[m], msgs'[m]) /\ msgs'[m].answers = M[m].answers
          /\ t /\ m \in Unpushed(M, h) => msgs'[m].text = "typed"
      BY <3>1, <3>2, PushRow
    <3> QED
      BY <3>3, <3>4
  <2>3. CASE M[m].to \notin P
    <3>1. msgs'[m] = M[m]
      BY <1>1, <1>3, <2>3
    <3>2. \A h \in takes : m \notin Unpushed(M, h)
      BY <1>1, <2>3, UnpushedIds
    <3> QED
      BY <2>1, <3>1, <3>2, RowSame
  <2> QED
    BY <2>2, <2>3
<1>5. msgs' = [m \in DOMAIN M |-> msgs'[m]]
  BY <1>1
<1>6. Table(msgs') /\ Evolves(M, msgs') /\ Len(msgs') = Len(M)
  BY <1>4, <1>5, RowWise
<1>7. TimersOK(enter, msgs')
  BY <1>6, TimersStay
<1>8. /\ order \in Seq(takes \ cursor) /\ DOMAIN order = 1 .. Len(order)
      /\ Len(order) \in Nat
  BY <1>2, Orders, takes \ cursor \in SUBSET Handle
<1>9. ASSUME NEW j \in 1 .. Len(order)
      PROVE  due(order)[j] \in Timer /\ TimerOK(due(order)[j], msgs')
  <2> DEFINE h == order[j]
             e == [to |-> h, ids |-> Unpushed(M, h)]
  <2>1. h \in takes /\ h \notin cursor /\ h \in Terminal
    BY <1>8
  <2>2. due(order)[j] = e
    BY <1>8, <2>1 DEF Push
  <2>3. e \in Timer
    BY <2>1, UnpushedIds DEF Timer
  <2>4. \A m \in Unpushed(M, h) : /\ m \in 1 .. Len(msgs') /\ msgs'[m].to = h
                                  /\ msgs'[m].text = "typed"
    BY <1>4, <1>6, <2>1, UnpushedIds DEF RowStep
  <2>5. e.to = h /\ e.ids = Unpushed(M, h)
    OBVIOUS
  <2> HIDE DEF e, due
  <2>6. TimerOK(e, msgs')
    BY <2>1, <2>4, <2>5 DEF TimerOK, Shown
  <2> QED
    BY <2>2, <2>3, <2>6
<1>10. DOMAIN due(order) = 1 .. Len(order)
  BY <1>8
<1> DEFINE q == due(order)
<1>11. q = [j \in 1 .. Len(order) |-> q[j]]
  BY <1>8
<1> HIDE DEF q, due
<1>12. q \in Seq(Timer) /\ Len(q) = Len(order)
  <2>1. q \in [1 .. Len(order) -> Timer]
    BY <1>9, <1>11 DEF q
  <2> QED
    BY <1>8, <2>1
<1>13. \A j \in 1 .. Len(q) : TimerOK(q[j], msgs')
  BY <1>9, <1>12 DEF q
<1>14. TimersOK(enter \o q, msgs')
  BY <1>7, <1>12, <1>13, TimersAdded
<1> QED
  BY <1>2, <1>6, <1>14 DEF q

-----------------------------------------------------------------------------
(* What a call waits for.                                                   *)

\* The messages that the call c looks for; ask returns the first of them.
Seen(M, c, m) ==
  /\ M[m].to = c.by /\ M[m].state # "deleted"
  /\ c.op = "check" => M[m].state = "unread" /\ M[m].type \in c.filter
  /\ c.op = "ask" => M[m].thread = c.thread /\ m > c.thread

Alone(M, c) == \A m \in 1 .. Len(M) : Seen(M, c, m) => M[m].type = "exit"

Asleep(M, C, W) == \A k \in Call \ W : C[k] # NoCall => Alone(M, C[k])

LEMMA Least ==
  ASSUME NEW S \in SUBSET Nat, S # {}
  PROVE  \E m \in S : \A n \in S : m <= n
<1> DEFINE R == {ss \in Nat \X Nat : ss[1] < ss[2]}
<1>1. IsWellFoundedOn(R, Nat)
  BY NatLessThanWellFounded DEF OpToRel
<1>2. \A x, y \in Nat : <<y, x>> \in R <=> y < x
  OBVIOUS
<1> HIDE DEF R
<1>3. PICK m \in S : \A n \in S : <<n, m>> \notin R
  BY <1>1, WFMin
<1>4. \A n \in S : ~(n < m)
  BY <1>2, <1>3
<1> QED
  BY <1>4

LEMMA FindsSeen ==
  ASSUME Table(msgs), NEW c, c.op \in {"check", "ask"}
  PROVE  /\ \A m \in Finds(c) : m \in 1 .. Len(msgs) /\ Seen(msgs, c, m)
         /\ Finds(c) = {} => Alone(msgs, c)
<1>1. DOMAIN msgs = 1 .. Len(msgs) /\ Len(msgs) \in Nat
  BY TableLen
<1>2. CASE c.op = "check"
  <2>1. Finds(c) = Unread(msgs, c.by, c.filter)
    BY <1>2 DEF Finds
  <2>2. \A m : m \in Finds(c) <=> m \in 1 .. Len(msgs) /\ Seen(msgs, c, m)
    BY <1>1, <1>2, <2>1 DEF Unread, For, Seen
  <2> QED
    BY <2>2 DEF Alone
<1>3. CASE c.op = "ask"
  <2> DEFINE S == ThreadFor(msgs, c.thread, c.by)
  <2>1. Finds(c) = First(S)
    BY <1>3 DEF Finds
  <2>2. \A m : m \in S <=> m \in 1 .. Len(msgs) /\ Seen(msgs, c, m)
    BY <1>1, <1>3 DEF ThreadFor, For, Seen
  <2>3. S \in SUBSET Nat
    BY <1>1, <2>2
  <2> HIDE DEF S
  <2>4. Finds(c) \subseteq S
    BY <2>1 DEF First
  <2>5. Finds(c) = {} => S = {}
    BY <2>1, <2>3, Least DEF First
  <2> QED
    BY <2>2, <2>4, <2>5 DEF Alone
<1> QED
  BY <1>2, <1>3

\* Rows only stop being what a call waits for, and the new ones are for others.
LEMMA AloneKept ==
  ASSUME NEW M, NEW N, Table(M), Table(N), Evolves(M, N), NEW c, Alone(M, c),
         \A m \in 1 .. Len(N) : m > Len(M) => N[m].type = "exit" \/ N[m].to # c.by
  PROVE  Alone(N, c)
<1>1. Len(M) \in Nat /\ Len(N) \in Nat
  BY TableLen
<1>2. ASSUME NEW m \in 1 .. Len(N), Seen(N, c, m)
      PROVE  N[m].type = "exit"
  <2>1. CASE m > Len(M)
    BY <1>2, <2>1 DEF Seen
  <2>2. CASE ~(m > Len(M))
    <3>1. m \in 1 .. Len(M)
      BY <1>1, <2>2
    <3>2. RowStep(M[m], N[m])
      BY <3>1 DEF Evolves
    <3>3. Seen(M, c, m)
      BY <1>2, <3>2 DEF Seen, RowStep
    <3> QED
      BY <3>1, <3>2, <3>3 DEF Alone, RowStep
  <2> QED
    BY <2>1, <2>2
<1> QED
  BY <1>2 DEF Alone

-----------------------------------------------------------------------------
(* The invariant, and what every step does.                                 *)

WokenOK(W, C) == W \subseteq {k \in Call : C[k] # NoCall}

Inv ==
  /\ Table(msgs) /\ TimersOK(enter, msgs) /\ CallsOK(call, msgs) /\ WokenOK(woken, call)
  /\ Asleep(msgs, call, woken)
  /\ cursor \subseteq Terminal /\ idle \subseteq Terminal /\ up \subseteq Terminal

Good ==
  /\ Table(msgs') /\ Evolves(msgs, msgs')
  /\ TimersOK(enter', msgs') /\ CallsOK(call', msgs') /\ WokenOK(woken', call')
  /\ Asleep(msgs', call', woken')
  /\ cursor' = cursor /\ idle' \subseteq Terminal /\ up' \subseteq Terminal

\* The table is written and nothing else but what the caller says.
LEMMA Written ==
  ASSUME Inv, Table(msgs'), Evolves(msgs, msgs')
  PROVE  TimersOK(enter, msgs') /\ CallsOK(call, msgs')
BY TimersStay, CallsStay DEF Inv

LEMMA Kept ==
  ASSUME Inv, UNCHANGED msgs
  PROVE  /\ Table(msgs') /\ Evolves(msgs, msgs')
         /\ TimersOK(enter, msgs') /\ CallsOK(call, msgs') /\ Len(msgs') = Len(msgs)
BY Stays DEF Inv

\* A call that waits has been woken, finds nothing, or waited before the step
\* and no new row is for its caller.
LEMMA SleepKept ==
  ASSUME Inv, Table(msgs'), Evolves(msgs, msgs'),
         \A k \in Call \ woken' : call'[k] # NoCall =>
           \/ Alone(msgs', call'[k])
           \/ /\ call'[k] = call[k] /\ k \notin woken
              /\ \A m \in 1 .. Len(msgs') :
                   m > Len(msgs) => msgs'[m].type = "exit" \/ msgs'[m].to # call[k].by
  PROVE  Asleep(msgs', call', woken')
<1>1. ASSUME NEW k \in Call \ woken', call'[k] # NoCall
      PROVE  Alone(msgs', call'[k])
  <2>1. CASE Alone(msgs', call'[k])
    BY <2>1
  <2>2. CASE /\ call'[k] = call[k] /\ k \notin woken
             /\ \A m \in 1 .. Len(msgs') :
                  m > Len(msgs) => msgs'[m].type = "exit" \/ msgs'[m].to # call[k].by
    <3>1. Alone(msgs, call[k])
      BY <1>1, <2>2 DEF Inv, Asleep
    <3>2. Alone(msgs', call[k])
      BY <2>2, <3>1, AloneKept DEF Inv
    <3> QED
      BY <2>2, <3>2
  <2> QED
    BY <1>1, <2>1, <2>2
<1> QED
  BY <1>1 DEF Asleep

LEMMA SleepNothingNew ==
  ASSUME Inv, Table(msgs'), Evolves(msgs, msgs'), Len(msgs') = Len(msgs),
         \A k \in Call \ woken' : call'[k] # NoCall =>
           \/ Alone(msgs', call'[k])
           \/ call'[k] = call[k] /\ k \notin woken
  PROVE  Asleep(msgs', call', woken')
<1>1. \A m \in 1 .. Len(msgs') : ~(m > Len(msgs))
  BY TableLen
<1> QED
  BY <1>1, SleepKept

LEMMA InvTerminal ==
  ASSUME Inv
  PROVE  /\ Terminal \subseteq Handle /\ Handle \subseteq Party /\ Nobody \in Party
         /\ MaxMsg \in Nat /\ Table(msgs) /\ TimersOK(enter, msgs) /\ CallsOK(call, msgs)
         /\ idle \subseteq Terminal /\ up \subseteq Terminal /\ cursor \subseteq Terminal
         /\ \A m \in 1 .. Len(msgs) : /\ msgs[m].from \in Party /\ msgs[m].to \in Party
                                      /\ msgs[m].thread \in Nat
BY MessagesAssumption, TableRow DEF Inv, Party, MsgRow

LEMMA NoCallTyped == NoCall \in CallRec
BY DEF NoCall, CallRec, Party

LEMMA NotifyAll ==
  ASSUME NEW S, Notify(S), NEW k \in Call \ woken', call[k] # NoCall
  PROVE  call[k].by \notin S
BY DEF Notify, Waiters

LEMMA NotifyWoken ==
  ASSUME NEW S, Notify(S), NEW C, \A k \in Call : call[k] # NoCall => C[k] # NoCall
  PROVE  WokenOK(woken', C)
BY DEF Notify, Waiters, WokenOK

\* A slot that is given up, or filled.
LEMMA CallSet ==
  ASSUME NEW M, CallsOK(call, M), NEW k \in Call, NEW c,
         c = NoCall \/ ValidCall(c, M), call' = [call EXCEPT ![k] = c]
  PROVE  /\ CallsOK(call', M)
         /\ \A l \in Call : call'[l] = IF l = k THEN c ELSE call[l]
<1>1. c \in CallRec /\ call \in [Call -> CallRec]
  BY NoCallTyped DEF ValidCall, CallsOK
<1>2. /\ call' \in [Call -> CallRec]
      /\ \A l \in Call : call'[l] = IF l = k THEN c ELSE call[l]
  BY <1>1
<1> QED
  BY <1>2 DEF CallsOK

LEMMA ReturnsGood ==
  ASSUME Inv, NEW c, ValidCall(c, msgs), Returns(c)
  PROVE  Table(msgs') /\ Evolves(msgs, msgs') /\ Len(msgs') = Len(msgs)
BY TakeTable DEF Inv, Returns

-----------------------------------------------------------------------------
(* The actions.                                                             *)

LEMMA SendStep ==
  ASSUME Inv, NEW f \in Sender, NEW S \in SUBSET Handle, NEW th \in 0 .. MaxMsg,
         Send(f, S, "status", th)
  PROVE  Good
<1> USE InvTerminal
<1>1. PICK order \in SetToSeqs(S) :
        DeliverTo(S, msgs \o [j \in DOMAIN order |-> Row(f, order[j], "status", th)])
  BY DEF Send
<1> DEFINE M == msgs \o [j \in DOMAIN order |-> Row(f, order[j], "status", th)]
<1>2. f \in Party /\ "status" \in Types /\ th \in Nat
  BY MessagesAssumption DEF Types
<1>3. /\ Table(M) /\ Evolves(msgs, M)
      /\ \A m \in 1 .. Len(M) : m > Len(msgs) => M[m].to \in S
  BY <1>2, SentTable
<1>4. DeliverTo(S, M)
  BY <1>1
<1> HIDE DEF M
<1>5. TimersOK(enter, M)
  BY <1>3, TimersStay
<1>6. /\ Table(msgs') /\ Evolves(M, msgs') /\ Len(msgs') = Len(M)
      /\ TimersOK(enter', msgs')
  BY <1>3, <1>4, <1>5, DeliverTable
<1>7. Evolves(msgs, msgs')
  BY <1>3, <1>6, EvolvesTwice
<1>8. UNCHANGED <<call, cursor, idle, up>> /\ Notify(S) /\ woken = {}
  BY DEF Send, Calm
<1>9. WokenOK(woken', call')
  BY <1>8, NotifyWoken
<1>10. \A m \in 1 .. Len(msgs') : m > Len(msgs) => msgs'[m].to \in S
  BY <1>3, <1>6 DEF Evolves, RowStep
<1>11. Asleep(msgs', call', woken')
  BY <1>6, <1>7, <1>8, <1>10, NotifyAll, SleepKept
<1> QED
  BY <1>6, <1>7, <1>8, <1>9, <1>11, Written DEF Good

LEMMA ReplyStep ==
  ASSUME Inv, NEW m, Reply(m)
  PROVE  Good
<1> USE InvTerminal
<1>1. m \in 1 .. Len(msgs) /\ msgs[m].state # "deleted"
  BY TableLen DEF Reply
<1> DEFINE th == IF msgs[m].thread = 0 THEN m ELSE msgs[m].thread
           x == Row(msgs[m].to, msgs[m].from, "status", th)
           M == MarkRead(msgs, {m})
<1>2. msgs' = Append(M, x)
  BY DEF Reply
<1>3. x \in MsgRow /\ StampOK(x) /\ TakenOK(x) /\ x.answers = 0 /\ x.to = msgs[m].from
  <2>1. "status" \in Types /\ th \in Nat
    BY <1>1, TableLen DEF Types
  <2> HIDE DEF th
  <2> QED
    BY <1>1, <2>1, NewRow
<1>4. Table(M) /\ Evolves(msgs, M) /\ Len(M) = Len(msgs)
  BY <1>1, MarkReadTable
<1> HIDE DEF x, M
<1>5. /\ Table(msgs') /\ Evolves(M, msgs')
      /\ Len(msgs') = Len(M) + 1 /\ msgs'[Len(M) + 1] = x
  BY <1>2, <1>3, <1>4, AppendedTable
<1>6. Evolves(msgs, msgs')
  BY <1>4, <1>5, EvolvesTwice
<1>7. /\ UNCHANGED <<call, cursor, idle, up, enter>> /\ Notify({msgs[m].from})
      /\ woken = {}
  BY DEF Reply, Calm
<1>8. WokenOK(woken', call')
  BY <1>7, NotifyWoken
<1>9. \A i \in 1 .. Len(msgs') : i > Len(msgs) => msgs'[i].to \in {msgs[m].from}
  BY <1>3, <1>4, <1>5, TableLen
<1>10. Asleep(msgs', call', woken')
  BY <1>5, <1>6, <1>7, <1>9, NotifyAll, SleepKept
<1> QED
  BY <1>5, <1>6, <1>7, <1>8, <1>10, Written DEF Good

LEMMA ResetStep == ASSUME Inv, ResetMessages PROVE Good
<1>1. Table(msgs') /\ Evolves(msgs, msgs') /\ Len(msgs') = Len(msgs)
  BY ResetTable DEF ResetMessages, Inv
<1>2. UNCHANGED <<call, woken, cursor, idle, up, enter>>
  BY DEF ResetMessages
<1>3. Asleep(msgs', call', woken')
  BY <1>1, <1>2, SleepNothingNew
<1> QED
  BY <1>1, <1>2, <1>3, Written DEF Good, Inv

LEMMA CheckStep ==
  ASSUME Inv, NEW k \in Call, NEW h \in Handle, NEW F \in Filters, Check(k, h, F)
  PROVE  Good
<1> USE InvTerminal
<1> DEFINE c == [op |-> "check", by |-> h, filter |-> F, thread |-> 0]
<1>1. ValidCall(c, msgs)
  BY MessagesAssumption DEF ValidCall, CallRec
<1>2. woken = {} /\ UNCHANGED <<woken, cursor, idle, up, enter>>
  BY DEF Check, Calm
<1>3. \/ Returns(c) /\ UNCHANGED call
      \/ Finds(c) = {} /\ call' = [call EXCEPT ![k] = c] /\ UNCHANGED msgs
  BY DEF Check
<1>4. c.op = "check"
  OBVIOUS
<1> HIDE DEF c
<1>5. WokenOK(woken', call')
  BY <1>2 DEF WokenOK
<1>6. CASE Returns(c) /\ UNCHANGED call
  <2>1. Table(msgs') /\ Evolves(msgs, msgs') /\ Len(msgs') = Len(msgs)
    BY <1>1, <1>6, ReturnsGood
  <2>2. Asleep(msgs', call', woken')
    BY <1>2, <1>6, <2>1, SleepNothingNew
  <2> QED
    BY <1>2, <1>5, <1>6, <2>1, <2>2, Written DEF Good
<1>7. CASE Finds(c) = {} /\ call' = [call EXCEPT ![k] = c] /\ UNCHANGED msgs
  <2>1. CallsOK(call', msgs) /\ \A l \in Call : call'[l] = IF l = k THEN c ELSE call[l]
    <3>1. c \in CallRec /\ call \in [Call -> CallRec]
      BY <1>1 DEF ValidCall, CallsOK
    <3>2. /\ call' \in [Call -> CallRec]
          /\ \A l \in Call : call'[l] = IF l = k THEN c ELSE call[l]
      BY <1>7, <3>1
    <3> QED
      BY <1>1, <3>2 DEF CallsOK
  <2>2. CallsOK(call', msgs')
    BY <1>7, <2>1
  <2>3. Alone(msgs, c)
    BY <1>4, <1>7, FindsSeen
  <2>4. Alone(msgs', c)
    BY <1>7, <2>3
  <2>5. Table(msgs') /\ Evolves(msgs, msgs') /\ Len(msgs') = Len(msgs)
    BY <1>7, Kept
  <2>6. Asleep(msgs', call', woken')
    BY <1>2, <2>1, <2>4, <2>5, SleepNothingNew
  <2> QED
    BY <1>2, <1>5, <1>7, <2>2, <2>6, Kept DEF Good
<1> QED
  BY <1>3, <1>6, <1>7

LEMMA AskStep ==
  ASSUME Inv, NEW k \in Call, NEW h \in Handle, NEW t \in Handle, Ask(k, h, t)
  PROVE  Good
<1> USE InvTerminal
<1> DEFINE x == Row(h, t, "decision_gate", 0)
           M == Append(msgs, x)
           c == [op |-> "ask", by |-> h, filter |-> {}, thread |-> Len(msgs) + 1]
<1>1. /\ DeliverTo({t}, M) /\ Notify({t}) /\ call' = [call EXCEPT ![k] = c]
      /\ UNCHANGED <<cursor, idle, up>> /\ woken = {}
  BY DEF Ask, Calm
<1>2. /\ x \in MsgRow /\ StampOK(x) /\ TakenOK(x) /\ x.answers = 0
      /\ x.from = h /\ x.to = t
  <2>1. "decision_gate" \in Types
    BY DEF Types
  <2> QED
    BY <2>1, NewRow
<1> HIDE DEF x
<1>3. /\ Table(M) /\ Evolves(msgs, M) /\ Len(M) = Len(msgs) + 1
      /\ M[Len(msgs) + 1].from = h /\ M[Len(msgs) + 1].to = t
  BY <1>2, AppendedTable
<1> HIDE DEF M
<1>4. /\ c \in CallRec /\ c.op = "ask" /\ c.thread = Len(msgs) + 1 /\ c.by = h
      /\ Len(msgs) \in Nat
  BY TableLen DEF CallRec
<1> HIDE DEF c
<1>5. ValidCall(c, M)
  BY <1>3, <1>4 DEF ValidCall
<1>6. TimersOK(enter, M) /\ CallsOK(call, M)
  BY <1>3, TimersStay, CallsStay
<1>7. /\ Table(msgs') /\ Evolves(M, msgs') /\ Len(msgs') = Len(M)
      /\ TimersOK(enter', msgs')
  BY <1>1, <1>3, <1>6, DeliverTable, {t} \subseteq Handle
<1>8. Evolves(msgs, msgs')
  BY <1>3, <1>7, EvolvesTwice
<1>9. CallsOK(call', M) /\ \A l \in Call : call'[l] = IF l = k THEN c ELSE call[l]
  <2>1. c \in CallRec /\ call \in [Call -> CallRec] /\ call' = [call EXCEPT ![k] = c]
    BY <1>1, <1>4 DEF CallsOK
  <2>2. /\ call' \in [Call -> CallRec]
        /\ \A l \in Call : call'[l] = IF l = k THEN c ELSE call[l]
    BY <2>1
  <2> QED
    BY <1>5, <1>6, <2>2 DEF CallsOK
<1>10. CallsOK(call', msgs')
  BY <1>3, <1>7, <1>9, CallsStay
<1>11. c # NoCall
  BY <1>4 DEF NoCall
<1>12. WokenOK(woken', call')
  BY <1>1, <1>9, <1>11, NotifyWoken
<1>13. \A m \in 1 .. Len(msgs') : m > Len(msgs) => msgs'[m].to \in {t}
  <2>1. \A m \in 1 .. Len(msgs') : m > Len(msgs) => m = Len(msgs) + 1
    BY <1>3, <1>4, <1>7
  <2>2. msgs'[Len(msgs) + 1].to = t
    BY <1>3, <1>4, <1>7 DEF Evolves, RowStep
  <2> QED
    BY <2>1, <2>2
<1>14. Alone(msgs', c)
  <2>1. \A m \in 1 .. Len(msgs') : ~(m > c.thread)
    BY <1>3, <1>4, <1>7
  <2> QED
    BY <1>4, <2>1 DEF Alone, Seen
<1>15. Asleep(msgs', call', woken')
  <2>1. ASSUME NEW l \in Call \ woken', l # k, call[l] # NoCall
        PROVE  \A m \in 1 .. Len(msgs') : m > Len(msgs) => msgs'[m].to # call[l].by
    BY <1>1, <1>13, <2>1, NotifyAll
  <2> QED
    BY <1>1, <1>7, <1>8, <1>9, <1>14, <2>1, SleepKept
<1> QED
  BY <1>1, <1>7, <1>8, <1>10, <1>12, <1>15 DEF Good

LEMMA EndsOne ==
  ASSUME Inv, NEW k \in Call, Ends(k) \/ UNCHANGED call
  PROVE  /\ \A l \in Call : l # k => call'[l] = call[l]
         /\ Ends(k) => call'[k] = NoCall
<1>1. call \in [Call -> CallRec]
  BY DEF Inv, CallsOK
<1> QED
  BY <1>1 DEF Ends

\* A call that waits returns what it finds or nothing, and ends or goes on.
LEMMA WaiterStep ==
  ASSUME Inv, NEW k \in Call, call[k] # NoCall,
         Returns(call[k]) \/ UNCHANGED msgs,
         Ends(k) \/ UNCHANGED call,
         WokenOK(woken', call'), UNCHANGED <<cursor, idle, up, enter>>,
         \A l \in Call \ woken' : call'[l] # NoCall =>
           \/ call'[l] = call[l] /\ l \notin woken
           \/ UNCHANGED msgs /\ Alone(msgs, call'[l])
  PROVE  Good
<1> USE InvTerminal
<1>1. ValidCall(call[k], msgs)
  BY DEF CallsOK
<1>2. Table(msgs') /\ Evolves(msgs, msgs') /\ Len(msgs') = Len(msgs)
  BY <1>1, ReturnsGood, Kept
<1>3. TimersOK(enter, msgs') /\ CallsOK(call, msgs')
  BY <1>2, Written
<1>4. CallsOK(call', msgs')
  BY <1>3, CallSet DEF Ends
<1>5. Asleep(msgs', call', woken')
  <2>1. ASSUME NEW l \in Call, UNCHANGED msgs, Alone(msgs, call'[l])
        PROVE  Alone(msgs', call'[l])
    BY <2>1
  <2> QED
    BY <1>2, <2>1, SleepNothingNew
<1> QED
  BY <1>2, <1>3, <1>4, <1>5 DEF Good

LEMMA ResumeStep ==
  ASSUME Inv, NEW k \in Call, Resume(k)
  PROVE  Good
<1>1. /\ k \in woken /\ woken' = woken \ {k} /\ UNCHANGED <<cursor, idle, up, enter>>
      /\ \/ Returns(call[k]) /\ Ends(k)
         \/ UNCHANGED <<msgs, call>> /\ Finds(call[k]) = {}
  BY DEF Resume
<1>2. call[k] # NoCall
  BY <1>1 DEF Inv, WokenOK
<1>3. /\ \A l \in Call : l # k => call'[l] = call[l]
      /\ \/ call'[k] = NoCall
         \/ UNCHANGED <<msgs, call>> /\ Finds(call[k]) = {}
  <2>1. Ends(k) \/ UNCHANGED call
    BY <1>1
  <2>2. /\ \A l \in Call : l # k => call'[l] = call[l]
        /\ Ends(k) => call'[k] = NoCall
    BY <2>1, EndsOne
  <2>3. CASE Returns(call[k]) /\ Ends(k)
    BY <2>2, <2>3
  <2>4. CASE UNCHANGED <<msgs, call>> /\ Finds(call[k]) = {}
    BY <2>4
  <2> QED
    BY <1>1, <2>3, <2>4
<1>4. WokenOK(woken', call')
  BY <1>1, <1>3 DEF Inv, WokenOK
<1>5. Finds(call[k]) = {} => Alone(msgs, call[k])
  BY <1>2, FindsSeen, InvTerminal DEF CallsOK, ValidCall
<1>6. ASSUME NEW l \in Call \ woken', call'[l] # NoCall
      PROVE  \/ call'[l] = call[l] /\ l \notin woken
             \/ UNCHANGED msgs /\ Alone(msgs, call'[l])
  BY <1>1, <1>3, <1>5, <1>6
<1> QED
  BY <1>1, <1>2, <1>4, <1>6, WaiterStep

LEMMA TimesOutStep ==
  ASSUME Inv, NEW k \in Call, TimesOut(k)
  PROVE  Good
<1>1. /\ call[k] # NoCall /\ Returns(call[k]) /\ Ends(k) /\ woken = {}
      /\ UNCHANGED <<woken, cursor, idle, up, enter>>
  BY DEF TimesOut, Calm
<1>2. WokenOK(woken', call')
  BY <1>1 DEF WokenOK
<1>3. \A l \in Call \ woken' : call'[l] # NoCall => call'[l] = call[l] /\ l \notin woken
  BY <1>1, EndsOne
<1> QED
  BY <1>1, <1>2, <1>3, WaiterStep

LEMMA AbortStep ==
  ASSUME Inv, NEW k \in Call, Abort(k)
  PROVE  Good
<1>1. /\ call[k] # NoCall /\ Ends(k)
      /\ Returns(call[k]) \/ UNCHANGED msgs
      /\ woken = {} /\ UNCHANGED <<woken, cursor, idle, up, enter>>
  BY DEF Abort, Calm
<1>2. WokenOK(woken', call')
  BY <1>1 DEF WokenOK
<1>3. \A l \in Call \ woken' : call'[l] # NoCall => call'[l] = call[l] /\ l \notin woken
  BY <1>1, EndsOne
<1> QED
  BY <1>1, <1>2, <1>3, WaiterStep

LEMMA IdleStep ==
  ASSUME Inv, NEW h \in Terminal, BecomesIdle(h)
  PROVE  Good
<1> USE InvTerminal
<1>1. /\ idle' = idle \cup {h} /\ UNCHANGED <<call, woken, cursor, up>>
      /\ \/ \E takes \in BOOLEAN : /\ msgs' = Push(msgs, h, takes).table
                                   /\ enter' = enter \o Push(msgs, h, takes).timers
         \/ UNCHANGED <<msgs, enter>>
  BY DEF BecomesIdle
<1>2. idle' \subseteq Terminal /\ WokenOK(woken', call')
  BY <1>1 DEF Inv
<1>3. CASE UNCHANGED <<msgs, enter>>
  <2>1. Asleep(msgs', call', woken')
    BY <1>1, <1>3, Kept, SleepNothingNew
  <2> QED
    BY <1>1, <1>2, <1>3, <2>1, Kept DEF Good
<1>4. ASSUME NEW takes \in BOOLEAN, msgs' = Push(msgs, h, takes).table,
             enter' = enter \o Push(msgs, h, takes).timers
      PROVE  Good
  <2> DEFINE U == Unpushed(msgs, h)
  <2>1. \A m \in 1 .. Len(msgs) :
          /\ RowStep(msgs[m], msgs'[m]) /\ msgs'[m].answers = msgs[m].answers
          /\ takes /\ m \in U => msgs'[m].text = "typed"
    BY <1>4, PushRow
  <2>2. msgs' = [m \in DOMAIN msgs |-> msgs'[m]]
    <3>1. CASE ~takes
      BY <1>4, <3>1, TableLen DEF Push, Table
    <3>2. CASE takes
      BY <1>4, <3>2 DEF Push, Stamp, Typed
    <3> QED
      BY <3>1, <3>2
  <2>3. Table(msgs') /\ Evolves(msgs, msgs') /\ Len(msgs') = Len(msgs)
    BY <2>1, <2>2, RowWise
  <2>4. TimersOK(enter, msgs') /\ CallsOK(call, msgs')
    BY <2>3, Written
  <2>5. TimersOK(enter', msgs')
    <3>1. CASE takes /\ h \notin cursor
      <4> DEFINE e == [to |-> h, ids |-> U]
                 q == <<e>>
      <4>1. enter' = enter \o q
        BY <1>4, <3>1 DEF Push
      <4>2. e \in Timer
        BY UnpushedIds DEF Timer
      <4>3. \A m \in U : /\ m \in 1 .. Len(msgs') /\ msgs'[m].to = h
                         /\ msgs'[m].text = "typed"
        BY <2>1, <2>3, <3>1, UnpushedIds DEF RowStep
      <4>4. e.to = h /\ e.ids = U
        OBVIOUS
      <4>5. /\ q \in Seq(Timer) /\ Len(q) = 1
            /\ \A j \in 1 .. Len(q) : q[j] = e
        BY <4>2
      <4> HIDE DEF e, q, U
      <4>6. TimerOK(e, msgs')
        BY <3>1, <4>3, <4>4 DEF TimerOK, Shown
      <4>7. TimersOK(enter \o q, msgs')
        BY <2>4, <4>5, <4>6, TimersAdded
      <4> QED
        BY <4>1, <4>7
    <3>2. CASE ~(takes /\ h \notin cursor)
      <4>1. enter' = enter \o <<>>
        BY <1>4, <3>2 DEF Push
      <4>2. enter' = enter
        BY <4>1 DEF TimersOK
      <4> QED
        BY <2>4, <4>2
    <3> QED
      BY <3>1, <3>2
  <2>6. Asleep(msgs', call', woken')
    BY <1>1, <2>3, SleepNothingNew
  <2> QED
    BY <1>1, <1>2, <2>3, <2>4, <2>5, <2>6 DEF Good
<1> QED
  BY <1>1, <1>3, <1>4

LEMMA BusyStep ==
  ASSUME Inv, NEW h \in Terminal, BecomesBusy(h)
  PROVE  Good
<1>1. idle' = idle \ {h} /\ UNCHANGED <<msgs, call, woken, cursor, up, enter>>
  BY DEF BecomesBusy
<1>2. idle' \subseteq Terminal /\ up' \subseteq Terminal /\ WokenOK(woken', call')
  BY <1>1 DEF Inv
<1>3. Asleep(msgs', call', woken')
  BY <1>1, Kept, SleepNothingNew
<1> QED
  BY <1>1, <1>2, <1>3, Kept DEF Good

LEMMA EnteredTable ==
  ASSUME Inv, NEW h, h \notin cursor
  PROVE  LET N == Entered(msgs, h)
         IN /\ Table(N) /\ Evolves(msgs, N) /\ Len(N) = Len(msgs)
            /\ \A m \in 1 .. Len(msgs) : msgs[m].to = h /\ msgs[m].text \in Shown
                                           => N[m].text = "entered"
<1> DEFINE N == Entered(msgs, h)
<1> USE InvTerminal
<1>1. ASSUME NEW m \in 1 .. Len(msgs)
      PROVE  /\ RowStep(msgs[m], N[m]) /\ N[m].answers = msgs[m].answers
             /\ msgs[m].to = h /\ msgs[m].text \in Shown => N[m].text = "entered"
  <2> DEFINE r == msgs[m]
             n == N[m]
  <2>1. r \in MsgRow /\ StampOK(r) /\ DOMAIN msgs = 1 .. Len(msgs)
    BY TableRow, TableLen
  <2>2. CASE r.to = h /\ r.text = "typed"
    <3>1. n = [r EXCEPT !.text = "entered"] /\ ~r.stamped
      BY <2>1, <2>2 DEF Entered, StampOK
    <3> HIDE DEF n, r
    <3>2. RowStep(r, n) /\ n.answers = r.answers /\ n.text = "entered"
      BY <2>1, <2>2, <3>1, EnteredRow
    <3> QED
      BY <3>2 DEF n, r
  <2>3. CASE ~(r.to = h /\ r.text = "typed")
    <3>1. n = r
      BY <2>1, <2>3 DEF Entered
    <3> HIDE DEF n
    <3> QED
      BY <2>1, <2>3, <3>1, RowSame DEF n, Shown
  <2> QED
    BY <2>2, <2>3
<1>2. N = [m \in DOMAIN msgs |-> N[m]]
  BY DEF Entered
<1> HIDE DEF N
<1>3. Table(N) /\ Evolves(msgs, N) /\ Len(N) = Len(msgs)
  BY <1>1, <1>2, RowWise
<1> QED
  BY <1>1, <1>3 DEF N

LEMMA StampTable ==
  ASSUME NEW M, Table(M), NEW S, NEW h, h \notin cursor,
         \A m \in S : /\ m \in 1 .. Len(M) /\ M[m].to = h
                      /\ M[m].state = "deleted" \/ M[m].text = "entered"
  PROVE  LET N == Stamp(M, S) IN Table(N) /\ Evolves(M, N) /\ Len(N) = Len(M)
<1> DEFINE N == Stamp(M, S)
<1>1. ASSUME NEW m \in 1 .. Len(M)
      PROVE  RowStep(M[m], N[m]) /\ N[m].answers = M[m].answers
  <2> DEFINE r == M[m]
             n == N[m]
  <2>1. r \in MsgRow /\ StampOK(r) /\ DOMAIN M = 1 .. Len(M)
    BY TableRow, TableLen
  <2>2. CASE m \in S /\ r.state # "deleted"
    <3>1. n = [r EXCEPT !.stamped = TRUE] /\ r.to = h /\ r.text = "entered"
      BY <2>1, <2>2 DEF Stamp
    <3> HIDE DEF n, r
    <3>2. RowStep(r, n) /\ n.answers = r.answers
      BY <2>1, <2>2, <3>1, StampedRow
    <3> QED
      BY <3>2 DEF n, r
  <2>3. CASE ~(m \in S /\ r.state # "deleted")
    <3>1. n = r
      BY <2>1, <2>3 DEF Stamp
    <3> HIDE DEF n
    <3> QED
      BY <2>1, <3>1, RowSame DEF n
  <2> QED
    BY <2>2, <2>3
<1>2. N = [m \in DOMAIN M |-> N[m]]
  BY DEF Stamp
<1> HIDE DEF N
<1>3. Table(N) /\ Evolves(M, N) /\ Len(N) = Len(M)
  BY <1>1, <1>2, RowWise
<1> QED
  BY <1>3 DEF N

\* Enter ends a text that only a Cursor agent's stamp may precede.
LEMMA EnterStep ==
  ASSUME Inv, NEW takes, Enter(takes)
  PROVE  Good
<1> USE InvTerminal
<1> DEFINE e == Head(enter)
<1>1. /\ enter # <<>> /\ enter' = Tail(enter)
      /\ UNCHANGED <<call, woken, cursor, idle, up>>
      /\ msgs' = Stamp(Entered(msgs, e.to), e.ids) \/ UNCHANGED msgs
  BY DEF Enter
<1>2. TimerOK(e, msgs)
  <2>1. enter \in Seq(Timer) /\ Len(enter) >= 1 /\ Head(enter) = enter[1]
    BY <1>1 DEF TimersOK
  <2>2. 1 \in 1 .. Len(enter)
    BY <2>1
  <2> QED
    BY <2>1, <2>2 DEF TimersOK
<1> HIDE DEF e
<1>3. Table(msgs') /\ Evolves(msgs, msgs') /\ Len(msgs') = Len(msgs)
  <2>1. CASE UNCHANGED msgs
    BY <2>1, Kept
  <2>2. CASE msgs' = Stamp(Entered(msgs, e.to), e.ids)
    <3> DEFINE M == Entered(msgs, e.to)
    <3>1. e.to \notin cursor
      BY <1>2 DEF TimerOK
    <3>2. /\ Table(M) /\ Evolves(msgs, M) /\ Len(M) = Len(msgs)
          /\ \A m \in 1 .. Len(msgs) : msgs[m].to = e.to /\ msgs[m].text \in Shown
                                         => M[m].text = "entered"
      BY <3>1, EnteredTable
    <3> HIDE DEF M
    <3>3. ASSUME NEW m \in e.ids
          PROVE  /\ m \in 1 .. Len(M) /\ M[m].to = e.to
                 /\ M[m].state = "deleted" \/ M[m].text = "entered"
      <4>1. /\ m \in 1 .. Len(msgs) /\ msgs[m].to = e.to
            /\ msgs[m].state = "deleted" \/ msgs[m].text \in Shown
        BY <1>2 DEF TimerOK
      <4>2. RowStep(msgs[m], M[m])
        BY <3>2, <4>1 DEF Evolves
      <4> QED
        BY <3>2, <4>1, <4>2 DEF RowStep
    <3> DEFINE N == Stamp(M, e.ids)
    <3>4. Table(N) /\ Evolves(M, N) /\ Len(N) = Len(M)
      BY <3>1, <3>2, <3>3, StampTable
    <3>5. msgs' = N
      BY <2>2 DEF M
    <3> HIDE DEF N
    <3> QED
      BY <3>2, <3>4, <3>5, EvolvesTwice
  <2> QED
    BY <1>1, <2>1, <2>2
<1>4. TimersOK(enter, msgs') /\ CallsOK(call, msgs')
  BY <1>3, Written
<1>5. TimersOK(enter', msgs')
  <2>1. /\ Tail(enter) \in Seq(Timer)
        /\ \A j \in 1 .. Len(Tail(enter)) : j + 1 \in 1 .. Len(enter)
                                            /\ Tail(enter)[j] = enter[j + 1]
    BY <1>1, HeadTailProperties DEF TimersOK
  <2> QED
    BY <1>1, <1>4, <2>1 DEF TimersOK
<1>6. WokenOK(woken', call') /\ idle' \subseteq Terminal /\ up' \subseteq Terminal
  BY <1>1 DEF Inv
<1>7. Asleep(msgs', call', woken')
  BY <1>1, <1>3, SleepNothingNew
<1> QED
  BY <1>1, <1>3, <1>4, <1>5, <1>6, <1>7 DEF Good

LEMMA ExitsStep ==
  ASSUME Inv, NEW h \in Terminal, Exits(h)
  PROVE  Good
<1> USE InvTerminal
<1>1. /\ up' = up \ {h} /\ UNCHANGED <<call, woken, cursor, idle, enter>>
      /\ \/ UNCHANGED msgs
         \/ \E c \in Handle : msgs' = Append(msgs, Row(h, c, "exit", 0))
  BY DEF Exits
<1>2. /\ Table(msgs') /\ Evolves(msgs, msgs')
      /\ \A m \in 1 .. Len(msgs') : m > Len(msgs) => msgs'[m].type = "exit"
  <2>1. CASE UNCHANGED msgs
    BY <2>1, Kept, TableLen
  <2>2. ASSUME NEW c \in Handle, msgs' = Append(msgs, Row(h, c, "exit", 0))
        PROVE  /\ Table(msgs') /\ Evolves(msgs, msgs')
               /\ \A m \in 1 .. Len(msgs') : m > Len(msgs) => msgs'[m].type = "exit"
    <3> DEFINE x == Row(h, c, "exit", 0)
    <3>1. "exit" \in Types
      BY DEF Types
    <3>2. /\ x \in MsgRow /\ StampOK(x) /\ TakenOK(x) /\ x.answers = 0
          /\ x.type = "exit"
      BY <3>1, NewRow DEF Row
    <3> HIDE DEF x
    <3>3. msgs' = Append(msgs, x)
      BY <2>2 DEF x
    <3>4. /\ Table(msgs') /\ Evolves(msgs, msgs')
          /\ Len(msgs') = Len(msgs) + 1 /\ msgs'[Len(msgs) + 1] = x
      BY <3>2, <3>3, AppendedTable
    <3> QED
      BY <3>2, <3>4, TableLen
  <2> QED
    BY <1>1, <2>1, <2>2
<1>3. TimersOK(enter, msgs') /\ CallsOK(call, msgs')
  BY <1>2, Written
<1>4. WokenOK(woken', call') /\ idle' \subseteq Terminal /\ up' \subseteq Terminal
  BY <1>1 DEF Inv
<1>5. Asleep(msgs', call', woken')
  BY <1>1, <1>2, SleepKept
<1> QED
  BY <1>1, <1>2, <1>3, <1>4, <1>5 DEF Good

-----------------------------------------------------------------------------
(* Every step.                                                              *)

LEMMA InitInv == Init => Inv
<1> SUFFICES ASSUME Init PROVE Inv
  OBVIOUS
<1>1. /\ msgs = <<>> /\ enter = <<>> /\ woken = {} /\ idle = {} /\ up = Terminal
      /\ call = [k \in Call |-> NoCall] /\ cursor \subseteq Terminal
  BY DEF Init
<1>2. Table(msgs) /\ TimersOK(enter, msgs)
  BY <1>1 DEF Table, TimersOK
<1>3. CallsOK(call, msgs)
  BY <1>1, NoCallTyped DEF CallsOK
<1> QED
  BY <1>1, <1>2, <1>3 DEF Inv, WokenOK, Asleep

LEMMA StepGood == Inv /\ [Next]_vars => Good
<1> SUFFICES ASSUME Inv, [Next]_vars PROVE Good
  OBVIOUS
<1>1. ASSUME NEW f \in Sender, NEW S \in SUBSET Handle, NEW th \in 0 .. MaxMsg,
             Send(f, S, "status", th)
      PROVE  Good
  BY <1>1, SendStep
<1>2. ASSUME NEW m \in 1 .. MaxMsg, Reply(m) PROVE Good
  BY <1>2, ReplyStep
<1>3. CASE ResetMessages
  BY <1>3, ResetStep
<1>4. ASSUME NEW k \in Call, NEW h \in Handle, NEW F \in Filters, Check(k, h, F)
      PROVE  Good
  BY <1>4, CheckStep
<1>5. ASSUME NEW k \in Call, NEW h \in Handle, NEW t \in Handle, Ask(k, h, t) PROVE Good
  BY <1>5, AskStep
<1>6. ASSUME NEW k \in Call, Resume(k) \/ TimesOut(k) \/ Abort(k) PROVE Good
  BY <1>6, ResumeStep, TimesOutStep, AbortStep
<1>7. ASSUME NEW h \in Terminal, BecomesIdle(h) \/ BecomesBusy(h) \/ Exits(h) PROVE Good
  BY <1>7, IdleStep, BusyStep, ExitsStep
<1>8. ASSUME NEW takes \in BOOLEAN, Enter(takes) PROVE Good
  BY <1>8, EnterStep
<1>9. CASE UNCHANGED vars
  <2>1. UNCHANGED <<msgs, call, woken, cursor, idle, up, enter>>
    BY <1>9 DEF vars
  <2>2. WokenOK(woken', call') /\ idle' \subseteq Terminal /\ up' \subseteq Terminal
    BY <2>1 DEF Inv
  <2>3. Asleep(msgs', call', woken')
    BY <2>1, Kept, SleepNothingNew
  <2> QED
    BY <2>1, <2>2, <2>3, Kept DEF Good
<1> QED
  BY <1>1, <1>2, <1>3, <1>4, <1>5, <1>6, <1>7, <1>8, <1>9 DEF Next

LEMMA GoodInv == Inv /\ Good => Inv'
<1> SUFFICES ASSUME Inv, Good PROVE Inv'
  OBVIOUS
<1>1. cursor' = cursor
  BY DEF Good
<1>2. (Table(msgs))'
  BY <1>1 DEF Good, Table, StampOK, TakenOK, AnswersOK
<1>3. (TimersOK(enter, msgs))'
  BY <1>1 DEF Good, TimersOK, TimerOK
<1>4. (CallsOK(call, msgs))' /\ (WokenOK(woken, call))' /\ (Asleep(msgs, call, woken))'
  BY DEF Good, CallsOK, ValidCall, WokenOK, Asleep, Alone, Seen
<1> QED
  BY <1>1, <1>2, <1>3, <1>4 DEF Inv, Good

\* The invariant the theorems below follow from: rows, timers and calls agree.
THEOREM MessagesInv == Spec => []Inv
<1>1. Inv /\ [Next]_vars => Inv'
  BY StepGood, GoodInv
<1> QED
  BY InitInv, <1>1, PTL DEF Spec

-----------------------------------------------------------------------------
(* The properties.                                                          *)

LEMMA InvRows ==
  ASSUME Inv
  PROVE  /\ DOMAIN msgs = 1 .. Len(msgs)
         /\ \A m \in 1 .. Len(msgs) : /\ StampOK(msgs[m]) /\ TakenOK(msgs[m])
                                      /\ AnswersOK(msgs, msgs[m])
BY TableLen, TableRow DEF Inv

\* Every variable keeps its type, and the timers name messages that were sent.
THEOREM MessagesTypeOK == Spec => []TypeOK
<1>1. Inv => TypeOK
  <2> SUFFICES ASSUME Inv PROVE TypeOK
    OBVIOUS
  <2>1. msgs \in Seq(MsgRow) /\ DOMAIN msgs = 1 .. Len(msgs)
    BY DEF Inv, Table
  <2>2. \A j \in DOMAIN enter : enter[j].ids \subseteq DOMAIN msgs
    BY <2>1 DEF Inv, TimersOK, TimerOK
  <2> QED
    BY <2>1, <2>2 DEF Inv, CallsOK, WokenOK, TypeOK
<1> QED
  BY <1>1, MessagesInv, PTL

\* delivered_at is set on a message only when its text was typed and Enter was
\* pressed after it, or its agent is Cursor's and has it in the prompt.
THEOREM MessagesStamped == Spec => []StampedWasEntered
<1>1. Inv => StampedWasEntered
  BY InvRows DEF StampedWasEntered, StampOK
<1> QED
  BY <1>1, MessagesInv, PTL

\* No two calls of check return the same message.
THEOREM MessagesReadOnce == Spec => []ReadOnce
<1>1. Inv => ReadOnce
  BY InvRows DEF ReadOnce, TakenOK
<1> QED
  BY <1>1, MessagesInv, PTL

\* ask returns a message of its own thread, sent to the one who asked.
THEOREM MessagesAnswers == Spec => []AskGetsItsAnswer
<1>1. Inv => AskGetsItsAnswer
  BY InvRows DEF AskGetsItsAnswer, AnswersOK
<1> QED
  BY <1>1, MessagesInv, PTL

\* A call sleeps only while there is nothing it waits for, but an escalation.
THEOREM MessagesWakeup == Spec => []NoLostWakeup
<1>1. Inv => NoLostWakeup
  <2> SUFFICES ASSUME Inv, NEW k \in Call \ woken, call[k] # NoCall, NEW m \in Finds(call[k])
               PROVE  msgs[m].type = "exit"
    BY DEF NoLostWakeup
  <2>1. call[k].op \in {"check", "ask"} /\ Table(msgs)
    BY DEF Inv, CallsOK, ValidCall
  <2>2. m \in 1 .. Len(msgs) /\ Seen(msgs, call[k], m)
    BY <2>1, FindsSeen
  <2> QED
    BY <2>2 DEF Inv, Asleep, Alone
<1> QED
  BY <1>1, MessagesInv, PTL

=============================================================================
