-------------------------- MODULE LifecycleProofs --------------------------
(***************************************************************************)
(* The sessions and the life of the process around them, for any clients,  *)
(* limit, lines typed and Ctrl-C's: first the sessions by themselves       *)
(* (Spec of Sessions), then with main, the console and cancellation.       *)
(***************************************************************************)
EXTENDS Lifecycle, FiniteSetTheorems, TLAPS

IInv == TypeOK /\ SessionsCounted

LEMMA ActiveFinite == IsFiniteSet(Active) /\ Cardinality(Active) \in Nat
BY SessionsAssumption, FS_Subset, FS_CardinalityType DEF Active

LEMMA InitInv == Init => IInv
<1> SUFFICES ASSUME Init PROVE IInv
    OBVIOUS
<1>1. TypeOK
    BY SessionsAssumption DEF Init, TypeOK, Phases
<1>2. Active = {}
    BY DEF Init, Active
<1>3. SessionsCounted
    BY <1>2, FS_EmptySet, SessionsAssumption DEF SessionsCounted, Init
<1> QED
    BY <1>1, <1>3 DEF IInv

\* Where a step leaves the task of one client in or out of the try block, the
\* set of active sessions stays.
LEMMA SameActive ==
    ASSUME TypeOK, NEW c \in Clients, NEW p \in Phases,
           phase' = [phase EXCEPT ![c] = p],
           p \in {"reading", "answering"} <=> phase[c] \in {"reading", "answering"}
    PROVE  Active' = Active
BY DEF Active, TypeOK

LEMMA AdmitInv == ASSUME IInv, NEW c \in Clients, Admit(c) PROVE IInv'
<1>1. TypeOK'
    BY DEF IInv, TypeOK, Admit, Phases
<1>2. Active' = Active \cup {c} /\ c \notin Active
    BY DEF IInv, TypeOK, Admit, Active
<1>3. Cardinality(Active') = Cardinality(Active) + 1
    BY <1>2, ActiveFinite, FS_AddElement
<1>4. SessionsCounted'
    BY <1>3, ActiveFinite, SessionsAssumption DEF SessionsCounted, IInv, Admit, Room
<1> QED
    BY <1>1, <1>4 DEF IInv

LEMMA EndInv == ASSUME IInv, NEW c \in Clients, End(c) PROVE IInv'
<1>1. TypeOK'
    BY DEF IInv, TypeOK, End, Phases
<1>2. Active' = Active \ {c} /\ c \in Active
    BY DEF IInv, TypeOK, End, Broken, Active
<1>3. Cardinality(Active') = Cardinality(Active) - 1
    BY <1>2, ActiveFinite, FS_RemoveElement
<1>4. Cardinality(Active) # 0
    BY <1>2, ActiveFinite, FS_EmptySet
<1>5. sessions' = sessions - 1
    BY <1>4 DEF End, SessionsCounted, IInv
<1>6. SessionsCounted'
    BY <1>3, <1>5, ActiveFinite, SessionsAssumption DEF SessionsCounted, IInv
<1> QED
    BY <1>1, <1>6 DEF IInv

\* The steps that move the task of a client without entering or leaving the try
\* block.
LEMMA MoveInv ==
    ASSUME IInv, NEW c \in Clients, Connect(c) \/ Reject(c) \/ Handle(c) \/ Answer(c) \/ Closed(c)
    PROVE  IInv'
<1>1. TypeOK'
  <2>1. CASE Connect(c)
    BY <2>1 DEF IInv, TypeOK, Connect, Phases
  <2>2. CASE Reject(c)
    BY <2>2 DEF IInv, TypeOK, Reject, Phases
  <2>3. CASE Handle(c)
    BY <2>3, SessionsAssumption DEF IInv, TypeOK, Handle, Ready, Phases
  <2>4. CASE Answer(c)
    <3>1. Append(replies[c], handled[c]) \in Seq(Nat)
        BY SessionsAssumption DEF IInv, TypeOK
    <3> QED
        BY <2>4, <3>1 DEF IInv, TypeOK, Answer, Phases
  <2>5. CASE Closed(c)
    BY <2>5, SessionsAssumption DEF IInv, TypeOK, Closed, Forgotten, Phases
  <2> QED
    BY <2>1, <2>2, <2>3, <2>4, <2>5
<1>2. \E p \in Phases :
        /\ phase' = [phase EXCEPT ![c] = p]
        /\ p \in {"reading", "answering"} <=> phase[c] \in {"reading", "answering"}
    BY DEF Connect, Reject, Handle, Ready, Answer, Closed, Forgotten, Phases
<1>3. Active' = Active
    BY <1>2, SameActive DEF IInv
<1>4. sessions' = sessions
    BY DEF Connect, Reject, Handle, Answer, Closed
<1> QED
    BY <1>1, <1>3, <1>4 DEF IInv, SessionsCounted

\* The steps that touch no task.
LEMMA OtherInv ==
    ASSUME IInv,
           \/ \E c \in Clients : Write(c) \/ \E how \in {"closed", "reset"} : Leave(c, how)
           \/ Stop \/ Stopped \/ UNCHANGED vars
    PROVE  IInv'
<1>1. TypeOK'
  <2>1. CASE \E c \in Clients : Write(c)
    BY <2>1, SessionsAssumption DEF IInv, TypeOK, Write
  <2>2. CASE \E c \in Clients, how \in {"closed", "reset"} : Leave(c, how)
    BY <2>2 DEF IInv, TypeOK, Leave
  <2>3. CASE Stop \/ Stopped \/ UNCHANGED vars
    BY <2>3 DEF IInv, TypeOK, Stop, Stopped, vars
  <2> QED
    BY <2>1, <2>2, <2>3
<1>2. phase' = phase /\ sessions' = sessions
    BY DEF Write, Leave, Stop, Stopped, vars
<1> QED
    BY <1>1, <1>2 DEF IInv, SessionsCounted, Active

LEMMA NextInv == IInv /\ [Next]_vars => IInv'
<1> SUFFICES ASSUME IInv, [Next]_vars PROVE IInv'
    OBVIOUS
<1>1. CASE \E c \in Clients : Admit(c)
    BY <1>1, AdmitInv
<1>2. CASE \E c \in Clients : End(c)
    BY <1>2, EndInv
<1>3. CASE \E c \in Clients : Connect(c) \/ Reject(c) \/ Handle(c) \/ Answer(c) \/ Closed(c)
    BY <1>3, MoveInv
<1>4. CASE \/ \E c \in Clients : Write(c) \/ \E how \in {"closed", "reset"} : Leave(c, how)
           \/ Stop \/ Stopped \/ UNCHANGED vars
    BY <1>4, OtherInv
<1> QED
    BY <1>1, <1>2, <1>3, <1>4 DEF Next, Session

LEMMA Invariance == Spec => []IInv
BY InitInv, NextInv, PTL DEF Spec

\* The tasks, the clients' ends and the counters keep values of their types.
THEOREM TypeCorrect == Spec => []TypeOK
<1>1. IInv => TypeOK
    BY DEF IInv
<1> QED
    BY <1>1, Invariance, PTL

\* The count never drifts from the sessions served and never passes the limit,
\* for any number of clients that connect, close and reset in any order.
THEOREM CountIsExact == Spec => []SessionsCounted
<1>1. IInv => SessionsCounted
    BY DEF IInv
<1> QED
    BY <1>1, Invariance, PTL

-----------------------------------------------------------------------------
(* The order of replies                                                      *)

\* A session is at most one reply behind the requests it took, and that one is what
\* it is at; only the end of a session can leave it unanswered.
Numbered(c) ==
    /\ replies[c] = [n \in 1 .. Len(replies[c]) |-> n]
    /\ handled[c] \in {Len(replies[c]), Len(replies[c]) + 1}
    /\ phase[c] = "answering" => handled[c] = Len(replies[c]) + 1
    /\ phase[c] \in {"away", "accepted", "reading"} => handled[c] = Len(replies[c])

AllNumbered == \A c \in Clients : Numbered(c)

LEMMA InitNumbered == Init => AllNumbered
<1> SUFFICES ASSUME Init, NEW c \in Clients PROVE Numbered(c)
    BY DEF AllNumbered
<1>1. replies[c] = <<>> /\ handled[c] = 0 /\ phase[c] = "away"
    BY DEF Init
<1>2. <<>> = [n \in 1 .. 0 |-> n] /\ Len(<<>>) = 0
    OBVIOUS
<1> QED
    BY <1>1, <1>2 DEF Numbered

\* The reply to the request after the k-th is the reply after the k-th.
LEMMA NextReply ==
    ASSUME NEW s \in Seq(Nat), s = [n \in 1 .. Len(s) |-> n]
    PROVE  LET t == Append(s, Len(s) + 1)
           IN  Len(t) = Len(s) + 1 /\ t = [n \in 1 .. Len(t) |-> n]
OBVIOUS

\* A step of one session, whose other sessions keep what they said.
LEMMA NumberedStep ==
    ASSUME TypeOK, AllNumbered, NEW c \in Clients,
           \A d \in Clients \ {c} : /\ phase'[d] = phase[d] /\ handled'[d] = handled[d]
                                    /\ replies'[d] = replies[d],
           \/ Admit(c) \/ Reject(c) \/ Handle(c) \/ Answer(c) \/ End(c) \/ Connect(c)
           \/ Forgotten(c)
           \/ phase'[c] = "closing" /\ UNCHANGED <<handled, replies>>
    PROVE  AllNumbered'
<1> SUFFICES Numbered(c)'
    BY DEF AllNumbered, Numbered
<1>0. /\ Numbered(c) /\ replies[c] \in Seq(Nat) /\ handled[c] \in Nat
      /\ c \in DOMAIN phase /\ c \in DOMAIN handled /\ c \in DOMAIN replies
    BY SessionsAssumption DEF AllNumbered, TypeOK
<1>1. CASE Admit(c) \/ Reject(c) \/ End(c) \/ Connect(c)
    BY <1>0, <1>1 DEF Numbered, Admit, Reject, End, Connect
<1>2. CASE Handle(c)
    BY <1>0, <1>2 DEF Numbered, Handle, Ready
<1>3. CASE Answer(c)
  <2>1. replies'[c] = Append(replies[c], Len(replies[c]) + 1)
    BY <1>0, <1>3 DEF Numbered, Answer
  <2>2. Len(replies'[c]) = Len(replies[c]) + 1
    BY <1>0, <2>1
  <2>3. replies'[c] = [n \in 1 .. Len(replies'[c]) |-> n]
    BY <1>0, <2>1, NextReply DEF Numbered
  <2>4. handled'[c] = Len(replies'[c]) /\ phase'[c] = "reading"
    BY <1>0, <1>3, <2>2 DEF Numbered, Answer
  <2> QED
    BY <2>3, <2>4 DEF Numbered
<1>4. CASE Forgotten(c)
  <2>1. replies'[c] = <<>> /\ handled'[c] = 0 /\ phase'[c] = "away"
    BY <1>0, <1>4 DEF Forgotten
  <2>2. <<>> = [n \in 1 .. 0 |-> n] /\ Len(<<>>) = 0
    OBVIOUS
  <2> QED
    BY <2>1, <2>2 DEF Numbered
<1>5. CASE phase'[c] = "closing" /\ UNCHANGED <<handled, replies>>
    BY <1>0, <1>5 DEF Numbered
<1> QED
    BY <1>1, <1>2, <1>3, <1>4, <1>5

\* A step that lets every session be where it was.
LEMMA NumberedStays ==
    ASSUME AllNumbered, UNCHANGED <<phase, handled, replies>> PROVE AllNumbered'
BY DEF AllNumbered, Numbered

LEMMA SessionNumbered ==
    ASSUME TypeOK, AllNumbered, NEW c \in Clients, Connect(c) \/ Session(c)
    PROVE  AllNumbered'
<1>1. \A d \in Clients \ {c} : /\ phase'[d] = phase[d] /\ handled'[d] = handled[d]
                               /\ replies'[d] = replies[d]
    BY DEF TypeOK, Connect, Session, Admit, Reject, Handle, Answer, End, Closed, Forgotten
<1> QED
    BY <1>1, NumberedStep DEF Session, Closed

LEMMA NumberedMeans == ASSUME TypeOK, AllNumbered PROVE RepliesInOrder
<1> SUFFICES ASSUME NEW c \in Clients
             PROVE  /\ replies[c] = [n \in 1 .. Len(replies[c]) |-> n]
                    /\ handled[c] - Len(replies[c]) <= 1
    BY DEF RepliesInOrder
<1>1. Numbered(c) /\ replies[c] \in Seq(Nat)
    BY DEF AllNumbered, TypeOK
<1> QED
    BY <1>1 DEF Numbered

\* The n-th reply of a session answers its n-th request, and at most one request is
\* taken that is not answered yet, whatever clients write ahead.
THEOREM RepliesAreInOrder == Spec => []RepliesInOrder
<1>1. IInv /\ AllNumbered /\ [Next]_vars => AllNumbered'
  <2> SUFFICES ASSUME IInv, AllNumbered, [Next]_vars PROVE AllNumbered'
    OBVIOUS
  <2>1. CASE \E c \in Clients : Connect(c) \/ Session(c)
    BY <2>1, SessionNumbered DEF IInv
  <2>2. CASE \/ \E c \in Clients : Write(c) \/ \E how \in {"closed", "reset"} : Leave(c, how)
             \/ Stop \/ Stopped \/ UNCHANGED vars
    BY <2>2, NumberedStays DEF Write, Leave, Stop, Stopped, vars
  <2> QED
    BY <2>1, <2>2 DEF Next
<1>2. IInv /\ AllNumbered => RepliesInOrder
    BY NumberedMeans DEF IInv
<1> QED
    BY <1>1, <1>2, InitNumbered, Invariance, PTL DEF Spec

-----------------------------------------------------------------------------
(* The process around the sessions                                           *)

\* How far main is says what the server does.
ServerFollowsMain ==
    /\ main \in {"starting", "serving", "ending"} => server = "up"
    /\ main = "closing" => server = "stopping"
    /\ main = "starting" => ~stopSet /\ console = "off"

LifeInv == IInv /\ LifeTypeOK /\ ConsoleEndsFirst /\ ServerFollowsMain

Rest == <<main, cancelled, interrupts, stopSet, console, lines>>

-----------------------------------------------------------------------------
(* Sessions                                                                  *)

\* A cancelled session gives up its place in the count.
LEMMA CancelInv == ASSUME IInv, NEW c \in Clients, Cancel(c) PROVE IInv'
<1>1. TypeOK'
  <2>1. CASE phase[c] = "accepted"
    <3>1. Forgotten(c) /\ UNCHANGED <<sessions, server>>
      BY <2>1 DEF Cancel
    <3> QED
      BY <3>1, SessionsAssumption DEF IInv, TypeOK, Forgotten, Phases
  <2>2. CASE phase[c] # "accepted"
    <3>1. /\ phase' = [phase EXCEPT ![c] = "closing"]
          /\ sessions' = IF sessions = 0 THEN 0 ELSE sessions - 1
          /\ UNCHANGED <<peer, sent, handled, replies, server>>
      BY <2>2 DEF Cancel
    <3>2. sessions' \in Nat
      BY <3>1 DEF IInv, TypeOK
    <3> QED
      BY <3>1, <3>2 DEF IInv, TypeOK, Phases
  <2> QED
    BY <2>1, <2>2
<1>2. CASE phase[c] = "accepted"
  <2>1. Active' = Active /\ sessions' = sessions
    BY <1>2, SameActive DEF IInv, Cancel, Forgotten, Phases
  <2> QED
    BY <1>1, <2>1 DEF IInv, SessionsCounted
<1>3. CASE phase[c] # "accepted"
  <2>1. Active' = Active \ {c} /\ c \in Active
    BY <1>3 DEF IInv, TypeOK, Cancel, Cancellable, Active
  <2>2. Cardinality(Active') = Cardinality(Active) - 1
    BY <2>1, ActiveFinite, FS_RemoveElement
  <2>3. sessions' = IF sessions = 0 THEN 0 ELSE sessions - 1
    BY <1>3 DEF Cancel
  <2>4. Cardinality(Active') \in Nat
    BY <2>1, ActiveFinite, FS_Subset, FS_CardinalityType
  <2> QED
    BY <1>1, <2>2, <2>3, <2>4, ActiveFinite, SessionsAssumption DEF IInv, SessionsCounted
<1> QED
  BY <1>2, <1>3

\* Sessions of their own accord keep the count, whatever main does meanwhile.
LEMMA TaskInv == ASSUME IInv, NEW c \in Clients, Task(c) \/ Client(c) PROVE IInv'
<1>1. CASE Cancel(c)
  BY <1>1, CancelInv
<1>2. CASE Admit(c)
  BY <1>2, AdmitInv
<1>3. CASE End(c)
  BY <1>3, EndInv
<1>4. CASE Connect(c) \/ Reject(c) \/ Handle(c) \/ Answer(c) \/ Closed(c)
  BY <1>4, MoveInv
<1>5. CASE Write(c) \/ \E how \in {"closed", "reset"} : Leave(c, how)
  BY <1>5, OtherInv
<1> QED
  BY <1>1, <1>2, <1>3, <1>4, <1>5 DEF Task, Client, Session

-----------------------------------------------------------------------------
(* Main, the console and Ctrl-C                                              *)

LEMMA NoLines == <<>> \in Seq(Kinds)
  OBVIOUS

LEMMA LifeInitInv == LifeInit => LifeInv
<1> SUFFICES ASSUME LifeInit PROVE LifeInv
  OBVIOUS
<1>1. IInv
  BY InitInv DEF LifeInit
<1>2. LifeTypeOK
  <2>1. interrupts \in 0 .. MaxInterrupts /\ lines \in Seq(Kinds)
    BY NoLines, LifecycleAssumption DEF LifeInit
  <2> QED
    BY <1>1, <2>1, Zenon DEF IInv, LifeInit, LifeTypeOK, MainPhases
<1>3. server = "up"
  BY DEF LifeInit, Init
<1>4. main = "starting" /\ ~stopSet /\ console = "off"
  BY DEF LifeInit
<1>5. ConsoleEndsFirst /\ ServerFollowsMain
  BY <1>3, <1>4 DEF ConsoleEndsFirst, ServerFollowsMain
<1> QED
  BY <1>1, <1>2, <1>5 DEF LifeInv

LEMMA MainKeeps == LifeInv /\ Main => LifeInv'
<1> SUFFICES ASSUME LifeInv, Main PROVE LifeInv'
  OBVIOUS
<1> USE DEF IInv, LifeInv, LifeTypeOK, MainPhases, ConsoleEndsFirst, ServerFollowsMain, CancelConsole
<1>1. ASSUME NEW interactive \in BOOLEAN, Started(interactive) PROVE LifeInv'
  <2>1. IInv'
    BY <1>1, OtherInv DEF Started
  <2> QED
    BY <1>1, <2>1 DEF Started, vars
<1>2. CASE StartFails
  <2>1. IInv'
    BY <1>2, OtherInv DEF StartFails
  <2> QED
    BY <1>2, <2>1 DEF StartFails, vars
<1>3. CASE BeginStop
  <2>1. IInv'
    BY <1>3, OtherInv DEF BeginStop
  <2> QED
    BY <1>3, <2>1, NoLines DEF BeginStop, vars
<1>4. CASE CloseServer
  <2>1. IInv'
    BY <1>4, OtherInv DEF CloseServer
  <2> QED
    BY <1>4, <2>1 DEF CloseServer, Stop
<1>5. CASE StopDone
  <2>1. IInv'
    BY <1>5, OtherInv DEF StopDone, Stopped
  <2> QED
    BY <1>5, <2>1 DEF StopDone, Stopped
<1>6. CASE StopCancelled
  <2>1. IInv'
    BY <1>6, OtherInv DEF StopCancelled
  <2> QED
    BY <1>6, <2>1 DEF StopCancelled, vars
<1>7. CASE Exit
  <2>1. Active' = Active /\ TypeOK'
    BY <1>7 DEF Exit, Active, IInv, TypeOK
  <2>2. IInv'
    BY <1>7, <2>1 DEF Exit, IInv, SessionsCounted
  <2> QED
    BY <1>7, <2>2 DEF Exit
<1> QED
  BY <1>1, <1>2, <1>3, <1>4, <1>5, <1>6, <1>7 DEF Main

LEMMA ConsoleKeeps ==
  LifeInv /\ (TakeLine \/ Interrupt \/ \E kind \in Kinds : Type(kind)) => LifeInv'
<1> SUFFICES ASSUME LifeInv, TakeLine \/ Interrupt \/ \E kind \in Kinds : Type(kind) PROVE LifeInv'
  OBVIOUS
<1> USE DEF IInv, LifeInv, LifeTypeOK, ConsoleEndsFirst, ServerFollowsMain
<1>1. CASE TakeLine
  <2>1. IInv'
    BY <1>1, OtherInv DEF TakeLine
  <2>2. Head(lines) \in Kinds /\ Tail(lines) \in Seq(Kinds)
    BY <1>1 DEF TakeLine
  <2>3. lines' \in Seq(Kinds)
    BY <1>1, <2>2 DEF TakeLine
  <2> QED
    BY <1>1, <2>1, <2>3 DEF TakeLine, vars, EndsConsole
<1>2. CASE Interrupt
  <2>1. IInv'
    BY <1>2, OtherInv DEF Interrupt
  <2>2. interrupts' \in 0 .. MaxInterrupts
    BY <1>2, LifecycleAssumption DEF Interrupt
  <2> QED
    BY <1>2, <2>1, <2>2, NoLines DEF Interrupt, CancelConsole, MainPhases, vars
<1>3. ASSUME NEW kind \in Kinds, Type(kind) PROVE LifeInv'
  <2>1. IInv'
    BY <1>3, OtherInv DEF Type
  <2>2. lines' \in Seq(Kinds)
    BY <1>3 DEF Type
  <2> QED
    BY <1>3, <2>1, <2>2 DEF Type, vars
<1> QED
  BY <1>1, <1>2, <1>3

LEMMA SessionKeeps == ASSUME LifeInv, NEW c \in Clients, Client(c) \/ Task(c) PROVE LifeInv'
<1>1. IInv'
  BY TaskInv DEF LifeInv
<1>2. UNCHANGED Rest /\ server' = server
  BY DEF Client, Task, Rest, Connect, Write, Leave, Session, Admit, Reject, Handle, Answer, End,
         Closed, Forgotten, Cancel
<1> QED
  BY <1>1, <1>2
  DEF IInv, LifeInv, LifeTypeOK, ConsoleEndsFirst, ServerFollowsMain, Rest

LEMMA LifeNextInv == LifeInv /\ [LifeNext]_lifeVars => LifeInv'
<1> SUFFICES ASSUME LifeInv, [LifeNext]_lifeVars PROVE LifeInv'
  OBVIOUS
<1>1. CASE \E c \in Clients : Client(c) \/ Task(c)
  BY <1>1, SessionKeeps
<1>2. CASE UNCHANGED lifeVars
  <2>1. IInv'
    BY <1>2, OtherInv DEF lifeVars, LifeInv
  <2> QED
    BY <1>2, <2>1
    DEF lifeVars, vars, IInv, LifeInv, LifeTypeOK, ConsoleEndsFirst, ServerFollowsMain
<1> QED
  BY <1>1, <1>2, MainKeeps, ConsoleKeeps DEF LifeNext

LEMMA LifeInvariance == LifeSpec => []LifeInv
  BY LifeInitInv, LifeNextInv, PTL DEF LifeSpec

-----------------------------------------------------------------------------

\* The count stays exact also when sessions are cancelled by Ctrl-C, in whatever
\* await each of them is.
THEOREM CountIsExactToTheEnd == LifeSpec => []SessionsCounted
<1>1. LifeInv => SessionsCounted
  BY DEF LifeInv, IInv
<1> QED
  BY <1>1, LifeInvariance, PTL

\* No line typed is acted on once the server is being stopped.
THEOREM ConsoleIsQuiet == LifeSpec => []ConsoleEndsFirst
<1>1. LifeInv => ConsoleEndsFirst
  BY DEF LifeInv
<1> QED
  BY <1>1, LifeInvariance, PTL

\* Main, the console and the pending cancellation keep values that fit together.
THEOREM LifeTypeCorrect == LifeSpec => []LifeTypeOK
<1>1. LifeInv => LifeTypeOK
  BY DEF LifeInv
<1> QED
  BY <1>1, LifeInvariance, PTL

LEMMA NumberedNext == LifeInv /\ AllNumbered /\ [LifeNext]_lifeVars => AllNumbered'
<1> SUFFICES ASSUME LifeInv, AllNumbered, [LifeNext]_lifeVars PROVE AllNumbered'
  OBVIOUS
<1>0. TypeOK
  BY DEF LifeInv, IInv
<1>1. ASSUME NEW c \in Clients, Connect(c) \/ Session(c) PROVE AllNumbered'
  BY <1>0, <1>1, SessionNumbered
<1>2. ASSUME NEW c \in Clients, Cancel(c) PROVE AllNumbered'
  <2>1. \A d \in Clients \ {c} : /\ phase'[d] = phase[d] /\ handled'[d] = handled[d]
                                 /\ replies'[d] = replies[d]
    BY <1>0, <1>2 DEF TypeOK, Cancel, Forgotten
  <2>2. Forgotten(c) \/ (phase'[c] = "closing" /\ UNCHANGED <<handled, replies>>)
    BY <1>0, <1>2 DEF TypeOK, Cancel
  <2> QED
    BY <1>0, <2>1, <2>2, NumberedStep
<1>3. CASE \/ Main \/ TakeLine \/ Interrupt \/ UNCHANGED lifeVars
           \/ \E kind \in Kinds : Type(kind)
           \/ \E c \in Clients : Write(c) \/ \E how \in {"closed", "reset"} : Leave(c, how)
  <2>1. UNCHANGED <<phase, handled, replies>>
    BY <1>3 DEF Main, Started, StartFails, BeginStop, CloseServer, StopDone, StopCancelled, Exit,
                Stop, Stopped, TakeLine, Interrupt, Type, Write, Leave, lifeVars, vars
  <2> QED
    BY <2>1, NumberedStays
<1> QED
  BY <1>1, <1>2, <1>3 DEF LifeNext, Client, Task, Session

\* Replies stay in order also in sessions that Ctrl-C cancels in the middle of one.
THEOREM RepliesAreInOrderToTheEnd == LifeSpec => []RepliesInOrder
<1>1. LifeInit => AllNumbered
  BY InitNumbered DEF LifeInit
<1>2. LifeInv /\ AllNumbered => RepliesInOrder
  BY NumberedMeans DEF LifeInv, IInv
<1> QED
  BY <1>1, <1>2, NumberedNext, LifeInvariance, PTL DEF LifeSpec

=============================================================================
