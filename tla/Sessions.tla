------------------------------ MODULE Sessions ------------------------------
(***************************************************************************)
(* TCP sessions: Simulator._handle_tcp_client runs once for every          *)
(* connection, as tasks of one event loop that interleave at each await,   *)
(* counts the sessions and answers requests one after the other; clients   *)
(* write ahead, close or reset at any time, and Simulator.stop waits for   *)
(* the server to close.                                                    *)
(***************************************************************************)
EXTENDS Naturals, Sequences, FiniteSets

CONSTANTS
    Clients,
    MAX_TCP_SESSIONS,
    MaxRequests        \* bound on the requests a client writes on a connection

ASSUME SessionsAssumption ==
    /\ IsFiniteSet(Clients)
    /\ MAX_TCP_SESSIONS \in Nat /\ MaxRequests \in Nat

VARIABLES
    phase,       \* where the task of a client's connection is
    peer,        \* the client's end of the connection
    sent,        \* requests the client wrote on this connection
    handled,     \* requests the session dispatched
    replies,     \* the requests answered, in order
    sessions,    \* Simulator._tcp_sessions
    server       \* "up", "stopping" in wait_closed, or "stopped"

vars == <<phase, peer, sent, handled, replies, sessions, server>>

\* "away": no connection; "accepted": the task has not run yet; "reading": in
\* reader.read; "answering": in the delay of the reply or in drain; "closing":
\* past the count, in writer.wait_closed.
Phases == {"away", "accepted", "reading", "answering", "closing"}
Active == {c \in Clients : phase[c] \in {"reading", "answering"}}

Init ==
    /\ phase = [c \in Clients |-> "away"]
    /\ peer = [c \in Clients |-> "none"]
    /\ sent = [c \in Clients |-> 0]
    /\ handled = [c \in Clients |-> 0]
    /\ replies = [c \in Clients |-> <<>>]
    /\ sessions = 0
    /\ server = "up"

-----------------------------------------------------------------------------
(* Clients                                                                   *)

Connect(c) ==
    /\ server = "up"
    /\ phase[c] = "away"
    /\ phase' = [phase EXCEPT ![c] = "accepted"]
    /\ peer' = [peer EXCEPT ![c] = "open"]
    /\ UNCHANGED <<sent, handled, replies, sessions, server>>

Write(c) ==
    /\ peer[c] = "open"
    /\ sent[c] < MaxRequests
    /\ sent' = [sent EXCEPT ![c] = @ + 1]
    /\ UNCHANGED <<phase, peer, handled, replies, sessions, server>>

\* A client that closes leaves what it wrote to be read; a reset may take it away.
Leave(c, how) ==
    /\ peer[c] = "open"
    /\ peer' = [peer EXCEPT ![c] = how]
    /\ UNCHANGED <<phase, sent, handled, replies, sessions, server>>

-----------------------------------------------------------------------------
(* _handle_tcp_client                                                        *)

\* Mutant: the last session is admitted twice.
RoomForOneMore == sessions <= MAX_TCP_SESSIONS

Room == sessions < MAX_TCP_SESSIONS

Admit(c) ==
    /\ phase[c] = "accepted"
    /\ Room
    /\ phase' = [phase EXCEPT ![c] = "reading"]
    /\ sessions' = sessions + 1
    /\ UNCHANGED <<peer, sent, handled, replies, server>>

\* The connection over the limit is closed before the try block.
Reject(c) ==
    /\ phase[c] = "accepted"
    /\ ~Room
    /\ phase' = [phase EXCEPT ![c] = "closing"]
    /\ UNCHANGED <<peer, sent, handled, replies, sessions, server>>

\* Mutant: a request is read while the reply to the last one is delayed.
Pipelined(c) == phase[c] \in {"reading", "answering"} /\ handled[c] < sent[c]

\* Mutant: a request is taken only when bytes of another one follow.
Lookahead(c) == phase[c] = "reading" /\ handled[c] + 1 < sent[c]

\* Mutant: a request is dispatched before it has arrived.
ReadyEarly(c) == phase[c] = "reading" /\ handled[c] <= sent[c]

\* The next request of the stream is complete.
Ready(c) == phase[c] = "reading" /\ handled[c] < sent[c]

\* After a reset the requests of the last chunk are still dispatched.
Handle(c) ==
    /\ Ready(c)
    /\ handled' = [handled EXCEPT ![c] = @ + 1]
    /\ phase' = [phase EXCEPT ![c] = "answering"]
    /\ UNCHANGED <<peer, sent, replies, sessions, server>>

\* The delay is over, the reply is written and drained; a write to a client that
\* left may go unnoticed.
Answer(c) ==
    /\ phase[c] = "answering"
    /\ replies' = [replies EXCEPT ![c] = Append(@, handled[c])]
    /\ phase' = [phase EXCEPT ![c] = "reading"]
    /\ UNCHANGED <<peer, sent, handled, sessions, server>>

\* Mutant: a reset is not noticed while the session waits for a request.
BrokenInAnswer(c) == phase[c] = "answering" /\ peer[c] \in {"closed", "reset"}

\* The connection is found broken: by read after a reset, by drain also when the
\* client has closed.
Broken(c) ==
    \/ phase[c] = "reading" /\ peer[c] = "reset"
    \/ phase[c] = "answering" /\ peer[c] \in {"closed", "reset"}

\* The finally block, after the end of the stream or an error.
End(c) ==
    /\ \/ phase[c] = "reading" /\ handled[c] = sent[c] /\ peer[c] = "closed"
       \/ Broken(c)
    /\ sessions' = IF sessions = 0 THEN 0 ELSE sessions - 1
    /\ phase' = [phase EXCEPT ![c] = "closing"]
    /\ UNCHANGED <<peer, sent, handled, replies, server>>

\* The connection is gone, with what was said on it.
Forgotten(c) ==
    /\ phase' = [phase EXCEPT ![c] = "away"]
    /\ peer' = [peer EXCEPT ![c] = "none"]
    /\ sent' = [sent EXCEPT ![c] = 0]
    /\ handled' = [handled EXCEPT ![c] = 0]
    /\ replies' = [replies EXCEPT ![c] = <<>>]

Closed(c) ==
    /\ phase[c] = "closing"
    /\ Forgotten(c)
    /\ UNCHANGED <<sessions, server>>

Session(c) == Admit(c) \/ Reject(c) \/ Handle(c) \/ Answer(c) \/ End(c) \/ Closed(c)

-----------------------------------------------------------------------------
(* Simulator.stop                                                            *)

\* The loops are cancelled and the listening socket is closed; connections and
\* their tasks go on.
Stop ==
    /\ server = "up"
    /\ server' = "stopping"
    /\ UNCHANGED <<phase, peer, sent, handled, replies, sessions>>

\* The transport of a connection is lost to the server once the session has closed it,
\* or it was found broken: the task may still have its finally block to run.
Detached(c) == phase[c] \in {"away", "closing"} \/ Broken(c)

\* Server.wait_closed returns when no transport is left.
Stopped ==
    /\ server = "stopping"
    /\ \A c \in Clients : Detached(c)
    /\ server' = "stopped"
    /\ UNCHANGED <<phase, peer, sent, handled, replies, sessions>>

Next ==
    \/ \E c \in Clients : \/ Connect(c)
                          \/ Write(c)
                          \/ \E how \in {"closed", "reset"} : Leave(c, how)
                          \/ Session(c)
    \/ Stop
    \/ Stopped

Spec == Init /\ [][Next]_vars

-----------------------------------------------------------------------------
(* Properties                                                                *)

TypeOK ==
    /\ phase \in [Clients -> Phases]
    /\ peer \in [Clients -> {"none", "open", "closed", "reset"}]
    /\ sent \in [Clients -> 0..MaxRequests]
    /\ handled \in [Clients -> 0..MaxRequests]
    /\ replies \in [Clients -> Seq(Nat)]
    /\ sessions \in Nat
    /\ server \in {"up", "stopping", "stopped"}

\* The count is the number of sessions being served, through every order of
\* connects, refusals, closes and resets, and never more than the limit.
SessionsCounted == sessions = Cardinality(Active) /\ sessions <= MAX_TCP_SESSIONS

\* The replies of a session come in the order of its requests, none left out,
\* although the client does not wait and replies are delayed.
RepliesInOrder == \A c \in Clients :
    /\ replies[c] = [n \in 1..Len(replies[c]) |-> n]
    /\ handled[c] - Len(replies[c]) <= 1

\* A connection that the client has left, by close or reset and at any moment of
\* the session, gives its slot back.
SlotReturned == \A c \in Clients : (peer[c] \in {"closed", "reset"}) ~> (phase[c] = "away")

\* A client that stays is answered every request, unless it was refused.
EveryRequestAnswered ==
    \A c \in Clients, n \in 1..MaxRequests :
        (peer[c] = "open" /\ sent[c] >= n) ~> (peer[c] # "open" \/ Len(replies[c]) >= n)

\* stop ends once every client has left, whatever its sessions were doing.  It does
\* not end before: nobody closes the session of a client that stays.
StopEnds ==
    (server = "stopping" /\ \A c \in Clients : peer[c] # "open") ~> (server = "stopped")

=============================================================================
