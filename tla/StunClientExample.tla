------------------------- MODULE StunClientExample -------------------------
(***************************************************************************)
(* examples/stun_client/index.js: request() is called every two seconds,   *)
(* and the calls that overlap share one ClientUDP.  Each call creates a    *)
(* transaction, opens a socket and takes whatever next() returns, for its  *)
(* own transaction or another.                                             *)
(*                                                                         *)
(* JavaScript runs one thing at a time.  active is the call whose loop is  *)
(* running; it runs until it awaits receive() or returns.  A call that is  *)
(* "ready" has its promise resolved and continues before any other event   *)
(* but a datagram that came with the one that resolved it.                 *)
(* The calls reach the client through the Node.js binding, which turns the *)
(* duration of Sleep into whole milliseconds.                              *)
(***************************************************************************)
EXTENDS StunClientUDP

CONSTANTS Calls,    \* number of calls of request()
          Ms,       \* ticks per millisecond
          AlarmLate \* ticks by which a timer of Node.js may be late

ASSUME ExampleAssumption ==
    /\ Calls \in Nat /\ Ms \in Nat \ {0} /\ AlarmLate \in Nat
    /\ Handle \subseteq Tid
    /\ FALSE \in Authenticated

VARIABLES calls,    \* [state, q, listeners, alarm, rx] per call
          active,   \* the call whose loop is running, or NoCall
          net       \* answers on their way: [to, msg]

exampleVars == <<vars, calls, active, net>>

\* Calls are numbered in the order in which their names are resolved.
Call == 1 .. Calls

NoCall == 0

\* What receive() may resolve to besides a datagram.
Null == [none |-> "null"]
Undefined == [none |-> "undefined"]

\* A call that has no socket: not yet, or not any more.
NewCall(s) == [state |-> s, q |-> <<>>, listeners |-> 0, alarm |-> 0, rx |-> Null]

ExampleInit ==
    /\ Init
    /\ calls = [i \in Call |-> NewCall("resolving")]
    /\ active = NoCall
    /\ net = {}

\* The event loop may take the next event.
Quiet == active = NoCall /\ \A i \in Call : calls[i].state # "ready"

SetState(i, s) == [calls EXCEPT ![i].state = s]

-----------------------------------------------------------------------------
\* The Node.js binding: the methods of ClientUDP, under the present time.

\* request_from_craftnapi: a request that has no "auth" is not authenticated.
NodeCreate(p) == Create(next_handle, p, FALSE)

NodeNext == NextCall

\* The result of response() is dropped.
NodeResponse(m) == Response(m)

\* sleep_to_craftnapi: rounded up to whole milliseconds.
SleepMs(d) == d \div Ms + (IF d % Ms = 0 THEN 0 ELSE 1)

\* client_udp_effect_to_craftnapi: what JavaScript sees of an effect.  Only a
\* failure says whose transaction it is.
NodeEffect(e) ==
    CASE e.type = "SendData" -> [type |-> "send_data", message |-> e.hnd]
      [] e.type = "TransactionOk" -> [type |-> "transaction_ok"]
      [] e.type = "TransactionFailed" -> [type |-> "transaction_fail", handle |-> e.hnd]
      [] e.type = "Sleep" -> [type |-> "sleep", timeout_ms |-> SleepMs(e.dur)]
      [] e.type = "Idle" -> [type |-> "idle"]

-----------------------------------------------------------------------------
Resolving(i) ==
    /\ Quiet
    /\ calls[i].state = "resolving"
    /\ \A j \in 1 .. i - 1 : calls[j].state # "resolving"

\* The name was resolved: create() and the first round of the loop, or an error.
Resolved(i, p) ==
    /\ Resolving(i)
    /\ NodeCreate(p)
    /\ calls' = SetState(i, "running")
    /\ active' = i
    /\ UNCHANGED net

NotResolved(i) ==
    /\ Resolving(i)
    /\ calls' = SetState(i, "done")
    /\ UNCHANGED <<vars, active, net>>

\* receive(): a queued datagram at once, or the first to arrive before the alarm.
\* setTimeout() waits for one millisecond at least.
Receive(i, timeout) ==
    IF calls[i].q # <<>>
    THEN [calls EXCEPT ![i].state = "ready", ![i].rx = Head(calls[i].q),
                       ![i].q = Tail(@)]
    ELSE [calls EXCEPT ![i].state = "waiting", ![i].listeners = @ + 1,
                       ![i].alarm = now + Ms * (IF timeout > 1 THEN timeout ELSE 1)]

\* Mutants of Returns: idle is not handled, or a failed transaction ends the call, too.
ReturnsNotIdle(e) == e.type = "transaction_ok"

ReturnsOnFailure(e) == e.type \in {"transaction_ok", "transaction_fail", "idle"}

\* The effects on which request() closes its socket and returns.
Returns(e) == e.type \in {"transaction_ok", "idle"}

\* The answers the server may give to the request of transaction h sent by call i.
Answers(h, i) == {[to |-> i, msg |-> m] : m \in {m \in Datagram : m.tid = h}}

\* Within next(): its loop has not come to an effect yet.
LoopInNext(i) ==
    /\ active = i
    /\ NodeNext
    /\ busy'
    /\ UNCHANGED <<calls, active, net>>

\* A round of the loop, on the effect next() returns.
Loop(i) ==
    /\ active = i
    /\ NodeNext
    /\ ~busy'
    /\ LET e == NodeEffect(returned')
       IN  \/ /\ Returns(e)
              /\ calls' = [calls EXCEPT ![i] = NewCall("done")]
              /\ active' = NoCall
              /\ net' = {d \in net : d.to # i}
           \/ /\ e.type = "transaction_fail" /\ ~Returns(e)
              /\ UNCHANGED <<calls, active, net>>
           \/ /\ e.type = "sleep"
              /\ calls' = Receive(i, e.timeout_ms)
              /\ active' = NoCall
              /\ UNCHANGED net
           \/ /\ e.type = "send_data"
              /\ net' = net \cup Answers(e.message, i)
              /\ UNCHANGED <<calls, active>>
           \* bytes that were freed before they are sent (see StunBinding) may
           \* no longer be the request
           \/ /\ e.type = "send_data" /\ e.message \notin DOMAIN tmap
              /\ UNCHANGED <<calls, active, net>>

\* The call continues behind its await.
Continue(i) ==
    /\ active = NoCall /\ calls[i].state = "ready"
    /\ IF calls[i].rx \in {Null, Undefined} THEN UNCHANGED vars
       ELSE NodeResponse(calls[i].rx)
    /\ calls' = [calls EXCEPT ![i].state = "running", ![i].rx = Null]
    /\ active' = i
    /\ UNCHANGED net

-----------------------------------------------------------------------------
\* Events.

\* A datagram for the socket of i is queued, and every listener of the socket
\* takes one from the queue.  The last one was registered for the receive() that
\* waits; when that is already resolved, the datagram stays in the queue.  An
\* answer is lost when this never happens.
Arrive(i, d) ==
    /\ active = NoCall
    /\ d \in net /\ d.to = i
    /\ net' = net \ {d}
    /\ \/ /\ calls[i].state = "waiting"
          /\ calls' = [calls EXCEPT ![i].state = "ready", ![i].listeners = 0, ![i].alarm = 0,
                ![i].rx = IF calls[i].listeners = 1 THEN d.msg ELSE Undefined]
       \/ /\ calls[i].state = "ready"
          /\ calls' = [calls EXCEPT ![i].q = Append(@, d.msg)]
    /\ UNCHANGED <<vars, active>>

\* Mutant of Listeners: the listener outlives its receive().
ListenersKept(n) == n

\* The listeners left when the alarm has removed its own.
Listeners(n) == n - 1

Alarm(i) ==
    /\ Quiet /\ calls[i].state = "waiting"
    /\ now >= calls[i].alarm
    /\ calls' = [calls EXCEPT ![i].state = "ready", ![i].alarm = 0,
                              ![i].listeners = Listeners(@)]
    /\ UNCHANGED <<vars, active, net>>

PassTime ==
    /\ Quiet
    /\ \A i \in Call :
          calls[i].state = "waiting" => now < calls[i].alarm + AlarmLate
    /\ Tick
    /\ UNCHANGED <<calls, active, net>>

ExampleNext ==
    \/ \E i \in Call, p \in Path : Resolved(i, p)
    \/ \E i \in Call : NotResolved(i)
    \/ \E i \in Call : LoopInNext(i)
    \/ \E i \in Call : Loop(i)
    \/ \E i \in Call : Continue(i)
    \/ \E i \in Call : \E d \in net : Arrive(i, d)
    \/ \E i \in Call : Alarm(i)
    \/ PassTime

\* JavaScript that can run runs, timers fire and time passes.  Neither the name
\* server nor the network need answer.
ExampleSpec ==
    /\ ExampleInit /\ [][ExampleNext]_exampleVars
    /\ WF_exampleVars(\E i \in Call : LoopInNext(i) \/ Loop(i))
    /\ WF_exampleVars(\E i \in Call : Continue(i))
    /\ \A i \in Call : WF_exampleVars(Alarm(i))
    /\ WF_exampleVars(PassTime)

-----------------------------------------------------------------------------
(* Properties.                                                             *)

Underway(i) == calls[i].state \in {"running", "waiting", "ready"}

\* Calls take each other's effects, and one may return with the result of
\* another's transaction; but there are never fewer of them under way than
\* transactions, so the last one does not leave before all have ended.
NoOrphan == Cardinality(DOMAIN tmap) <= Cardinality({i \in Call : Underway(i)})

\* No datagram is lost between the socket and response(): a receive() that is
\* resolved by a message has the message, whatever alarms went before it.
MessageDelivered == \A i \in Call : calls[i].rx # Undefined

\* Every call of request() returns, whatever is lost: no round of sleeping and
\* waking goes on without time passing.
EveryCallReturns == \A i \in Call : Underway(i) ~> calls[i].state = "done"
=============================================================================
