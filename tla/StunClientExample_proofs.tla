---------------------- MODULE StunClientExample_proofs ----------------------
(***************************************************************************)
(* Proofs about examples/stun_client/index.js: overlapping calls of        *)
(* request() use the client as StunClientUDP allows, no datagram is lost   *)
(* between the socket and response(), and no transaction is left without a *)
(* call.                                                                   *)
(***************************************************************************)
EXTENDS StunClientExample, StunClientOutcomes_proofs

USE SMTT(100), ZenonT(100)

-----------------------------------------------------------------------------
(* The calls and their sockets.  A receive() that waits has one listener,  *)
(* a call that does not wait has none.                                     *)

CallSet ==
    [state : {"resolving", "running", "waiting", "ready", "done"},
     q : Seq(Datagram), listeners : Nat, alarm : Int, rx : Datagram \cup {Null}]

Listening(c) == c.listeners = IF c.state = "waiting" THEN 1 ELSE 0

CallsOK ==
    /\ calls \in [Call -> CallSet]
    /\ \A i \in Call : Listening(calls[i])
    /\ active \in Call \cup {NoCall}
    /\ active # NoCall => calls[active].state = "running"
    /\ net \subseteq [to : Call, msg : Datagram]

\* What JavaScript sees of an effect tells its type.
LEMMA NodeEffectFacts ==
    ASSUME NEW e
    PROVE  /\ e.type = "SendData" => NodeEffect(e).type = "send_data"
           /\ e.type = "TransactionOk" => NodeEffect(e).type = "transaction_ok"
           /\ e.type = "TransactionFailed" => NodeEffect(e).type = "transaction_fail"
           /\ e.type = "Sleep" => NodeEffect(e) = [type |-> "sleep", timeout_ms |-> SleepMs(e.dur)]
           /\ e.type = "Idle" => NodeEffect(e).type = "idle"
BY DEF NodeEffect

\* The alarm of a receive() is a time.
LEMMA AlarmType ==
    ASSUME NEW d \in Int, NEW at \in Nat
    PROVE  at + Ms * (IF SleepMs(d) > 1 THEN SleepMs(d) ELSE 1) \in Int
<1> DEFINE t == SleepMs(d)
           m == IF t > 1 THEN t ELSE 1
<1>1. m \in Int
  BY ExampleAssumption DEF SleepMs
<1> HIDE DEF m
<1> QED BY <1>1, ExampleAssumption DEF m

\* The members of a call may be set one by one.
LEMMA CallType ==
    ASSUME NEW r \in CallSet, NEW s \in {"waiting", "ready"}, NEW n \in Nat, NEW a \in Int,
           NEW x \in Datagram \cup {Null}
    PROVE  /\ [r EXCEPT !.state = s, !.listeners = n, !.alarm = a] \in CallSet
           /\ [r EXCEPT !.state = s, !.listeners = n, !.alarm = a, !.rx = x] \in CallSet
BY ZenonT(100) DEF CallSet

\* A step of one call.
LEMMA OneCall ==
    ASSUME CallsOK, NEW i \in Call, NEW c \in CallSet, Listening(c),
           calls' = [calls EXCEPT ![i] = c]
    PROVE  /\ calls' \in [Call -> CallSet]
           /\ \A j \in Call : Listening(calls'[j])
           /\ calls'[i] = c
           /\ \A j \in Call : j # i => calls'[j] = calls[j]
BY DEF CallsOK

\* What each step does to its call.
LEMMA ReceiveStep ==
    ASSUME CallsOK, NEW i \in Call, NEW d \in Int, calls[i].state = "running", now \in Nat
    PROVE  \E c \in CallSet : /\ Listening(c)
                              /\ c.state \in {"ready", "waiting"}
                              /\ Receive(i, SleepMs(d)) = [calls EXCEPT ![i] = c]
<1>1. calls[i] \in CallSet /\ calls[i].listeners = 0 /\ calls \in [Call -> CallSet]
  BY DEF CallsOK, Listening
<1>2. CASE calls[i].q # <<>>
  <2> DEFINE c == [calls[i] EXCEPT !.state = "ready", !.rx = Head(calls[i].q),
                                   !.q = Tail(calls[i].q)]
  <2>1. Head(calls[i].q) \in Datagram /\ Tail(calls[i].q) \in Seq(Datagram)
    BY <1>1, <1>2 DEF CallSet
  <2>2. c \in CallSet /\ c.state = "ready" /\ c.listeners = 0
    BY <1>1, <2>1, ZenonT(100) DEF CallSet
  <2>3. Receive(i, SleepMs(d)) = [calls EXCEPT ![i] = c]
    BY <1>1, <1>2, ZenonT(100) DEF Receive, CallSet
  <2> HIDE DEF c
  <2> QED BY <2>2, <2>3, ZenonT(100) DEF Listening
<1>3. CASE calls[i].q = <<>>
  <2> DEFINE a == now + Ms * (IF SleepMs(d) > 1 THEN SleepMs(d) ELSE 1)
             c == [calls[i] EXCEPT !.state = "waiting", !.listeners = 1, !.alarm = a]
  <2>1. a \in Int
    BY AlarmType
  <2>2. Receive(i, SleepMs(d)) = [calls EXCEPT ![i].state = "waiting",
                                               ![i].listeners = 1, ![i].alarm = a]
    <3>1. calls[i].listeners + 1 = 1
      BY <1>1
    <3>2. Receive(i, SleepMs(d)) =
              [calls EXCEPT ![i].state = "waiting",
                            ![i].listeners = calls[i].listeners + 1, ![i].alarm = a]
      BY <1>1, <1>3 DEF Receive, CallSet
    <3> QED BY <3>1, <3>2, ZenonT(100)
  <2> HIDE DEF a
  <2>3. c \in CallSet /\ c.state = "waiting" /\ c.listeners = 1
    BY <1>1, <2>1, ZenonT(100) DEF CallSet
  <2>4. Receive(i, SleepMs(d)) = [calls EXCEPT ![i] = c]
    BY <1>1, <2>2, ZenonT(100) DEF CallSet
  <2> HIDE DEF c
  <2> QED BY <2>3, <2>4, ZenonT(100) DEF Listening
<1> QED BY <1>2, <1>3

\* next() within a call: a step of its loop, or its return.
LEMMA LoopStep ==
    ASSUME SafetyInv, SafetyInv', CallsOK, NEW i \in Call, Loop(i)
    PROVE  /\ NextEffect \/ NextWait
           /\ calls[i].state = "running" /\ active = i
           /\ \/ /\ returned'.type \in {"TransactionOk", "Idle"}
                 /\ calls' = [calls EXCEPT ![i] = NewCall("done")]
                 /\ active' = NoCall
                 /\ net' \subseteq net
              \/ /\ returned'.type \in {"TransactionFailed", "SendData"}
                 /\ UNCHANGED <<calls, active>>
                 /\ net' \subseteq net \cup [to : Call, msg : Datagram]
              \/ /\ returned'.type = "Sleep"
                 /\ calls' = Receive(i, SleepMs(returned'.dur))
                 /\ active' = NoCall
                 /\ net' = net
<1> DEFINE e == NodeEffect(returned')
<1>1. NextEffect \/ NextWait
  BY ZenonT(100) DEF Loop, NodeNext, NextCall, NextPop
<1>2. calls[i].state = "running" /\ active = i
  BY DEF Loop, CallsOK, Call, NoCall
<1>3. returned'.type \in {"SendData", "TransactionOk", "TransactionFailed", "Sleep", "Idle"}
  BY DEF SafetyInv, TypeInv, TypeOK
<1>4. /\ returned'.type = "SendData" => e.type = "send_data"
      /\ returned'.type = "TransactionOk" => e.type = "transaction_ok"
      /\ returned'.type = "TransactionFailed" => e.type = "transaction_fail"
      /\ returned'.type = "Sleep" => e.type = "sleep" /\ e.timeout_ms = SleepMs(returned'.dur)
      /\ returned'.type = "Idle" => e.type = "idle"
  BY NodeEffectFacts
<1> HIDE DEF e
<1>5. Answers(e.message, i) \subseteq [to : Call, msg : Datagram]
  BY DEF Answers
<1>6. \/ /\ Returns(e)
         /\ calls' = [calls EXCEPT ![i] = NewCall("done")]
         /\ active' = NoCall
         /\ net' = {d \in net : d.to # i}
      \/ /\ e.type = "transaction_fail"
         /\ UNCHANGED <<calls, active, net>>
      \/ /\ e.type = "sleep"
         /\ calls' = Receive(i, e.timeout_ms)
         /\ active' = NoCall
         /\ net' = net
      \/ /\ e.type = "send_data"
         /\ net' = net \cup Answers(e.message, i) \/ net' = net
         /\ UNCHANGED <<calls, active>>
  BY DEF Loop, e
<1> QED BY <1>1, <1>2, <1>3, <1>4, <1>5, <1>6 DEF Returns

\* The other steps.
LEMMA ArriveStep ==
    ASSUME CallsOK, NEW i \in Call, NEW d \in net, Arrive(i, d)
    PROVE  \E c \in CallSet : /\ Listening(c) /\ c.state = "ready"
                              /\ calls[i].state \in {"waiting", "ready"}
                              /\ calls' = [calls EXCEPT ![i] = c]
<1>1. /\ calls[i] \in CallSet /\ calls \in [Call -> CallSet] /\ Listening(calls[i])
      /\ d.msg \in Datagram
  BY DEF CallsOK
<1>2. CASE calls[i].state = "waiting"
  <2>0. PICK z \in Nat : z = 0
    OBVIOUS
  <2> DEFINE c == [calls[i] EXCEPT !.state = "ready", !.listeners = z, !.alarm = z,
                                   !.rx = d.msg]
  <2>1. calls[i].listeners = 1
    BY <1>1, <1>2 DEF Listening
  <2>2. calls' = [calls EXCEPT ![i].state = "ready", ![i].listeners = z, ![i].alarm = z,
                               ![i].rx = d.msg]
    BY <1>2, <2>0, <2>1 DEF Arrive
  <2>3. c \in CallSet /\ c.state = "ready" /\ c.listeners = z
    <3>1. z \in Nat /\ z \in Int
      OBVIOUS
    <3>2. c.state = "ready" /\ c.listeners = z
      BY <1>1 DEF CallSet
    <3>3. c \in CallSet
      BY <1>1, <3>1, CallType, ZenonT(100)
    <3> QED BY <3>2, <3>3
  <2>4. calls' = [calls EXCEPT ![i] = c]
    BY <1>1, <2>2, ZenonT(100) DEF CallSet
  <2> HIDE DEF c
  <2> QED BY <1>2, <2>0, <2>3, <2>4, ZenonT(100) DEF Listening
<1>3. CASE calls[i].state = "ready"
  <2> DEFINE w == Append(calls[i].q, d.msg)
             c == [calls[i] EXCEPT !.q = w]
  <2>1. w \in Seq(Datagram) /\ calls[i].listeners = 0
    BY <1>1, <1>3 DEF CallSet, Listening
  <2>2. calls' = [calls EXCEPT ![i].q = w]
    BY <1>3 DEF Arrive
  <2> HIDE DEF w
  <2>3. c \in CallSet /\ c.state = "ready" /\ c.listeners = 0
    BY <1>1, <1>3, <2>1, ZenonT(100) DEF CallSet
  <2>4. calls' = [calls EXCEPT ![i] = c]
    BY <1>1, <2>2 DEF CallSet
  <2> HIDE DEF c
  <2> QED BY <1>3, <2>3, <2>4, ZenonT(100) DEF Listening
<1> QED BY <1>2, <1>3 DEF Arrive

\* What a call of the example becomes when only its state changes.
LEMMA StateStep ==
    ASSUME CallsOK, NEW i \in Call
    PROVE  /\ \A s \in {"running", "done"} :
                 calls[i].state # "waiting" /\ calls' = SetState(i, s) =>
                    \E c \in CallSet : /\ Listening(c) /\ c.state = s
                                       /\ calls' = [calls EXCEPT ![i] = c]
           /\ Continue(i) =>
                 \E c \in CallSet : /\ Listening(c) /\ c.state = "running"
                                    /\ calls' = [calls EXCEPT ![i] = c]
           /\ Alarm(i) =>
                 \E c \in CallSet : /\ Listening(c) /\ c.state = "ready"
                                    /\ calls' = [calls EXCEPT ![i] = c]
           /\ NewCall("done") \in CallSet /\ Listening(NewCall("done"))
           /\ NewCall("done").state = "done"
<1>1. calls[i] \in CallSet /\ calls \in [Call -> CallSet] /\ Listening(calls[i])
  BY DEF CallsOK
<1>2. ASSUME NEW s \in {"running", "done"}, calls[i].state # "waiting",
             calls' = SetState(i, s)
      PROVE  \E c \in CallSet : /\ Listening(c) /\ c.state = s
                                /\ calls' = [calls EXCEPT ![i] = c]
  <2> DEFINE c == [calls[i] EXCEPT !.state = s]
  <2>1. c \in CallSet /\ c.state = s /\ c.listeners = 0
    BY <1>1, <1>2, ZenonT(100) DEF CallSet, Listening
  <2>2. calls' = [calls EXCEPT ![i] = c]
    BY <1>1, <1>2 DEF CallSet, SetState
  <2> HIDE DEF c
  <2> QED BY <1>2, <2>1, <2>2, ZenonT(100) DEF Listening
<1>3. ASSUME Continue(i)
      PROVE  \E c \in CallSet : /\ Listening(c) /\ c.state = "running"
                                /\ calls' = [calls EXCEPT ![i] = c]
  <2> DEFINE c == [calls[i] EXCEPT !.state = "running", !.rx = Null]
  <2>1. calls[i].listeners = 0
    BY <1>1, <1>3 DEF Continue, Listening
  <2>2. c \in CallSet /\ c.state = "running" /\ c.listeners = 0
    BY <1>1, <2>1, ZenonT(100) DEF CallSet
  <2>3. calls' = [calls EXCEPT ![i] = c]
    BY <1>1, <1>3, ZenonT(100) DEF CallSet, Continue
  <2> HIDE DEF c
  <2> QED BY <2>2, <2>3, ZenonT(100) DEF Listening
<1>4. ASSUME Alarm(i)
      PROVE  \E c \in CallSet : /\ Listening(c) /\ c.state = "ready"
                                /\ calls' = [calls EXCEPT ![i] = c]
  <2>0. PICK z \in Nat : z = 0
    OBVIOUS
  <2> DEFINE c == [calls[i] EXCEPT !.state = "ready", !.listeners = z, !.alarm = z]
  <2>1. calls[i].listeners = 1
    BY <1>1, <1>4 DEF Alarm, Listening
  <2>2. Listeners(calls[i].listeners) = z
    BY <2>0, <2>1 DEF Listeners
  <2>3. c \in CallSet /\ c.state = "ready" /\ c.listeners = z
    <3>1. z \in Nat /\ z \in Int
      OBVIOUS
    <3>2. c.state = "ready" /\ c.listeners = z
      BY <1>1 DEF CallSet
    <3>3. c \in CallSet
      BY <1>1, <3>1, CallType, ZenonT(100)
    <3> QED BY <3>2, <3>3
  <2>4. calls' = [calls EXCEPT ![i].state = "ready",
                               ![i].listeners = Listeners(calls[i].listeners), ![i].alarm = z]
    BY <1>1, <1>4, <2>0, ZenonT(100) DEF Alarm, CallSet
  <2>5. calls' = [calls EXCEPT ![i] = c]
    BY <1>1, <2>2, <2>4, ZenonT(100) DEF CallSet
  <2> HIDE DEF c
  <2> QED BY <2>0, <2>3, <2>5, ZenonT(100) DEF Listening
<1>5. /\ NewCall("done") \in CallSet /\ Listening(NewCall("done"))
      /\ NewCall("done").state = "done"
  BY DEF NewCall, CallSet, Listening
<1> QED BY <1>2, <1>3, <1>4, <1>5

-----------------------------------------------------------------------------
(* Each step of the example is a step of the client or leaves it alone.    *)

\* A datagram is neither of the values that stand for the absence of one.
LEMMA DatagramIsNone ==
    ASSUME NEW m \in Datagram PROVE m # Null /\ m # Undefined
<1>1. m \in DatagramSet
  BY ClientAssumption
<1>2. "tid" \in DOMAIN m
  BY <1>1 DEF DatagramSet
<1>3. DOMAIN Null = {"none"} /\ DOMAIN Undefined = {"none"}
  BY DEF Null, Undefined
<1> QED BY <1>2, <1>3

\* Action by action: the event loop reaches the client only through its
\* methods.
LEMMA ExampleStep ==
    ASSUME SafetyInv, CallsOK, [ExampleNext]_exampleVars
    PROVE  [Next]_vars
<1>1. ASSUME NEW i \in Call, NEW p \in Path, Resolved(i, p) PROVE Next
  <2>1. Create(next_handle, p, FALSE)
    BY <1>1, ZenonT(100) DEF Resolved, NodeCreate
  <2>2. next_handle \in Tid
    BY <2>1, AllocatesNext, ExampleAssumption DEF Create, SafetyInv
  <2> QED BY <2>1, <2>2, ExampleAssumption, ZenonT(100) DEF Next
<1>2. ASSUME NEW i \in Call, LoopInNext(i) \/ Loop(i) PROVE Next
  BY <1>2 DEF LoopInNext, Loop, NodeNext, Next
<1>3. ASSUME NEW i \in Call, Continue(i) PROVE [Next]_vars
  <2>1. calls[i].rx \in Datagram \cup {Null}
    BY DEF CallsOK, CallSet
  <2> QED BY <1>3, <2>1 DEF Continue, NodeResponse, Next
<1>4. CASE \/ \E i \in Call : NotResolved(i) \/ Alarm(i)
           \/ \E i \in Call : \E d \in net : Arrive(i, d)
           \/ UNCHANGED exampleVars
  BY <1>4, ZenonT(100) DEF NotResolved, Alarm, Arrive, exampleVars
<1>5. CASE PassTime
  BY <1>5 DEF PassTime, Next
<1> QED BY <1>1, <1>2, <1>3, <1>4, <1>5 DEF ExampleNext

\* The calls keep their form.
LEMMA CallsStep ==
    ASSUME SafetyInv, SafetyInv', CallsOK, [ExampleNext]_exampleVars
    PROVE  CallsOK'
<1>1. ASSUME NEW i \in Call, NEW c \in CallSet, Listening(c),
             calls' = [calls EXCEPT ![i] = c],
             \/ active' = NoCall
             \/ active' = i /\ c.state = "running"
             \/ active' = active /\ active # i,
             net' \subseteq net \cup [to : Call, msg : Datagram]
      PROVE  CallsOK'
  <2>1. /\ calls' \in [Call -> CallSet]
        /\ \A j \in Call : Listening(calls'[j])
        /\ calls'[i] = c
        /\ \A j \in Call : j # i => calls'[j] = calls[j]
    BY <1>1, OneCall, ZenonT(100)
  <2>2. active' \in Call \cup {NoCall} /\ net' \subseteq [to : Call, msg : Datagram]
    BY <1>1 DEF CallsOK
  <2>3. active' # NoCall => calls'[active'].state = "running"
    BY <1>1, <2>1 DEF CallsOK
  <2> QED BY <2>1, <2>2, <2>3 DEF CallsOK, Listening, CallSet, Null, Call, NoCall
<1>2. ASSUME NEW i \in Call, NEW p \in Path, Resolved(i, p) PROVE CallsOK'
  <2>1. calls[i].state # "waiting" /\ calls' = SetState(i, "running")
    BY <1>2 DEF Resolved, Resolving
  <2>2. \E c \in CallSet : /\ Listening(c) /\ c.state = "running"
                           /\ calls' = [calls EXCEPT ![i] = c]
    BY <2>1, StateStep
  <2> QED BY <1>1, <1>2, <2>2 DEF Resolved
<1>3. ASSUME NEW i \in Call, NotResolved(i) PROVE CallsOK'
  <2>1. /\ calls[i].state # "waiting" /\ calls' = SetState(i, "done")
        /\ active' = active /\ active # i /\ net' = net
    BY <1>3 DEF NotResolved, Resolving, Quiet, Call, NoCall
  <2>2. \E c \in CallSet : Listening(c) /\ calls' = [calls EXCEPT ![i] = c]
    BY <2>1, StateStep
  <2> QED BY <1>1, <2>1, <2>2
<1>4. ASSUME NEW i \in Call, Loop(i) PROVE CallsOK'
  <2>0. now \in Nat
    BY DEF SafetyInv, TypeInv, TypeOK
  <2>1. calls[i].state = "running" /\ active = i /\ now \in Nat
    BY <1>4, <2>0, LoopStep, ZenonT(100)
  <2>2. CASE /\ calls' = [calls EXCEPT ![i] = NewCall("done")]
             /\ active' = NoCall /\ net' \subseteq net
    BY <1>1, <2>2, StateStep, ZenonT(100)
  <2>3. CASE /\ UNCHANGED <<calls, active>>
             /\ net' \subseteq net \cup [to : Call, msg : Datagram]
    BY <2>3 DEF CallsOK, Listening, CallSet, Null, Call, NoCall
  <2>4. CASE /\ returned'.type = "Sleep"
             /\ calls' = Receive(i, SleepMs(returned'.dur))
             /\ active' = NoCall /\ net' = net
    <3>1. returned'.dur \in Int
      BY DEF SafetyInv, TypeInv, TypeOK, None
    <3>2. PICK d \in Int : d = returned'.dur
      BY <3>1
    <3>3. \E c \in CallSet : Listening(c) /\ Receive(i, SleepMs(d)) = [calls EXCEPT ![i] = c]
      BY <2>1, ReceiveStep
    <3> QED BY <1>1, <2>4, <3>2, <3>3, ZenonT(100)
  <2> QED BY <1>4, <2>2, <2>3, <2>4, LoopStep
<1>5. ASSUME NEW i \in Call, Continue(i) PROVE CallsOK'
  <2>1. \E c \in CallSet : /\ Listening(c) /\ c.state = "running"
                           /\ calls' = [calls EXCEPT ![i] = c]
    BY <1>5, StateStep
  <2> QED BY <1>1, <1>5, <2>1, ZenonT(100) DEF Continue
<1>6. ASSUME NEW i \in Call, NEW d \in net, Arrive(i, d) PROVE CallsOK'
  <2>1. \E c \in CallSet : Listening(c) /\ calls' = [calls EXCEPT ![i] = c]
    BY <1>6, ArriveStep
  <2>2. active' = NoCall /\ net' \subseteq net
    BY <1>6 DEF Arrive
  <2> QED BY <1>1, <2>1, <2>2, ZenonT(100)
<1>7. ASSUME NEW i \in Call, Alarm(i) PROVE CallsOK'
  <2>1. \E c \in CallSet : Listening(c) /\ calls' = [calls EXCEPT ![i] = c]
    BY <1>7, StateStep
  <2>2. active' = NoCall /\ net' = net
    BY <1>7 DEF Alarm, Quiet
  <2> QED BY <1>1, <2>1, <2>2, ZenonT(100)
<1>8. CASE \/ \E i \in Call : LoopInNext(i)
           \/ PassTime
           \/ UNCHANGED exampleVars
  <2>1. UNCHANGED <<calls, active, net>>
    BY <1>8 DEF LoopInNext, PassTime, exampleVars
  <2> QED BY <2>1 DEF CallsOK, Listening, CallSet, Null, Call, NoCall
<1> QED BY <1>2, <1>3, <1>4, <1>5, <1>6, <1>7, <1>8 DEF ExampleNext

ExampleInv == SafetyInv /\ CallsOK

\* The invariant holds before the first call ...
LEMMA ExampleInitOK == ExampleInit => ExampleInv
<1> SUFFICES ASSUME ExampleInit PROVE ExampleInv
  OBVIOUS
<1>1. SafetyInv
  BY InitSafe DEF ExampleInit
<1>2. NewCall("resolving") \in CallSet /\ Listening(NewCall("resolving"))
  BY DEF NewCall, CallSet, Listening
<1>3. calls = [i \in Call |-> NewCall("resolving")] /\ active = NoCall /\ net = {}
  BY DEF ExampleInit
<1> QED BY <1>1, <1>2, <1>3 DEF ExampleInv, CallsOK

\* ... every step keeps it and is a step of the client ...
LEMMA ExampleKeeps == ExampleInv /\ [ExampleNext]_exampleVars => ExampleInv' /\ [Next]_vars
<1> SUFFICES ASSUME ExampleInv, [ExampleNext]_exampleVars PROVE ExampleInv' /\ [Next]_vars
  OBVIOUS
<1>1. [Next]_vars
  BY ExampleStep DEF ExampleInv
<1>2. SafetyInv'
  BY <1>1, NextSafe DEF ExampleInv
<1>3. CallsOK'
  BY <1>2, CallsStep DEF ExampleInv
<1> QED BY <1>1, <1>2, <1>3 DEF ExampleInv

\* ... so it always holds.
LEMMA AlwaysExample == ExampleSpec => []ExampleInv
<1>1. ExampleInv /\ [ExampleNext]_exampleVars => ExampleInv'
  BY ExampleKeeps
<1> QED BY <1>1, ExampleInitOK, PTL DEF ExampleSpec

\* Whatever its calls take from each other, the example uses the client as
\* StunClientUDP describes it: all that is proved about the client holds here.
THEOREM ExampleUsesClient == ExampleSpec => Spec
<1>1. ExampleInit => Init
  BY DEF ExampleInit
<1>2. ExampleInv /\ [ExampleNext]_exampleVars => [Next]_vars
  BY ExampleKeeps
<1> QED BY <1>1, <1>2, AlwaysExample, PTL DEF ExampleSpec, Spec

\* A receive() that a message resolves has the message: its own listener is the
\* only one on the socket, since the alarm removes the listener it gives up on.
THEOREM MessagesDelivered == ExampleSpec => []MessageDelivered
<1>1. ASSUME ExampleInv PROVE MessageDelivered
  <2> SUFFICES ASSUME NEW i \in Call PROVE calls[i].rx # Undefined
    BY DEF MessageDelivered
  <2>1. calls[i].rx \in Datagram \cup {Null}
    BY <1>1 DEF ExampleInv, CallsOK, CallSet
  <2>2. Null # Undefined
    <3>1. Null.none = "null" /\ Undefined.none = "undefined"
      BY DEF Null, Undefined
    <3> QED BY <3>1
  <2> QED BY <2>1, <2>2, DatagramIsNone
<1> QED BY <1>1, AlwaysExample, PTL

-----------------------------------------------------------------------------
(* No transaction without a call.  A call returns on TransactionOk, of its *)
(* own transaction or another, and then one transaction less is live,      *)
(* unless that one had ended before: a failure of it was returned first,   *)
(* on which no call returned.  That leaves one call too many, and there is *)
(* never more than one TransactionOk to use it up: the call that passed    *)
(* the response on runs until it finds that effect.                        *)

UnderwayCalls == {i \in Call : Underway(i)}

IsOk(e) == e.type = "TransactionOk"

CallToSpare == Cardinality(DOMAIN tmap) < Cardinality(UnderwayCalls)

OkFound ==
    /\ \A j, k \in 1 .. Len(effects) : IsOk(effects[j]) /\ IsOk(effects[k]) => j = k
    /\ \A j \in 1 .. Len(effects) :
          IsOk(effects[j]) => /\ active # NoCall
                              /\ effects[j].hnd \notin DOMAIN tmap => CallToSpare

OrphanInv == NoOrphan /\ OkFound

\* The transactions NoOrphan counts are finitely many ...
LEMMA LiveFinite ==
    ASSUME FiniteSetLaws, TypeOK
    PROVE  IsFiniteSet(DOMAIN tmap) /\ Cardinality(DOMAIN tmap) \in Nat
<1>1. IsFiniteSet(DOMAIN tmap)
  <2>1. DOMAIN tmap \in SUBSET (0 .. MaxHandle) /\ MaxHandle \in Nat
    BY HandleFacts DEF TypeOK
  <2> QED BY <2>1, Within, ZenonT(100)
<1> QED BY <1>1, SizeType

\* ... and so are the calls ...
LEMMA CallsFinite == ASSUME FiniteSetLaws, NEW S, S \subseteq Call PROVE IsFiniteSet(S)
<1>1. Calls \in Nat /\ S \in SUBSET (0 .. Calls)
  BY ExampleAssumption DEF Call
<1> QED BY <1>1, Within, ZenonT(100)

\* ... under way.
LEMMA UnderwayFinite ==
    ASSUME FiniteSetLaws
    PROVE  IsFiniteSet(UnderwayCalls) /\ Cardinality(UnderwayCalls) \in Nat
<1>1. IsFiniteSet(UnderwayCalls)
  <2>1. UnderwayCalls \subseteq Call
    BY DEF UnderwayCalls
  <2> QED BY <2>1, CallsFinite
<1> QED BY <1>1, SizeType

\* A step of one call changes who is under way by that call at most.
LEMMA UnderwayStep ==
    ASSUME CallsOK, NEW i \in Call, NEW c \in CallSet, calls' = [calls EXCEPT ![i] = c]
    PROVE  LET after == c.state \in {"running", "waiting", "ready"}
           IN  /\ (after <=> Underway(i)) => UnderwayCalls' = UnderwayCalls
               /\ after /\ ~Underway(i) => /\ UnderwayCalls' = UnderwayCalls \cup {i}
                                           /\ i \notin UnderwayCalls
               /\ ~after /\ Underway(i) => /\ UnderwayCalls' = UnderwayCalls \ {i}
                                           /\ i \in UnderwayCalls
<1> DEFINE after == c.state \in {"running", "waiting", "ready"}
<1>1. calls'[i] = c /\ \A j \in Call : j # i => calls'[j] = calls[j]
  BY DEF CallsOK
<1>2. Underway(i)' <=> after
  BY <1>1 DEF Underway
<1>3. \A j \in Call : j # i => (Underway(j)' <=> Underway(j))
  BY <1>1 DEF Underway
<1>4. UnderwayCalls' = {j \in Call : Underway(j)'}
  BY DEF UnderwayCalls, Underway, Call
<1> HIDE DEF after
<1>5. (after <=> Underway(i)) => UnderwayCalls' = UnderwayCalls
  BY <1>2, <1>3, <1>4 DEF UnderwayCalls
<1>6. after /\ ~Underway(i) => /\ UnderwayCalls' = UnderwayCalls \cup {i}
                               /\ i \notin UnderwayCalls
  BY <1>2, <1>3, <1>4 DEF UnderwayCalls
<1>7. ~after /\ Underway(i) => /\ UnderwayCalls' = UnderwayCalls \ {i}
                               /\ i \in UnderwayCalls
  BY <1>2, <1>3, <1>4 DEF UnderwayCalls
<1> QED BY <1>5, <1>6, <1>7 DEF after

\* A step that keeps the live transactions and the calls under way, and queues
\* no TransactionOk.
LEMMA OrphanSame ==
    ASSUME ExampleInv, OrphanInv, UnderwayCalls' = UnderwayCalls,
           DOMAIN tmap' = DOMAIN tmap,
           \/ effects' = effects
           \/ \E x : ~IsOk(x) /\ effects' = Append(effects, x),
           active = NoCall \/ active' # NoCall
    PROVE  OrphanInv'
<1>1. effects \in Seq(EffectSet) /\ Len(effects) \in Nat
  BY DEF ExampleInv, SafetyInv, TypeInv, TypeOK
<1>2. NoOrphan' /\ (CallToSpare => CallToSpare')
  BY ZenonT(100) DEF OrphanInv, NoOrphan, CallToSpare, UnderwayCalls, Underway, Call
<1>3. ASSUME NEW j \in 1 .. Len(effects'), IsOk(effects'[j])
      PROVE  j \in 1 .. Len(effects) /\ effects'[j] = effects[j]
  BY <1>1, <1>3
<1>4. OkFound'
  BY <1>2, <1>3 DEF OrphanInv, OkFound, IsOk, NoCall
<1> QED BY <1>2, <1>4 DEF OrphanInv

\* request() has created its transaction, or passes a response on.
LEMMA ResolvedOrphan ==
    ASSUME FiniteSetLaws, ExampleInv, OrphanInv, NEW i \in Call, NEW p \in Path, Resolved(i, p)
    PROVE  OrphanInv'
<1>0. PICK h \in Handle : h = next_handle
  BY AllocatesNext DEF Resolved, NodeCreate, Create, ExampleInv, SafetyInv
<1>1. AllocateHandle = h /\ h \notin DOMAIN tmap
  BY <1>0, AllocatesNext DEF ExampleInv, SafetyInv
<1>2. /\ effects' = Append(effects, SendData(h))
      /\ DOMAIN tmap' = DOMAIN tmap \cup {h}
  BY <1>1 DEF Resolved, NodeCreate, Create, Assign
<1>3. /\ calls[i].state = "resolving" /\ calls' = SetState(i, "running")
      /\ active = NoCall
  BY DEF Resolved, Resolving, Quiet
<1>4. UnderwayCalls' = UnderwayCalls \cup {i} /\ i \notin UnderwayCalls
  <2>1. PICK c \in CallSet : c.state = "running" /\ calls' = [calls EXCEPT ![i] = c]
    BY <1>3, StateStep DEF ExampleInv
  <2>2. ~Underway(i)
    BY <1>3 DEF Underway
  <2> QED BY <2>1, <2>2, UnderwayStep, ZenonT(100) DEF ExampleInv
<1>5. NoOrphan'
  <2>1. Cardinality(DOMAIN tmap') = Cardinality(DOMAIN tmap) + 1
    BY <1>1, <1>2, LiveFinite, ZenonT(100), SizeAdd
       DEF ExampleInv, SafetyInv, TypeInv
  <2>2. Cardinality(UnderwayCalls') = Cardinality(UnderwayCalls) + 1
    BY <1>4, UnderwayFinite, SizeAdd, ZenonT(100)
  <2>3. Cardinality(DOMAIN tmap) <= Cardinality(UnderwayCalls)
    BY DEF OrphanInv, NoOrphan, UnderwayCalls
  <2>4. Cardinality(DOMAIN tmap') <= Cardinality(UnderwayCalls')
    BY <2>1, <2>2, <2>3, LiveFinite, UnderwayFinite DEF ExampleInv, SafetyInv, TypeInv
  <2> QED BY <2>4 DEF NoOrphan, UnderwayCalls, Underway, Call
<1>6. \A j \in 1 .. Len(effects') : ~IsOk(effects'[j])
  <2>1. effects \in Seq(EffectSet) /\ Len(effects) \in Nat
    BY DEF ExampleInv, SafetyInv, TypeInv, TypeOK
  <2>2. \A j \in 1 .. Len(effects) : ~IsOk(effects[j])
    BY <1>3 DEF OrphanInv, OkFound
  <2>3. ~IsOk(SendData(h))
    BY DEF IsOk, SendData, Effect
  <2> QED BY <1>2, <2>1, <2>2, <2>3
<1> QED BY <1>5, <1>6 DEF OrphanInv, OkFound, IsOk

\* Resuming a call changes neither count.
LEMMA ContinueOrphan ==
    ASSUME ExampleInv, OrphanInv, NEW i \in Call, Continue(i)
    PROVE  OrphanInv'
<1>1. /\ active = NoCall /\ active' = i /\ i # NoCall /\ calls[i].state = "ready"
      /\ UnderwayCalls' = UnderwayCalls
  <2>1. PICK c \in CallSet : c.state = "running" /\ calls' = [calls EXCEPT ![i] = c]
    BY StateStep DEF ExampleInv
  <2>2. calls[i].state = "ready" /\ Underway(i)
    BY DEF Continue, Underway
  <2>3. UnderwayCalls' = UnderwayCalls
    BY <2>1, <2>2, UnderwayStep, ZenonT(100) DEF ExampleInv
  <2> QED BY <2>2, <2>3 DEF Continue, Call, NoCall
<1>2. CASE UNCHANGED vars
  BY <1>1, <1>2, OrphanSame DEF vars, clientVars
<1>3. CASE Response(calls[i].rx) /\ calls[i].rx \in Datagram
  <2>1. /\ DOMAIN tmap' = DOMAIN tmap
        /\ \/ effects' = effects
           \/ \E x \in EffectSet : x.hnd \in DOMAIN tmap /\ effects' = Append(effects, x)
    BY <1>3, ResponseStep DEF ExampleInv, SafetyInv
  <2>2. CASE effects' = effects
    BY <1>1, <2>1, <2>2, OrphanSame
  <2>3. ASSUME NEW x \in EffectSet, x.hnd \in DOMAIN tmap, effects' = Append(effects, x)
        PROVE  OrphanInv'
    <3>1. effects \in Seq(EffectSet) /\ Len(effects) \in Nat
      BY DEF ExampleInv, SafetyInv, TypeInv, TypeOK
    <3>2. \A j \in 1 .. Len(effects) : ~IsOk(effects[j])
      BY <1>1 DEF OrphanInv, OkFound
    <3>3. ASSUME NEW j \in 1 .. Len(effects'), IsOk(effects'[j])
          PROVE  j = Len(effects) + 1 /\ effects'[j].hnd \in DOMAIN tmap'
      BY <2>1, <2>3, <3>1, <3>2, <3>3
    <3>4. active' # NoCall'
      BY <1>1 DEF NoCall
    <3>5. OkFound'
      BY <3>3, <3>4 DEF OkFound, IsOk
    <3>6. NoOrphan'
      BY <1>1, <2>1, ZenonT(100) DEF OrphanInv, NoOrphan, UnderwayCalls, Underway, Call
    <3> QED BY <3>5, <3>6 DEF OrphanInv
  <2> QED BY <2>1, <2>2, <2>3
<1>4. calls[i].rx \in Datagram \cup {Null}
  BY DEF ExampleInv, CallsOK, CallSet
<1> QED BY <1>2, <1>3, <1>4 DEF Continue, NodeResponse

\* next() returns TransactionOk: the call returns.
LEMMA OkOrphan ==
    ASSUME FiniteSetLaws, ExampleInv, OrphanInv, NEW i \in Call, Len(effects) > 0, IsOk(effects[1]),
           UnderwayCalls' = UnderwayCalls \ {i}, i \in UnderwayCalls,
           DOMAIN tmap' = DOMAIN tmap \ {effects[1].hnd},
           Len(effects') = Len(effects) - 1,
           \A j \in 1 .. Len(effects') : effects'[j] = effects[j + 1]
    PROVE  OrphanInv'
<1>1. Len(effects) \in Nat
  BY DEF ExampleInv, SafetyInv, TypeInv, TypeOK
<1>2. \A j \in 1 .. Len(effects') : ~IsOk(effects'[j])
  <2> SUFFICES ASSUME NEW j \in 1 .. Len(effects'), IsOk(effects'[j]) PROVE FALSE
    OBVIOUS
  <2>1. j + 1 \in 1 .. Len(effects) /\ 1 \in 1 .. Len(effects) /\ j + 1 # 1
    BY <1>1
  <2> QED BY <2>1 DEF OrphanInv, OkFound
<1>3. Cardinality(DOMAIN tmap') <= Cardinality(UnderwayCalls')
  <2> DEFINE n == Cardinality(DOMAIN tmap)
             u == Cardinality(UnderwayCalls)
  <2>1. n \in Nat /\ u \in Nat /\ n <= u
    BY LiveFinite, UnderwayFinite
       DEF OrphanInv, NoOrphan, UnderwayCalls, ExampleInv, SafetyInv, TypeInv
  <2>2. Cardinality(UnderwayCalls') = u - 1
    BY UnderwayFinite, SizeRemove, ZenonT(100)
  <2>3. Cardinality(DOMAIN tmap') = IF effects[1].hnd \in DOMAIN tmap THEN n - 1 ELSE n
    BY LiveFinite, ZenonT(100), SizeRemove
       DEF ExampleInv, SafetyInv, TypeInv
  <2>4. effects[1].hnd \notin DOMAIN tmap => n < u
    <3>1. 1 \in 1 .. Len(effects)
      BY <1>1
    <3> QED BY <3>1 DEF OrphanInv, OkFound, CallToSpare
  <2> HIDE DEF n, u
  <2> QED BY <2>1, <2>2, <2>3, <2>4
<1> QED BY <1>2, <1>3 DEF OrphanInv, NoOrphan, OkFound, IsOk, UnderwayCalls, Underway, Call

\* next() returns SendData or TransactionFailed: the call goes on.
LEMMA FailOrphan ==
    ASSUME FiniteSetLaws, ExampleInv, OrphanInv, Len(effects) > 0, ~IsOk(effects[1]),
           UnderwayCalls' = UnderwayCalls, active' = active,
           \/ DOMAIN tmap' = DOMAIN tmap
           \/ DOMAIN tmap' = DOMAIN tmap \ {effects[1].hnd},
           Len(effects') = Len(effects) - 1,
           \A j \in 1 .. Len(effects') : effects'[j] = effects[j + 1]
    PROVE  OrphanInv'
<1> DEFINE n == Cardinality(DOMAIN tmap)
           u == Cardinality(UnderwayCalls)
<1>1. Len(effects) \in Nat
  BY DEF ExampleInv, SafetyInv, TypeInv, TypeOK
<1>2. n \in Nat /\ u \in Nat /\ n <= u /\ IsFiniteSet(DOMAIN tmap)
  BY LiveFinite, UnderwayFinite
     DEF OrphanInv, NoOrphan, UnderwayCalls, ExampleInv, SafetyInv, TypeInv
<1> HIDE DEF n, u
<1>3. /\ Cardinality(DOMAIN tmap') \in Nat
      /\ Cardinality(DOMAIN tmap') <= n
      /\ \A h \in DOMAIN tmap : h \notin DOMAIN tmap' => Cardinality(DOMAIN tmap') < n
  <2>1. CASE DOMAIN tmap' = DOMAIN tmap
    BY <1>2, <2>1 DEF n
  <2>2. CASE DOMAIN tmap' = DOMAIN tmap \ {effects[1].hnd}
    <3>0. \A x : /\ IsFiniteSet(DOMAIN tmap \ {x})
                 /\ Cardinality(DOMAIN tmap \ {x}) = IF x \in DOMAIN tmap THEN n - 1 ELSE n
      BY <1>2, SizeRemove, ZenonT(100) DEF n
    <3>1. /\ IsFiniteSet(DOMAIN tmap')
          /\ Cardinality(DOMAIN tmap') = IF effects[1].hnd \in DOMAIN tmap THEN n - 1 ELSE n
      BY <2>2, <3>0, ZenonT(100)
    <3>2. Cardinality(DOMAIN tmap') \in Nat
      BY <3>1, SizeType, ZenonT(100)
    <3>3. effects[1].hnd \notin DOMAIN tmap => DOMAIN tmap' = DOMAIN tmap
      BY <2>2, ZenonT(100)
    <3> HIDE <2>2
    <3>4. CASE effects[1].hnd \in DOMAIN tmap
      BY <1>2, <3>1, <3>2, <3>4
    <3>5. CASE effects[1].hnd \notin DOMAIN tmap
      BY <1>2, <3>1, <3>2, <3>3, <3>5
    <3> QED BY <3>4, <3>5
  <2> QED BY <2>1, <2>2
<1>4. NoOrphan'
  <2>1. Cardinality(DOMAIN tmap') <= u
    BY <1>2, <1>3
  <2> QED BY <2>1, ZenonT(100) DEF NoOrphan, UnderwayCalls, Underway, Call, u
<1>5. ASSUME NEW j \in 1 .. Len(effects')
      PROVE  j + 1 \in 1 .. Len(effects) /\ effects'[j] = effects[j + 1]
  BY <1>1
<1>6. ASSUME NEW j \in 1 .. Len(effects'), NEW k \in 1 .. Len(effects'),
             IsOk(effects'[j]), IsOk(effects'[k])
      PROVE  j = k
  <2>1. j + 1 = k + 1
    BY <1>5, <1>6 DEF OrphanInv, OkFound
  <2> QED BY <1>1, <2>1
<1>7. ASSUME NEW j \in 1 .. Len(effects'), IsOk(effects'[j])
      PROVE  active' # NoCall /\ (effects'[j].hnd \notin DOMAIN tmap' => CallToSpare')
  <2> DEFINE h == effects'[j].hnd
  <2>1. active # NoCall /\ (h \notin DOMAIN tmap => n < u)
    BY <1>5, <1>7 DEF OrphanInv, OkFound, CallToSpare, n, u
  <2>2. PICK m \in Nat : m = Cardinality(DOMAIN tmap')
    BY <1>3
  <2>3. m <= n /\ (h \in DOMAIN tmap /\ h \notin DOMAIN tmap' => m < n)
    BY <1>3, <2>2, ZenonT(100)
  <2> HIDE DEF h
  <2>4. h \notin DOMAIN tmap' => m < u
    BY <1>2, <2>1, <2>3
  <2> QED BY <2>1, <2>2, <2>4, ZenonT(100) DEF CallToSpare, UnderwayCalls, Underway, Call, u, h
<1>8. OkFound'
  BY <1>6, <1>7 DEF OkFound, IsOk, NoCall
<1> QED BY <1>4, <1>8 DEF OrphanInv

\* The loop of a call.
LEMMA LoopOrphan ==
    ASSUME FiniteSetLaws, ExampleInv, ExampleInv', OrphanInv, NEW i \in Call, Loop(i)
    PROVE  OrphanInv'
<1>0. SafetyInv /\ SafetyInv' /\ CallsOK /\ TypeInv
  BY DEF ExampleInv, SafetyInv
<1>1. /\ NextEffect \/ NextWait
      /\ calls[i].state = "running" /\ active = i
      /\ \/ /\ returned'.type \in {"TransactionOk", "Idle"}
            /\ calls' = [calls EXCEPT ![i] = NewCall("done")]
            /\ active' = NoCall
         \/ /\ returned'.type \in {"TransactionFailed", "SendData"}
            /\ UNCHANGED <<calls, active>>
         \/ /\ returned'.type = "Sleep"
            /\ calls' = Receive(i, SleepMs(returned'.dur))
            /\ active' = NoCall
  BY <1>0, LoopStep
<1>2. Underway(i)
  BY <1>1 DEF Underway
<1>3. CASE NextEffect
  <2>1. /\ Len(effects) > 0 /\ effects[1] \in EffectSet /\ returned' = effects[1]
        /\ Len(effects') = Len(effects) - 1
        /\ \A j \in 1 .. Len(effects') : effects'[j] = effects[j + 1]
        /\ IF IsOutcome(effects[1]) THEN Cleanup(effects[1].hnd) ELSE tmap' = tmap
    BY <1>0, <1>3, EffectStep, ZenonT(100)
  <2>2. CASE IsOk(effects[1])
    <3>1. calls' = [calls EXCEPT ![i] = NewCall("done")]
      BY <1>1, <2>1, <2>2 DEF IsOk
    <3>2. PICK c \in CallSet : c.state = "done" /\ calls' = [calls EXCEPT ![i] = c]
      BY <1>0, <3>1, StateStep, ZenonT(100)
    <3>3. UnderwayCalls' = UnderwayCalls \ {i} /\ i \in UnderwayCalls
      BY <1>0, <1>2, <3>2, UnderwayStep, ZenonT(100)
    <3>4. DOMAIN tmap' = DOMAIN tmap \ {effects[1].hnd}
      BY <2>1, <2>2, CleanupStep, ZenonT(100) DEF IsOk, IsOutcome
    <3> QED BY <2>1, <2>2, <3>3, <3>4, OkOrphan
  <2>3. CASE ~IsOk(effects[1])
    <3>1. effects[1].type \in {"SendData", "TransactionOk", "TransactionFailed"}
      BY <2>1 DEF EffectSet
    <3>2. UNCHANGED <<calls, active>>
      BY <1>1, <2>1, <2>3, <3>1 DEF IsOk
    <3>3. UnderwayCalls' = UnderwayCalls
      BY <3>2 DEF UnderwayCalls, Underway, Call
    <3>4. DOMAIN tmap' = DOMAIN tmap \/ DOMAIN tmap' = DOMAIN tmap \ {effects[1].hnd}
      BY <2>1, CleanupStep, ZenonT(100)
    <3> QED BY <2>1, <2>3, <3>2, <3>3, <3>4, FailOrphan
  <2> QED BY <2>2, <2>3
<1>4. CASE NextWait
  <2>1. effects = <<>> /\ effects' = effects /\ tmap' = tmap
    BY <1>4 DEF NextWait
  <2>2. OkFound'
    BY <2>1 DEF OkFound
  <2>3. CASE timeline = {}
    <3>1. DOMAIN tmap = {}
      <4>1. Len(effects) = 0
        BY <2>1
      <4>2. \A h : ~HasTimer(h) /\ ~HasOutcome(h)
        BY <2>3, <4>1 DEF HasTimer, HasOutcome
      <4>3. \A h \in DOMAIN tmap : HasTimer(h) \/ HasOutcome(h)
        BY <1>0 DEF SafetyInv, NeverStranded
      <4> QED BY <4>2, <4>3, ZenonT(100)
    <3>2. DOMAIN tmap' = {} /\ Cardinality({}) = 0
      BY <2>1, <3>1 DEF FiniteSetLaws, SizeEmpty
    <3>3. Cardinality(UnderwayCalls') \in Nat
      <4>1. UnderwayCalls' \subseteq Call
        BY DEF UnderwayCalls, Call
      <4>2. IsFiniteSet(UnderwayCalls')
        BY <4>1, CallsFinite, ZenonT(100)
      <4> QED BY <4>2, SizeType, ZenonT(100)
    <3>4. Cardinality(DOMAIN tmap') <= Cardinality(UnderwayCalls')
      BY <3>2, <3>3
    <3>5. NoOrphan'
      BY <3>4 DEF NoOrphan, UnderwayCalls
    <3> QED BY <2>2, <3>5 DEF OrphanInv
  <2>4. CASE timeline # {}
    <3>1. PICK e \in timeline : returned' = Sleep(e[1] - now)
      BY <1>4, <2>4 DEF NextWait
    <3>2. returned'.type = "Sleep"
      BY <3>1, ZenonT(100) DEF Sleep, Effect
    <3>3. PICK d \in Int : d = returned'.dur
      <4>1. e[1] \in Int /\ now \in Int
        BY <1>0 DEF TypeInv, TypeOK
      <4>2. PICK d \in Int : d = e[1] - now
        BY <4>1
      <4>3. Sleep(d).dur = d
        BY DEF Sleep, Effect
      <4> QED BY <3>1, <4>2, <4>3
    <3>4. calls' = Receive(i, SleepMs(d)) /\ now \in Nat
      BY <1>0, <1>1, <3>2, <3>3 DEF TypeInv, TypeOK
    <3>5. PICK c \in CallSet : /\ c.state \in {"ready", "waiting"}
                               /\ Receive(i, SleepMs(d)) = [calls EXCEPT ![i] = c]
      BY <1>0, <1>1, <3>4, ReceiveStep
    <3>6. UnderwayCalls' = UnderwayCalls
      BY <1>0, <1>2, <3>4, <3>5, UnderwayStep, ZenonT(100)
    <3>7. NoOrphan'
      BY <2>1, <3>6, ZenonT(100) DEF OrphanInv, NoOrphan, UnderwayCalls
    <3> QED BY <2>2, <3>7 DEF OrphanInv
  <2> QED BY <2>3, <2>4
<1> QED BY <1>1, <1>3, <1>4

\* A pass of the loop that pops the timeline changes neither count.
LEMMA InNextOrphan ==
    ASSUME ExampleInv, OrphanInv, NEW i \in Call, LoopInNext(i)
    PROVE  OrphanInv'
<1>1. PICK e \in timeline : NextPop(e)
  BY ZenonT(100) DEF LoopInNext, NodeNext, NextCall, NextEffect, NextWait
<1>2. /\ DOMAIN tmap' = DOMAIN tmap
      /\ \/ effects' = effects
         \/ effects' = Append(effects, SendData(e[2]))
         \/ effects' = Append(effects, TransactionFailed(e[2], "Timeout"))
  <2>1. TypeInv
    BY DEF ExampleInv, SafetyInv
  <2> QED BY <1>1, <2>1, PopStep, ZenonT(100)
<1>3. ~IsOk(SendData(e[2])) /\ ~IsOk(TransactionFailed(e[2], "Timeout"))
  BY DEF IsOk, SendData, TransactionFailed, Effect
<1>4. UnderwayCalls' = UnderwayCalls /\ active' = active
  BY DEF LoopInNext, UnderwayCalls, Underway, Call
<1> QED BY <1>2, <1>3, <1>4, OrphanSame

\* Every step of the example keeps the two counts in order.
LEMMA OrphanStep ==
    FiniteSetLaws /\ ExampleInv /\ ExampleInv' /\ OrphanInv /\ [ExampleNext]_exampleVars => OrphanInv'
<1> SUFFICES ASSUME FiniteSetLaws, ExampleInv, ExampleInv', OrphanInv, [ExampleNext]_exampleVars
             PROVE  OrphanInv'
  OBVIOUS
<1>0. CallsOK
  BY DEF ExampleInv
<1>1. ASSUME NEW i \in Call, NotResolved(i) PROVE OrphanInv'
  <2>1. PICK c \in CallSet : c.state = "done" /\ calls' = [calls EXCEPT ![i] = c]
    BY <1>0, <1>1, StateStep DEF NotResolved, Resolving
  <2>2. ~Underway(i) /\ UNCHANGED <<vars, active>>
    BY <1>1 DEF NotResolved, Resolving, Underway
  <2>3. UnderwayCalls' = UnderwayCalls
    BY <1>0, <2>1, <2>2, UnderwayStep, ZenonT(100)
  <2> QED BY <2>2, <2>3, OrphanSame DEF vars, clientVars
<1>2. ASSUME NEW i \in Call, NEW d \in net, Arrive(i, d) PROVE OrphanInv'
  <2>1. PICK c \in CallSet : /\ c.state = "ready" /\ calls[i].state \in {"waiting", "ready"}
                             /\ calls' = [calls EXCEPT ![i] = c]
    BY <1>0, <1>2, ArriveStep
  <2>2. Underway(i) /\ UNCHANGED <<vars, active>>
    BY <1>2, <2>1 DEF Arrive, Underway
  <2>3. UnderwayCalls' = UnderwayCalls
    BY <1>0, <2>1, <2>2, UnderwayStep, ZenonT(100)
  <2> QED BY <2>2, <2>3, OrphanSame DEF vars, clientVars
<1>3. ASSUME NEW i \in Call, Alarm(i) PROVE OrphanInv'
  <2>1. PICK c \in CallSet : c.state = "ready" /\ calls' = [calls EXCEPT ![i] = c]
    BY <1>0, <1>3, StateStep
  <2>2. Underway(i) /\ UNCHANGED <<vars, active>>
    BY <1>3 DEF Alarm, Underway
  <2>3. UnderwayCalls' = UnderwayCalls
    BY <1>0, <2>1, <2>2, UnderwayStep, ZenonT(100)
  <2>4. tmap' = tmap /\ effects' = effects /\ active' = active
    BY <2>2 DEF vars, clientVars
  <2> QED BY <2>3, <2>4, OrphanSame, ZenonT(100)
<1>4. CASE PassTime \/ UNCHANGED exampleVars
  <2>1. UNCHANGED <<tmap, effects, calls, active>>
    BY <1>4 DEF PassTime, Tick, exampleVars, vars, clientVars
  <2>2. UnderwayCalls' = UnderwayCalls
    BY <2>1 DEF UnderwayCalls, Underway, Call
  <2> QED BY <2>1, <2>2, OrphanSame
<1> QED BY <1>1, <1>2, <1>3, <1>4, ResolvedOrphan, ContinueOrphan, InNextOrphan, LoopOrphan
        DEF ExampleNext

-----------------------------------------------------------------------------
INSTANCE FiniteSetTheorems

\* The laws of finite sets the counts rest on.
LEMMA LawsHold == FiniteSetLaws
<1>1. FiniteWithin
  <2>1. \A n \in Nat : IsFiniteSet(0 .. n)
    BY FS_Interval
  <2> QED BY <2>1, FS_Subset, ZenonT(100) DEF FiniteWithin
<1>2. SizeNatural
  BY FS_CardinalityType, ZenonT(100) DEF SizeNatural
<1>3. SizeEmpty
  BY FS_EmptySet DEF SizeEmpty
<1>4. SizeAdded
  BY FS_AddElement, ZenonT(100) DEF SizeAdded
<1>5. SizeRemoved
  BY FS_RemoveElement, ZenonT(100) DEF SizeRemoved
<1>6. SizeMatched
  BY FS_Bijection, ZenonT(100) DEF SizeMatched
<1> QED BY <1>1, <1>2, <1>3, <1>4, <1>5, <1>6 DEF FiniteSetLaws

\* Powers of two, as the numbers of subsets.
LEMMA PowerOfTwo ==
    ASSUME NEW n \in Nat
    PROVE  2^n \in Nat /\ 2^(n + 1) = 2 * 2^n
<1> DEFINE x == n + 1
           S == 1 .. n
           T == 1 .. x
           A == SUBSET S
           B == {U \cup {x} : U \in A}
           f == [U \in A |-> U \cup {x}]
<1>1. /\ IsFiniteSet(S) /\ Cardinality(S) = n
      /\ IsFiniteSet(T) /\ Cardinality(T) = n + 1
  BY FS_Interval
<1>2. x \notin S /\ T = S \cup {x}
  OBVIOUS
<1> HIDE DEF x, S, T
<1>3. /\ IsFiniteSet(A) /\ Cardinality(A) = 2^n
      /\ Cardinality(SUBSET T) = 2^(n + 1)
  BY <1>1, FS_SUBSET, ZenonT(100)
<1>4. Cardinality(A) \in Nat
  BY <1>3, FS_CardinalityType
<1>5. f \in Bijection(A, B)
  <2>1. f \in [A -> B]
    OBVIOUS
  <2>2. ASSUME NEW U \in A, NEW V \in A, f[U] = f[V] PROVE U = V
    <3>1. U \cup {x} = V \cup {x} /\ x \notin U /\ x \notin V
      BY <1>2, <2>2
    <3> QED BY <3>1
  <2>3. ASSUME NEW V \in B PROVE \E U \in A : f[U] = V
    BY ZenonT(100)
  <2> HIDE DEF f, A, B
  <2> QED BY <2>1, <2>2, <2>3 DEF Bijection, Injection, Surjection, IsInjective
<1>6. SUBSET T = A \cup B
  <2>1. ASSUME NEW U \in SUBSET T PROVE U \in A \cup B
    <3>1. CASE x \in U
      <4>1. U \ {x} \in A /\ U = (U \ {x}) \cup {x}
        BY <1>2, <3>1
      <4> QED BY <4>1, ZenonT(100)
    <3>2. CASE x \notin U
      BY <1>2, <3>2
    <3> QED BY <3>1, <3>2
  <2>2. ASSUME NEW U \in A \cup B PROVE U \in SUBSET T
    BY <1>2
  <2> QED BY <2>1, <2>2
<1>7. A \cap B = {}
  BY <1>2
<1> HIDE DEF A, B, f
<1>8. IsFiniteSet(B) /\ Cardinality(B) = Cardinality(A)
  <2>1. ExistsBijection(A, B)
    BY <1>5 DEF ExistsBijection
  <2> QED BY <1>3, <2>1, FS_Bijection, ZenonT(100)
<1>9. Cardinality(A \cup B) = Cardinality(A) + Cardinality(B) - Cardinality(A \cap B)
  BY <1>3, <1>8, FS_Union, ZenonT(100)
<1>10. Cardinality(A \cap B) = 0
  BY <1>7, FS_EmptySet
<1>11. Cardinality(SUBSET T) = 2 * Cardinality(A)
  <2>1. Cardinality(SUBSET T) = Cardinality(A \cup B)
    BY <1>6, ZenonT(100)
  <2> QED BY <1>4, <1>8, <1>9, <1>10, <2>1
<1> QED BY <1>3, <1>4, <1>11

\* RetransmitAlgo gives up on a transaction that no 5xx response rescheduled
\* only when the schedule of RFC 8489 has run down, provided that the schedule
\* has more than one request: RetransmitAlgo::init() starts the first interval
\* without looking whether its request is the last one.
THEOREM TimeoutsOnSchedule == RequestCount > 1 => (Spec => []NoEarlyTimeout)
<1>1. PowersDouble
  BY PowerOfTwo, ZenonT(100) DEF PowersDouble
<1> QED BY <1>1, GivesUpOnSchedule

\* The client implements the abstract transactions: create() starts one under
\* a handle never used before, next() returns at most Rc + 2 *
\* server_error_max_retransmits SendData effects of it, response() and the
\* timers decide on outcomes of it until next() has returned one, and next()
\* returns no outcome more often than it was decided on.
THEOREM ImplementsSafely == Spec => Transactions!Spec
BY LawsHold, CountedTransactions

\* handle_success_response() reports a round trip, and feeds it to the
\* calculator, only for a request of which one copy was ever handed out.
THEOREM KarnHolds == Spec => KarnSound
BY LawsHold, CountedKarn

\* There are never fewer calls of request() under way than transactions, whoever
\* takes whose effects: the last call does not leave before all have ended.
THEOREM NoneOrphaned == ExampleSpec => []NoOrphan
<1>1. ExampleInit => OrphanInv
  <2> SUFFICES ASSUME ExampleInit PROVE OrphanInv
    OBVIOUS
  <2>1. DOMAIN tmap = {} /\ effects = <<>>
    BY DEF ExampleInit, Init
  <2>2. Cardinality(DOMAIN tmap) = 0
    BY <2>1, FS_EmptySet
  <2>3. Cardinality(UnderwayCalls) \in Nat
    BY LawsHold, UnderwayFinite
  <2>4. NoOrphan
    BY <2>2, <2>3 DEF NoOrphan, UnderwayCalls
  <2> QED BY <2>1, <2>4 DEF OrphanInv, OkFound
<1>2. OrphanInv => NoOrphan
  BY DEF OrphanInv
<1>3. ExampleInv /\ ExampleInv' /\ OrphanInv /\ [ExampleNext]_exampleVars => OrphanInv'
  BY LawsHold, OrphanStep
<1> QED BY <1>1, <1>2, <1>3, AlwaysExample, PTL DEF ExampleSpec

\* What the example sees of the client is what Transactions promises: a request
\* is sent a bounded number of times, each under a handle of its own, and once
\* an outcome of a transaction was returned no other is decided on.
THEOREM ExampleKeepsPromises == ExampleSpec => Transactions!Spec
BY ExampleUsesClient, ImplementsSafely, PTL
=============================================================================
