----------------------------- MODULE MCMqttStore ----------------------------
(***************************************************************************)
(* What the asynchronous client keeps when it ends, and how its threads    *)
(* answer the calls: each in a behaviour of its own.                       *)
(***************************************************************************)
EXTENDS MqttStore, MqttConnect

VARIABLE part

Option(count, version, clean) ==
    [serverURIcount |-> count, MQTTVersion |-> version, cleansession |-> clean]

\* One server and one version, or two of each; clean session or not
SomeOptions == {Option(0, 4, FALSE), Option(2, 0, TRUE)}

\* While the store is followed, the calls are at rest in one state
ClientInit ==
    /\ Init /\ ConnInit
    /\ \/ part = "store" /\ options = Option(0, 4, FALSE)
       \/ part = "calls"

OfStore(A) == part = "store" /\ A /\ UNCHANGED <<connVars, part>>
OfCalls(A) == part = "calls" /\ A /\ UNCHANGED <<vars, part>>

ClientNext == OfStore(Next) \/ OfCalls(ConnNext)

clientVars == <<vars, connVars, part>>

\* The fairness of Spec in MqttStore; for the calls, the two threads run and the
\* broker answers.
ClientSpec ==
    /\ ClientInit /\ [][ClientNext]_clientVars
    /\ WF_clientVars(OfStore(Perform))
    /\ WF_clientVars(OfStore(Handles))
    /\ WF_clientVars(OfStore(BrokerHandles))
    /\ WF_clientVars(OfCalls(Running(SendTurn)))
    /\ WF_clientVars(OfCalls(Running(ReceiveTurn)))
    /\ WF_clientVars(OfCalls(Running(ServerAnswers)))
=============================================================================
