--------------------------- MODULE MCNodeThreads ---------------------------
(***************************************************************************)
(* A node of the repository: the threads of the simulator, and the MQTT    *)
(* client under it, with the clean session the simulator asks for.  The    *)
(* two share nothing; each behaviour is one of one of them.                *)
(***************************************************************************)
EXTENDS MqttDelivery, IcpNode

VARIABLE part

Frame(d, i) == [dst |-> d, id |-> i]
Brings(heard, pinged, orders, listens) ==
    [heard |-> heard, pinged |-> pinged, orders |-> orders, listens |-> listens]

\* A node that hears its own and another's frames; one that listens to all; one
\* that is reset while it receives; one that sends to all; one that sends to a
\* node and is reset, or told to stop, meanwhile
SomeTraffic ==
    { Brings({Frame("me", 1), Frame("other", 2)}, {}, 0, FALSE),
      Brings({Frame("other", 1)}, {}, 0, TRUE),
      Brings({Frame("me", 1)}, {}, 1, FALSE),
      Brings({}, {Frame("BROADCAST", 4)}, 0, FALSE),
      Brings({}, {Frame("other", 3)}, 1, FALSE) }

\* While the client is followed, the simulator is at rest in one state
ThreadsInit ==
    /\ Init /\ NodeInit
    /\ \/ part = "client" /\ bus.traffic = Brings({Frame("other", 1)}, {}, 0, TRUE)
       \/ part = "node"

OfClient(A) == part = "client" /\ A /\ UNCHANGED <<nodeVars, part>>
OfNode(A) == part = "node" /\ A /\ UNCHANGED <<vars, part>>

ThreadsNext == OfClient(Next) \/ OfNode(NodeNext)

threadVars == <<vars, nodeVars, part>>

ThreadsSpec == ThreadsInit /\ [][ThreadsNext]_threadVars

\* The fairness of NodeFairSpec
ThreadsFairSpec ==
    /\ ThreadsSpec
    /\ WF_nodeVars(OfNode(Main))
    /\ WF_nodeVars(OfNode(Running /\ Handler))
    /\ WF_nodeVars(OfNode(Running /\ OnSend))
    /\ SF_nodeVars(OfNode(main.at \in {"loop", "updating", "resetting"} /\ UpdateCommand))
    /\ SF_nodeVars(OfNode(Running /\ (Granted \/ Released)))
    /\ SF_nodeVars(OfNode(Running /\ (OtherActive \/ (bus.line = "other" /\ OtherInactive))))
=============================================================================
