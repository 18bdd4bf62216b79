--------------------------- MODULE MCAgentGateway ---------------------------
(* An instance of AgentGateway for TLC.                                    *)
EXTENDS AgentGateway, TLC

CONSTANTS a1, a2, s1, s2

\* The device is that of a1, and a1 is the first to connect. Connections are
\* interchangeable, so it does so over s1.
Led ==
    /\ \A d \in Devices : deviceAgent[d] = a1
    /\ \A s \in Sockets : phase[s] # "unused" => phase[s1] # "unused" /\ token[s1] = a1
=============================================================================
