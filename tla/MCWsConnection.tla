--------------------------- MODULE MCWsConnection ---------------------------
(* Constants for the runs of WsConnection.                                 *)
EXTENDS WsProperties

K1 == [source |-> "claude", sid |-> "s1"]

Topic(class, source, sid) == [class |-> class, source |-> source, sid |-> sid]
AllStates  == Topic("StateAll", "none", "none")
OneState   == Topic("StateSession", "none", "s1")
AllEvents  == Topic("EventsAll", "none", "none")
OneEvent   == Topic("EventsBySourceSession", "claude", "s1")

OneKey == {K1}
CoverageTopics == {AllStates, OneState}
LagTopics == {AllEvents, OneEvent}
StateTopic == {AllStates}
NoFilter == {{}}
FilterIdle == {{}, {"Idle"}}
=============================================================================
