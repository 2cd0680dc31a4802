--------------------------- MODULE MCEventStreams ---------------------------
(* Who may subscribe to the gateway's events, for EventStreams_feed. *)
EXTENDS EventStreams

MCAudiences == {{"sse"}, {"w1", "mqtt"}, {"w1", "w2"}}
=============================================================================
