------------------------------ MODULE MCAlerts ------------------------------
(* Instance of Alerts for TLC: one channel, two alerts, a short interval.    *)
EXTENDS Alerts

MCChannels == {"#c"}
=============================================================================
