------------------------- MODULE MCWebhookListener -------------------------
(* Instance of WebhookListener for TLC: two addresses, two servers.         *)
EXTENDS WebhookListener

CONSTANTS a1, a2, s1, s2

MCAddresses == {a1, a2}
MCServers == {s1, s2}
MCConfigs ==
  {[address |-> a1, secrets |-> {"reload"}, promoted |-> {"reload", "update"}],
   [address |-> a2, secrets |-> {"reload", "update"}, promoted |-> {"reload"}],
   [address |-> NoAddress, secrets |-> {}, promoted |-> {}]}
=============================================================================
