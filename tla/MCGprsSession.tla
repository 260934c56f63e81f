--------------------------- MODULE MCGprsSession ---------------------------
(* The instances of GprsSession that TLC checks. *)
EXTENDS GprsSession

(* One SIM or none has an APN in mobiled.conf. *)
AtMostOneConfigured == {{}, {SIM_1}, {SIM_2}}
BothConfigured == {Sims}

NoLeftover == {}

(* A link that the last process left up on SIM 2. *)
LeftoverOnSim2 == {[sim |-> SIM_2, source |-> "APN_APNS_CONF"]}
=============================================================================
