---- MODULE MCForwarding ----
(***************************************************************************)
(* Every configuration of MCArchitecture, and those with plain names and   *)
(* without vlans.                                                          *)
(***************************************************************************)
EXTENDS Forwarding, MCArchitecture

AllConfigs == RouterConfigs \cup SwitchConfigs \cup OptionConfigs
ForwardConfigs == {c \in SwitchConfigs : c.vlan = NoVlans} \cup RouterConfigs
====
