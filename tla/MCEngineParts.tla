--------------------------- MODULE MCEngineParts ----------------------------
(***************************************************************************)
(* Parts of the engine for TLC, each on its own: a behaviour is one of the *)
(* control channel, the TCP link or the data channel of an OpenVPN path,   *)
(* of a TCP connection, the lookups or the UDP of the forwarding stack, or *)
(* of the LAN proxy or one connection it relays.                           *)
(***************************************************************************)
EXTENDS
  OpenVpnControl, OpenVpnLink, OpenVpnData, ForwardingStack, LanProxy

VARIABLE part

MCInit ==
  /\ ControlInit /\ LinkInit /\ DataInit /\ TcpInit /\ DnsInit /\ UdpInit /\ LanInit /\ RelayInit
  /\ part \in {"control", "link", "data", "tcp", "dns", "udp", "lan", "relay"}
  /\ part # "udp" => viaProxy
  /\ part # "relay" => egress = "tunnel"

(* Only the part chosen moves.                                             *)
MCNext ==
  /\ IF part = "control" THEN ControlNext ELSE UNCHANGED controlVars
  /\ IF part = "link" THEN LinkNext ELSE UNCHANGED linkVars
  /\ IF part = "data" THEN DataNext ELSE UNCHANGED dataVars
  /\ IF part = "tcp" THEN TcpNext ELSE UNCHANGED tcpVars
  /\ IF part = "dns" THEN DnsNext ELSE UNCHANGED dnsVars
  /\ IF part = "udp" THEN UdpNext ELSE UNCHANGED udpVars
  /\ IF part = "lan" THEN LanNext ELSE UNCHANGED lan
  /\ IF part = "relay" THEN RelayNext ELSE UNCHANGED relayVars
  /\ UNCHANGED part

MCSpec ==
  MCInit /\ [][MCNext]_<<controlVars, linkVars, dataVars, tcpVars, dnsVars, udpVars, lan, relayVars, part>>

(* The two ends of an OpenVPN path agree on keys, and come up.             *)
ControlComesUp == KeysAgree /\ SetupNeverStalls

=============================================================================
