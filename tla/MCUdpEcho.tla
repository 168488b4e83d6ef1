------------------------------ MODULE MCUdpEcho ------------------------------
(* Model of UdpEchoControl and of the parser Ip6Parse for TLC.              *)
EXTENDS UdpEchoControl, Ip6Parse

(* Whatever URI a client is started with, unformat_ip6_address understands  *)
(* every address in its textual form as what it says, and reads no text as  *)
(* an address it does not spell: besides the textual forms it takes only    *)
(* those with a lone colon at an end, or a "::" that stands for no group.   *)
ParsesAddresses == role = "client" /\ pc = "start" => Complete /\ Sound
=============================================================================
