----------------------------- MODULE MCFirmware -----------------------------
(* The defaults are a network in range; the pair clients set has a password*)
(* that is a NUL, and so none once it has been stored.                     *)
EXTENDS Firmware, TLC

MCTexts == {"default", "torn", "", "a", "nul"}
MCCString == [x \in MCTexts |-> IF x = "nul" THEN "" ELSE x]
MCPairs == {[ssid |-> "a", password |-> "nul"]}
MCNetworks == {[ssid |-> "default", password |-> "default"]}
=============================================================================
