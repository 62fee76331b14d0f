----------------------------- MODULE MCEndpoints -----------------------------
(* A small instance of Endpoints for TLC: the ports of a ship, of its block   *)
(* selection and of two blocks; PSO2 serves the second at two addresses.      *)
(* The same run checks SharedReader, which shares no state with it: sections   *)
(* of a file of four bytes, read through a buffer of three.                    *)
EXTENDS Endpoints, SharedReader, TLC

MCPorts == {"ship", "shipBlock", "b1", "b2"}
MCStartOrder == <<"ship", "shipBlock", "b1", "b2">>
MCKind == [p \in MCPorts |-> IF p \in {"b1", "b2"} THEN "block" ELSE p]
MCAddresses == {"gs", "x", "y"}
MCHost == [p \in MCPorts |-> "gs"]
MCHome == [p \in MCPorts |-> CASE p = "ship" -> {"gs"} [] p = "b2" -> {"x", "y"}
                               [] OTHER -> {"x"}]
MCLinks == [p \in MCPorts |-> CASE p = "ship" -> {"shipBlock"} [] p = "shipBlock" -> {"b1"}
                                [] p = "b1" -> {"b1", "b2"} [] p = "b2" -> {"b1"}]
MCEntryPorts == {"ship"}
Symmetry == Permutations(Games)

VARIABLE part  \* the part at work; the other one stays in its initial state

MCInit == part \in {"proxies", "readers"} /\ Init /\ ReaderInit
MCNext ==
    /\ UNCHANGED part
    /\ \/ part = "proxies" /\ Next /\ UNCHANGED readerVars
       \/ part = "readers" /\ ReaderNext /\ UNCHANGED vars
MCSpec == MCInit /\ [][MCNext]_<<vars, readerVars, part>>
==============================================================================
