----------------------------- MODULE MCPeerPair -----------------------------
(* Two chunks of four packets, a receive window one packet ahead of NPE, a  *)
(* window of two packets at most, the three timeouts of the code in         *)
(* seconds, and four faults: one packet can be lost with all its repeats of *)
(* ten seconds, which leaves an orphaned upload in the window of the next   *)
(* download, and the user's second GET is one of them.  Four packets are    *)
(* the fewest with an orphaned upload beyond the receive window.  A delay   *)
(* leaves one fault.                                                        *)
EXTENDS PeerPair
=============================================================================
