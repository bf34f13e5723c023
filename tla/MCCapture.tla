------------------------------ MODULE MCCapture ------------------------------
(* cshark's capture cycle for TLC: a store of two packets, three arrivals *)
(* per session, so that the MAX_PACKETS return is reached, and malloc      *)
(* failures allowed in store_packet.                                       *)
EXTENDS Capture

MCMaxPackets == 2
MCMaxArrivals == 3
MCPacketsPerPage == 1

====
