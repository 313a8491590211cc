----------------------------- MODULE MCUploads -----------------------------
EXTENDS Uploads
CONSTANTS u
(* The requests of one user for one file.                                  *)
Requests == [i \in Id |-> [user |-> u, file |-> "x"]]
=============================================================================
