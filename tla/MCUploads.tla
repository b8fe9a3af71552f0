------------------------------ MODULE MCUploads ------------------------------
(* Three peers for two slots, two chunks held and one that is not, and up  *)
(* to four finished uploads: enough for a chunk to be asked for again after *)
(* another one, and for slots to run out.                                  *)
EXTENDS Uploads
=============================================================================
