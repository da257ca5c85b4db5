---------------------------- MODULE MCDownloads ----------------------------
(* Two or three downloads of up to two parts; the TTLs keep their order.    *)
EXTENDS Downloads
=============================================================================
