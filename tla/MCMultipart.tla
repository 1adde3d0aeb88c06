---------------------------- MODULE MCMultipart ----------------------------
(* A browser and dashictl upload files of one to four parts; from 16 bytes  *)
(* on, the default part size of 4 would need more than four parts.          *)
EXTENDS Multipart, TLC

CONSTANTS web, cli

MCLengths == web :> {1, 4, 5, 7, 12, 13, 16, 17, 24, 25, 36, 37} @@ cli :> {9}
=============================================================================
