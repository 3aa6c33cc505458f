--------------------------- MODULE MCDailyQuota ---------------------------
(***************************************************************************)
(* Four turns of one person contend for the last message of the day; the   *)
(* configurations name them.                                               *)
(***************************************************************************)
EXTENDS DailyQuota
=============================================================================
