----------------------------- MODULE MCStaging -----------------------------
(***************************************************************************)
(* Two files of which one is no Word document, and two deliveries, each of *)
(* any of five forms: both files in either order, one file twice, one file *)
(* beside a rejected one, and a rejected one alone.  Two deliveries let a  *)
(* file be claimed, expire, and be claimed again while its first task is   *)
(* still running.                                                          *)
(***************************************************************************)
EXTENDS Staging

CONSTANTS good, bad

MCFiles == {good, bad}
MCReadable == {good}

Clean(f) == [file |-> f, status |-> "complete"]

MCPayloads == {
  <<Clean(good), Clean(bad)>>,
  <<Clean(bad), Clean(good)>>,
  <<Clean(good), Clean(good)>>,
  <<[file |-> bad, status |-> "rejected"], Clean(good)>>,
  <<[file |-> bad, status |-> "rejected"]>> }

=============================================================================
