----------------------------- MODULE MCFail2ban -----------------------------
(* A small instance of Fail2ban: one offender, one configured service and   *)
(* one without a settings row, a threshold of two, and a ban that lasts      *)
(* exactly as long as the window, as migration 024 sets for "web".           *)
EXTENDS Fail2ban

MCDefault == [max |-> 2, dur |-> 2, find |-> 2, enabled |-> TRUE]
MCSettings == {[max |-> 1, dur |-> 1, find |-> 2, enabled |-> FALSE]}
=============================================================================
