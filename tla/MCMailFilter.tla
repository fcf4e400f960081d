---------------------------- MODULE MCMailFilter ----------------------------
(* Small instances of MailFilter: two messages of one sender to the same     *)
(* recipient, a message whose envelope is refused, and up to two rules of    *)
(* limit one, of which r1 matches only one message.                          *)
EXTENDS MailFilter

CONSTANTS m1, m2, m3, r1, r2

MCSender == [m \in Messages |-> IF m = m3 THEN "null" ELSE "alice"]
MCParty == [m \in Messages |-> IF m = m3 THEN <<"carol", "">> ELSE <<"bob", "a.org">>]
MCLimit == [r \in Rules |-> 1]
MCMatching ==
    [m \in Messages |->
        SelectSeq(IF m = m1 THEN <<r1, r2>> ELSE IF m = m2 THEN <<r2>> ELSE <<>>,
                  LAMBDA r : r \in Rules)]
=============================================================================
