-------------------------- MODULE MCMessagingQueue --------------------------
EXTENDS MessagingQueue

CONSTANTS c1, c2, c3, k1, k2

Three == {c1, c2, c3}

Two == {k1, k2}

(* Two versions of one update and a message of its own.                    *)
SharedKey == [c \in Three |-> IF c = c3 THEN k2 ELSE k1]

OneForgets == {c1}

AllForget == {c1, c2}
==============================================================================
