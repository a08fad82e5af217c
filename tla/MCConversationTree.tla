-------------------------- MODULE MCConversationTree --------------------------
EXTENDS ConversationTree

CONSTANTS c1, c2

One == {c1}

Two == {c1, c2}
===============================================================================
