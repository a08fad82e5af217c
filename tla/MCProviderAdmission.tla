------------------------- MODULE MCProviderAdmission -------------------------
EXTENDS ProviderAdmission

CONSTANTS s1, s2, s3

Three == {s1, s2, s3}

Two == {s1, s2}
==============================================================================
