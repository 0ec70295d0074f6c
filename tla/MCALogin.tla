------------------------------ MODULE MCALogin ------------------------------
EXTENDS ALogin
=============================================================================
