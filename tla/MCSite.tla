------------------------------ MODULE MCSite ------------------------------
EXTENDS Site
=============================================================================
