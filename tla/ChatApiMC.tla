----------------------------- MODULE ChatApiMC -----------------------------
EXTENDS ChatApi
CONSTANTS a, b, w1, w2
=============================================================================
