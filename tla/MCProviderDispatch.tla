------------------------- MODULE MCProviderDispatch -------------------------
\* ProviderDispatch on small instances for TLC.
EXTENDS ProviderDispatch
=============================================================================
