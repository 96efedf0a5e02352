----------------------- MODULE MCCommercialAuthority -----------------------
\* CommercialAuthority on small instances for TLC.
EXTENDS CommercialAuthority
=============================================================================
