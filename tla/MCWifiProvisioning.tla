-------------------------- MODULE MCWifiProvisioning --------------------------
EXTENDS WifiProvisioning
=============================================================================
