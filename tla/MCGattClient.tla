---------------------------- MODULE MCGattClient ----------------------------
EXTENDS GattClient
=============================================================================
