--------------------------- MODULE MCCloudOutput ---------------------------
EXTENDS CloudOutput

AllModes == {"full", "manifests", "host", "defer"}
=============================================================================
