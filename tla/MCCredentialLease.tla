-------------------------- MODULE MCCredentialLease --------------------------
EXTENDS CredentialLease, TLC
DeviceSymmetry == Permutations(Devices)
=============================================================================
