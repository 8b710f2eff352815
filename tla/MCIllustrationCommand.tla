----------------------- MODULE MCIllustrationCommand ------------------------
EXTENDS IllustrationCommand, TLC
DeviceSymmetry == Permutations(Devices)
=============================================================================
