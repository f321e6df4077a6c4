---------------------------- MODULE MCFatVolume ----------------------------
EXTENDS FatVolume

MCValues == {10}
MCWriteSizes == {1, 5}
MCReadSizes == {3}
MCSeekOffsets == {0, 4}
=============================================================================
