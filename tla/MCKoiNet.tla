------------------------------- MODULE MCKoiNet -------------------------------
EXTENDS KoiNet
=============================================================================
