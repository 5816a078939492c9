----------------------------- MODULE MCProxyDaemon -----------------------------
EXTENDS ProxyDaemon, TLC
CONSTANTS p1, p2, d1, d2, d3
TwoProcs == {p1, p2}
OneProc == {p1}
TwoDaemons == {d1, d2}
ThreeDaemons == {d1, d2, d3}
=============================================================================
