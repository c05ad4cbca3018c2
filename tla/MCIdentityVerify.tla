-------------------------- MODULE MCIdentityVerify ---------------------------
EXTENDS IdentityVerifyInv

Users   == {0, 1, 2}
Counts  == {1, 4}
Mix(f, t, i) == [ forgery |-> f, tampered |-> t, impersonation |-> i ]
Mixtures == { Mix(0, 2, 0), Mix(1, 1, 1), Mix(0, 1, 2), Mix(2, 1, 0), Mix(3, 0, 1), Mix(0, 0, 0) }
==============================================================================
