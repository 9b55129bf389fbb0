---------------------------- MODULE MCYfsClient ----------------------------
(* Instances of YfsClient for TLC.                                         *)
EXTENDS YfsClient, TLC

CONSTANTS c1, c2, a, b
TwoClients == {c1, c2}
OneName == {a}
TwoNames == {a, b}
Root == {1}
TwoDirs == {1, 2}

\* One name that is made in every way and unlinked, one whose file stays and
\* is written.
Apart == [n \in Names |-> IF n = a THEN {"create", "mkdir", "symlink", "unlink"}
                                    ELSE {"create", "write", "setattr"}]
Creates == [n \in Names |-> {"create", "mkdir"}]
Mixed == [n \in Names |-> {"create", "unlink", "write"}]
=============================================================================
