------------------------------ MODULE MCThrottle ------------------------------
(***************************************************************************)
(* Small instances of Throttle for TLC.                                    *)
(***************************************************************************)
EXTENDS Throttle, TLC

\* Small caps; as in the code, one code has fewer than its caller.
MCLimits ==
    [admission  |-> [code |-> 1, ip |-> 2, uid |-> 2],
     createRoom |-> [uid |-> 2, ip |-> 3],
     recovery   |-> [roomIp |-> 2, ip |-> 3]]

MCSymmetry == UNION {Permutations(S) : S \in {Calls, Codes, Ips, Uids}}
=============================================================================
