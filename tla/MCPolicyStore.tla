----------------------------- MODULE MCPolicyStore -----------------------------
(* Small instances of PolicyStore for TLC.                                   *)
EXTENDS PolicyStore, TLC

CONSTANTS t1, t2, t3, u1, u2, u3, nA, nPad, nBlank, nLong, dNone, dOne, dLong,
          s1, s2, r1, r2, g1, g2, gLong

(* nPad is nA between spaces, nBlank is made of spaces only.                 *)
MCTrim  == [n \in Names |-> IF n = nPad THEN nA ELSE n]
MCBlank == {NoName, nBlank}

(* u1 has two rulesets, the first with one rule or two; u2 has none.         *)
MCSetsOf  == [u \in Uids |-> IF u = u1 THEN <<s1, s2>> ELSE <<>>]
MCOneSet  == [u \in Uids |-> IF u = u1 THEN <<s1>> ELSE <<>>]
MCNoSet   == [u \in Uids |-> <<>>]
MCRulesIn == [s \in RuleSets |-> IF s = s1 THEN <<r1>> ELSE <<r2>>]

(* One or two policies are stored; the uids left are for creations.          *)
MCOneSeed  == [u \in Uids |->
                 IF u = u1 THEN [name |-> nA, description |-> EmptyDesc] ELSE Absent]
MCTwoSeeds == [u \in Uids |->
                 CASE u = u1 -> [name |-> nA, description |-> EmptyDesc]
                   [] u = u2 -> [name |-> nPad, description |-> EmptyDesc]
                   [] OTHER  -> Absent]
MCNoGroup   == {}
MCSeedGroup == {<<u1, g1>>}

ThreadSymmetry == Permutations(Threads)
================================================================================
