----------------------------- MODULE MCCommitHook -----------------------------
(* Small instances of CommitHook for TLC, over the policies of MCValidation. *)
EXTENDS CommitHook, MCValidation

CONSTANTS empty, padded

MCHookLength == [m \in Messages \cup {Null} |->
                   CASE m \in {Null, empty} -> 0
                     [] m = short           -> 1
                     [] m = padded          -> 3
                     [] OTHER               -> 4]

(* padded is short between two spaces.                                       *)
MCStrip == [m \in Messages |-> IF m = padded THEN short ELSE m]

MCTransactions == {[author |-> admin, message |-> keyed, paths |-> {readme}],
                   [author |-> dev, message |-> keyed, paths |-> {doc}],
                   [author |-> dev, message |-> padded, paths |-> {readme, doc}]}

(* The transactions as svnlook prints them, with or without each value.      *)
MCHookCommits ==
    MCTransactions \cup
    UNION {[author : {Blank, t.author}, message : {empty, MCStrip[t.message]},
            paths : {{}, t.paths}] : t \in MCTransactions}
================================================================================
