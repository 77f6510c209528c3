----------------------------- MODULE MCSkkDict -----------------------------
(* Two processes that select candidates in different styles, one of them   *)
(* with two input contexts; four words.                                    *)
EXTENDS SkkDict

CONSTANTS p1, p2, c1, c2, c3, a, b, d, e

MCOwner == [c \in Contexts |-> IF c = c3 THEN p2 ELSE p1]

MCStyle == [p \in Procs |-> IF p = p1 THEN "ddskk-like" ELSE "uim"]
MCUseWindow == [p \in Procs |-> TRUE]
MCOpCount == [p \in Procs |-> 2]
MCPageSize == [p \in Procs |-> IF p = p1 THEN 1 ELSE 2]

\* Nothing saved yet, or words in use beside an ignored one.
MCInitFiles == {NoFile, <<Word(<<a>>), Ignore(<< <<d>> >>), Word(<<b>>), Word(<<e>>)>>}
MCMasterDic == << <<a>>, <<d>> >>
MCWords == {<<b>>}
MCJisyoS == {<<>>, << <<a>> >>}
=============================================================================
