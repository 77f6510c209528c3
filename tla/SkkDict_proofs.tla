--------------------------- MODULE SkkDict_proofs ---------------------------
(***************************************************************************)
(* The SKK personal dictionary, for any number of processes, contexts,     *)
(* words and crashes: the lock protocol, then the operations on an entry   *)
(* (SkkCandArray), then the invariant of the whole.                        *)
(***************************************************************************)
EXTENDS SkkDict, FoldLemmas, FiniteSetTheorems
-----------------------------------------------------------------------------
(* The lock.                                                                *)

Writing == {"write", "replace"}
Steps == Saving \cup {"gone", "idle"}

Types ==
  /\ pc \in [Procs -> Steps]
  /\ lock \in Procs \cup {NoProc}
  /\ DOMAIN line = Procs

\* The argument: a process is in the critical section exactly while it holds
\* the lock, so nobody else can be there, and the temporary file is its own.
IInv == Types /\ LockHolderWrites /\ RenamesOwnFile

\* There is one lock, so one process at most writes.
LEMMA OneWrites ==
  ASSUME IInv, NEW p \in Procs, NEW q \in Procs, pc[p] \in Writing, pc[q] \in Writing
  PROVE  p = q
BY DEF IInv, LockHolderWrites, Writing

\* A process that stays outside the critical section changes its own entry only.
LEMMA OutsideStep ==
  ASSUME IInv, NEW p \in Procs, NEW x \in Steps, pc[p] \notin Writing, x \notin Writing,
         pc' = [pc EXCEPT ![p] = x], DOMAIN line' = Procs,
         \A q \in Procs : q # p => line'[q] = line[q],
         UNCHANGED <<lock, tmp>>
  PROVE  IInv'
<1>1. /\ pc'[p] = x
      /\ \A q \in Procs : q # p => pc'[q] = pc[q]
  BY DEF IInv, Types
<1>2. Types'
  BY DEF IInv, Types
<1>3. LockHolderWrites'
  BY <1>1 DEF IInv, LockHolderWrites, Writing
<1>4. RenamesOwnFile'
  BY <1>1 DEF IInv, RenamesOwnFile, Written, RealPart, Writing
<1> QED
  BY <1>2, <1>3, <1>4 DEF IInv

\* A process that leaves the section, or dies in it, leaves it free; what it
\* does to the temporary file concerns nobody.
LEMMA LeaveStep ==
  ASSUME IInv, NEW p \in Procs, NEW x \in {"gone", "idle"},
         pc' = [pc EXCEPT ![p] = x],
         lock' = IF lock = p THEN NoProc ELSE lock,
         DOMAIN line' = Procs,
         \A q \in Procs : q # p => line'[q] = line[q],
         pc[p] \in Writing \/ UNCHANGED tmp
  PROVE  IInv'
<1>1. /\ pc'[p] = x /\ x \in Steps /\ x \notin Writing
      /\ \A q \in Procs : q # p => pc'[q] = pc[q]
  BY DEF IInv, Types, Steps, Writing
<1>2. Types'
  BY <1>1 DEF IInv, Types
<1>3. LockHolderWrites'
  <2>1. lock' # p /\ \A q \in Procs : q # p => (lock' = q <=> lock = q)
    BY OwnerAssumption
  <2> QED BY <1>1, <2>1 DEF IInv, LockHolderWrites, Writing
<1>4. ASSUME NEW q \in Procs, pc'[q] = "replace"
      PROVE  tmp' = Written(line'[q])
  <2>1. q # p /\ pc[q] = "replace" /\ line'[q] = line[q]
    BY <1>1, <1>4 DEF Writing
  <2>2. UNCHANGED tmp
    BY <2>1, OneWrites DEF Writing
  <2> QED BY <2>1, <2>2 DEF IInv, RenamesOwnFile
<1> QED
  BY <1>2, <1>3, <1>4 DEF IInv, RenamesOwnFile, Written, RealPart

\* What the end of a save comes to.
LEMMA ReturnStep ==
  ASSUME IInv, NEW p \in Procs, NEW m, NEW t, NEW w, Return(p, m, t, w)
  PROVE  /\ \E x \in {"gone", "idle"} : pc' = [pc EXCEPT ![p] = x]
         /\ DOMAIN line' = Procs
         /\ \A q \in Procs : q # p => line'[q] = line[q]
<1>1. CASE Forget(p)
  BY <1>1 DEF Forget, IInv, Types
<1>2. CASE pc' = [pc EXCEPT ![p] = "idle"] /\ UNCHANGED line
  BY <1>2 DEF IInv, Types
<1> QED
  BY <1>1, <1>2 DEF Return

LEMMA InitIInv == Init => IInv
<1> SUFFICES ASSUME Init PROVE IInv
  OBVIOUS
<1>1. Types
  BY DEF Init, Types, Steps
<1>2. LockHolderWrites
  BY OwnerAssumption DEF Init, LockHolderWrites
<1>3. RenamesOwnFile
  BY DEF Init, RenamesOwnFile
<1> QED
  BY <1>1, <1>2, <1>3 DEF IInv

LEMMA OpenStep ==
  ASSUME IInv, NEW p \in Procs, Open(p)
  PROVE  IInv'
<1>1. /\ pc[p] = "gone" /\ pc' = [pc EXCEPT ![p] = "idle"] /\ UNCHANGED <<lock, tmp>>
      /\ \E ca : line' = [line EXCEPT ![p] = ca]
  BY DEF Open, disk
<1>2. DOMAIN line' = Procs /\ \A q \in Procs : q # p => line'[q] = line[q]
  BY <1>1 DEF IInv, Types
<1>3. pc[p] \notin Writing /\ "idle" \in Steps \ Writing
  BY <1>1 DEF Writing, Steps
<1> QED
  BY <1>1, <1>2, <1>3, OutsideStep

\* Every key changes one entry and one context, and the process of both is idle.
Acts(c) ==
  /\ \E ca, edited : SetLine(c, ca, edited)
  /\ \E m, n, w, ca, saving : SetContext(c, m, n, w, ca, saving)
  /\ left' = left \/ (left > 0 /\ left' = left - 1)

LEMMA KeyStep ==
  ASSUME NEW c \in Contexts, Convert(c)
  PROVE  pc[Owner[c]] = "idle" /\ Acts(c)
<1>1. ASSUME NEW n, NEW w, ChangeCandidateIndex(c, n, w) PROVE Acts(c)
  BY <1>1, Zenon DEF ChangeCandidateIndex, Acts
<1>2. ASSUME skk_back_to_kanji_state(c) PROVE Acts(c)
  BY <1>2, Zenon DEF skk_back_to_kanji_state, Acts
<1>3. ASSUME NEW n, skk_commit_candidate(c, n) PROVE Acts(c)
  BY <1>3, Zenon DEF skk_commit_candidate, Acts
<1>4. CASE BeginConversion(c)
  BY <1>4, Zenon DEF BeginConversion, Ready, Acts
<1>5. CASE NextCandidate(c)
  BY <1>1, <1>5, Zenon DEF NextCandidate, Ready
<1>6. CASE PreviousCandidate(c)
  BY <1>1, <1>2, <1>6, Zenon DEF PreviousCandidate, Ready
<1>7. CASE SelectCandidate(c)
  BY <1>7, Zenon DEF SelectCandidate, Ready, Acts
<1>8. CASE skk_commit_preedit(c)
  BY <1>3, <1>8, Zenon DEF skk_commit_preedit, Ready
<1>9. ASSUME NEW n, skk_commit_by_label_key(c, n) PROVE pc[Owner[c]] = "idle" /\ Acts(c)
  BY <1>3, <1>9, Zenon DEF skk_commit_by_label_key, Ready
<1>10. CASE AskPurge(c)
  BY <1>10, Zenon DEF AskPurge, Ready, Acts
<1>11. CASE KeepCandidate(c)
  BY <1>11, Zenon DEF KeepCandidate, Ready, Acts
<1>12. CASE skk_purge_candidate(c)
  BY <1>12, Zenon DEF skk_purge_candidate, Ready, Acts
<1>13. CASE CancelEditor(c)
  BY <1>2, <1>13, Zenon DEF CancelEditor, Ready, Acts
<1>14. CASE skk_flush(c)
  BY <1>2, <1>14, Zenon DEF skk_flush
<1>15. CASE ReleaseContext(c)
  BY <1>15, Zenon DEF ReleaseContext, Acts
<1>16. ASSUME NEW w \in Words, skk_learn_word(c, w) PROVE pc[Owner[c]] = "idle" /\ Acts(c)
  BY <1>16, Zenon DEF skk_learn_word, Ready, Acts
<1> QED
  BY <1>4, <1>5, <1>6, <1>7, <1>8, <1>9, <1>10, <1>11, <1>12, <1>13, <1>14, <1>15, <1>16, Zenon
     DEF Convert

\* What the user does while the process is idle.
LEMMA ConvertStep ==
  ASSUME IInv, NEW c \in Contexts, Convert(c)
  PROVE  IInv'
<1> DEFINE p == Owner[c]
<1>1. p \in Procs
  BY OwnerAssumption
<1>2. /\ pc[p] = "idle"
      /\ \E ca, edited : SetLine(c, ca, edited)
      /\ \E m, n, w, ca, saving : SetContext(c, m, n, w, ca, saving)
  BY KeyStep DEF Acts
<1>3. /\ DOMAIN line' = Procs /\ \A q \in Procs : q # p => line'[q] = line[q]
      /\ UNCHANGED <<lock, tmp>>
  BY <1>1, <1>2 DEF SetLine, disk, IInv, Types
<1>4. \E x \in Steps \ Writing : pc' = [pc EXCEPT ![p] = x]
  BY <1>2 DEF SetContext, Steps, Saving, Writing
<1>5. pc[p] \notin Writing
  BY <1>2 DEF Writing
<1> HIDE DEF p
<1> QED
  BY <1>1, <1>3, <1>4, <1>5, OutsideStep

LEMMA ReleaseStep ==
  ASSUME IInv, NEW p \in Procs, Release(p)
  PROVE  IInv'
<1>1. pc[p] \notin Writing /\ "check" \in Steps \ Writing
  BY DEF Release, Writing, Steps, Saving
<1>2. /\ pc' = [pc EXCEPT ![p] = "check"] /\ UNCHANGED <<lock, tmp, line>>
      /\ DOMAIN line = Procs
  BY DEF Release, disk, dic, IInv, Types
<1> QED
  BY <1>1, <1>2, OutsideStep

LEMMA CheckStep ==
  ASSUME IInv, NEW p \in Procs, CheckTimestamp(p)
  PROVE  IInv'
<1>1. pc[p] = "check" /\ UNCHANGED <<lock, tmp>> /\ pc[p] \notin Writing
  BY DEF CheckTimestamp, disk, Writing
<1>2. CASE Return(p, FALSE, personal_dic_timestamp[p], synced[p])
  <2>1. \E x \in Steps \ Writing : pc' = [pc EXCEPT ![p] = x]
    BY <1>2, ReturnStep DEF Steps, Writing
  <2>2. DOMAIN line' = Procs /\ \A q \in Procs : q # p => line'[q] = line[q]
    BY <1>2, ReturnStep
  <2> QED BY <1>1, <2>1, <2>2, OutsideStep
<1>3. CASE UNCHANGED line /\ \E x \in {"merge", "lock"} : pc' = [pc EXCEPT ![p] = x]
  <2>1. \E x \in Steps \ Writing : pc' = [pc EXCEPT ![p] = x]
    BY <1>3 DEF Steps, Saving, Writing
  <2>2. DOMAIN line' = Procs /\ \A q \in Procs : q # p => line'[q] = line[q]
    BY <1>3 DEF IInv, Types
  <2> QED BY <1>1, <2>1, <2>2, OutsideStep
<1> QED
  BY <1>2, <1>3 DEF CheckTimestamp, dic

LEMMA MergeStep ==
  ASSUME IInv, NEW p \in Procs, Merge(p)
  PROVE  IInv'
<1>1. /\ pc[p] = "merge" /\ pc' = [pc EXCEPT ![p] = "lock"] /\ UNCHANGED <<lock, tmp>>
      /\ \E src, stale : line' = [line EXCEPT ![p] = MergeLine(src, @, stale)]
  BY Zenon DEF Merge, disk
<1>2. DOMAIN line' = Procs /\ \A q \in Procs : q # p => line'[q] = line[q]
  BY <1>1 DEF IInv, Types
<1>3. pc[p] \notin Writing /\ "lock" \in Steps \ Writing
  BY <1>1 DEF Writing, Steps, Saving
<1> QED
  BY <1>1, <1>2, <1>3, OutsideStep

\* The lock is taken only when it is free, so when nobody is in the section.
LEMMA LockStep ==
  ASSUME IInv, NEW p \in Procs, Lock(p)
  PROVE  IInv'
<1>1. /\ lock = NoProc /\ lock' = p /\ UNCHANGED line
      /\ pc' = [pc EXCEPT ![p] = "write"]
  BY DEF Lock, dic
<1>2. /\ \A q \in Procs : pc[q] \notin Writing
      /\ pc'[p] = "write" /\ \A q \in Procs : q # p => pc'[q] = pc[q]
  BY <1>1, OwnerAssumption DEF IInv, Types, LockHolderWrites, Writing
<1>3. Types'
  BY <1>1 DEF IInv, Types, Steps, Saving
<1>4. LockHolderWrites' /\ RenamesOwnFile'
  BY <1>1, <1>2 DEF LockHolderWrites, RenamesOwnFile, Writing
<1> QED
  BY <1>3, <1>4 DEF IInv

LEMMA WriteStep ==
  ASSUME IInv, NEW p \in Procs, Write(p)
  PROVE  IInv'
<1>1. /\ pc[p] = "write" /\ UNCHANGED <<lock, line>> /\ tmp' = Written(line[p])
      /\ pc' = [pc EXCEPT ![p] = "replace"]
  BY DEF Write, dic
<1>2. pc'[p] = "replace" /\ \A q \in Procs : q # p => pc'[q] = pc[q] /\ pc[q] \notin Writing
  BY <1>1, OneWrites DEF IInv, Types, Writing
<1>3. Types'
  BY <1>1 DEF IInv, Types, Steps, Saving
<1>4. LockHolderWrites'
  BY <1>1, <1>2 DEF IInv, LockHolderWrites, Writing
<1>5. RenamesOwnFile'
  BY <1>1, <1>2 DEF RenamesOwnFile, Writing, Written, RealPart
<1> QED
  BY <1>3, <1>4, <1>5 DEF IInv

\* The end of the section: by an error, by the rename, or by the end of the
\* process.
LEMMA EndStep ==
  ASSUME IInv, NEW p \in Procs, WriteFails(p) \/ Replace(p) \/ Crash(p)
  PROVE  IInv'
<1>1. CASE WriteFails(p)
  <2>1. pc[p] \in Writing /\ lock' = NoProc /\ lock = p
    BY <1>1 DEF WriteFails, Writing, IInv, LockHolderWrites
  <2>2. Return(p, TRUE, personal_dic_timestamp[p], synced[p])
    BY <1>1 DEF WriteFails
  <2> QED BY <2>1, <2>2, ReturnStep, LeaveStep
<1>2. CASE Replace(p)
  <2>1. pc[p] \in Writing /\ lock' = NoProc /\ lock = p
    BY <1>2 DEF Replace, Writing, IInv, LockHolderWrites
  <2>2. Return(p, FALSE, now, tmp)
    BY <1>2 DEF Replace
  <2> QED BY <2>1, <2>2, ReturnStep, LeaveStep
<1>3. CASE Crash(p)
  <2>1. /\ lock' = IF lock = p THEN NoProc ELSE lock
        /\ UNCHANGED tmp /\ Forget(p)
    BY <1>3 DEF Crash
  <2>2. /\ pc' = [pc EXCEPT ![p] = "gone"] /\ DOMAIN line' = Procs
        /\ \A q \in Procs : q # p => line'[q] = line[q]
    BY <2>1 DEF Forget, IInv, Types
  <2> QED BY <2>1, <2>2, LeaveStep
<1> QED
  BY <1>1, <1>2, <1>3

\* Every step keeps the invariant.
LEMMA NextIInv == IInv /\ [Next]_vars => IInv'
<1> SUFFICES ASSUME IInv, [Next]_vars PROVE IInv'
  OBVIOUS
<1>1. ASSUME NEW p \in Procs, Open(p) \/ Release(p) \/ SaveStep(p) \/ Crash(p) PROVE IInv'
  BY <1>1, OpenStep, ReleaseStep, CheckStep, MergeStep, LockStep, WriteStep, EndStep DEF SaveStep
<1>2. ASSUME NEW c \in Contexts, Convert(c) PROVE IInv'
  BY <1>2, ConvertStep
<1>3. ASSUME UNCHANGED <<tmp, lock, pc, line>> PROVE IInv'
  BY <1>3 DEF IInv, Types, LockHolderWrites, RenamesOwnFile, Written, RealPart
<1>4. Tick \/ UNCHANGED vars => UNCHANGED <<tmp, lock, pc, line>>
  BY DEF Tick, vars, disk, dic
<1> QED
  BY <1>1, <1>2, <1>3, <1>4 DEF Next

\* The write lock of the dictionary is held by a process in the middle of
\* writing and by nobody else, after every failed write, release and crash of
\* skk_save_personal_dictionary.
THEOREM LockIsForWriting == Spec => []LockHolderWrites
<1>1. IInv => LockHolderWrites
  BY DEF IInv
<1> QED
  BY InitIInv, NextIInv, <1>1, PTL DEF Spec

\* What a process renames over the dictionary is what it wrote itself, however
\* many processes save at the same time.
THEOREM RenamesWhole == Spec => []RenamesOwnFile
<1>1. IInv => RenamesOwnFile
  BY DEF IInv
<1> QED
  BY InitIInv, NextIInv, <1>1, PTL DEF Spec

-----------------------------------------------------------------------------
(* Sequences: a candidate taken out, put in, looked for.                     *)

-----------------------------------------------------------------------------
(* The candidate array: what its operators return.                          *)

\* A candidate taken out of a sequence.
LEMMA Removed ==
  ASSUME NEW S, NEW s \in Seq(S), NEW i \in 1..Len(s)
  PROVE  /\ RemoveAt(s, i) \in Seq(S) /\ Len(RemoveAt(s, i)) = Len(s) - 1
         /\ \A j \in 1..(Len(s) - 1) : RemoveAt(s, i)[j] = IF j < i THEN s[j] ELSE s[j + 1]
<1> DEFINE front == SubSeq(s, 1, i - 1)
           back == SubSeq(s, i + 1, Len(s))
<1>1. Len(s) \in Nat /\ i \in Nat /\ \A j \in 1..Len(s) : s[j] \in S
  OBVIOUS
<1>2. /\ front \in Seq(S) /\ Len(front) = i - 1
      /\ \A j \in 1..(i - 1) : front[j] = s[j]
  <2>1. \A j \in 1..(i - 1) : s[j] \in S
    BY <1>1
  <2>2. /\ front \in Seq(S) /\ Len(front) = IF 1 <= i - 1 THEN i - 1 - 1 + 1 ELSE 0
        /\ \A j \in 1..(i - 1 - 1 + 1) : front[j] = s[1 + j - 1]
    BY <1>1, <2>1, SubSeqProperties
  <2>3. i - 1 - 1 + 1 = i - 1 /\ \A j \in 1..(i - 1) : 1 + j - 1 = j
    BY <1>1
  <2> HIDE DEF front
  <2> QED BY <1>1, <2>2, <2>3
<1>3. /\ back \in Seq(S) /\ Len(back) = Len(s) - i
      /\ \A j \in 1..(Len(s) - i) : back[j] = s[i + j]
  <2>1. \A j \in (i + 1)..Len(s) : s[j] \in S
    BY <1>1
  <2>2. /\ back \in Seq(S) /\ Len(back) = IF i + 1 <= Len(s) THEN Len(s) - (i + 1) + 1 ELSE 0
        /\ \A j \in 1..(Len(s) - (i + 1) + 1) : back[j] = s[i + 1 + j - 1]
    BY <1>1, <2>1, SubSeqProperties
  <2> HIDE DEF back
  <2>3. Len(s) - (i + 1) + 1 = Len(s) - i
    BY <1>1
  <2>4. Len(back) = Len(s) - i
    BY <1>1, <2>2
  <2>5. ASSUME NEW j \in 1..(Len(s) - i) PROVE back[j] = s[i + j]
    <3>1. i + 1 + j - 1 = i + j
      BY <1>1
    <3> QED BY <2>2, <2>3, <3>1
  <2> QED BY <2>2, <2>4, <2>5
<1> HIDE DEF front, back
<1>4. RemoveAt(s, i) = front \o back
  BY DEF RemoveAt, front, back
<1>5. /\ front \o back \in Seq(S) /\ Len(front \o back) = Len(front) + Len(back)
      /\ \A j \in 1..(Len(front) + Len(back)) :
           (front \o back)[j] = IF j <= Len(front) THEN front[j] ELSE back[j - Len(front)]
  BY <1>2, <1>3, ConcatProperties
<1>6. Len(front) + Len(back) = Len(s) - 1
  BY <1>1, <1>2, <1>3
<1>7. ASSUME NEW j \in 1..(Len(s) - 1)
      PROVE  (front \o back)[j] = IF j < i THEN s[j] ELSE s[j + 1]
  <2>1. CASE j < i
    BY <1>1, <1>2, <1>5, <1>6, <2>1
  <2>2. CASE ~(j < i)
    <3>1. j - (i - 1) \in 1..(Len(s) - i) /\ i + (j - (i - 1)) = j + 1 /\ ~(j <= i - 1)
      BY <1>1, <2>2
    <3>2. Len(front) = i - 1 /\ j \in 1..(Len(front) + Len(back))
      BY <1>2, <1>6
    <3>3. (front \o back)[j] = back[j - (i - 1)]
      BY <1>5, <3>1, <3>2
    <3>4. back[j - (i - 1)] = s[i + (j - (i - 1))]
      BY <1>3, <3>1
    <3> QED BY <2>2, <3>1, <3>3, <3>4
  <2> QED BY <2>1, <2>2
<1>8. front \o back \in Seq(S) /\ Len(front \o back) = Len(s) - 1
  BY <1>5, <1>6
<1> DEFINE x == front \o back
<1>9. RemoveAt(s, i) = x /\ x \in Seq(S) /\ Len(x) = Len(s) - 1
  BY <1>4, <1>8
<1>10. \A j \in 1..(Len(s) - 1) : x[j] = IF j < i THEN s[j] ELSE s[j + 1]
  BY <1>7
<1> HIDE DEF x
<1> QED
  BY <1>9, <1>10

\* One put in behind position r.
Behind(s, r, c) == SubSeq(s, 1, r) \o <<c>> \o SubSeq(s, r + 1, Len(s))

LEMMA Inserted ==
  ASSUME NEW s \in Seq(Candidate), NEW r \in 0..Len(s), NEW c \in Candidate
  PROVE  /\ Behind(s, r, c) \in Seq(Candidate) /\ Len(Behind(s, r, c)) = Len(s) + 1
         /\ \A j \in 1..(Len(s) + 1) : Behind(s, r, c)[j] = IF j <= r THEN s[j]
                                                             ELSE IF j = r + 1 THEN c ELSE s[j - 1]
<1> DEFINE front == SubSeq(s, 1, r)
           back == SubSeq(s, r + 1, Len(s))
<1>1. Len(s) \in Nat /\ r \in Nat /\ \A j \in 1..Len(s) : s[j] \in Candidate
  OBVIOUS
<1>2. front \in Seq(Candidate) /\ Len(front) = r /\ \A j \in 1..r : front[j] = s[j]
  <2>1. \A j \in 1..r : s[j] \in Candidate
    BY <1>1
  <2>2. /\ front \in Seq(Candidate) /\ Len(front) = IF 1 <= r THEN r - 1 + 1 ELSE 0
        /\ \A j \in 1..(r - 1 + 1) : front[j] = s[1 + j - 1]
    BY <1>1, <2>1, SubSeqProperties
  <2>3. r - 1 + 1 = r /\ \A j \in 1..r : 1 + j - 1 = j
    BY <1>1
  <2> HIDE DEF front
  <2> QED BY <1>1, <2>2, <2>3
<1>3. /\ back \in Seq(Candidate) /\ Len(back) = Len(s) - r
      /\ \A j \in 1..(Len(s) - r) : back[j] = s[r + j]
  <2>1. \A j \in (r + 1)..Len(s) : s[j] \in Candidate
    BY <1>1
  <2>2. /\ back \in Seq(Candidate) /\ Len(back) = IF r + 1 <= Len(s) THEN Len(s) - (r + 1) + 1 ELSE 0
        /\ \A j \in 1..(Len(s) - (r + 1) + 1) : back[j] = s[r + 1 + j - 1]
    BY <1>1, <2>1, SubSeqProperties
  <2> HIDE DEF back
  <2>3. Len(s) - (r + 1) + 1 = Len(s) - r
    BY <1>1
  <2>4. Len(back) = Len(s) - r
    BY <1>1, <2>2
  <2>5. ASSUME NEW j \in 1..(Len(s) - r) PROVE back[j] = s[r + j]
    <3>1. r + 1 + j - 1 = r + j
      BY <1>1
    <3> QED BY <2>2, <2>3, <3>1
  <2> QED BY <2>2, <2>4, <2>5
<1> HIDE DEF front, back
<1> DEFINE mid == front \o <<c>>
<1>4. /\ mid \in Seq(Candidate) /\ Len(mid) = r + 1
      /\ \A j \in 1..(r + 1) : mid[j] = IF j <= r THEN s[j] ELSE c
  <2>1. <<c>> \in Seq(Candidate) /\ Len(<<c>>) = 1 /\ <<c>>[1] = c
    OBVIOUS
  <2>2. /\ mid \in Seq(Candidate) /\ Len(mid) = r + 1
        /\ \A j \in 1..(r + 1) : mid[j] = IF j <= r THEN front[j] ELSE <<c>>[j - r]
    BY <1>2, <2>1, ConcatProperties
  <2>3. \A j \in 1..(r + 1) : ~(j <= r) => j - r = 1
    BY <1>1
  <2> HIDE DEF mid
  <2> QED BY <1>1, <1>2, <2>1, <2>2, <2>3
<1> HIDE DEF mid
<1>5. /\ mid \o back \in Seq(Candidate) /\ Len(mid \o back) = Len(s) + 1
      /\ \A j \in 1..(Len(s) + 1) : (mid \o back)[j] = IF j <= r + 1 THEN mid[j] ELSE back[j - (r + 1)]
  <2>1. /\ mid \o back \in Seq(Candidate) /\ Len(mid \o back) = Len(mid) + Len(back)
        /\ \A j \in 1..(Len(mid) + Len(back)) :
             (mid \o back)[j] = IF j <= Len(mid) THEN mid[j] ELSE back[j - Len(mid)]
    BY <1>3, <1>4, ConcatProperties
  <2>2. Len(mid) + Len(back) = Len(s) + 1
    BY <1>1, <1>3, <1>4
  <2> QED BY <1>4, <2>1, <2>2
<1>6. ASSUME NEW j \in 1..(Len(s) + 1)
      PROVE  (mid \o back)[j] = IF j <= r THEN s[j] ELSE IF j = r + 1 THEN c ELSE s[j - 1]
  <2>1. CASE j <= r + 1
    BY <1>1, <1>4, <1>5, <2>1
  <2>2. CASE ~(j <= r + 1)
    <3>1. /\ j - (r + 1) \in 1..(Len(s) - r) /\ r + (j - (r + 1)) = j - 1
          /\ ~(j <= r) /\ j # r + 1
      BY <1>1, <2>2
    <3>2. (mid \o back)[j] = back[j - (r + 1)]
      BY <1>5, <2>2
    <3> QED BY <1>3, <3>1, <3>2
  <2> QED BY <2>1, <2>2
<1> QED
  BY <1>5, <1>6 DEF Behind, mid, front, back

\* The first position with a property, or 0.
LEMMA FirstOf ==
  ASSUME NEW n \in Nat, NEW I \in SUBSET (1..n), I # {}
  PROVE  Min(I) \in I /\ \A j \in 1..n : j < Min(I) => j \notin I
<1>1. PICK m \in I : \A k \in I : m <= k
  BY Least
<1>2. Min(I) \in I /\ \A k \in I : Min(I) <= k
  BY <1>1 DEF Min
<1>3. Min(I) \in 1..n
  BY <1>2
<1> QED
  BY <1>2, <1>3

First(k, n, I) == \/ k = 0 /\ I = {}
                  \/ k \in 1..n /\ k \in I /\ \A j \in 1..n : j < k => j \notin I

LEMMA IndexOfFirst ==
  ASSUME NEW S, NEW s \in Seq(S), NEW x
  PROVE  First(IndexOf(s, x), Len(s), {i \in 1..Len(s) : s[i] = x})
<1> DEFINE I == {i \in 1..Len(s) : s[i] = x}
<1>1. Len(s) \in Nat /\ I \in SUBSET (1..Len(s))
  OBVIOUS
<1>2. IndexOf(s, x) = IF I # {} THEN Min(I) ELSE 0
  BY DEF IndexOf, SelectInSeq
<1> HIDE DEF I
<1>3. I # {} => Min(I) \in I /\ \A j \in 1..Len(s) : j < Min(I) => j \notin I
  BY <1>1, FirstOf
<1>4. First(IndexOf(s, x), Len(s), I)
  BY <1>1, <1>2, <1>3 DEF First
<1> QED
  BY <1>4 DEF I

LEMMA PurgedFirst ==
  ASSUME NEW S, NEW s \in Seq(S)
  PROVE  First(SelectInSeq(s, is_purged_cand), Len(s), {i \in 1..Len(s) : is_purged_cand(s[i])})
<1> DEFINE I == {i \in 1..Len(s) : is_purged_cand(s[i])}
<1>1. Len(s) \in Nat /\ I \in SUBSET (1..Len(s))
  OBVIOUS
<1>2. SelectInSeq(s, is_purged_cand) = IF I # {} THEN Min(I) ELSE 0
  BY DEF SelectInSeq
<1> HIDE DEF I
<1>3. I # {} => Min(I) \in I /\ \A j \in 1..Len(s) : j < Min(I) => j \notin I
  BY <1>1, FirstOf
<1>4. First(SelectInSeq(s, is_purged_cand), Len(s), I)
  BY <1>1, <1>2, <1>3 DEF First
<1> QED
  BY <1>4 DEF I

-----------------------------------------------------------------------------
(* A fit array, and the helpers that read one.                              *)

Sized(ca) == ca \in Array /\ ca.real <= Len(ca.cands)

\* What holds of every entry in memory: the ignore list is a real candidate.
Fit(ca) ==
  /\ Sized(ca)
  /\ \A i \in 1..Len(ca.cands) : is_purged_cand(ca.cands[i]) => i <= ca.real
  /\ \A i, j \in 1..ca.real :
       /\ ca.cands[i] = ca.cands[j] => i = j \/ Garbled(ca.cands[i])
       /\ is_purged_cand(ca.cands[i]) /\ is_purged_cand(ca.cands[j]) => i = j

SameFlags(r, ca) == r.cached = ca.cached /\ r.used = ca.used /\ r.save = ca.save

LEMMA SizedFacts ==
  ASSUME NEW ca, Sized(ca)
  PROVE  /\ ca.cands \in Seq(Candidate) /\ Len(ca.cands) \in Nat
         /\ ca.real \in Nat /\ ca.real \in 0..Len(ca.cands)
         /\ DOMAIN ca.cands = 1..Len(ca.cands)
         /\ \A i \in 1..Len(ca.cands) : ca.cands[i] \in Candidate
<1>1. ca.cands \in Seq(Candidate) /\ ca.real \in Nat /\ ca.real <= Len(ca.cands)
  BY DEF Sized, Array
<1> QED
  BY <1>1

LEMMA RealPartFacts ==
  ASSUME NEW ca, Sized(ca)
  PROVE  /\ RealPart(ca) \in Seq(Candidate) /\ Len(RealPart(ca)) = ca.real
         /\ DOMAIN RealPart(ca) = 1..ca.real
         /\ \A i \in 1..ca.real : RealPart(ca)[i] = ca.cands[i]
<1>1. /\ ca.cands \in Seq(Candidate) /\ ca.real \in 0..Len(ca.cands) /\ ca.real \in Nat
      /\ \A i \in 1..ca.real : ca.cands[i] \in Candidate
  BY SizedFacts
<1>2. /\ RealPart(ca) \in Seq(Candidate)
      /\ Len(RealPart(ca)) = IF 1 <= ca.real THEN ca.real - 1 + 1 ELSE 0
      /\ \A i \in 1..(ca.real - 1 + 1) : RealPart(ca)[i] = ca.cands[1 + i - 1]
  BY <1>1, SubSeqProperties DEF RealPart
<1>3. ca.real - 1 + 1 = ca.real /\ \A i \in 1..ca.real : 1 + i - 1 = i
  BY <1>1
<1>4. Len(RealPart(ca)) = ca.real
  BY <1>1, <1>2
<1> QED
  BY <1>2, <1>3, <1>4

LEMMA RealPartSound ==
  ASSUME NEW ca, Sized(ca)
  PROVE  Fit(ca) => Sound(RealPart(ca))
BY RealPartFacts DEF Fit, Sound

LEMMA PurgedIndexFacts ==
  ASSUME NEW ca, Sized(ca)
  PROVE  First(get_purged_cand_index(ca), ca.real, {i \in 1..ca.real : is_purged_cand(ca.cands[i])})
<1>1. /\ RealPart(ca) \in Seq(Candidate) /\ Len(RealPart(ca)) = ca.real
      /\ {i \in 1..ca.real : is_purged_cand(RealPart(ca)[i])}
           = {i \in 1..ca.real : is_purged_cand(ca.cands[i])}
  BY RealPartFacts
<1>2. First(SelectInSeq(RealPart(ca), is_purged_cand), Len(RealPart(ca)),
            {i \in 1..Len(RealPart(ca)) : is_purged_cand(RealPart(ca)[i])})
  BY <1>1, PurgedFirst
<1> QED
  BY <1>1, <1>2 DEF get_purged_cand_index

LEMMA CandidateFacts ==
  /\ \A w \in Text : /\ Word(w) \in Candidate /\ ~is_purged_cand(Word(w))
                     /\ Word(w).kind = "word" /\ Head(Word(w).words) = w
                     /\ Ignore(<<w>>) \in Candidate /\ is_purged_cand(Ignore(<<w>>))
  /\ \A c \in Candidate : /\ Head(c.words) \in Text /\ c.words \in Seq(Text)
                          /\ is_purged_cand(c) \/ c.kind = "word"
                          /\ is_purged_cand(c) \/ c = Word(Head(c.words))
  /\ \A c \in Candidate, w \in Text :
       /\ Ignore(Append(c.words, w)) \in Candidate /\ is_purged_cand(Ignore(Append(c.words, w)))
       /\ Broken(c, w) \in Candidate /\ ~is_purged_cand(Broken(c, w)) /\ Garbled(Broken(c, w))
<1>1. ASSUME NEW w \in Text
      PROVE  /\ Word(w) \in Candidate /\ ~is_purged_cand(Word(w))
             /\ Word(w).kind = "word" /\ Head(Word(w).words) = w
             /\ Ignore(<<w>>) \in Candidate /\ is_purged_cand(Ignore(<<w>>))
  <2>1. <<w>> \in Seq(Text) \ {<<>>} /\ Head(<<w>>) = w
    OBVIOUS
  <2> HIDE DEF Text
  <2> QED BY <2>1 DEF Word, Ignore, Candidate, is_purged_cand
<1>2. ASSUME NEW c \in Candidate
      PROVE  /\ Head(c.words) \in Text /\ c.words \in Seq(Text) /\ c.words # <<>>
             /\ is_purged_cand(c) \/ c.kind = "word"
             /\ is_purged_cand(c) \/ c = Word(Head(c.words))
  <2>1. /\ c.words \in Seq(Text) /\ c.words # <<>> /\ c.kind \in {"word", "ignore"}
        /\ c = [kind |-> c.kind, words |-> c.words]
        /\ c.kind = "word" => Len(c.words) = 1
    BY DEF Candidate
  <2>2. Head(c.words) \in Text
    BY <2>1, HeadTailProperties
  <2>3. Len(c.words) = 1 => c.words = <<Head(c.words)>>
    <3> HIDE DEF Text
    <3> QED BY <2>1
  <2> QED BY <2>1, <2>2, <2>3 DEF is_purged_cand, Word
<1>3. ASSUME NEW c \in Candidate, NEW w \in Text
      PROVE  /\ Ignore(Append(c.words, w)) \in Candidate /\ is_purged_cand(Ignore(Append(c.words, w)))
             /\ Broken(c, w) \in Candidate /\ ~is_purged_cand(Broken(c, w)) /\ Garbled(Broken(c, w))
  <2>1. Append(c.words, w) \in Seq(Text) \ {<<>>}
    BY <1>2, AppendProperties
  <2>2. Ignore(Append(c.words, w)) \in Candidate /\ is_purged_cand(Ignore(Append(c.words, w)))
    BY <2>1 DEF Ignore, Candidate, is_purged_cand
  <2>3. PICK h : h = Head(c.words)
    OBVIOUS
  <2>4. h \in Seq(Chosen) /\ w \in Seq(Chosen) /\ h # <<>> /\ w # <<>>
    BY <1>2, <2>3 DEF Text
  <2>5. /\ h \o w \in Seq(Chosen) /\ Len(h \o w) = Len(h) + Len(w)
        /\ Len(h) \in Nat \ {0} /\ Len(w) \in Nat \ {0}
    BY <2>4, ConcatProperties, EmptySeq
  <2>6. h \o w \in Text /\ Len(h \o w) > 1
    BY <2>5, EmptySeq DEF Text
  <2> QED BY <1>1, <2>2, <2>3, <2>6 DEF Broken, Garbled
<1> QED
  BY <1>1, <1>2, <1>3

-----------------------------------------------------------------------------
(* One candidate is removed, inserted, appended to.                         *)

\* What stands at its first position and is taken out.
LEMMA RemoveStep ==
  ASSUME NEW ca, Sized(ca), NEW pos \in 1..Len(ca.cands)
  PROVE  LET r == remove_candidate_from_array(ca, pos)
         IN  /\ Sized(r) /\ SameFlags(r, ca)
             /\ r.real = IF pos <= ca.real THEN ca.real - 1 ELSE ca.real
             /\ Len(r.cands) = Len(ca.cands) - 1
             /\ \A j \in 1..(Len(ca.cands) - 1) :
                  r.cands[j] = IF j < pos THEN ca.cands[j] ELSE ca.cands[j + 1]
             /\ Fit(ca) => Fit(r)
<1> DEFINE r == remove_candidate_from_array(ca, pos)
           N == Len(ca.cands)
<1>1. /\ ca.cands \in Seq(Candidate) /\ N \in Nat /\ ca.real \in 0..N /\ pos \in 1..N
      /\ ca \in Array
  BY SizedFacts DEF Sized
<1>2. PICK s : s = RemoveAt(ca.cands, pos)
  OBVIOUS
<1>3. /\ s \in Seq(Candidate) /\ Len(s) = N - 1
      /\ \A j \in 1..(N - 1) : s[j] = IF j < pos THEN ca.cands[j] ELSE ca.cands[j + 1]
  BY <1>1, <1>2, Removed
<1>4. r = [ca EXCEPT !.cands = s, !.real = IF pos <= ca.real THEN ca.real - 1 ELSE ca.real]
  BY <1>2 DEF remove_candidate_from_array
<1>5. (IF pos <= ca.real THEN ca.real - 1 ELSE ca.real) \in Nat
  BY <1>1
<1>6. /\ r \in Array /\ SameFlags(r, ca) /\ r.cands = s
      /\ r.real = IF pos <= ca.real THEN ca.real - 1 ELSE ca.real
  <2> HIDE DEF N
  <2> QED BY <1>1, <1>3, <1>4, <1>5 DEF Array, SameFlags
<1> HIDE DEF r
<1>7. Sized(r)
  BY <1>1, <1>3, <1>6 DEF Sized
<1>8. ASSUME Fit(ca) PROVE Fit(r)
  <2> DEFINE P(j) == IF j < pos THEN j ELSE j + 1
  <2>1. \A j \in 1..(N - 1) : /\ P(j) \in 1..N /\ s[j] = ca.cands[P(j)]
                              /\ j <= r.real <=> P(j) <= ca.real
    BY <1>1, <1>3, <1>6
  <2>2. \A i, j \in 1..(N - 1) : P(i) = P(j) => i = j
    BY <1>1
  <2>3. r.real \in 0..(N - 1) /\ \A i \in 1..r.real : i \in 1..(N - 1) /\ i <= r.real
    BY <1>1, <1>6
  <2> HIDE DEF P, N
  <2>4. ASSUME NEW i \in 1..(N - 1), is_purged_cand(s[i]) PROVE i <= r.real
    BY <1>8, <2>1, <2>4 DEF Fit, N
  <2>5. \A i \in 1..r.real : P(i) \in 1..ca.real /\ s[i] = ca.cands[P(i)]
    BY <1>1, <2>1, <2>3
  <2>6. ASSUME NEW i \in 1..r.real, NEW j \in 1..r.real
        PROVE  /\ s[i] = s[j] => i = j \/ Garbled(s[i])
               /\ is_purged_cand(s[i]) /\ is_purged_cand(s[j]) => i = j
    <3>1. /\ ca.cands[P(i)] = ca.cands[P(j)] => P(i) = P(j) \/ Garbled(ca.cands[P(i)])
          /\ is_purged_cand(ca.cands[P(i)]) /\ is_purged_cand(ca.cands[P(j)]) => P(i) = P(j)
      BY <1>8, <2>5 DEF Fit
    <3>2. P(i) = P(j) => i = j
      BY <2>2, <2>3
    <3> QED BY <2>5, <3>1, <3>2
  <2> QED BY <1>3, <1>6, <1>7, <2>4, <2>6 DEF Fit
<1> QED
  BY <1>3, <1>6, <1>7, <1>8 DEF r

\* A candidate of src is put behind the real part.
LEMMA InsertStep ==
  ASSUME NEW ca, Sized(ca), NEW cand \in Candidate
  PROVE  LET r == merge_word_to_real_cand_array(ca, cand)
         IN  /\ Sized(r) /\ SameFlags(r, ca)
             /\ r.real = ca.real + 1
             /\ Len(r.cands) = Len(ca.cands) + 1
             /\ \A j \in 1..(Len(ca.cands) + 1) :
                  r.cands[j] = IF j <= ca.real THEN ca.cands[j]
                               ELSE IF j = ca.real + 1 THEN cand ELSE ca.cands[j - 1]
             /\ (/\ Fit(ca)
                 /\ \A i \in 1..ca.real : /\ ca.cands[i] = cand => Garbled(cand)
                                          /\ is_purged_cand(cand) => ~is_purged_cand(ca.cands[i]))
                => Fit(r)
<1> DEFINE r == merge_word_to_real_cand_array(ca, cand)
           N == Len(ca.cands)
           R == ca.real
<1>1. /\ ca.cands \in Seq(Candidate) /\ N \in Nat /\ R \in 0..N
      /\ ca \in Array
  BY SizedFacts DEF Sized
<1>2. PICK s : s = Behind(ca.cands, R, cand)
  OBVIOUS
<1>3. /\ s \in Seq(Candidate) /\ Len(s) = N + 1
      /\ \A j \in 1..(N + 1) : s[j] = IF j <= R THEN ca.cands[j]
                                      ELSE IF j = R + 1 THEN cand ELSE ca.cands[j - 1]
  <2>1. PICK cs, k : cs = ca.cands /\ k = R
    OBVIOUS
  <2>2. cs \in Seq(Candidate) /\ k \in 0..Len(cs) /\ cand \in Candidate
        /\ s = Behind(cs, k, cand)
    BY <1>1, <1>2, <2>1
  <2>3. /\ s \in Seq(Candidate) /\ Len(s) = Len(cs) + 1
        /\ \A j \in 1..(Len(cs) + 1) : s[j] = IF j <= k THEN cs[j]
                                               ELSE IF j = k + 1 THEN cand ELSE cs[j - 1]
    <3>1. cs \in Seq(Candidate) /\ k \in 0..Len(cs) /\ cand \in Candidate
      BY <2>2
    <3>2. /\ Behind(cs, k, cand) \in Seq(Candidate) /\ Len(Behind(cs, k, cand)) = Len(cs) + 1
          /\ \A j \in 1..(Len(cs) + 1) :
               Behind(cs, k, cand)[j] = IF j <= k THEN cs[j]
                                        ELSE IF j = k + 1 THEN cand ELSE cs[j - 1]
      BY <3>1, Inserted, Zenon
    <3> QED BY <2>2, <3>2, Zenon
  <2> QED BY <2>1, <2>3
<1>4. r = [ca EXCEPT !.cands = s, !.real = R + 1]
  BY <1>2 DEF merge_word_to_real_cand_array, RealPart, MasterPart, Behind
<1>5. R + 1 \in Nat
  BY <1>1
<1>6. r \in Array /\ SameFlags(r, ca) /\ r.cands = s /\ r.real = R + 1
  <2> HIDE DEF N, R
  <2> QED BY <1>1, <1>3, <1>4, <1>5 DEF Array, SameFlags
<1> HIDE DEF r
<1>7. Sized(r)
  BY <1>1, <1>3, <1>6 DEF Sized
<1>8. ASSUME Fit(ca),
             \A i \in 1..R : /\ ca.cands[i] = cand => Garbled(cand)
                             /\ is_purged_cand(cand) => ~is_purged_cand(ca.cands[i])
      PROVE  Fit(r)
  <2>1. ASSUME NEW i \in 1..(N + 1), is_purged_cand(s[i]) PROVE i <= R + 1
    <3> SUFFICES ASSUME i > R + 1 PROVE FALSE
      BY <1>1
    <3>0. i - 1 \in 1..N /\ ~(i - 1 <= R) /\ ~(i <= R) /\ i # R + 1
      BY <1>1
    <3>1. s[i] = ca.cands[i - 1] /\ i - 1 \in 1..N /\ ~(i - 1 <= R)
      BY <1>3, <3>0
    <3> QED BY <1>8, <2>1, <3>1 DEF Fit
  <2>0. /\ \A i \in 1..R : i \in 1..(R + 1) /\ i \in 1..(N + 1) /\ i <= R
        /\ R + 1 \in 1..(N + 1) /\ ~(R + 1 <= R)
        /\ \A i \in 1..(R + 1) : i = R + 1 \/ i \in 1..R
    <3> HIDE DEF N, R
    <3> QED BY <1>1
  <2>2. /\ \A i \in 1..R : s[i] = ca.cands[i] /\ i \in 1..(R + 1)
        /\ s[R + 1] = cand
        /\ \A i \in 1..(R + 1) : i = R + 1 \/ i \in 1..R
    <3> HIDE DEF N, R
    <3> QED BY <1>3, <2>0
  <2>3. ASSUME NEW i \in 1..(R + 1), NEW j \in 1..(R + 1)
        PROVE  /\ s[i] = s[j] => i = j \/ Garbled(s[i])
               /\ is_purged_cand(s[i]) /\ is_purged_cand(s[j]) => i = j
    <3>1. CASE i \in 1..R /\ j \in 1..R
      BY <1>8, <2>2, <3>1 DEF Fit
    <3>2. CASE i \in 1..R /\ j = R + 1
      BY <1>8, <2>2, <3>2
    <3>3. CASE i = R + 1 /\ j \in 1..R
      BY <1>8, <2>2, <3>3
    <3> QED BY <2>2, <3>1, <3>2, <3>3
  <2> QED BY <1>3, <1>6, <1>7, <2>1, <2>3 DEF Fit
<1> QED
  BY <1>3, <1>6, <1>7, <1>8 DEF r

\* A word is added to the list at pos, or to what stands there instead.
LEMMA PushStep ==
  ASSUME NEW ca, Sized(ca), NEW pos \in Nat \ {0}, NEW w \in Text
  PROVE  LET r == push_purged_word(ca, pos, w)
         IN  /\ Sized(r) /\ SameFlags(r, ca) /\ r.real = ca.real
             /\ Len(r.cands) = Len(ca.cands)
             /\ \A j \in 1..Len(ca.cands) :
                  /\ j # pos => r.cands[j] = ca.cands[j]
                  /\ is_purged_cand(r.cands[j]) <=> is_purged_cand(ca.cands[j])
                  /\ is_purged_cand(ca.cands[j]) \/ r.cands[j] = ca.cands[j] \/ Garbled(r.cands[j])
             /\ Fit(ca) => Fit(r)
<1> DEFINE r == push_purged_word(ca, pos, w)
           N == Len(ca.cands)
           old == ca.cands[pos]
           new == IF is_purged_cand(old)
                  THEN IF w \in ToSet(old.words) THEN old ELSE Ignore(Append(old.words, w))
                  ELSE Broken(old, w)
<1>1. /\ ca.cands \in Seq(Candidate) /\ N \in Nat /\ ca.real \in 0..N
      /\ ca \in Array /\ DOMAIN ca.cands = 1..N
  BY SizedFacts DEF Sized
<1>2. CASE pos > N
  <2>1. r = ca
    BY <1>2 DEF push_purged_word
  <2> HIDE DEF r
  <2>2. \A j \in 1..N : j # pos
    BY <1>1, <1>2
  <2> QED BY <1>1, <2>1, <2>2 DEF r, SameFlags
<1>3. CASE pos <= N
  <2>1. pos \in 1..N /\ old \in Candidate
    BY <1>1, <1>3, SizedFacts
  <2>2. /\ new \in Candidate
        /\ is_purged_cand(new) <=> is_purged_cand(old)
        /\ ~is_purged_cand(old) => Garbled(new)
    BY <2>1, CandidateFacts
  <2>3. PICK c : c = new
    OBVIOUS
  <2>4. r = [ca EXCEPT !.cands[pos] = c]
    <3>1. CASE is_purged_cand(old)
      BY <1>1, <1>3, <2>3, <3>1 DEF push_purged_word
    <3>2. CASE ~is_purged_cand(old)
      BY <1>1, <1>3, <2>3, <3>2 DEF push_purged_word
    <3> QED BY <3>1, <3>2
  <2>5. r = [ca EXCEPT !.cands = [ca.cands EXCEPT ![pos] = c]]
    BY <2>4
  <2>6. PICK s : s = [ca.cands EXCEPT ![pos] = c]
    OBVIOUS
  <2>7. s \in Seq(Candidate) /\ Len(s) = N /\ s[pos] = c /\ \A j \in 1..N : j # pos => s[j] = ca.cands[j]
    BY <1>1, <2>1, <2>2, <2>3, <2>6
  <2>8. r \in Array /\ SameFlags(r, ca) /\ r.cands = s /\ r.real = ca.real
    <3> HIDE DEF N, r
    <3> QED BY <1>1, <2>5, <2>6, <2>7 DEF Array, SameFlags
  <2> HIDE DEF r, new
  <2>9. Sized(r)
    BY <1>1, <2>7, <2>8 DEF Sized
  <2>10. ASSUME NEW j \in 1..N
         PROVE  /\ is_purged_cand(s[j]) <=> is_purged_cand(ca.cands[j])
                /\ is_purged_cand(ca.cands[j]) \/ s[j] = ca.cands[j] \/ Garbled(s[j])
    <3>1. CASE j = pos
      BY <2>2, <2>3, <2>7, <3>1
    <3>2. CASE j # pos
      BY <2>7, <3>2
    <3> QED BY <3>1, <3>2
  <2>11. ASSUME Fit(ca) PROVE Fit(r)
    <3>1. \A i \in 1..ca.real : i \in 1..N
      BY <1>1
    <3>2. ASSUME NEW i \in 1..ca.real, NEW j \in 1..ca.real
          PROVE  /\ s[i] = s[j] => i = j \/ Garbled(s[i])
                 /\ is_purged_cand(s[i]) /\ is_purged_cand(s[j]) => i = j
      <4>1. is_purged_cand(s[i]) /\ is_purged_cand(s[j]) => i = j
        BY <2>10, <2>11, <3>1 DEF Fit
      <4>2. CASE is_purged_cand(s[i])
        BY <4>1, <4>2
      <4>3. CASE ~is_purged_cand(s[i])
        <5> SUFFICES ASSUME s[i] = s[j], ~Garbled(s[i]) PROVE i = j
          BY <4>1
        <5>1. s[i] = ca.cands[i] /\ s[j] = ca.cands[j]
          BY <2>10, <3>1, <4>3
        <5> QED BY <2>11, <5>1 DEF Fit
      <4> QED BY <4>1, <4>2, <4>3
    <3>3. \A i \in 1..N : is_purged_cand(s[i]) => i <= ca.real
      BY <2>10, <2>11 DEF Fit
    <3> QED BY <2>7, <2>8, <2>9, <3>2, <3>3 DEF Fit
  <2> QED BY <2>7, <2>8, <2>9, <2>10, <2>11 DEF r
<1> QED
  BY <1>1, <1>2, <1>3

\* A candidate is moved to the front; the first of them stays where it is.
LEMMA ReorderStep ==
  ASSUME NEW ca, Fit(ca), NEW cand, cand \in ToSet(ca.cands)
  PROVE  LET r == reorder_candidate(ca, cand)
         IN  /\ Fit(r) /\ SameFlags(r, ca)
             /\ r.cands[1] = cand
             /\ \A i \in 1..ca.real : \E j \in 1..r.real : r.cands[j] = ca.cands[i]
             /\ ca.cands[1] = cand => \/ RealPart(r) = RealPart(ca)
                                      \/ ca.real = 0 /\ r.real = 1
<1> DEFINE r == reorder_candidate(ca, cand)
           N == Len(ca.cands)
           pos == IndexOf(ca.cands, cand)
<1>1. /\ ca.cands \in Seq(Candidate) /\ N \in Nat /\ ca.real \in 0..N
      /\ ca \in Array /\ \A i \in 1..N : ca.cands[i] \in Candidate
  BY SizedFacts DEF Sized, Fit
<1>2. /\ pos \in 1..N /\ ca.cands[pos] = cand
      /\ \A j \in 1..N : j < pos => ca.cands[j] # cand
  <2>1. PICK i \in 1..N : ca.cands[i] = cand
    BY <1>1 DEF ToSet
  <2>2. First(pos, N, {j \in 1..N : ca.cands[j] = cand})
    BY <1>1, IndexOfFirst
  <2> HIDE DEF pos, N
  <2> QED BY <2>1, <2>2 DEF First
<1>3. PICK k : k = pos
  OBVIOUS
<1>4. PICK t : t = RemoveAt(ca.cands, k)
  OBVIOUS
<1>5. /\ t \in Seq(Candidate) /\ Len(t) = N - 1
      /\ \A j \in 1..(N - 1) : t[j] = IF j < k THEN ca.cands[j] ELSE ca.cands[j + 1]
  BY <1>1, <1>2, <1>3, <1>4, Removed
<1>6. PICK s : s = <<cand>> \o t
  OBVIOUS
<1> DEFINE P(j) == IF j = 1 THEN k ELSE IF j <= k THEN j - 1 ELSE j
<1>7. s \in Seq(Candidate) /\ Len(s) = N /\ \A j \in 1..N : P(j) \in 1..N /\ s[j] = ca.cands[P(j)]
  <2>1. <<cand>> \in Seq(Candidate) /\ Len(<<cand>>) = 1 /\ <<cand>>[1] = cand
    BY <1>1, <1>2
  <2>2. /\ s \in Seq(Candidate) /\ Len(s) = 1 + Len(t)
        /\ \A j \in 1..(1 + Len(t)) : s[j] = IF j <= 1 THEN <<cand>>[j] ELSE t[j - 1]
    BY <1>5, <1>6, <2>1, ConcatProperties
  <2>3. 1 + Len(t) = N /\ k \in 1..N
    BY <1>1, <1>2, <1>3, <1>5
  <2>4. ASSUME NEW j \in 1..N PROVE P(j) \in 1..N /\ s[j] = ca.cands[P(j)]
    <3> HIDE DEF N, pos
    <3>1. CASE j = 1
      BY <1>2, <1>3, <2>1, <2>2, <2>3, <3>1
    <3>2. CASE j # 1 /\ j <= k
      <4>1. j - 1 \in 1..(N - 1) /\ j - 1 < k /\ ~(j <= 1) /\ P(j) = j - 1 /\ j - 1 \in 1..N
        BY <2>3, <3>2
      <4> QED BY <1>5, <2>2, <2>3, <4>1
    <3>3. CASE j # 1 /\ ~(j <= k)
      <4>1. /\ j - 1 \in 1..(N - 1) /\ ~(j - 1 < k) /\ ~(j <= 1) /\ (j - 1) + 1 = j
            /\ P(j) = j
        BY <2>3, <3>3
      <4> QED BY <1>5, <2>2, <2>3, <4>1
    <3> QED BY <3>1, <3>2, <3>3
  <2> HIDE DEF P, N
  <2> QED BY <2>2, <2>3, <2>4
<1> DEFINE R == IF k > ca.real THEN ca.real + 1 ELSE ca.real
<1>8. R \in Nat /\ R \in 0..N /\ k \in 1..N
  BY <1>1, <1>2, <1>3
<1>9. r \in Array /\ SameFlags(r, ca) /\ r.cands = s /\ r.real = R
  <2>1. r = [ca EXCEPT !.cands = s, !.real = R]
    BY <1>3, <1>4, <1>6 DEF reorder_candidate
  <2> HIDE DEF r, R, N
  <2> QED BY <1>1, <1>7, <1>8, <2>1 DEF Array, SameFlags
<1> HIDE DEF r
<1>10. Sized(r)
  BY <1>7, <1>8, <1>9 DEF Sized
<1>11. \A i, j \in 1..N : P(i) = P(j) => i = j
  BY <1>8
<1>12. \A i \in 1..N : i <= R => \/ P(i) <= ca.real
                                 \/ i = 1 /\ k > ca.real
  BY <1>8, <1>1
<1>13. \A i \in 1..N : P(i) <= ca.real => i <= R
  BY <1>8, <1>1
<1>14. ASSUME k > ca.real PROVE \A i \in 1..ca.real : ca.cands[i] # cand
  BY <1>1, <1>2, <1>3, <1>14
<1>15. Fit(r)
  <2> HIDE DEF P, R, N, pos
  <2>1. ASSUME NEW i \in 1..N, is_purged_cand(s[i]) PROVE i <= R
    BY <1>7, <1>13, <2>1 DEF Fit, N
  <2>2. \A i \in 1..R : i \in 1..N /\ i <= R /\ P(i) \in 1..N
    BY <1>7, <1>8
  <2>3. ASSUME NEW i \in 1..N, P(i) <= ca.real PROVE P(i) \in 1..ca.real
    BY <1>1, <1>7, <2>3
  <2>4. k > ca.real => ~is_purged_cand(ca.cands[k])
    BY <1>1, <1>8 DEF Fit, N
  <2>5. P(1) = k
    BY DEF P
  <2>6. ASSUME NEW i \in 1..R, NEW j \in 1..R
        PROVE  /\ s[i] = s[j] => i = j \/ Garbled(s[i])
               /\ is_purged_cand(s[i]) /\ is_purged_cand(s[j]) => i = j
    <3>1. CASE P(i) <= ca.real /\ P(j) <= ca.real
      <4>1. P(i) \in 1..ca.real /\ P(j) \in 1..ca.real
        BY <2>2, <2>3, <3>1
      <4>2. s[i] = ca.cands[P(i)] /\ s[j] = ca.cands[P(j)] /\ (P(i) = P(j) => i = j)
        BY <1>7, <1>11, <2>2
      <4> QED BY <4>1, <4>2 DEF Fit
    <3>2. CASE i = 1 /\ k > ca.real /\ P(j) <= ca.real
      <4>1. s[i] = cand /\ s[j] = ca.cands[P(j)] /\ P(j) \in 1..ca.real /\ cand = ca.cands[k]
        BY <1>2, <1>3, <1>7, <2>2, <2>3, <2>5, <3>2
      <4> QED BY <1>14, <2>4, <3>2, <4>1
    <3>3. CASE j = 1 /\ k > ca.real /\ P(i) <= ca.real
      <4>1. s[j] = cand /\ s[i] = ca.cands[P(i)] /\ P(i) \in 1..ca.real /\ cand = ca.cands[k]
        BY <1>2, <1>3, <1>7, <2>2, <2>3, <2>5, <3>3
      <4> QED BY <1>14, <2>4, <3>3, <4>1
    <3> QED BY <1>12, <2>2, <3>1, <3>2, <3>3
  <2> QED BY <1>7, <1>9, <1>10, <2>1, <2>6 DEF Fit
<1>16. ASSUME ca.cands[1] = cand PROVE RealPart(r) = RealPart(ca) \/ (ca.real = 0 /\ r.real = 1)
  <2>1. k = 1
    BY <1>1, <1>2, <1>3, <1>16
  <2>2. CASE ca.real = 0
    BY <1>9, <2>1, <2>2
  <2>3. CASE ca.real # 0
    <3>1. R = ca.real /\ \A j \in 1..N : P(j) = j
      BY <1>1, <2>1, <2>3
    <3>2. \A j \in 1..N : s[j] = ca.cands[j]
      BY <1>7, <3>1
    <3>3. s = ca.cands
      <4> HIDE DEF P
      <4> QED BY <1>1, <1>7, <3>2, SeqEqual
    <3> QED BY <1>9, <3>1, <3>3 DEF RealPart
  <2> QED BY <2>2, <2>3
<1>17. ASSUME NEW i \in 1..ca.real PROVE \E j \in 1..r.real : r.cands[j] = ca.cands[i]
  <2> DEFINE j == IF i = k THEN 1 ELSE IF i < k THEN i + 1 ELSE i
  <2>1. i \in 1..N /\ j \in 1..N /\ P(j) = i /\ j \in 1..R
    BY <1>1, <1>8
  <2> HIDE DEF j, P, R
  <2> QED BY <1>7, <1>9, <2>1
<1>18. r.cands[1] = cand
  BY <1>5, <1>6, <1>9
<1> QED
  BY <1>9, <1>15, <1>16, <1>17, <1>18 DEF r

\* A word is put at the end, if it is not there yet.
LEMMA AppendStep ==
  ASSUME NEW S, NEW s \in Seq(S), NEW c \in S
  PROVE  /\ Append(s, c) \in Seq(S) /\ Len(Append(s, c)) = Len(s) + 1
         /\ \A j \in 1..(Len(s) + 1) : Append(s, c)[j] = IF j <= Len(s) THEN s[j] ELSE c
         /\ c \in ToSet(Append(s, c))
BY DEF ToSet

Longer(r, ca) ==
  /\ r \in Array /\ SameFlags(r, ca) /\ r.real = ca.real
  /\ Len(r.cands) >= Len(ca.cands)
  /\ \A j \in 1..Len(ca.cands) : r.cands[j] = ca.cands[j]
  /\ \A j \in 1..Len(r.cands) : j <= Len(ca.cands) \/ ~is_purged_cand(r.cands[j])

LEMMA LongerFits ==
  ASSUME NEW ca, Fit(ca), NEW r, Longer(r, ca)
  PROVE  Fit(r) /\ RealPart(r) = RealPart(ca)
<1>1. /\ Sized(ca) /\ ca.real \in Nat /\ ca.real <= Len(ca.cands) /\ Len(ca.cands) \in Nat
      /\ Len(r.cands) >= Len(ca.cands) /\ Len(r.cands) \in Nat
      /\ r.real = ca.real
  BY SizedFacts DEF Fit, Sized, Longer, Array
<1>2. Sized(r)
  BY <1>1 DEF Sized, Longer
<1>3. \A i \in 1..ca.real : i \in 1..Len(ca.cands)
  BY <1>1
<1>4. \A i \in 1..Len(r.cands) : i <= Len(ca.cands) => i \in 1..Len(ca.cands)
  BY <1>1
<1>5. Fit(r)
  <2>1. ASSUME NEW i \in 1..Len(r.cands), is_purged_cand(r.cands[i]) PROVE i <= r.real
    BY <1>1, <1>4, <2>1 DEF Fit, Longer
  <2>2. ASSUME NEW i \in 1..r.real, NEW j \in 1..r.real
        PROVE  /\ r.cands[i] = r.cands[j] => i = j \/ Garbled(r.cands[i])
               /\ is_purged_cand(r.cands[i]) /\ is_purged_cand(r.cands[j]) => i = j
    <3>1. i \in 1..ca.real /\ j \in 1..ca.real /\ r.cands[i] = ca.cands[i] /\ r.cands[j] = ca.cands[j]
      BY <1>1, <1>3 DEF Longer
    <3> QED BY <3>1 DEF Fit
  <2> QED BY <1>2, <2>1, <2>2 DEF Fit
<1>6. \A i \in 1..ca.real : RealPart(r)[i] = RealPart(ca)[i]
  BY <1>1, <1>2, <1>3, RealPartFacts DEF Longer
<1>7. RealPart(r) \in Seq(Candidate) /\ RealPart(ca) \in Seq(Candidate)
      /\ Len(RealPart(r)) = ca.real /\ Len(RealPart(ca)) = ca.real
  BY <1>1, <1>2, RealPartFacts
<1> QED
  BY <1>5, <1>6, <1>7, SeqEqual

Arrays == {ca \in Array : ca.real <= Len(ca.cands)}

PushMaster(cands, w) == IF Word(w) \in ToSet(cands) THEN cands ELSE Append(cands, Word(w))
PushedMaster(start, q) ==
  LET push(cands, w) == IF Word(w) \in ToSet(cands) THEN cands ELSE Append(cands, Word(w))
  IN  FoldLeft(push, start, q)

LEMMA PushMasterWalk ==
  ASSUME NEW start \in Seq(Candidate), NEW q \in Seq(Text)
  PROVE  \E h \in [0..Len(q) -> Seq(Candidate)] :
           /\ h[0] = start /\ h[Len(q)] = PushedMaster(start, q)
           /\ \A k \in 1..Len(q) : h[k] = PushMaster(h[k - 1], q[k])
<1> DEFINE N == Len(q)
           S == Seq(Candidate)
           g == [x \in S \X Text |-> PushMaster(x[1], x[2])]
<1>0. N \in Nat /\ DOMAIN q = 1..N /\ \A k \in 1..N : q[k] \in Text
  OBVIOUS
<1>1. ASSUME NEW s \in S, NEW w \in Text PROVE PushMaster(s, w) \in S
  <2>1. Word(w) \in Candidate
    BY CandidateFacts
  <2> QED BY <2>1, AppendProperties DEF PushMaster
<1>2. g \in [S \X Text -> S] /\ \A s \in S, w \in Text : g[<<s, w>>] = PushMaster(s, w)
  <2> HIDE DEF S
  <2> QED BY <1>1
<1> HIDE DEF g, S
<1>3. start \in S
  BY DEF S
<1>4. PICK f : Folded(S, g, start, q, N, f)
  BY <1>2, <1>3, FoldExists
<1>5. \A s \in SUBSET (1..N) : s # {} => Max(s) \in 1..N /\ s \ {Max(s)} \in SUBSET (1..N)
  BY <1>0, Greatest
<1> DEFINE Body(F) == [s \in SUBSET DOMAIN q |->
                         IF s = {} THEN start ELSE PushMaster(F[s \ {Max(s)}], q[Max(s)])]
           iter == CHOOSE F : F = Body(F)
<1>6. PushedMaster(start, q) = iter[1..N]
  BY <1>0 DEF PushedMaster, FoldLeft, MapThenFoldSet, PushMaster
<1>7. f = Body(f)
  <2>1. ASSUME NEW s \in SUBSET (1..N), s # {}
        PROVE  f[s] = PushMaster(f[s \ {Max(s)}], q[Max(s)])
    <3>1. f[s \ {Max(s)}] \in S /\ q[Max(s)] \in Text
      BY <1>0, <1>4, <1>5, <2>1 DEF Folded
    <3>2. f[s] = g[<<f[s \ {Max(s)}], q[Max(s)]>>]
      BY <1>4, <2>1 DEF Folded
    <3> QED BY <1>2, <3>1, <3>2
  <2>2. f \in [SUBSET (1..N) -> S] /\ f[{}] = start
    BY <1>4 DEF Folded
  <2> QED BY <1>0, <2>1, <2>2
<1>8. PICK it : it = Body(it) /\ PushedMaster(start, q) = it[1..N]
  <2> HIDE DEF Body
  <2> QED BY <1>6, <1>7
<1>9. ASSUME NEW s \in SUBSET (1..N)
      PROVE  it[s] = IF s = {} THEN start ELSE PushMaster(it[s \ {Max(s)}], q[Max(s)])
  <2>1. it[s] = Body(it)[s]
    BY <1>8
  <2> QED BY <1>0, <2>1
<1>10. it[{}] = start
  BY <1>9
<1>11. ASSUME NEW s \in SUBSET (1..N), s # {}, it[s \ {Max(s)}] \in S
       PROVE  it[s] = g[<<it[s \ {Max(s)}], q[Max(s)]>>]
  BY <1>0, <1>2, <1>5, <1>9, <1>11
<1>14. Follows(S, g, start, q, it)
  BY <1>10, <1>11 DEF Follows
<1>12. PICK h : Walk(S, g, start, q, h, it[1..N])
  <2> HIDE DEF Body
  <2>1. g \in [S \X Text -> S] /\ start \in S /\ q \in Seq(Text) /\ Follows(S, g, start, q, it)
    BY <1>2, <1>3, <1>14
  <2> QED BY <2>1, FoldSteps, Zenon
<1>13. ASSUME NEW k \in 1..N PROVE h[k] = PushMaster(h[k - 1], q[k])
  <2>1. k - 1 \in 0..N
    BY <1>0
  <2>2. h[k - 1] \in S
    BY <1>12, <2>1 DEF Walk
  <2> QED BY <1>0, <1>2, <1>12, <2>2 DEF Walk
<1> QED
  BY <1>8, <1>12, <1>13 DEF S, Walk

-----------------------------------------------------------------------------
(* Taking the purged words out of an array.                                 *)

-----------------------------------------------------------------------------
(* What the merge does to an array besides adding to it. *)

\* Beyond its first n candidates the real part has only texts garbled by the
\* merge, and members of X.
Late(ca, n, X) == \A j \in 1..ca.real : j > n => Garbled(ca.cands[j]) \/ ca.cands[j] \in X
NoIgnore(ca) == \A j \in 1..ca.real : ~is_purged_cand(ca.cands[j])

\* Candidates were taken out, or garbled up to position m.
Damaged(m, r, ca) ==
  /\ Sized(r) /\ SameFlags(r, ca) /\ (Fit(ca) => Fit(r))
  /\ \A X : \A n \in Nat : n >= m /\ Late(ca, n, X) => Late(r, n, X)
  /\ NoIgnore(ca) => NoIgnore(r)

LEMMA Undamaged ==
  ASSUME NEW ca, Sized(ca), NEW m
  PROVE  Damaged(m, ca, ca)
BY DEF Damaged, SameFlags

LEMMA DamagedTwice ==
  ASSUME NEW m, NEW r, NEW s, NEW ca, Damaged(m, s, r), Damaged(m, r, ca)
  PROVE  Damaged(m, s, ca)
<1>1. Sized(s) /\ SameFlags(s, ca) /\ (Fit(ca) => Fit(s)) /\ (NoIgnore(ca) => NoIgnore(s))
  BY DEF Damaged, SameFlags
<1>2. ASSUME NEW n \in Nat, NEW X, n >= m, Late(ca, n, X) PROVE Late(s, n, X)
  <2>1. Late(r, n, X)
    BY <1>2 DEF Damaged
  <2> QED BY <1>2, <2>1 DEF Damaged
<1> QED
  BY <1>1, <1>2 DEF Damaged

LEMMA InArrays == \A ca : ca \in Arrays <=> Sized(ca)
BY DEF Arrays, Sized

RemoveOne(src, ca, w) ==
  LET pos == IndexOf(RealPart(ca), Word(w))
  IN  IF pos = 0 \/ Word(w) \in ToSet(RealPart(src)) THEN ca
      ELSE remove_candidate_from_array(ca, pos)

LEMMA RemoveOneStep ==
  ASSUME NEW src, NEW ca, Sized(ca), NEW w \in Text
  PROVE  LET r == RemoveOne(src, ca, w)
         IN  /\ \A m \in Nat : Damaged(m, r, ca)
             /\ Word(w) \in ToSet(RealPart(src)) \/ Word(w) \notin ToSet(RealPart(ca)) => r = ca
<1> DEFINE r == RemoveOne(src, ca, w)
<1>1. PICK pos : pos = IndexOf(RealPart(ca), Word(w))
  OBVIOUS
<1>2. First(pos, ca.real, {i \in 1..ca.real : ca.cands[i] = Word(w)})
  <2>1. /\ RealPart(ca) \in Seq(Candidate) /\ Len(RealPart(ca)) = ca.real
        /\ {i \in 1..ca.real : RealPart(ca)[i] = Word(w)} = {i \in 1..ca.real : ca.cands[i] = Word(w)}
    BY RealPartFacts
  <2>2. First(IndexOf(RealPart(ca), Word(w)), Len(RealPart(ca)),
              {i \in 1..Len(RealPart(ca)) : RealPart(ca)[i] = Word(w)})
    BY <2>1, IndexOfFirst
  <2> QED BY <1>1, <2>1, <2>2
<1>3. CASE pos = 0 \/ Word(w) \in ToSet(RealPart(src))
  <2>1. r = ca
    BY <1>1, <1>3 DEF RemoveOne
  <2> QED BY <2>1, Undamaged
<1>4. CASE ~(pos = 0 \/ Word(w) \in ToSet(RealPart(src)))
  <2>1. r = remove_candidate_from_array(ca, pos)
    BY <1>1, <1>4 DEF RemoveOne
  <2>2. pos \in 1..ca.real /\ ca.cands[pos] = Word(w)
    BY <1>2, <1>4 DEF First
  <2>3. /\ ca.real \in Nat /\ Len(ca.cands) \in Nat /\ ca.real <= Len(ca.cands)
        /\ pos \in 1..Len(ca.cands)
    BY <2>2, SizedFacts
  <2>4. /\ Sized(r) /\ SameFlags(r, ca) /\ (Fit(ca) => Fit(r))
        /\ r.real = ca.real - 1
        /\ \A j \in 1..(Len(ca.cands) - 1) :
             r.cands[j] = IF j < pos THEN ca.cands[j] ELSE ca.cands[j + 1]
    <3> DEFINE q == remove_candidate_from_array(ca, pos)
    <3>1. /\ Sized(q) /\ SameFlags(q, ca) /\ (Fit(ca) => Fit(q))
          /\ q.real = IF pos <= ca.real THEN ca.real - 1 ELSE ca.real
          /\ \A j \in 1..(Len(ca.cands) - 1) :
               q.cands[j] = IF j < pos THEN ca.cands[j] ELSE ca.cands[j + 1]
      BY <2>3, RemoveStep
    <3>2. q = r
      BY <2>1
    <3> HIDE DEF q, r
    <3>3. q.real = ca.real - 1
      BY <2>2, <2>3, <3>1
    <3> QED BY <3>1, <3>2, <3>3
  <2> HIDE DEF r
  <2>5. \A j \in 1..r.real : /\ j \in 1..(Len(ca.cands) - 1)
                             /\ j \in 1..ca.real /\ j + 1 \in 1..ca.real
                             /\ \A n \in Nat : j > n => j + 1 > n
    BY <2>3, <2>4
  <2>6. \A j \in 1..r.real : r.cands[j] = ca.cands[j] \/ r.cands[j] = ca.cands[j + 1]
    BY <2>4, <2>5
  <2>7. ASSUME NEW n \in Nat, NEW X, Late(ca, n, X) PROVE Late(r, n, X)
    <3> SUFFICES ASSUME NEW j \in 1..r.real, j > n
                 PROVE  Garbled(r.cands[j]) \/ r.cands[j] \in X
      BY DEF Late
    <3>1. j \in 1..ca.real /\ j + 1 \in 1..ca.real /\ j + 1 > n
      BY <2>5
    <3>2. /\ Garbled(ca.cands[j]) \/ ca.cands[j] \in X
          /\ Garbled(ca.cands[j + 1]) \/ ca.cands[j + 1] \in X
      BY <2>7, <3>1 DEF Late
    <3> QED BY <2>6, <3>2
  <2>8. NoIgnore(ca) => NoIgnore(r)
    BY <2>5, <2>6 DEF NoIgnore
  <2>9. Word(w) \in ToSet(RealPart(ca))
    BY <2>2, RealPartFacts DEF ToSet
  <2> QED BY <1>4, <2>4, <2>7, <2>8, <2>9 DEF Damaged, r
<1> QED
  BY <1>3, <1>4

LEMMA RemoveOneType ==
  ASSUME NEW src, NEW ca \in Arrays, NEW w \in Text
  PROVE  RemoveOne(src, ca, w) \in Arrays
<1>1. Sized(ca) /\ 0 \in Nat
  BY InArrays
<1>2. Damaged(0, RemoveOne(src, ca, w), ca)
  BY <1>1, RemoveOneStep
<1> QED
  BY <1>2, InArrays DEF Damaged

RemovePath(src, start, q, h) ==
  /\ h \in [0..Len(q) -> Arrays] /\ h[0] = start
  /\ h[Len(q)] = remove_purged_words_from_dst_cand_array(src, start, q)
  /\ \A k \in 1..Len(q) : h[k] = RemoveOne(src, h[k - 1], q[k])

LEMMA RemoveWalk ==
  ASSUME NEW src, NEW start \in Arrays, NEW q \in Seq(Text)
  PROVE  \E h : RemovePath(src, start, q, h)
<1> DEFINE N == Len(q)
           g == [x \in Arrays \X Text |-> RemoveOne(src, x[1], x[2])]
<1>1. N \in Nat /\ DOMAIN q = 1..N /\ \A k \in 1..N : q[k] \in Text
  OBVIOUS
<1>2. g \in [Arrays \X Text -> Arrays] /\ \A s \in Arrays, w \in Text : g[<<s, w>>] = RemoveOne(src, s, w)
  BY RemoveOneType
<1> HIDE DEF g
<1>3. PICK f : Folded(Arrays, g, start, q, N, f)
  BY <1>2, FoldExists
<1>4. \A s \in SUBSET (1..N) : s # {} => Max(s) \in 1..N /\ s \ {Max(s)} \in SUBSET (1..N)
  BY <1>1, Greatest
<1> DEFINE Body(F) == [s \in SUBSET DOMAIN q |->
                         IF s = {} THEN start ELSE RemoveOne(src, F[s \ {Max(s)}], q[Max(s)])]
           iter == CHOOSE F : F = Body(F)
<1>5. remove_purged_words_from_dst_cand_array(src, start, q) = iter[1..N]
  BY <1>1 DEF remove_purged_words_from_dst_cand_array, FoldLeft, MapThenFoldSet, RemoveOne
<1>6. f = Body(f)
  <2>1. ASSUME NEW s \in SUBSET (1..N), s # {}
        PROVE  f[s] = RemoveOne(src, f[s \ {Max(s)}], q[Max(s)])
    <3>1. f[s \ {Max(s)}] \in Arrays /\ q[Max(s)] \in Text
      BY <1>1, <1>3, <1>4, <2>1 DEF Folded
    <3>2. f[s] = g[<<f[s \ {Max(s)}], q[Max(s)]>>]
      BY <1>3, <2>1 DEF Folded
    <3> QED BY <1>2, <3>1, <3>2
  <2>2. f \in [SUBSET (1..N) -> Arrays] /\ f[{}] = start
    BY <1>3 DEF Folded
  <2> QED BY <1>1, <2>1, <2>2
<1>7. PICK it : it = Body(it) /\ remove_purged_words_from_dst_cand_array(src, start, q) = it[1..N]
  <2> HIDE DEF Body
  <2> QED BY <1>5, <1>6
<1>8. ASSUME NEW s \in SUBSET (1..N)
      PROVE  it[s] = IF s = {} THEN start ELSE RemoveOne(src, it[s \ {Max(s)}], q[Max(s)])
  <2>1. it[s] = Body(it)[s]
    BY <1>7
  <2> QED BY <1>1, <2>1
<1>9. Follows(Arrays, g, start, q, it)
  <2>1. it[{}] = start
    BY <1>8
  <2>2. ASSUME NEW s \in SUBSET (1..N), s # {}, it[s \ {Max(s)}] \in Arrays
        PROVE  it[s] = g[<<it[s \ {Max(s)}], q[Max(s)]>>]
    BY <1>1, <1>2, <1>4, <1>8, <2>2
  <2> QED BY <2>1, <2>2 DEF Follows
<1>10. PICK h : Walk(Arrays, g, start, q, h, it[1..N])
  <2> HIDE DEF Body
  <2>1. g \in [Arrays \X Text -> Arrays] /\ start \in Arrays /\ q \in Seq(Text)
    BY <1>2
  <2> QED BY <1>9, <2>1, FoldSteps, Zenon
<1>11. ASSUME NEW k \in 1..N PROVE h[k] = RemoveOne(src, h[k - 1], q[k])
  <2>1. k - 1 \in 0..N
    BY <1>1
  <2>2. h[k - 1] \in Arrays
    BY <1>10, <2>1 DEF Walk
  <2> QED BY <1>1, <1>2, <1>10, <2>2 DEF Walk
<1>12. RemovePath(src, start, q, h)
  BY <1>7, <1>10, <1>11 DEF Walk, RemovePath
<1> QED
  BY <1>12

LEMMA RemoveAllStep ==
  ASSUME NEW src, NEW ca, Sized(ca), NEW ws \in Seq(Text)
  PROVE  LET r == remove_purged_words_from_dst_cand_array(src, ca, ws)
         IN  /\ \A m \in Nat : Damaged(m, r, ca)
             /\ (\A w \in ToSet(ws) : Word(w) \in ToSet(RealPart(src)) \/ Word(w) \notin ToSet(RealPart(ca)))
                => r = ca
<1> DEFINE N == Len(ws)
           r == remove_purged_words_from_dst_cand_array(src, ca, ws)
           Calm == \A w \in ToSet(ws) : Word(w) \in ToSet(RealPart(src)) \/ Word(w) \notin ToSet(RealPart(ca))
<1>1. N \in Nat /\ \A k \in 1..N : ws[k] \in Text /\ ws[k] \in ToSet(ws)
  BY DEF ToSet
<1>0. PICK h : RemovePath(src, ca, ws, h)
  BY InArrays, RemoveWalk
<1>2. /\ h \in [0..N -> Arrays] /\ h[0] = ca /\ h[N] = r
      /\ \A k \in 1..N : h[k] = RemoveOne(src, h[k - 1], ws[k])
  BY <1>0 DEF RemovePath
<1> DEFINE Good(k) == (\A m \in Nat : Damaged(m, h[k], ca)) /\ (Calm => h[k] = ca)
           T == {k \in 0..N : Good(k)}
<1> HIDE DEF Calm, r
<1>3. Good(0)
  BY <1>2, Undamaged
<1>4. ASSUME NEW k \in 1..N, Good(k - 1) PROVE Good(k)
  <2>1. PICK s : s = h[k - 1]
    OBVIOUS
  <2>2. k - 1 \in 0..N /\ s \in Arrays
    BY <1>1, <1>2, <2>1
  <2>3. Sized(s) /\ ws[k] \in Text /\ h[k] = RemoveOne(src, s, ws[k])
    BY <1>1, <1>2, <2>1, <2>2, InArrays
  <2>4. /\ \A m \in Nat : Damaged(m, h[k], s)
        /\ Word(ws[k]) \in ToSet(RealPart(src)) \/ Word(ws[k]) \notin ToSet(RealPart(s)) => h[k] = s
    <3>1. PICK v : v = ws[k]
      OBVIOUS
    <3>2. /\ \A m \in Nat : Damaged(m, RemoveOne(src, s, v), s)
          /\ Word(v) \in ToSet(RealPart(src)) \/ Word(v) \notin ToSet(RealPart(s))
             => RemoveOne(src, s, v) = s
      BY <2>3, <3>1, RemoveOneStep
    <3> QED BY <2>3, <3>1, <3>2
  <2>5. (\A m \in Nat : Damaged(m, s, ca)) /\ (Calm => s = ca)
    BY <1>4, <2>1
  <2>6. \A m \in Nat : Damaged(m, h[k], ca)
    BY <2>4, <2>5, DamagedTwice
  <2>7. Calm => h[k] = ca
    BY <1>1, <2>4, <2>5 DEF Calm
  <2> QED BY <2>6, <2>7
<1> HIDE DEF Good
<1>5. T = 0..N
  <2>1. T \in SUBSET (0..N) /\ 0 \in T
    BY <1>1, <1>3
  <2>2. ASSUME NEW k \in 1..N, k - 1 \in T PROVE k \in T
    BY <1>1, <1>4, <2>2
  <2> HIDE DEF T, N
  <2> QED BY <1>1, <2>1, <2>2, UpTo
<1>6. Good(N)
  BY <1>1, <1>5
<1> QED
  BY <1>2, <1>6 DEF Good, Calm, r

-----------------------------------------------------------------------------
(* Merging two lists of purged words.                                       *)

\* Nothing of ca is taken out for the sake of the words of ws.
Calm(src, ws, ca) ==
  \A w \in ToSet(ws) : Word(w) \in ToSet(RealPart(src)) \/ Word(w) \notin ToSet(RealPart(ca))

\* The list at pos has grown, and nothing else has changed.
Grown(pos, r, ca) ==
  /\ SameFlags(r, ca) /\ r.real = ca.real /\ Len(r.cands) = Len(ca.cands)
  /\ \A j \in 1..Len(ca.cands) : j # pos => r.cands[j] = ca.cands[j]
  /\ is_purged_cand(r.cands[pos]) /\ ToSet(ca.cands[pos].words) \subseteq ToSet(r.cands[pos].words)

LEMMA GrownTwice ==
  ASSUME NEW pos, NEW s, NEW r, NEW ca, Grown(pos, s, r), Grown(pos, r, ca)
  PROVE  Grown(pos, s, ca)
<1>1. Len(r.cands) = Len(ca.cands)
  BY DEF Grown
<1> QED
  BY <1>1 DEF Grown, SameFlags

LEMMA CalmStays ==
  ASSUME NEW src, NEW ws \in Seq(Text), NEW ca, Sized(ca), NEW r, Sized(r), NEW pos,
         Grown(pos, r, ca), Calm(src, ws, ca)
  PROVE  Calm(src, ws, r)
<1> SUFFICES ASSUME NEW w \in ToSet(ws), Word(w) \in ToSet(RealPart(r))
             PROVE  Word(w) \in ToSet(RealPart(src))
  BY DEF Calm
<1>1. /\ ca.real \in Nat /\ ca.real <= Len(ca.cands) /\ r.real = ca.real
      /\ \A j \in 1..ca.real : j \in 1..Len(ca.cands)
  BY SizedFacts DEF Grown
<1>2. PICK j \in 1..ca.real : r.cands[j] = Word(w)
  BY <1>1, RealPartFacts DEF ToSet
<1>3. j # pos
  BY <1>2 DEF Grown, Word, is_purged_cand
<1>4. ca.cands[j] = Word(w)
  BY <1>1, <1>2, <1>3 DEF Grown
<1>5. Word(w) \in ToSet(RealPart(ca))
  BY <1>4, RealPartFacts DEF ToSet
<1> QED
  BY <1>5 DEF Calm

LEMMA PushGrows ==
  ASSUME NEW ca, Sized(ca), NEW pos \in 1..Len(ca.cands), NEW w \in Text,
         is_purged_cand(ca.cands[pos])
  PROVE  /\ Grown(pos, push_purged_word(ca, pos, w), ca)
         /\ w \in ToSet(push_purged_word(ca, pos, w).cands[pos].words)
<1> DEFINE r == push_purged_word(ca, pos, w)
           old == ca.cands[pos]
           new == IF w \in ToSet(old.words) THEN old ELSE Ignore(Append(old.words, w))
<1>1. /\ Len(ca.cands) \in Nat /\ ca.cands \in Seq(Candidate) /\ old \in Candidate
      /\ DOMAIN ca.cands = 1..Len(ca.cands) /\ ca \in Array /\ pos \in Nat /\ pos <= Len(ca.cands)
  BY SizedFacts DEF Sized
<1>2. /\ is_purged_cand(new) /\ new \in Candidate
      /\ ToSet(old.words) \subseteq ToSet(new.words) /\ w \in ToSet(new.words)
  <2>1. is_purged_cand(new) /\ new \in Candidate /\ old.words \in Seq(Text)
    BY <1>1, CandidateFacts
  <2>2. ToSet(old.words) \subseteq ToSet(Append(old.words, w)) /\ w \in ToSet(Append(old.words, w))
    <3>1. PICK q : q = old.words
      OBVIOUS
    <3>2. ASSUME NEW i \in DOMAIN q PROVE q[i] \in ToSet(Append(q, w))
      <4>1. /\ i \in 1..Len(q) /\ i \in 1..(Len(q) + 1) /\ Append(q, w)[i] = q[i]
            /\ DOMAIN Append(q, w) = 1..(Len(q) + 1)
        BY <2>1, <3>1, <3>2, AppendProperties
      <4> QED BY <4>1 DEF ToSet
    <3>3. w \in ToSet(Append(q, w))
      BY <2>1, <3>1, AppendStep
    <3> QED BY <3>1, <3>2, <3>3 DEF ToSet
  <2>3. Ignore(Append(old.words, w)).words = Append(old.words, w)
    BY DEF Ignore
  <2> HIDE DEF old
  <2> QED BY <2>1, <2>2, <2>3
<1>3. PICK c : c = new
  OBVIOUS
<1>4. r = [ca EXCEPT !.cands = [ca.cands EXCEPT ![pos] = c]]
  BY <1>1, <1>3 DEF push_purged_word
<1>5. PICK s : s = [ca.cands EXCEPT ![pos] = c]
  OBVIOUS
<1>6. Len(s) = Len(ca.cands) /\ s[pos] = c /\ \A j \in 1..Len(ca.cands) : j # pos => s[j] = ca.cands[j]
  BY <1>1, <1>2, <1>3, <1>5
<1>7. r.cands = s /\ r.real = ca.real /\ SameFlags(r, ca)
  <2> HIDE DEF r
  <2> QED BY <1>1, <1>4, <1>5 DEF Array, SameFlags
<1> HIDE DEF r, new
<1>8. Grown(pos, r, ca) /\ w \in ToSet(r.cands[pos].words)
  BY <1>2, <1>3, <1>6, <1>7 DEF Grown
<1> QED
  BY <1>8 DEF r

LEMMA GrownSame ==
  ASSUME NEW ca, NEW pos, is_purged_cand(ca.cands[pos])
  PROVE  Grown(pos, ca, ca)
BY DEF Grown, SameFlags

PushOne(src, ws, known, pos, ca, w) ==
  IF w \in ToSet(known) THEN ca
  ELSE remove_purged_words_from_dst_cand_array(src, push_purged_word(ca, pos, w), ws)

LEMMA PushOneStep ==
  ASSUME NEW src, NEW ws \in Seq(Text), NEW known, NEW pos \in Nat \ {0},
         NEW ca, Sized(ca), NEW w \in Text
  PROVE  LET r == PushOne(src, ws, known, pos, ca, w)
         IN  /\ Damaged(pos, r, ca)
             /\ Calm(src, ws, ca) /\ pos <= Len(ca.cands) /\ is_purged_cand(ca.cands[pos])
                => Grown(pos, r, ca)
<1>1. CASE w \in ToSet(known)
  BY <1>1, Undamaged, GrownSame DEF PushOne
<1>2. CASE w \notin ToSet(known)
  <2>1. PICK s : s = push_purged_word(ca, pos, w)
    OBVIOUS
  <2>2. PICK r : r = remove_purged_words_from_dst_cand_array(src, s, ws)
    OBVIOUS
  <2>3. PushOne(src, ws, known, pos, ca, w) = r
    BY <1>2, <2>1, <2>2 DEF PushOne
  <2>4. /\ Sized(s) /\ SameFlags(s, ca) /\ s.real = ca.real
        /\ Len(s.cands) = Len(ca.cands)
        /\ \A j \in 1..Len(ca.cands) :
             /\ j # pos => s.cands[j] = ca.cands[j]
             /\ is_purged_cand(s.cands[j]) <=> is_purged_cand(ca.cands[j])
             /\ is_purged_cand(ca.cands[j]) \/ s.cands[j] = ca.cands[j] \/ Garbled(s.cands[j])
        /\ Fit(ca) => Fit(s)
    <3> DEFINE x == push_purged_word(ca, pos, w)
    <3>1. Sized(x) /\ SameFlags(x, ca) /\ x.real = ca.real /\ (Fit(ca) => Fit(x))
      BY PushStep
    <3>2. Len(x.cands) = Len(ca.cands)
      BY PushStep
    <3>3. \A j \in 1..Len(ca.cands) :
             /\ j # pos => x.cands[j] = ca.cands[j]
             /\ is_purged_cand(x.cands[j]) <=> is_purged_cand(ca.cands[j])
             /\ is_purged_cand(ca.cands[j]) \/ x.cands[j] = ca.cands[j] \/ Garbled(x.cands[j])
      BY PushStep
    <3> HIDE DEF x
    <3>4. s = x
      BY <2>1 DEF x
    <3> QED BY <3>1, <3>2, <3>3, <3>4
  <2>5. /\ Len(ca.cands) \in Nat /\ ca.real \in Nat /\ \A j \in 1..ca.real : j \in 1..Len(ca.cands)
    BY SizedFacts
  <2>6. Damaged(pos, s, ca)
    <3>1. ASSUME NEW n \in Nat, NEW X, n >= pos, Late(ca, n, X) PROVE Late(s, n, X)
      <4> SUFFICES ASSUME NEW j \in 1..s.real, j > n
                   PROVE  Garbled(s.cands[j]) \/ s.cands[j] \in X
        BY DEF Late
      <4>1. j \in 1..ca.real /\ j # pos /\ j \in 1..Len(ca.cands)
        BY <2>4, <2>5, <3>1
      <4>2. s.cands[j] = ca.cands[j]
        BY <2>4, <4>1
      <4> QED BY <3>1, <4>1, <4>2 DEF Late
    <3>2. NoIgnore(ca) => NoIgnore(s)
      BY <2>4, <2>5 DEF NoIgnore
    <3> QED BY <2>4, <3>1, <3>2 DEF Damaged
  <2>7. Damaged(pos, r, s) /\ (Calm(src, ws, s) => r = s)
    BY <2>2, <2>4, RemoveAllStep DEF Calm
  <2>8. Damaged(pos, r, ca)
    BY <2>6, <2>7, DamagedTwice
  <2>9. ASSUME Calm(src, ws, ca), pos <= Len(ca.cands), is_purged_cand(ca.cands[pos])
        PROVE  Grown(pos, r, ca)
    <3>1. pos \in 1..Len(ca.cands)
      BY <2>5, <2>9
    <3>2. Grown(pos, s, ca)
      BY <2>1, <2>9, <3>1, PushGrows
    <3>3. Calm(src, ws, s)
      BY <2>4, <2>9, <3>2, CalmStays
    <3> QED BY <2>7, <3>2, <3>3
  <2> QED BY <2>3, <2>8, <2>9
<1> QED
  BY <1>1, <1>2

LEMMA PushOneType ==
  ASSUME NEW src, NEW ws \in Seq(Text), NEW known, NEW pos \in Nat \ {0},
         NEW ca \in Arrays, NEW w \in Text
  PROVE  PushOne(src, ws, known, pos, ca, w) \in Arrays
<1>1. Sized(ca)
  BY InArrays
<1>2. Damaged(pos, PushOne(src, ws, known, pos, ca, w), ca)
  BY <1>1, PushOneStep
<1> QED
  BY <1>2, InArrays DEF Damaged

\* merge_purged_cands looks up what was known in the array it started with.
PushAll(src, ws, known, pos, start, q) ==
  LET push(ca, w) ==
        IF w \in ToSet(known) THEN ca
        ELSE remove_purged_words_from_dst_cand_array(src, push_purged_word(ca, pos, w), ws)
  IN  FoldLeft(push, start, q)

PushPath(src, ws, known, pos, start, q, h) ==
  /\ h \in [0..Len(q) -> Arrays] /\ h[0] = start
  /\ h[Len(q)] = PushAll(src, ws, known, pos, start, q)
  /\ \A k \in 1..Len(q) : h[k] = PushOne(src, ws, known, pos, h[k - 1], q[k])

LEMMA PushWalk ==
  ASSUME NEW src, NEW ws \in Seq(Text), NEW known, NEW pos \in Nat \ {0}, NEW start \in Arrays, NEW q \in Seq(Text)
  PROVE  \E h : PushPath(src, ws, known, pos, start, q, h)
<1> DEFINE N == Len(q)
           g == [x \in Arrays \X Text |-> PushOne(src, ws, known, pos, x[1], x[2])]
<1>1. N \in Nat /\ DOMAIN q = 1..N /\ \A k \in 1..N : q[k] \in Text
  OBVIOUS
<1>2. g \in [Arrays \X Text -> Arrays] /\ \A s \in Arrays, w \in Text : g[<<s, w>>] = PushOne(src, ws, known, pos, s, w)
  BY PushOneType
<1> HIDE DEF g
<1>3. PICK f : Folded(Arrays, g, start, q, N, f)
  BY <1>2, FoldExists
<1>4. \A s \in SUBSET (1..N) : s # {} => Max(s) \in 1..N /\ s \ {Max(s)} \in SUBSET (1..N)
  BY <1>1, Greatest
<1> DEFINE Body(F) == [s \in SUBSET DOMAIN q |->
                         IF s = {} THEN start ELSE PushOne(src, ws, known, pos, F[s \ {Max(s)}], q[Max(s)])]
           iter == CHOOSE F : F = Body(F)
<1>5. PushAll(src, ws, known, pos, start, q) = iter[1..N]
  BY <1>1 DEF PushAll, FoldLeft, MapThenFoldSet, PushOne
<1>6. f = Body(f)
  <2>1. ASSUME NEW s \in SUBSET (1..N), s # {}
        PROVE  f[s] = PushOne(src, ws, known, pos, f[s \ {Max(s)}], q[Max(s)])
    <3>1. f[s \ {Max(s)}] \in Arrays /\ q[Max(s)] \in Text
      BY <1>1, <1>3, <1>4, <2>1 DEF Folded
    <3>2. f[s] = g[<<f[s \ {Max(s)}], q[Max(s)]>>]
      BY <1>3, <2>1 DEF Folded
    <3> QED BY <1>2, <3>1, <3>2
  <2>2. f \in [SUBSET (1..N) -> Arrays] /\ f[{}] = start
    BY <1>3 DEF Folded
  <2> QED BY <1>1, <2>1, <2>2
<1>7. PICK it : it = Body(it) /\ PushAll(src, ws, known, pos, start, q) = it[1..N]
  <2> HIDE DEF Body
  <2> QED BY <1>5, <1>6
<1>8. ASSUME NEW s \in SUBSET (1..N)
      PROVE  it[s] = IF s = {} THEN start ELSE PushOne(src, ws, known, pos, it[s \ {Max(s)}], q[Max(s)])
  <2>1. it[s] = Body(it)[s]
    BY <1>7
  <2> QED BY <1>1, <2>1
<1>9. Follows(Arrays, g, start, q, it)
  <2>1. it[{}] = start
    BY <1>8
  <2>2. ASSUME NEW s \in SUBSET (1..N), s # {}, it[s \ {Max(s)}] \in Arrays
        PROVE  it[s] = g[<<it[s \ {Max(s)}], q[Max(s)]>>]
    BY <1>1, <1>2, <1>4, <1>8, <2>2
  <2> QED BY <2>1, <2>2 DEF Follows
<1>10. PICK h : Walk(Arrays, g, start, q, h, it[1..N])
  <2> HIDE DEF Body
  <2>1. g \in [Arrays \X Text -> Arrays] /\ start \in Arrays /\ q \in Seq(Text)
    BY <1>2
  <2> QED BY <1>9, <2>1, FoldSteps, Zenon
<1>11. ASSUME NEW k \in 1..N PROVE h[k] = PushOne(src, ws, known, pos, h[k - 1], q[k])
  <2>1. k - 1 \in 0..N
    BY <1>1
  <2>2. h[k - 1] \in Arrays
    BY <1>10, <2>1 DEF Walk
  <2> QED BY <1>1, <1>2, <1>10, <2>2 DEF Walk
<1>12. PushPath(src, ws, known, pos, start, q, h)
  BY <1>7, <1>10, <1>11 DEF Walk, PushPath
<1> QED
  BY <1>12

LEMMA MergePurgedStep ==
  ASSUME NEW src, NEW ca, Sized(ca), NEW ws \in Seq(Text), NEW pos \in Nat \ {0}
  PROVE  LET r == merge_purged_cands(src, ca, ws, pos)
         IN  /\ Damaged(pos, r, ca)
             /\ Calm(src, ws, ca) /\ pos <= Len(ca.cands) /\ is_purged_cand(ca.cands[pos])
                => Grown(pos, r, ca)
<1> DEFINE N == Len(ws)
           Good(k, s) ==
             /\ Damaged(pos, s, ca)
             /\ Calm(src, ws, ca) /\ pos <= Len(ca.cands) /\ is_purged_cand(ca.cands[pos])
                => Grown(pos, s, ca)
<1>1. PICK known : known = ca.cands[pos].words
  OBVIOUS
<1>2. merge_purged_cands(src, ca, ws, pos) = PushAll(src, ws, known, pos, ca, ws)
  BY <1>1 DEF merge_purged_cands, PushAll
<1>3. N \in Nat /\ \A k \in 1..N : ws[k] \in Text
  OBVIOUS
<1>4. PICK h : PushPath(src, ws, known, pos, ca, ws, h)
  BY InArrays, PushWalk
<1>5. /\ h \in [0..N -> Arrays] /\ h[0] = ca /\ h[N] = PushAll(src, ws, known, pos, ca, ws)
      /\ \A k \in 1..N : h[k] = PushOne(src, ws, known, pos, h[k - 1], ws[k])
  BY <1>4 DEF PushPath
<1> DEFINE T == {k \in 0..N : Good(k, h[k])}
<1>6. Good(0, h[0])
  BY <1>5, Undamaged, GrownSame
<1>7. ASSUME NEW k \in 1..N, Good(k - 1, h[k - 1]) PROVE Good(k, h[k])
  <2>1. PICK s, v : s = h[k - 1] /\ v = ws[k]
    OBVIOUS
  <2>2. k - 1 \in 0..N
    BY <1>3
  <2>3. Sized(s) /\ v \in Text /\ h[k] = PushOne(src, ws, known, pos, s, v)
    BY <1>3, <1>5, <2>1, <2>2, InArrays
  <2>4. /\ Damaged(pos, PushOne(src, ws, known, pos, s, v), s)
        /\ Calm(src, ws, s) /\ pos <= Len(s.cands) /\ is_purged_cand(s.cands[pos])
             => Grown(pos, PushOne(src, ws, known, pos, s, v), s)
    BY <2>3, PushOneStep
  <2>5. Damaged(pos, h[k], ca)
    BY <1>7, <2>1, <2>3, <2>4, DamagedTwice
  <2>6. ASSUME Calm(src, ws, ca), pos <= Len(ca.cands), is_purged_cand(ca.cands[pos])
        PROVE  Grown(pos, h[k], ca)
    <3>1. Grown(pos, s, ca)
      BY <1>7, <2>1, <2>6
    <3>2. Calm(src, ws, s) /\ pos <= Len(s.cands) /\ is_purged_cand(s.cands[pos])
      BY <2>3, <2>6, <3>1, CalmStays DEF Grown
    <3> QED BY <2>3, <2>4, <3>1, <3>2, GrownTwice
  <2> QED BY <2>5, <2>6
<1> HIDE DEF Good
<1>8. T = 0..N
  <2>1. T \in SUBSET (0..N) /\ 0 \in T
    BY <1>3, <1>6
  <2>2. ASSUME NEW k \in 1..N, k - 1 \in T PROVE k \in T
    BY <1>3, <1>7, <2>2
  <2> HIDE DEF T, N
  <2> QED BY <1>3, <2>1, <2>2, UpTo
<1>9. Good(N, h[N])
  BY <1>3, <1>8
<1> QED
  BY <1>2, <1>5, <1>9 DEF Good

\* The words of an array, by position.
LEMMA RealWordsFacts ==
  ASSUME NEW ca, Sized(ca), NEW w
  PROVE  w \in RealWords(ca) <=> \E i \in 1..ca.real : ca.cands[i].kind = "word" /\ Head(ca.cands[i].words) = w
BY RealPartFacts DEF RealWords, WordsOf, ToSet

LEMMA PurgedWordsFacts ==
  ASSUME NEW ca, Fit(ca)
  PROVE  /\ \A i \in 1..ca.real : is_purged_cand(ca.cands[i]) => PurgedWords(ca) = ToSet(ca.cands[i].words)
         /\ NoIgnore(ca) => PurgedWords(ca) = {}
<1>1. Sized(ca) /\ ca.real \in Nat
  BY SizedFacts DEF Fit
<1>2. PICK k : k = get_purged_cand_index(ca)
  OBVIOUS
<1>3. First(k, ca.real, {i \in 1..ca.real : is_purged_cand(ca.cands[i])})
  BY <1>1, <1>2, PurgedIndexFacts
<1>4. ASSUME NEW i \in 1..ca.real, is_purged_cand(ca.cands[i])
      PROVE  PurgedWords(ca) = ToSet(ca.cands[i].words)
  <2>1. k \in 1..ca.real /\ is_purged_cand(ca.cands[k])
    BY <1>3, <1>4 DEF First
  <2>2. k = i /\ k # 0
    BY <1>4, <2>1 DEF Fit
  <2> QED BY <1>2, <2>2 DEF PurgedWords
<1>5. ASSUME NoIgnore(ca) PROVE PurgedWords(ca) = {}
  <2>1. k = 0
    BY <1>3, <1>5 DEF First, NoIgnore
  <2> QED BY <1>2, <2>1 DEF PurgedWords
<1> QED
  BY <1>4, <1>5

\* What the loop of the merge reads.
Read(ca, n) == SubSeq(ca.cands, 1, IF n <= Len(ca.cands) THEN n ELSE Len(ca.cands))

LEMMA ReadFacts ==
  ASSUME NEW ca, Sized(ca), NEW n \in Nat
  PROVE  /\ Read(ca, n) \in Seq(Candidate)
         /\ Len(Read(ca, n)) = IF n <= Len(ca.cands) THEN n ELSE Len(ca.cands)
         /\ \A i \in 1..Len(ca.cands) : i <= n => i \in 1..Len(Read(ca, n))
         /\ \A i \in 1..Len(Read(ca, n)) : /\ Read(ca, n)[i] = ca.cands[i]
                                           /\ i \in 1..Len(ca.cands) /\ i <= n
<1> DEFINE m == IF n <= Len(ca.cands) THEN n ELSE Len(ca.cands)
<1>1. /\ ca.cands \in Seq(Candidate) /\ Len(ca.cands) \in Nat
      /\ \A i \in 1..Len(ca.cands) : ca.cands[i] \in Candidate
  BY SizedFacts
<1>2. m \in 0..Len(ca.cands) /\ m \in Nat /\ m <= n /\ \A i \in 1..m : ca.cands[i] \in Candidate
  BY <1>1
<1>3. \A i \in 1..Len(ca.cands) : i <= n => i <= m
  BY <1>1
<1>4. Read(ca, n) = SubSeq(ca.cands, 1, m)
  BY DEF Read
<1> HIDE DEF m
<1>5. /\ SubSeq(ca.cands, 1, m) \in Seq(Candidate)
      /\ Len(SubSeq(ca.cands, 1, m)) = IF 1 <= m THEN m - 1 + 1 ELSE 0
      /\ \A i \in 1..(m - 1 + 1) : SubSeq(ca.cands, 1, m)[i] = ca.cands[1 + i - 1]
  BY <1>1, <1>2, SubSeqProperties
<1>6. m - 1 + 1 = m /\ \A i \in 1..m : 1 + i - 1 = i /\ i \in 1..Len(ca.cands) /\ i <= n
  BY <1>1, <1>2
<1>7. PICK rd : rd = Read(ca, n)
  OBVIOUS
<1>8. rd \in Seq(Candidate) /\ Len(rd) = m /\ \A i \in 1..m : rd[i] = ca.cands[i]
  BY <1>2, <1>4, <1>5, <1>6, <1>7
<1>9. \A i \in 1..Len(ca.cands) : i <= n => i \in 1..m
  BY <1>2, <1>3
<1> QED
  BY <1>6, <1>7, <1>8, <1>9 DEF m

\* The cases of merge_candidate.
Kept(n, ca, cand, r) ==
  /\ r = ca
  /\ \/ \E i \in 1..Len(ca.cands) : i <= n /\ ca.cands[i] = cand
     \/ n > Len(ca.cands)
     \/ ~is_purged_cand(cand) /\ Head(cand.words) \in PurgedWords(ca)
ListsMerged(src, n, ca, cand, r) ==
  \E k \in 1..Len(ca.cands) :
    /\ k <= n /\ is_purged_cand(cand) /\ is_purged_cand(ca.cands[k])
    /\ r = merge_purged_cands(src, ca, cand.words, k)
ListAdded(src, n, ca, cand, r) ==
  /\ is_purged_cand(cand) /\ \A i \in 1..Len(ca.cands) : i <= n => ~is_purged_cand(ca.cands[i])
  /\ r = merge_word_to_real_cand_array(remove_purged_words_from_dst_cand_array(src, ca, cand.words), cand)
WordAdded(n, ca, cand, r) ==
  /\ ~is_purged_cand(cand) /\ \A i \in 1..Len(ca.cands) : i <= n => ca.cands[i] # cand
  /\ r = merge_word_to_real_cand_array(ca, cand)

LEMMA MergeCases ==
  ASSUME NEW src, NEW n \in Nat, NEW stale, NEW ca, Sized(ca), NEW cand \in Candidate,
         NEW r, r = merge_candidate(src, n, stale, ca, cand)
  PROVE  \/ Kept(n, ca, cand, r)
         \/ ListsMerged(src, n, ca, cand, r)
         \/ ListAdded(src, n, ca, cand, r)
         \/ WordAdded(n, ca, cand, r)
<1> DEFINE purged == SelectInSeq(Read(ca, n), is_purged_cand)
           rest == remove_purged_words_from_dst_cand_array(src, ca, cand.words)
           dup == cand \in ToSet(Read(ca, n)) \/ (stale /\ n > Len(ca.cands))
           ignored == /\ ~is_purged_cand(cand) /\ purged # 0
                      /\ Head(cand.words) \in PurgedWords(ca) \ PurgedWords(src)
<1>1. PICK rd : rd = Read(ca, n)
  OBVIOUS
<1>2. /\ rd \in Seq(Candidate) /\ Len(rd) \in Nat
      /\ \A i \in 1..Len(ca.cands) : i <= n => i \in 1..Len(rd)
      /\ \A i \in 1..Len(rd) : rd[i] = ca.cands[i] /\ i \in 1..Len(ca.cands) /\ i <= n
  BY <1>1, ReadFacts
<1>3. cand \in ToSet(rd) <=> \E i \in 1..Len(ca.cands) : i <= n /\ ca.cands[i] = cand
  BY <1>2 DEF ToSet
<1>4. First(purged, Len(rd), {i \in 1..Len(rd) : is_purged_cand(rd[i])})
  BY <1>1, <1>2, PurgedFirst
<1>5. purged # 0 => purged \in 1..Len(ca.cands) /\ purged <= n /\ is_purged_cand(ca.cands[purged])
  BY <1>2, <1>4 DEF First
<1>6. purged = 0 => \A i \in 1..Len(ca.cands) : i <= n => ~is_purged_cand(ca.cands[i])
  BY <1>2, <1>4 DEF First
<1>7. r = CASE dup -> ca
            [] ~dup /\ is_purged_cand(cand) /\ purged # 0 ->
                 merge_purged_cands(src, ca, cand.words, purged)
            [] ~dup /\ is_purged_cand(cand) /\ purged = 0 -> merge_word_to_real_cand_array(rest, cand)
            [] ~dup /\ ignored -> ca
            [] OTHER -> merge_word_to_real_cand_array(ca, cand)
  BY Zenon DEF merge_candidate, Read
<1> HIDE DEF purged, rest, ignored
<1>8. CASE dup
  BY <1>1, <1>3, <1>7, <1>8 DEF Kept
<1>9. CASE ~dup /\ is_purged_cand(cand) /\ purged # 0
  <2> HIDE DEF dup
  <2>0. ~ignored
    BY <1>9 DEF ignored
  <2>1. r = merge_purged_cands(src, ca, cand.words, purged)
    BY <1>7, <1>9, <2>0
  <2> QED BY <1>5, <1>9, <2>1 DEF ListsMerged
<1>10. CASE ~dup /\ is_purged_cand(cand) /\ purged = 0
  <2> HIDE DEF dup
  <2>0. ~ignored
    BY <1>10 DEF ignored
  <2>1. r = merge_word_to_real_cand_array(rest, cand)
    BY <1>7, <1>10, <2>0
  <2> QED BY <1>6, <1>10, <2>1 DEF ListAdded, rest
<1>11. CASE ~dup /\ ignored
  <2>1. ~is_purged_cand(cand) /\ Head(cand.words) \in PurgedWords(ca)
    BY <1>11 DEF ignored
  <2> HIDE DEF dup
  <2>2. r = ca
    BY <1>7, <1>11, <2>1
  <2> QED BY <2>1, <2>2 DEF Kept
<1>12. CASE ~dup /\ ~is_purged_cand(cand) /\ ~ignored
  <2>1. \A i \in 1..Len(ca.cands) : i <= n => ca.cands[i] # cand
    BY <1>1, <1>3, <1>12
  <2> HIDE DEF dup
  <2>2. r = merge_word_to_real_cand_array(ca, cand)
    BY <1>7, <1>12
  <2> QED BY <1>12, <2>1, <2>2 DEF WordAdded
<1> QED
  BY <1>8, <1>9, <1>10, <1>11, <1>12

-----------------------------------------------------------------------------
(* The loop of merge_real_candidate_array.                                  *)

LEMMA InsertLate ==
  ASSUME NEW ca, Sized(ca), NEW cand \in Candidate, NEW n \in Nat, NEW X, Late(ca, n, X),
         NEW r, r = merge_word_to_real_cand_array(ca, cand)
  PROVE  Late(r, n, X \cup {cand})
<1>1. r.real = ca.real + 1
      /\ \A j \in 1..(Len(ca.cands) + 1) :
           r.cands[j] = IF j <= ca.real THEN ca.cands[j]
                        ELSE IF j = ca.real + 1 THEN cand ELSE ca.cands[j - 1]
  BY InsertStep
<1> SUFFICES ASSUME NEW j \in 1..r.real, j > n PROVE Garbled(r.cands[j]) \/ r.cands[j] \in X \cup {cand}
  BY DEF Late
<1>2. ca.real \in Nat /\ ca.real <= Len(ca.cands) /\ Len(ca.cands) \in Nat
  BY SizedFacts
<1>3. j \in 1..(Len(ca.cands) + 1) /\ (j = ca.real + 1 \/ j \in 1..ca.real)
  BY <1>1, <1>2
<1>4. CASE j \in 1..ca.real
  <2>1. r.cands[j] = ca.cands[j]
    BY <1>1, <1>3, <1>4
  <2> QED BY <1>4, <2>1 DEF Late
<1>5. CASE j = ca.real + 1
  <2>1. ~(j <= ca.real)
    BY <1>2, <1>5
  <2> QED BY <1>1, <1>3, <1>5, <2>1
<1> QED
  BY <1>3, <1>4, <1>5

\* One candidate of src: what was fit stays fit, since src is.
LEMMA MergeOneStep ==
  ASSUME NEW src, NEW n \in Nat, NEW stale, NEW ca, Sized(ca), NEW cand \in Candidate
  PROVE  LET r == merge_candidate(src, n, stale, ca, cand)
         IN  /\ Sized(r) /\ SameFlags(r, ca)
             /\ \A X : /\ Fit(ca) /\ Late(ca, n, X)
                       /\ cand \in X => Garbled(cand)
                       /\ is_purged_cand(cand) => \A c \in X : ~is_purged_cand(c)
                       => Fit(r) /\ Late(r, n, X \cup {cand})
<1> DEFINE rest == remove_purged_words_from_dst_cand_array(src, ca, cand.words)
           Given(X) == /\ Fit(ca) /\ Late(ca, n, X)
                       /\ cand \in X => Garbled(cand)
                       /\ is_purged_cand(cand) => \A c \in X : ~is_purged_cand(c)
<1>1. PICK r : r = merge_candidate(src, n, stale, ca, cand)
  OBVIOUS
<1>2. /\ Len(ca.cands) \in Nat /\ ca.real \in Nat /\ \A j \in 1..ca.real : j \in 1..Len(ca.cands)
      /\ cand.words \in Seq(Text)
  BY SizedFacts, CandidateFacts
<1>3. ASSUME NEW X, Late(ca, n, X) PROVE Late(ca, n, X \cup {cand})
  BY <1>3 DEF Late
<1>4. CASE Kept(n, ca, cand, r)
  BY <1>3, <1>4, <1>1 DEF SameFlags, Kept
<1>5. CASE ListsMerged(src, n, ca, cand, r)
  <2>1. PICK k \in 1..Len(ca.cands) : k <= n /\ r = merge_purged_cands(src, ca, cand.words, k)
    BY <1>5 DEF ListsMerged
  <2>2. k \in Nat \ {0}
    BY <1>2
  <2>4. Damaged(k, r, ca)
    BY <1>2, <2>1, <2>2, MergePurgedStep
  <2>5. Sized(r) /\ SameFlags(r, ca) /\ (Fit(ca) => Fit(r))
    BY <2>4 DEF Damaged
  <2>6. ASSUME NEW X, Late(ca, n, X) PROVE Late(r, n, X \cup {cand})
    BY <1>3, <2>1, <2>2, <2>4, <2>6 DEF Damaged
  <2> QED BY <1>1, <2>5, <2>6
<1>6. CASE ListAdded(src, n, ca, cand, r)
  <2>0. /\ is_purged_cand(cand) /\ r = merge_word_to_real_cand_array(rest, cand)
        /\ \A i \in 1..Len(ca.cands) : i <= n => ~is_purged_cand(ca.cands[i])
    BY <1>6 DEF ListAdded
  <2>1. PICK s : s = rest
    OBVIOUS
  <2>2. Damaged(0, s, ca) /\ Damaged(n, s, ca)
    BY <1>2, <2>1, RemoveAllStep
  <2>3. Sized(s) /\ SameFlags(s, ca) /\ r = merge_word_to_real_cand_array(s, cand)
    BY <2>0, <2>1, <2>2 DEF Damaged
  <2>4. /\ Sized(r) /\ SameFlags(r, s)
        /\ r.real = s.real + 1
        /\ Len(r.cands) = Len(s.cands) + 1
        /\ \A j \in 1..(Len(s.cands) + 1) :
             r.cands[j] = IF j <= s.real THEN s.cands[j]
                          ELSE IF j = s.real + 1 THEN cand ELSE s.cands[j - 1]
        /\ (/\ Fit(s)
            /\ \A i \in 1..s.real : /\ s.cands[i] = cand => Garbled(cand)
                                    /\ is_purged_cand(cand) => ~is_purged_cand(s.cands[i]))
           => Fit(r)
    BY <2>3, InsertStep
  <2>5. ASSUME NEW X, Given(X) PROVE Fit(r) /\ Late(r, n, X \cup {cand})
    <3>1. NoIgnore(ca)
      <4> SUFFICES ASSUME NEW j \in 1..ca.real PROVE ~is_purged_cand(ca.cands[j])
        BY DEF NoIgnore
      <4>1. CASE j <= n
        BY <1>2, <2>0, <4>1
      <4>2. CASE ~(j <= n)
        <5>1. Garbled(ca.cands[j]) \/ ca.cands[j] \in X
          BY <2>5, <4>2 DEF Late
        <5>2. Garbled(ca.cands[j]) => ~is_purged_cand(ca.cands[j])
          BY DEF Garbled, is_purged_cand
        <5> QED BY <2>0, <2>5, <5>1, <5>2
      <4> QED BY <4>1, <4>2
    <3>2. Fit(s) /\ NoIgnore(s) /\ Late(s, n, X)
      BY <2>2, <2>5, <3>1 DEF Damaged
    <3>3. Fit(r)
      BY <2>0, <2>4, <3>2 DEF NoIgnore
    <3> QED BY <2>3, <2>4, <3>2, <3>3, InsertLate
  <2>6. SameFlags(r, ca)
    BY <2>3, <2>4 DEF SameFlags
  <2> QED BY <1>1, <2>4, <2>5, <2>6
<1>7. CASE WordAdded(n, ca, cand, r)
  <2>0. /\ ~is_purged_cand(cand) /\ r = merge_word_to_real_cand_array(ca, cand)
        /\ \A i \in 1..Len(ca.cands) : i <= n => ca.cands[i] # cand
    BY <1>7 DEF WordAdded
  <2>1. /\ Sized(r) /\ SameFlags(r, ca)
        /\ r.real = ca.real + 1
        /\ Len(r.cands) = Len(ca.cands) + 1
        /\ \A j \in 1..(Len(ca.cands) + 1) :
             r.cands[j] = IF j <= ca.real THEN ca.cands[j]
                          ELSE IF j = ca.real + 1 THEN cand ELSE ca.cands[j - 1]
        /\ (/\ Fit(ca)
            /\ \A i \in 1..ca.real : /\ ca.cands[i] = cand => Garbled(cand)
                                     /\ is_purged_cand(cand) => ~is_purged_cand(ca.cands[i]))
           => Fit(r)
    BY <2>0, InsertStep
  <2>2. ASSUME NEW X, Given(X) PROVE Fit(r) /\ Late(r, n, X \cup {cand})
    <3>1. ASSUME NEW i \in 1..ca.real, ca.cands[i] = cand PROVE Garbled(cand)
      <4>1. ~(i <= n)
        BY <1>2, <2>0, <3>1
      <4>2. Garbled(cand) \/ cand \in X
        BY <2>2, <3>1, <4>1 DEF Late
      <4> QED BY <2>2, <4>2
    <3>2. Fit(r)
      BY <2>0, <2>1, <2>2, <3>1
    <3> QED BY <2>0, <2>2, <3>2, InsertLate
  <2> QED BY <1>1, <2>1, <2>2
<1> QED
  BY <1>1, <1>4, <1>5, <1>6, <1>7, MergeCases

LEMMA MergeOneType ==
  ASSUME NEW src, NEW n \in Nat, NEW stale, NEW ca \in Arrays, NEW cand \in Candidate
  PROVE  merge_candidate(src, n, stale, ca, cand) \in Arrays
<1>1. Sized(ca)
  BY InArrays
<1>2. Sized(merge_candidate(src, n, stale, ca, cand))
  BY <1>1, MergeOneStep
<1> QED
  BY <1>2, InArrays

\* merge_real_candidate_array counts the candidates of dst before the loop.
MergeAll(src, n, stale, start, q) ==
  FoldLeft(LAMBDA ca, cand : merge_candidate(src, n, stale, ca, cand), start, q)

MergePath(src, n, stale, start, q, h) ==
  /\ h \in [0..Len(q) -> Arrays] /\ h[0] = start
  /\ h[Len(q)] = MergeAll(src, n, stale, start, q)
  /\ \A k \in 1..Len(q) : h[k] = merge_candidate(src, n, stale, h[k - 1], q[k])

LEMMA MergeWalk ==
  ASSUME NEW src, NEW n \in Nat, NEW stale, NEW start \in Arrays, NEW q \in Seq(Candidate)
  PROVE  \E h : MergePath(src, n, stale, start, q, h)
<1> DEFINE N == Len(q)
           g == [x \in Arrays \X Candidate |-> merge_candidate(src, n, stale, x[1], x[2])]
<1>1. N \in Nat /\ DOMAIN q = 1..N /\ \A k \in 1..N : q[k] \in Candidate
  OBVIOUS
<1>2. g \in [Arrays \X Candidate -> Arrays] /\ \A s \in Arrays, w \in Candidate : g[<<s, w>>] = merge_candidate(src, n, stale, s, w)
  BY MergeOneType
<1> HIDE DEF g
<1>3. PICK f : Folded(Arrays, g, start, q, N, f)
  BY <1>2, FoldExists
<1>4. \A s \in SUBSET (1..N) : s # {} => Max(s) \in 1..N /\ s \ {Max(s)} \in SUBSET (1..N)
  BY <1>1, Greatest
<1> DEFINE Body(F) == [s \in SUBSET DOMAIN q |->
                         IF s = {} THEN start ELSE merge_candidate(src, n, stale, F[s \ {Max(s)}], q[Max(s)])]
           iter == CHOOSE F : F = Body(F)
<1>5. MergeAll(src, n, stale, start, q) = iter[1..N]
  BY <1>1 DEF MergeAll, FoldLeft, MapThenFoldSet
<1>6. f = Body(f)
  <2>1. ASSUME NEW s \in SUBSET (1..N), s # {}
        PROVE  f[s] = merge_candidate(src, n, stale, f[s \ {Max(s)}], q[Max(s)])
    <3>1. f[s \ {Max(s)}] \in Arrays /\ q[Max(s)] \in Candidate
      BY <1>1, <1>3, <1>4, <2>1 DEF Folded
    <3>2. f[s] = g[<<f[s \ {Max(s)}], q[Max(s)]>>]
      BY <1>3, <2>1 DEF Folded
    <3> QED BY <1>2, <3>1, <3>2
  <2>2. f \in [SUBSET (1..N) -> Arrays] /\ f[{}] = start
    BY <1>3 DEF Folded
  <2> QED BY <1>1, <2>1, <2>2
<1>7. PICK it : it = Body(it) /\ MergeAll(src, n, stale, start, q) = it[1..N]
  <2> HIDE DEF Body
  <2> QED BY <1>5, <1>6
<1>8. ASSUME NEW s \in SUBSET (1..N)
      PROVE  it[s] = IF s = {} THEN start ELSE merge_candidate(src, n, stale, it[s \ {Max(s)}], q[Max(s)])
  <2>1. it[s] = Body(it)[s]
    BY <1>7
  <2> QED BY <1>1, <2>1
<1>9. Follows(Arrays, g, start, q, it)
  <2>1. it[{}] = start
    BY <1>8
  <2>2. ASSUME NEW s \in SUBSET (1..N), s # {}, it[s \ {Max(s)}] \in Arrays
        PROVE  it[s] = g[<<it[s \ {Max(s)}], q[Max(s)]>>]
    BY <1>1, <1>2, <1>4, <1>8, <2>2
  <2> QED BY <2>1, <2>2 DEF Follows
<1>10. PICK h : Walk(Arrays, g, start, q, h, it[1..N])
  <2> HIDE DEF Body
  <2>1. g \in [Arrays \X Candidate -> Arrays] /\ start \in Arrays /\ q \in Seq(Candidate)
    BY <1>2
  <2> QED BY <1>9, <2>1, FoldSteps, Zenon
<1>11. ASSUME NEW k \in 1..N PROVE h[k] = merge_candidate(src, n, stale, h[k - 1], q[k])
  <2>1. k - 1 \in 0..N
    BY <1>1
  <2>2. h[k - 1] \in Arrays
    BY <1>10, <2>1 DEF Walk
  <2> QED BY <1>1, <1>2, <1>10, <2>2 DEF Walk
<1>12. MergePath(src, n, stale, start, q, h)
  BY <1>7, <1>10, <1>11 DEF Walk, MergePath
<1> QED
  BY <1>12

-----------------------------------------------------------------------------
(* What a merge keeps.                                                      *)

\* What makes a merge shrink the array: a word of dst that src ignores and has not.
Shrinks(src, dst) == RealWords(dst) \cap (PurgedWords(src) \ RealWords(src)) # {}

\* Otherwise the candidates of dst stay where they were, and those of src follow.
Steady(src, dst, ca) ==
  /\ ca.real >= dst.real
  /\ \A j \in 1..dst.real : \/ ca.cands[j] = dst.cands[j]
                            \/ is_purged_cand(ca.cands[j]) /\ is_purged_cand(dst.cands[j])
  /\ \A j \in 1..ca.real : j > dst.real => ca.cands[j] \in ToSet(RealPart(src))

Gains(r, ca) == RealWords(ca) \subseteq RealWords(r) /\ PurgedWords(ca) \subseteq PurgedWords(r)
Has(ca, cand) == is_purged_cand(cand) \/ Head(cand.words) \in RealWords(ca) \cup PurgedWords(ca)

LEMMA SteadyCalm ==
  ASSUME NEW src, Fit(src), NEW dst, Fit(dst), ~Shrinks(src, dst),
         NEW ca, Fit(ca), Steady(src, dst, ca),
         NEW k \in 1..src.real, is_purged_cand(src.cands[k])
  PROVE  Calm(src, src.cands[k].words, ca)
<1> SUFFICES ASSUME NEW w \in ToSet(src.cands[k].words),
                    Word(w) \notin ToSet(RealPart(src)), Word(w) \in ToSet(RealPart(ca))
             PROVE  FALSE
  BY DEF Calm
<1>1. /\ Sized(src) /\ Sized(dst) /\ Sized(ca)
      /\ ca.real \in Nat /\ dst.real \in Nat
      /\ \A i \in 1..src.real : src.cands[i] \in Candidate
      /\ \A i \in 1..dst.real : dst.cands[i] \in Candidate
  <2>1. Sized(src) /\ Sized(dst) /\ Sized(ca)
    BY DEF Fit
  <2> QED BY <2>1, SizedFacts
<1>2. PurgedWords(src) = ToSet(src.cands[k].words)
  BY PurgedWordsFacts
<1>3. PICK j \in 1..ca.real : ca.cands[j] = Word(w)
  BY <1>1, RealPartFacts DEF ToSet
<1>4. ~(j > dst.real)
  BY <1>3 DEF Steady
<1>5. j \in 1..dst.real
  BY <1>1, <1>4
<1>6. dst.cands[j] = Word(w)
  BY <1>3, <1>5 DEF Steady, Word, is_purged_cand
<1>7. Word(w).kind = "word" /\ Head(Word(w).words) = w
  BY DEF Word
<1>8. w \in RealWords(dst)
  BY <1>1, <1>5, <1>6, <1>7, RealWordsFacts
<1>9. w \notin RealWords(src)
  <2> SUFFICES ASSUME w \in RealWords(src) PROVE FALSE
    OBVIOUS
  <2>1. PICK i \in 1..src.real : src.cands[i].kind = "word" /\ Head(src.cands[i].words) = w
    BY <1>1, RealWordsFacts
  <2>2. src.cands[i] = Word(w)
    BY <1>1, <2>1, CandidateFacts DEF is_purged_cand
  <2> QED BY <1>1, <2>2, RealPartFacts DEF ToSet
<1> QED
  BY <1>2, <1>8, <1>9 DEF Shrinks

LEMMA InsertGains ==
  ASSUME NEW src, NEW dst, Fit(dst), NEW ca, Fit(ca), Steady(src, dst, ca),
         NEW cand \in Candidate, cand \in ToSet(RealPart(src)),
         NEW r, Fit(r), r = merge_word_to_real_cand_array(ca, cand)
  PROVE  Steady(src, dst, r) /\ Gains(r, ca) /\ Has(r, cand)
<1>1. Sized(ca) /\ Sized(r) /\ Sized(dst)
  BY DEF Fit
<1>2. /\ r.real = ca.real + 1
      /\ \A j \in 1..(Len(ca.cands) + 1) :
           r.cands[j] = IF j <= ca.real THEN ca.cands[j]
                        ELSE IF j = ca.real + 1 THEN cand ELSE ca.cands[j - 1]
  BY <1>1, InsertStep
<1>3. /\ ca.real \in Nat /\ ca.real <= Len(ca.cands) /\ Len(ca.cands) \in Nat /\ dst.real \in Nat
      /\ ca.real >= dst.real
  BY <1>1, SizedFacts DEF Steady
<1>4. /\ \A j \in 1..ca.real : j \in 1..(Len(ca.cands) + 1) /\ j <= ca.real /\ j \in 1..r.real
      /\ \A j \in 1..r.real : j \in 1..ca.real \/ j = ca.real + 1
      /\ \A j \in 1..dst.real : j \in 1..ca.real
      /\ ca.real + 1 \in 1..(Len(ca.cands) + 1) /\ ~(ca.real + 1 <= ca.real) /\ ca.real + 1 \in 1..r.real
  BY <1>2, <1>3
<1>5. (\A j \in 1..ca.real : r.cands[j] = ca.cands[j]) /\ r.cands[ca.real + 1] = cand
  BY <1>2, <1>4
<1>6. Steady(src, dst, r)
  <2>1. r.real >= dst.real
    BY <1>2, <1>3
  <2>2. ASSUME NEW j \in 1..dst.real
        PROVE  \/ r.cands[j] = dst.cands[j]
               \/ is_purged_cand(r.cands[j]) /\ is_purged_cand(dst.cands[j])
    BY <1>4, <1>5 DEF Steady
  <2>3. ASSUME NEW j \in 1..r.real, j > dst.real PROVE r.cands[j] \in ToSet(RealPart(src))
    BY <1>4, <1>5, <2>3 DEF Steady
  <2> QED BY <2>1, <2>2, <2>3 DEF Steady
<1>7. RealWords(ca) \subseteq RealWords(r)
  BY <1>1, <1>4, <1>5, RealWordsFacts
<1>8. PurgedWords(ca) \subseteq PurgedWords(r)
  <2>1. CASE NoIgnore(ca)
    BY <2>1, PurgedWordsFacts
  <2>2. CASE ~NoIgnore(ca)
    <3>1. PICK i \in 1..ca.real : is_purged_cand(ca.cands[i])
      BY <2>2 DEF NoIgnore
    <3>2. PurgedWords(ca) = ToSet(ca.cands[i].words)
      BY <3>1, PurgedWordsFacts
    <3>3. i \in 1..r.real /\ r.cands[i] = ca.cands[i]
      BY <1>4, <1>5
    <3>4. PurgedWords(r) = ToSet(r.cands[i].words)
      BY <3>1, <3>3, PurgedWordsFacts
    <3> QED BY <3>2, <3>3, <3>4
  <2> QED BY <2>1, <2>2
<1>9. Has(r, cand)
  <2>1. is_purged_cand(cand) \/ cand.kind = "word"
    BY CandidateFacts
  <2>2. cand.kind = "word" => Head(cand.words) \in RealWords(r)
    BY <1>1, <1>4, <1>5, RealWordsFacts
  <2> QED BY <2>1, <2>2 DEF Has
<1> QED
  BY <1>6, <1>7, <1>8, <1>9 DEF Gains

LEMMA GrownGains ==
  ASSUME NEW src, NEW dst, Fit(dst), NEW ca, Fit(ca), Steady(src, dst, ca),
         NEW k \in 1..dst.real, is_purged_cand(ca.cands[k]),
         NEW r, Fit(r), Grown(k, r, ca)
  PROVE  Steady(src, dst, r) /\ Gains(r, ca)
<1>1. /\ Sized(ca) /\ Sized(r) /\ ca.real \in Nat /\ dst.real \in Nat /\ r.real = ca.real
      /\ ca.real >= dst.real
      /\ \A j \in 1..ca.real : j \in 1..Len(ca.cands)
  <2>1. Sized(ca) /\ Sized(r) /\ Sized(dst)
    BY DEF Fit
  <2> QED BY <2>1, SizedFacts DEF Steady, Grown
<1>2. \A j \in 1..dst.real : j \in 1..ca.real
  BY <1>1
<1>3. \A j \in 1..ca.real : j # k => r.cands[j] = ca.cands[j]
  BY <1>1 DEF Grown
<1>4. Steady(src, dst, r)
  <2>1. ASSUME NEW j \in 1..dst.real
        PROVE  \/ r.cands[j] = dst.cands[j]
               \/ is_purged_cand(r.cands[j]) /\ is_purged_cand(dst.cands[j])
    <3>1. CASE j # k
      BY <1>2, <1>3, <3>1 DEF Steady
    <3>2. CASE j = k
      BY <3>2 DEF Steady, Grown
    <3> QED BY <3>1, <3>2
  <2>2. ASSUME NEW j \in 1..r.real, j > dst.real PROVE r.cands[j] \in ToSet(RealPart(src))
    <3>1. j # k /\ j \in 1..ca.real
      BY <1>1, <2>2
    <3> QED BY <1>3, <2>2, <3>1 DEF Steady
  <2> QED BY <1>1, <2>1, <2>2 DEF Steady
<1>5. RealWords(ca) \subseteq RealWords(r)
  <2> SUFFICES ASSUME NEW w \in RealWords(ca) PROVE w \in RealWords(r)
    OBVIOUS
  <2>1. PICK j \in 1..ca.real : ca.cands[j].kind = "word" /\ Head(ca.cands[j].words) = w
    BY <1>1, RealWordsFacts
  <2>2. j # k
    BY <2>1 DEF is_purged_cand
  <2>3. r.cands[j] = ca.cands[j] /\ j \in 1..r.real
    BY <1>1, <1>3, <2>2
  <2> QED BY <1>1, <2>1, <2>3, RealWordsFacts
<1>6. k \in 1..ca.real /\ k \in 1..r.real
  BY <1>1, <1>2
<1>7. PurgedWords(ca) = ToSet(ca.cands[k].words) /\ PurgedWords(r) = ToSet(r.cands[k].words)
  BY <1>6, PurgedWordsFacts DEF Grown
<1> QED
  BY <1>4, <1>5, <1>7 DEF Grown, Gains

LEMMA MergeOneKeeps ==
  ASSUME NEW src, Fit(src), NEW dst, Fit(dst), ~Shrinks(src, dst), NEW stale,
         NEW ca, Fit(ca), Steady(src, dst, ca), NEW k \in 1..src.real,
         NEW r, Fit(r), r = merge_candidate(src, dst.real, stale, ca, src.cands[k])
  PROVE  Steady(src, dst, r) /\ Gains(r, ca) /\ Has(r, src.cands[k])
<1>1. PICK n, cand : n = dst.real /\ cand = src.cands[k]
  OBVIOUS
<1>2. /\ Sized(src) /\ Sized(ca) /\ n \in Nat /\ cand \in Candidate /\ cand.words \in Seq(Text)
      /\ cand \in ToSet(RealPart(src))
  <2>1. Sized(src) /\ Sized(dst) /\ Sized(ca)
    BY DEF Fit
  <2>2. k \in 1..Len(src.cands)
    BY <2>1, SizedFacts
  <2> QED BY <1>1, <2>1, <2>2, SizedFacts, RealPartFacts, CandidateFacts DEF ToSet
<1>3. /\ ca.real \in Nat /\ Len(ca.cands) \in Nat /\ ca.real <= Len(ca.cands) /\ n <= ca.real
  BY <1>1, <1>2, SizedFacts DEF Steady
<1>4. is_purged_cand(cand) => Calm(src, cand.words, ca)
  BY <1>1, SteadyCalm
<1>5. CASE Kept(n, ca, cand, r)
  <2>1. r = ca /\ Gains(r, ca)
    BY <1>5 DEF Kept, Gains
  <2>2. Has(r, cand)
    <3>1. CASE \E i \in 1..Len(ca.cands) : i <= n /\ ca.cands[i] = cand
      <4>0. PICK i \in 1..Len(ca.cands) : i <= n /\ ca.cands[i] = cand
        BY <3>1
      <4>1. i \in 1..ca.real /\ ca.cands[i] = cand
        BY <1>2, <1>3, <4>0
      <4>2. cand.kind = "word" => Head(cand.words) \in RealWords(ca)
        BY <1>2, <4>1, RealWordsFacts
      <4> QED BY <1>2, <2>1, <4>2, CandidateFacts DEF Has
    <3>2. CASE ~is_purged_cand(cand) /\ Head(cand.words) \in PurgedWords(ca)
      BY <2>1, <3>2 DEF Has
    <3>3. ~(n > Len(ca.cands))
      BY <1>2, <1>3
    <3> QED BY <1>5, <3>1, <3>2, <3>3 DEF Kept
  <2> QED BY <1>1, <2>1, <2>2
<1>6. CASE ListsMerged(src, n, ca, cand, r)
  <2>1. PICK i \in 1..Len(ca.cands) :
          /\ i <= n /\ is_purged_cand(cand) /\ is_purged_cand(ca.cands[i])
          /\ r = merge_purged_cands(src, ca, cand.words, i)
    BY <1>6 DEF ListsMerged
  <2>2. i \in Nat \ {0} /\ i <= Len(ca.cands) /\ i \in 1..dst.real
    BY <1>1, <1>3, <2>1
  <2>3. Grown(i, merge_purged_cands(src, ca, cand.words, i), ca)
    BY <1>2, <1>4, <2>1, <2>2, MergePurgedStep
  <2>4. Steady(src, dst, r) /\ Gains(r, ca)
    BY <2>1, <2>2, <2>3, GrownGains
  <2> QED BY <1>1, <2>1, <2>4 DEF Has
<1>7. CASE ListAdded(src, n, ca, cand, r)
  <2>1. Calm(src, cand.words, ca)
    BY <1>4, <1>7 DEF ListAdded
  <2>2. remove_purged_words_from_dst_cand_array(src, ca, cand.words) = ca
    BY <1>2, <2>1, RemoveAllStep DEF Calm
  <2>3. r = merge_word_to_real_cand_array(ca, cand)
    BY <1>7, <2>2 DEF ListAdded
  <2> QED BY <1>1, <1>2, <2>3, InsertGains
<1>8. CASE WordAdded(n, ca, cand, r)
  BY <1>1, <1>2, <1>8, InsertGains DEF WordAdded
<1>9. r = merge_candidate(src, n, stale, ca, cand)
  BY <1>1
<1> QED
  BY <1>2, <1>5, <1>6, <1>7, <1>8, <1>9, MergeCases

\* The whole merge.
LEMMA MergeFits ==
  ASSUME NEW src, Fit(src), NEW dst, Fit(dst), NEW stale
  PROVE  LET r == merge_real_candidate_array(src, dst, stale)
         IN  /\ Fit(r) /\ SameFlags(r, dst)
             /\ ~Shrinks(src, dst) => /\ Gains(r, dst)
                                      /\ \A i \in 1..src.real : Has(r, src.cands[i])
<1> DEFINE X(k) == {src.cands[i] : i \in 1..k}
<1>1. PICK n, q : n = dst.real /\ q = RealPart(src)
  OBVIOUS
<1> DEFINE N == Len(q)
<1>2. /\ n \in Nat /\ Sized(dst) /\ q \in Seq(Candidate) /\ N \in Nat /\ N = src.real
      /\ \A k \in 1..N : q[k] = src.cands[k] /\ q[k] \in Candidate
  <2>1. Sized(src) /\ Sized(dst)
    BY DEF Fit
  <2>2. q \in Seq(Candidate) /\ Len(q) = src.real /\ \A i \in 1..src.real : q[i] = src.cands[i]
    BY <1>1, <2>1, RealPartFacts
  <2> QED BY <1>1, <2>1, <2>2, SizedFacts
<1>3. merge_real_candidate_array(src, dst, stale) = MergeAll(src, n, stale, dst, q)
  BY <1>1 DEF merge_real_candidate_array, MergeAll
<1>4. PICK h : MergePath(src, n, stale, dst, q, h)
  BY <1>2, InArrays, MergeWalk
<1>5. /\ h \in [0..N -> Arrays] /\ h[0] = dst /\ h[N] = MergeAll(src, n, stale, dst, q)
      /\ \A k \in 1..N : h[k] = merge_candidate(src, n, stale, h[k - 1], q[k])
  BY <1>4 DEF MergePath
<1> DEFINE Good(k) ==
             /\ Fit(h[k]) /\ SameFlags(h[k], dst) /\ Late(h[k], n, X(k))
             /\ ~Shrinks(src, dst) => /\ Steady(src, dst, h[k]) /\ Gains(h[k], dst)
                                      /\ \A i \in 1..k : Has(h[k], src.cands[i])
           T == {k \in 0..N : Good(k)}
<1>6. Good(0)
  <2>1. ASSUME NEW j \in 1..dst.real PROVE ~(j > dst.real)
    BY <1>1, <1>2
  <2>2. Steady(src, dst, dst) /\ Gains(dst, dst) /\ Late(dst, n, X(0)) /\ SameFlags(dst, dst)
    BY <1>1, <1>2, <2>1 DEF SameFlags, Late, Steady, Gains
  <2>3. \A i \in 1..0 : Has(dst, src.cands[i])
    OBVIOUS
  <2> QED BY <1>5, <2>2, <2>3
<1>7. ASSUME NEW k \in 1..N, Good(k - 1) PROVE Good(k)
  <2>1. PICK s, c : s = h[k - 1] /\ c = q[k]
    OBVIOUS
  <2>2. Sized(s) /\ c \in Candidate /\ h[k] = merge_candidate(src, n, stale, s, c)
    BY <1>2, <1>5, <1>7, <2>1 DEF Fit
  <2>3. PICK Y : Y = X(k - 1)
    OBVIOUS
  <2>4. Fit(s) /\ Late(s, n, Y) /\ SameFlags(s, dst)
    BY <1>7, <2>1, <2>3
  <2>5. /\ c = src.cands[k] /\ k \in 1..src.real
        /\ \A i \in 1..(k - 1) : i \in 1..src.real /\ i # k
    BY <1>2, <2>1
  <2>6. c \in Y => Garbled(c)
    BY <2>3, <2>5 DEF Fit
  <2>7. is_purged_cand(c) => \A x \in Y : ~is_purged_cand(x)
    BY <2>3, <2>5 DEF Fit
  <2>8. X(k) = Y \cup {c}
    <3>1. \A i \in 1..k : i = k \/ i \in 1..(k - 1)
      BY <1>2
    <3>2. k \in 1..k /\ \A i \in 1..(k - 1) : i \in 1..k
      BY <1>2
    <3> QED BY <2>3, <2>5, <3>1, <3>2
  <2>9. SameFlags(h[k], s) /\ Fit(h[k]) /\ Late(h[k], n, Y \cup {c})
    <3>1. PICK r : r = merge_candidate(src, n, stale, s, c)
      OBVIOUS
    <3>2. /\ Sized(r) /\ SameFlags(r, s)
          /\ Fit(s) /\ Late(s, n, Y) /\ (c \in Y => Garbled(c))
             /\ (is_purged_cand(c) => \A x \in Y : ~is_purged_cand(x))
             => Fit(r) /\ Late(r, n, Y \cup {c})
      BY <1>2, <2>2, <3>1, MergeOneStep
    <3> QED BY <2>2, <2>4, <2>6, <2>7, <3>1, <3>2
  <2>10. SameFlags(h[k], dst)
    BY <2>4, <2>9 DEF SameFlags
  <2>11. ASSUME ~Shrinks(src, dst)
         PROVE  /\ Steady(src, dst, h[k]) /\ Gains(h[k], dst)
                /\ \A i \in 1..k : Has(h[k], src.cands[i])
    <3>1. /\ Steady(src, dst, s) /\ Gains(s, dst)
          /\ \A i \in 1..(k - 1) : Has(s, src.cands[i])
      BY <1>7, <2>1, <2>11
    <3>2. /\ h[k] = merge_candidate(src, dst.real, stale, s, src.cands[k]) /\ k \in 1..src.real
      BY <1>1, <2>2, <2>5
    <3>3. Steady(src, dst, h[k]) /\ Gains(h[k], s) /\ Has(h[k], src.cands[k])
      BY <2>4, <2>9, <2>11, <3>1, <3>2, MergeOneKeeps
    <3>4. \A i \in 1..k : i \in 1..(k - 1) \/ i = k
      BY <1>2
    <3>5. \A i \in 1..(k - 1) : Has(h[k], src.cands[i])
      BY <3>1, <3>3 DEF Has, Gains
    <3>6. Gains(h[k], dst)
      BY <3>1, <3>3 DEF Gains
    <3> QED BY <3>3, <3>4, <3>5, <3>6
  <2> HIDE DEF X
  <2> QED BY <2>8, <2>9, <2>10, <2>11
<1> HIDE DEF Good
<1>8. T = 0..N
  <2>1. T \in SUBSET (0..N) /\ 0 \in T
    BY <1>2, <1>6
  <2>2. ASSUME NEW k \in 1..N, k - 1 \in T PROVE k \in T
    BY <1>2, <1>7, <2>2
  <2> HIDE DEF T, N
  <2> QED BY <1>2, <2>1, <2>2, UpTo
<1>9. Good(N) /\ N = src.real
  BY <1>2, <1>8
<1> QED
  BY <1>3, <1>5, <1>9 DEF Good

-----------------------------------------------------------------------------
(* The entry of a process. *)

Line(ca) == Fit(ca) /\ (~ca.cached => ca = NoLine) /\ (~ca.save => ca.real = 0)

LEMMA OneWord ==
  /\ \A w \in {<<x>> : x \in Chosen} : w \in Text
  /\ \A q \in Seq({<<x>> : x \in Chosen}) : q \in Seq(Text)
<1>1. ASSUME NEW x \in Chosen PROVE <<x>> \in Text
  <2>1. <<x>> \in Seq(Chosen) /\ <<x>> # <<>>
    OBVIOUS
  <2> QED BY <2>1 DEF Text
<1>2. \A w \in {<<x>> : x \in Chosen} : w \in Text
  BY <1>1
<1> DEFINE S == {<<x>> : x \in Chosen}
<1>3. ASSUME NEW q \in Seq(S) PROVE q \in Seq(Text)
  <2>1. /\ Len(q) \in Nat /\ q = [i \in 1..Len(q) |-> q[i]]
        /\ \A i \in 1..Len(q) : q[i] \in S
    <3> HIDE DEF S
    <3> QED OBVIOUS
  <2>2. \A i \in 1..Len(q) : q[i] \in Text
    BY <1>2, <2>1
  <2> HIDE DEF S
  <2>3. q \in [1..Len(q) -> Text]
    BY <2>1, <2>2
  <2> QED BY <2>1, <2>3
<1> QED
  BY <1>2, <1>3

\* An array is as fit as another with the same candidates.
LEMMA SameArray ==
  ASSUME NEW ca, Fit(ca), NEW r \in Array, r.cands = ca.cands, r.real = ca.real
  PROVE  Fit(r) /\ RealPart(r) = RealPart(ca)
BY DEF Fit, Sized, RealPart

LEMMA NoLineFits == Line(NoLine) /\ Line(EmptyLine) /\ RealPart(NoLine) = <<>> /\ EmptyLine.cached
<1>1. NoLine \in Array /\ EmptyLine \in Array /\ NoLine.real = 0 /\ EmptyLine.real = 0
      /\ NoLine.cands = <<>> /\ EmptyLine.cands = <<>> /\ EmptyLine.cached /\ ~NoLine.cached
      /\ <<>> \in Seq(Candidate) /\ Len(<<>>) = 0
  <2>1. <<>> \in Seq(Candidate)
    OBVIOUS
  <2> QED BY <2>1 DEF NoLine, EmptyLine, Array
<1>2. Fit(NoLine) /\ Fit(EmptyLine)
  BY <1>1 DEF Fit, Sized
<1>3. Len(RealPart(NoLine)) = 0 /\ RealPart(NoLine) \in Seq(Candidate)
  BY <1>1, <1>2, RealPartFacts DEF Fit
<1>4. RealPart(NoLine) = <<>>
  BY <1>3, EmptySeq
<1> QED
  BY <1>1, <1>2, <1>4 DEF Line

LEMMA EmptyReal ==
  ASSUME NEW ca, Sized(ca), ca.real = 0
  PROVE  RealPart(ca) = <<>>
<1>1. Len(RealPart(ca)) = 0 /\ RealPart(ca) \in Seq(Candidate)
  BY RealPartFacts
<1> QED
  BY <1>1, EmptySeq

\* Entries that hold copies of system words only.
Copies(q) == [EmptyLine EXCEPT !.cands = [i \in DOMAIN q |-> Word(q[i])]]

LEMMA CopiesFit ==
  ASSUME NEW q \in Seq(Text)
  PROVE  Line(Copies(q)) /\ Copies(q).cached /\ Copies(q).real = 0
<1>1. PICK s : s = [i \in DOMAIN q |-> Word(q[i])]
  OBVIOUS
<1>2. Len(q) \in Nat /\ DOMAIN q = 1..Len(q) /\ \A i \in 1..Len(q) : q[i] \in Text
  OBVIOUS
<1>3. /\ s \in Seq(Candidate) /\ Len(s) = Len(q)
      /\ \A i \in 1..Len(q) : ~is_purged_cand(s[i])
  <2>1. \A i \in 1..Len(q) : s[i] = Word(q[i]) /\ Word(q[i]) \in Candidate /\ ~is_purged_cand(Word(q[i]))
    BY <1>1, <1>2, CandidateFacts
  <2>2. s \in [1..Len(q) -> Candidate]
    BY <1>1, <1>2, <2>1
  <2>3. s \in Seq(Candidate) /\ Len(s) = Len(q)
    BY <1>2, <2>2
  <2> QED BY <2>1, <2>3
<1>4. PICK r : r = Copies(q)
  OBVIOUS
<1>5. r \in Array /\ r.cands = s /\ r.real = 0 /\ r.cached /\ ~r.save
  BY <1>1, <1>3, <1>4, NoLineFits DEF Copies, EmptyLine, NoLine, Array
<1>6. Fit(r)
  BY <1>2, <1>3, <1>5 DEF Fit, Sized
<1> QED
  BY <1>4, <1>5, <1>6 DEF Line

\* Copies of system words are put behind what is there.
LEMMA BaseFits ==
  ASSUME NEW ca, Fit(ca)
  PROVE  Longer(merge_base_candidates_to_array(ca), ca)
<1>1. PICK q : q = MasterDic
  OBVIOUS
<1>2. q \in Seq(Text) /\ Len(q) \in Nat /\ \A k \in 1..Len(q) : q[k] \in Text
  BY <1>1, MasterAssumption, OneWord
<1>3. PICK a : a = ca.cands
  OBVIOUS
<1>4. a \in Seq(Candidate) /\ Len(a) \in Nat /\ ca \in Array
  BY <1>3, SizedFacts DEF Fit, Sized
<1> DEFINE N == Len(q)
           Good(s) == /\ s \in Seq(Candidate) /\ Len(s) >= Len(a)
                      /\ \A j \in 1..Len(a) : s[j] = a[j]
                      /\ \A j \in 1..Len(s) : j <= Len(a) \/ ~is_purged_cand(s[j])
<1>5. PICK h \in [0..N -> Seq(Candidate)] :
        /\ h[0] = a /\ h[N] = PushedMaster(a, q)
        /\ \A k \in 1..N : h[k] = PushMaster(h[k - 1], q[k])
  BY <1>2, <1>4, PushMasterWalk, Zenon
<1> DEFINE T == {k \in 0..N : Good(h[k])}
<1>6. Good(h[0])
  BY <1>4, <1>5
<1>7. ASSUME NEW k \in 1..N, Good(h[k - 1]) PROVE Good(h[k])
  <2>1. PICK s, w : s = h[k - 1] /\ w = q[k]
    OBVIOUS
  <2>2. w \in Text /\ Word(w) \in Candidate /\ ~is_purged_cand(Word(w))
    BY <1>2, <2>1, CandidateFacts
  <2>3. h[k] = IF Word(w) \in ToSet(s) THEN s ELSE Append(s, Word(w))
    BY <1>5, <2>1 DEF PushMaster
  <2>4. Good(s)
    BY <1>7, <2>1
  <2>5. CASE h[k] = s
    BY <2>4, <2>5
  <2>6. CASE h[k] = Append(s, Word(w))
    <3>1. PICK t, c : t = h[k] /\ c = Word(w)
      OBVIOUS
    <3>2. s \in Seq(Candidate) /\ Len(s) \in Nat /\ c \in Candidate
      BY <2>2, <2>4, <3>1
    <3>3. /\ t \in Seq(Candidate) /\ Len(t) = Len(s) + 1
          /\ \A j \in 1..(Len(s) + 1) : t[j] = IF j <= Len(s) THEN s[j] ELSE c
      BY <2>6, <3>1, <3>2, AppendStep
    <3>4. \A j \in 1..Len(a) : j \in 1..(Len(s) + 1) /\ j <= Len(s)
      BY <1>4, <2>4, <3>2
    <3>5. \A j \in 1..(Len(s) + 1) : j <= Len(s) => j \in 1..Len(s)
      BY <3>2
    <3>6. \A j \in 1..Len(t) : j <= Len(a) \/ ~is_purged_cand(t[j])
      BY <2>2, <2>4, <3>1, <3>3, <3>5
    <3>7. Len(t) >= Len(a) /\ \A j \in 1..Len(a) : t[j] = a[j]
      BY <1>4, <2>4, <3>2, <3>3, <3>4
    <3> QED BY <3>1, <3>3, <3>6, <3>7
  <2> QED BY <2>3, <2>5, <2>6
<1> HIDE DEF Good
<1>8. T = 0..N
  <2>1. T \in SUBSET (0..N) /\ 0 \in T
    BY <1>2, <1>6
  <2>2. ASSUME NEW k \in 1..N, k - 1 \in T PROVE k \in T
    BY <1>2, <1>7, <2>2
  <2> HIDE DEF T, N
  <2> QED BY <1>2, <2>1, <2>2, UpTo DEF N
<1>9. Good(h[N])
  BY <1>2, <1>8
<1>10. PICK s : s = PushedMaster(a, q)
  OBVIOUS
<1>11. Good(s)
  BY <1>5, <1>9, <1>10
<1>12. merge_base_candidates_to_array(ca) = [ca EXCEPT !.cands = s]
  BY <1>1, <1>3, <1>10 DEF merge_base_candidates_to_array, PushedMaster
<1>13. /\ [ca EXCEPT !.cands = s] \in Array /\ [ca EXCEPT !.cands = s].cands = s
       /\ [ca EXCEPT !.cands = s].real = ca.real /\ SameFlags([ca EXCEPT !.cands = s], ca)
  BY <1>4, <1>11 DEF Array, SameFlags, Good
<1> QED
  BY <1>3, <1>11, <1>12, <1>13 DEF Longer, Good

\* Looking the entry up leaves what is saved alone.
LEMMA FindStep ==
  ASSUME NEW ca, Line(ca), NEW create \in BOOLEAN
  PROVE  LET r == find_cand_array(ca, create)
         IN  /\ Line(r) /\ RealPart(r) = RealPart(ca) /\ r.real = ca.real
             /\ ca.cached \/ create => r.cached
<1>1. Fit(ca) /\ Sized(ca) /\ ca \in Array
  BY DEF Line, Fit, Sized
<1>2. Line(search_line_from_file) /\ search_line_from_file.real = 0
  <2>1. CASE MasterDic = <<>>
    BY <2>1, NoLineFits DEF search_line_from_file, NoLine
  <2>2. CASE MasterDic # <<>>
    BY <2>2, CopiesFit, MasterAssumption, OneWord DEF search_line_from_file, Copies
  <2> QED BY <2>1, <2>2
<1>3. PICK full : full = IF ca.cached /\ ~ca.used THEN merge_base_candidates_to_array(ca)
                         ELSE IF ca.cached THEN ca
                         ELSE IF search_line_from_file.cached THEN search_line_from_file
                         ELSE IF create THEN EmptyLine ELSE NoLine
  OBVIOUS
<1>4. find_cand_array(ca, create) = [full EXCEPT !.used = full.cached]
  BY <1>3, Zenon DEF find_cand_array
<1>5. Line(full) /\ RealPart(full) = RealPart(ca) /\ full.real = ca.real
      /\ (ca.cached \/ create => full.cached)
  <2>1. CASE ca.cached /\ ~ca.used
    <3>1. Longer(full, ca)
      BY <1>1, <1>3, <2>1, BaseFits
    <3>2. Fit(full) /\ RealPart(full) = RealPart(ca)
      BY <1>1, <3>1, LongerFits
    <3> QED BY <2>1, <3>1, <3>2 DEF Longer, SameFlags, Line
  <2>2. CASE ca.cached /\ ca.used
    BY <1>3, <2>2
  <2>3. CASE ~ca.cached
    <3>1. ca = NoLine /\ ca.real = 0 /\ RealPart(ca) = <<>>
      BY <2>3, NoLineFits DEF Line, NoLine
    <3>2. full \in {search_line_from_file, EmptyLine, NoLine} /\ (create => full.cached)
      BY <1>3, <2>3, NoLineFits
    <3>3. Line(full) /\ full.real = 0
      <4>1. NoLine.real = 0 /\ EmptyLine.real = 0
        BY DEF NoLine, EmptyLine
      <4> QED BY <1>2, <3>2, <4>1, NoLineFits
    <3>4. RealPart(full) = <<>>
      BY <3>3, EmptyReal DEF Line, Fit
    <3> QED BY <2>3, <3>1, <3>2, <3>3, <3>4
  <2> QED BY <2>1, <2>2, <2>3
<1>6. PICK r : r = [full EXCEPT !.used = full.cached]
  OBVIOUS
<1>7. full \in Array
  BY <1>5 DEF Line, Fit, Sized
<1>8. /\ r \in Array /\ r.cands = full.cands /\ r.real = full.real
      /\ r.cached = full.cached /\ r.save = full.save
  BY <1>6, <1>7 DEF Array
<1>9. Fit(r) /\ RealPart(r) = RealPart(full)
  BY <1>5, <1>8, SameArray DEF Line
<1>10. ~r.cached => r = NoLine
  <2> SUFFICES ASSUME ~r.cached PROVE r = NoLine
    OBVIOUS
  <2>1. full = NoLine /\ full.cached = FALSE
    BY <1>5, <1>8 DEF Line, NoLine
  <2>2. r = [NoLine EXCEPT !.used = FALSE]
    BY <1>6, <2>1
  <2> QED BY <2>2 DEF NoLine
<1> QED
  BY <1>4, <1>5, <1>6, <1>8, <1>9, <1>10 DEF Line

\* What is saved is the same, but for a first candidate that is now in use.
SameSaved(r, ca) == RealPart(r) = RealPart(ca) \/ (ca.real = 0 /\ r.real = 1)

LEMMA CommitStep ==
  ASSUME NEW ca, Line(ca), ca.cached, NEW cand, cand \in ToSet(ca.cands)
  PROVE  LET r == [reorder_candidate(ca, cand) EXCEPT !.save = TRUE]
         IN  /\ Line(r) /\ r.cached
             /\ ca.cands[1] = cand => SameSaved(r, ca)
<1>1. PICK s : s = reorder_candidate(ca, cand)
  OBVIOUS
<1>2. Fit(s) /\ SameFlags(s, ca) /\ (ca.cands[1] = cand => SameSaved(s, ca))
  BY <1>1, ReorderStep DEF Line, SameSaved
<1>3. PICK r : r = [s EXCEPT !.save = TRUE]
  OBVIOUS
<1>4. s \in Array
  BY <1>2 DEF Fit, Sized
<1>5. r \in Array /\ r.cands = s.cands /\ r.real = s.real /\ r.cached = s.cached /\ r.save = TRUE
  BY <1>3, <1>4 DEF Array
<1>6. Fit(r) /\ RealPart(r) = RealPart(s)
  BY <1>2, <1>5, SameArray
<1>7. Line(r) /\ r.cached
  BY <1>2, <1>5, <1>6 DEF Line, SameFlags
<1>8. ca.cands[1] = cand => SameSaved(r, ca)
  BY <1>2, <1>5, <1>6 DEF SameSaved
<1> QED
  BY <1>1, <1>3, <1>7, <1>8

LEMMA LearnStep ==
  ASSUME NEW ca, Line(ca), ca.cached, NEW w \in Words
  PROVE  LET r == learn_word_to_cand_array(ca, w)
         IN  /\ Line(r) /\ r.cached
             /\ ~(ca.cands # <<>> /\ ca.cands[1] # Word(w)) => SameSaved(r, ca)
<1>1. PICK c : c = Word(w)
  OBVIOUS
<1>2. c \in Candidate /\ ~is_purged_cand(c)
  BY <1>1, DictAssumption, OneWord, CandidateFacts
<1>3. PICK a : a = ca.cands
  OBVIOUS
<1>4. a \in Seq(Candidate) /\ Len(a) \in Nat /\ ca \in Array /\ Fit(ca)
  BY <1>3, SizedFacts DEF Line, Fit, Sized
<1>5. PICK known : known = IF c \in ToSet(a) THEN a ELSE Append(a, c)
  OBVIOUS
<1>6. PICK s : s = [ca EXCEPT !.cands = known]
  OBVIOUS
<1>7. learn_word_to_cand_array(ca, w) = [reorder_candidate(s, c) EXCEPT !.save = TRUE]
  BY <1>1, <1>3, <1>5, <1>6 DEF learn_word_to_cand_array
<1>8. /\ Line(s) /\ s.cached /\ c \in ToSet(s.cands) /\ s.cands = known
      /\ RealPart(s) = RealPart(ca) /\ s.real = ca.real
  <2>1. CASE c \in ToSet(a)
    <3>1. s = ca
      BY <1>3, <1>4, <1>5, <1>6, <2>1 DEF Array
    <3> QED BY <1>3, <1>5, <2>1, <3>1
  <2>2. CASE c \notin ToSet(a)
    <3>1. /\ known \in Seq(Candidate) /\ Len(known) = Len(a) + 1
          /\ \A j \in 1..(Len(a) + 1) : known[j] = IF j <= Len(a) THEN a[j] ELSE c
          /\ c \in ToSet(known)
      BY <1>2, <1>4, <1>5, <2>2, AppendStep
    <3>2. s \in Array /\ s.cands = known /\ s.real = ca.real /\ SameFlags(s, ca)
      BY <1>4, <1>6, <3>1 DEF Array, SameFlags
    <3>3. /\ Len(known) >= Len(a) /\ \A j \in 1..Len(a) : known[j] = a[j]
          /\ \A j \in 1..Len(known) : j <= Len(a) \/ ~is_purged_cand(known[j])
      BY <1>2, <1>4, <3>1
    <3>4. Longer(s, ca)
      BY <1>3, <3>2, <3>3 DEF Longer
    <3>5. Fit(s) /\ RealPart(s) = RealPart(ca)
      BY <1>4, <3>4, LongerFits
    <3> QED BY <3>1, <3>2, <3>5 DEF Line, SameFlags
  <2> QED BY <2>1, <2>2
<1>9. PICK r : r = [reorder_candidate(s, c) EXCEPT !.save = TRUE]
  OBVIOUS
<1>10. Line(r) /\ r.cached /\ (s.cands[1] = c => SameSaved(r, s))
  BY <1>8, <1>9, CommitStep
<1>11. ~(ca.cands # <<>> /\ ca.cands[1] # c) => s.cands[1] = c
  <2>1. CASE a = <<>>
    <3>1. c \notin ToSet(a) /\ known = Append(a, c) /\ Len(a) = 0
      BY <1>5, <2>1 DEF ToSet
    <3>2. known[1] = c
      BY <2>1, <3>1
    <3> QED BY <1>8, <3>2
  <2>2. CASE a # <<>> /\ a[1] = c
    <3>1. Len(a) # 0
      BY <1>4, <2>2, EmptySeq
    <3>2. 1 \in DOMAIN a
      BY <1>4, <3>1
    <3>3. c \in ToSet(a)
      BY <2>2, <3>2 DEF ToSet
    <3> QED BY <1>5, <1>8, <2>2, <3>3
  <2> QED BY <1>3, <2>1, <2>2
<1>12. ~(ca.cands # <<>> /\ ca.cands[1] # c) => SameSaved(r, ca)
  BY <1>8, <1>10, <1>11 DEF SameSaved
<1> QED
  BY <1>1, <1>7, <1>9, <1>10, <1>12

LEMMA PurgeStep ==
  ASSUME NEW ca, Line(ca), NEW nn \in 1..ca.real, ~is_purged_cand(ca.cands[nn])
  PROVE  Line(purge_candidate(ca, nn)) /\ purge_candidate(ca, nn).cached = ca.cached
<1>1. /\ Fit(ca) /\ Sized(ca) /\ ca.real \in Nat /\ ca.real <= Len(ca.cands) /\ ca \in Array
      /\ nn \in 1..Len(ca.cands) /\ ca.cands[nn] \in Candidate
      /\ DOMAIN ca.cands = 1..Len(ca.cands) /\ ca.cands \in Seq(Candidate)
  <2>1. Fit(ca) /\ Sized(ca) /\ ca \in Array
    BY DEF Line, Fit, Sized
  <2>2. nn \in 1..Len(ca.cands)
    BY <2>1, SizedFacts
  <2> QED BY <2>1, <2>2, SizedFacts
<1>2. PICK i, w : i = get_purged_cand_index(ca) /\ w = Head(ca.cands[nn].words)
  OBVIOUS
<1>3. w \in Text /\ Ignore(<<w>>) \in Candidate /\ is_purged_cand(Ignore(<<w>>))
  BY <1>1, <1>2, CandidateFacts
<1>4. First(i, ca.real, {j \in 1..ca.real : is_purged_cand(ca.cands[j])})
  BY <1>1, <1>2, PurgedIndexFacts
<1>5. ca.cached /\ ca.save
  <2>1. ca.real # 0
    BY <1>1
  <2> QED BY <2>1 DEF Line, NoLine
<1>6. CASE i = 0
  <2>1. \A j \in 1..ca.real : ~is_purged_cand(ca.cands[j])
    BY <1>4, <1>6 DEF First
  <2>2. PICK c : c = Ignore(<<w>>)
    OBVIOUS
  <2>3. PICK s : s = [ca.cands EXCEPT ![nn] = c]
    OBVIOUS
  <2>4. PICK r : r = [ca EXCEPT !.cands = s]
    OBVIOUS
  <2>5. purge_candidate(ca, nn) = r
    BY <1>2, <1>6, <2>2, <2>3, <2>4 DEF purge_candidate
  <2>6. /\ s \in Seq(Candidate) /\ Len(s) = Len(ca.cands) /\ s[nn] = c
        /\ \A j \in 1..Len(ca.cands) : j # nn => s[j] = ca.cands[j]
    BY <1>1, <1>3, <2>2, <2>3
  <2>7. r \in Array /\ r.cands = s /\ r.real = ca.real /\ SameFlags(r, ca)
    BY <1>1, <2>4, <2>6 DEF Array, SameFlags
  <2>8. \A j \in 1..ca.real : j \in 1..Len(ca.cands)
    BY <1>1
  <2>9. Fit(r)
    <3>1. ASSUME NEW j \in 1..Len(s), is_purged_cand(s[j]) PROVE j <= r.real
      <4>1. CASE j = nn
        BY <1>1, <2>7, <4>1
      <4>2. CASE j # nn
        BY <1>1, <2>6, <2>7, <3>1, <4>2 DEF Fit
      <4> QED BY <4>1, <4>2
    <3>2. ASSUME NEW j \in 1..ca.real, NEW k \in 1..ca.real
          PROVE  /\ s[j] = s[k] => j = k \/ Garbled(s[j])
                 /\ is_purged_cand(s[j]) /\ is_purged_cand(s[k]) => j = k
      <4>1. CASE j # nn /\ k # nn
        BY <1>1, <2>1, <2>6, <2>8, <4>1 DEF Fit
      <4>2. CASE j = nn /\ k # nn
        BY <1>3, <2>1, <2>2, <2>6, <2>8, <4>2
      <4>3. CASE j # nn /\ k = nn
        BY <1>3, <2>1, <2>2, <2>6, <2>8, <4>3
      <4> QED BY <4>1, <4>2, <4>3
    <3>3. Sized(r)
      BY <1>1, <2>6, <2>7 DEF Sized
    <3> QED BY <2>7, <3>1, <3>2, <3>3 DEF Fit
  <2> QED BY <1>5, <2>5, <2>7, <2>9 DEF Line, SameFlags
<1>7. CASE i # 0
  <2>1. i \in 1..ca.real /\ is_purged_cand(ca.cands[i])
    BY <1>4, <1>7 DEF First
  <2>2. i \in Nat \ {0}
    BY <1>1, <2>1
  <2>3. PICK s : s = push_purged_word(ca, i, w)
    OBVIOUS
  <2>4. Sized(s) /\ SameFlags(s, ca) /\ Len(s.cands) = Len(ca.cands) /\ Fit(s)
    <3> DEFINE x == push_purged_word(ca, i, w)
    <3>1. Sized(x) /\ SameFlags(x, ca) /\ Len(x.cands) = Len(ca.cands) /\ (Fit(ca) => Fit(x))
      BY <1>1, <1>3, <2>2, PushStep
    <3> HIDE DEF x
    <3>2. s = x
      BY <2>3 DEF x
    <3> QED BY <1>1, <3>1, <3>2
  <2>5. PICK r : r = remove_candidate_from_array(s, nn)
    OBVIOUS
  <2>6. nn \in 1..Len(s.cands)
    BY <1>1, <2>4
  <2>7. Fit(r) /\ SameFlags(r, s)
    <3> DEFINE x == remove_candidate_from_array(s, nn)
    <3>1. SameFlags(x, s) /\ (Fit(s) => Fit(x))
      BY <2>4, <2>6, RemoveStep
    <3> HIDE DEF x
    <3>2. r = x
      BY <2>5 DEF x
    <3> QED BY <2>4, <3>1, <3>2
  <2>8. purge_candidate(ca, nn) = r
    BY <1>2, <1>7, <2>3, <2>5 DEF purge_candidate
  <2> QED BY <1>5, <2>4, <2>7, <2>8 DEF Line, SameFlags
<1> QED
  BY <1>6, <1>7

-----------------------------------------------------------------------------
(* The entry as the file has it. *)

Content(f) == f = NoFile \/ (f \in Seq(Candidate) /\ Sound(f))

LEMMA LineOfFits ==
  ASSUME NEW f, Content(f)
  PROVE  /\ Line(LineOf(f))
         /\ f \notin {NoFile, <<>>} => LineOf(f).cached /\ LineOf(f).save /\ RealPart(LineOf(f)) = f
         /\ f \in {NoFile, <<>>} => LineOf(f) = NoLine
<1>1. CASE f \in {NoFile, <<>>}
  BY <1>1, NoLineFits DEF LineOf
<1>2. CASE f \notin {NoFile, <<>>}
  <2>1. f \in Seq(Candidate) /\ Sound(f) /\ Len(f) \in Nat /\ DOMAIN f = 1..Len(f)
    BY <1>2 DEF Content
  <2>2. PICK r : r = LineOf(f)
    OBVIOUS
  <2>3. r = [EmptyLine EXCEPT !.cands = f, !.real = Len(f), !.save = TRUE]
    BY <1>2, <2>2 DEF LineOf
  <2>4. r \in Array /\ r.cands = f /\ r.real = Len(f) /\ r.cached /\ r.save
    BY <2>1, <2>3 DEF Array, EmptyLine, NoLine
  <2>5. Sized(r)
    BY <2>1, <2>4 DEF Sized
  <2>6. Fit(r)
    <3>1. \A i \in 1..Len(f) : i <= r.real
      BY <2>1, <2>4
    <3>2. ASSUME NEW i \in 1..Len(f), NEW j \in 1..Len(f)
          PROVE  /\ f[i] = f[j] => i = j \/ Garbled(f[i])
                 /\ is_purged_cand(f[i]) /\ is_purged_cand(f[j]) => i = j
      BY <2>1 DEF Sound
    <3> QED BY <2>4, <2>5, <3>1, <3>2 DEF Fit
  <2>7. RealPart(r) = f
    <3>1. /\ RealPart(r) \in Seq(Candidate) /\ Len(RealPart(r)) = Len(f)
          /\ \A i \in 1..Len(f) : RealPart(r)[i] = f[i]
      BY <2>4, <2>5, RealPartFacts
    <3> QED BY <2>1, <3>1, SeqEqual
  <2> QED BY <1>2, <2>2, <2>4, <2>6, <2>7 DEF Line
<1> QED
  BY <1>1, <1>2

LEMMA JisyoFits ==
  ASSUME NEW words \in JisyoS
  PROVE  Line(JisyoLine(words)) /\ RealPart(JisyoLine(words)) = <<>>
<1>1. words \in Seq(Text)
  BY DictAssumption, OneWord
<1>2. CASE words = <<>>
  BY <1>2, NoLineFits DEF JisyoLine
<1>3. CASE words # <<>>
  <2>1. JisyoLine(words) = Copies(words)
    BY <1>3 DEF JisyoLine, Copies
  <2>2. Line(Copies(words)) /\ Copies(words).real = 0
    BY <1>1, CopiesFit
  <2> QED BY <2>1, <2>2, EmptyReal DEF Line, Fit
<1> QED
  BY <1>2, <1>3

LEMMA WrittenFits ==
  ASSUME NEW ca, Line(ca)
  PROVE  Written(ca) = RealPart(ca) /\ RealPart(ca) \in Seq(Candidate) /\ Sound(RealPart(ca))
<1>1. Sized(ca) /\ Fit(ca)
  BY DEF Line, Fit
<1>2. ~ca.save => RealPart(ca) = <<>>
  BY <1>1, EmptyReal DEF Line
<1> QED
  BY <1>1, <1>2, RealPartFacts, RealPartSound DEF Written

\* A merge, and what it keeps.
LEMMA MergeLineStep ==
  ASSUME NEW src, Line(src), src.cached => src.save, NEW dst, Line(dst), NEW stale
  PROVE  LET r == MergeLine(src, dst, stale)
         IN  /\ Line(r)
             /\ ~src.cached => r = dst
             /\ src.cached => r.cached
             /\ ~Shrinks(src, dst) => /\ Gains(r, dst)
                                      /\ \A i \in 1..src.real : Has(r, src.cands[i])
<1> DEFINE Kind(r) == ~Shrinks(src, dst) => /\ Gains(r, dst)
                                            /\ \A i \in 1..src.real : Has(r, src.cands[i])
<1>1. Fit(src) /\ Fit(dst) /\ Sized(src) /\ Sized(dst)
  BY DEF Line, Fit
<1>2. CASE ~src.cached
  <2>1. MergeLine(src, dst, stale) = dst
    BY <1>2 DEF MergeLine
  <2>2. src.real = 0
    BY <1>2 DEF Line, NoLine
  <2>3. Kind(dst)
    BY <2>2 DEF Gains
  <2> QED BY <1>2, <2>1, <2>3
<1>3. CASE src.cached /\ ~dst.cached
  <2>1. MergeLine(src, dst, stale) = src
    BY <1>3 DEF MergeLine
  <2>2. dst.real = 0
    BY <1>3 DEF Line, NoLine
  <2>3. NoIgnore(dst) /\ RealWords(dst) = {}
    BY <1>1, <2>2, RealWordsFacts DEF NoIgnore
  <2>4. Gains(src, dst)
    BY <1>1, <2>3, PurgedWordsFacts DEF Gains
  <2>5. \A i \in 1..src.real : Has(src, src.cands[i])
    <3> SUFFICES ASSUME NEW i \in 1..src.real, ~is_purged_cand(src.cands[i])
                 PROVE  Head(src.cands[i].words) \in RealWords(src)
      BY DEF Has
    <3>1. src.cands[i] \in Candidate
      BY <1>1, SizedFacts
    <3>2. src.cands[i].kind = "word"
      BY <3>1, CandidateFacts
    <3> QED BY <1>1, <3>2, RealWordsFacts
  <2> QED BY <1>3, <2>1, <2>4, <2>5
<1>4. CASE src.cached /\ dst.cached
  <2>1. PICK s : s = merge_real_candidate_array(src, dst, stale)
    OBVIOUS
  <2>2. Fit(s) /\ SameFlags(s, dst) /\ Kind(s)
    <3> DEFINE x == merge_real_candidate_array(src, dst, stale)
    <3>1. Fit(x) /\ SameFlags(x, dst) /\ Kind(x)
      BY <1>1, MergeFits
    <3> HIDE DEF x, Kind
    <3>2. s = x
      BY <2>1 DEF x
    <3> QED BY <3>1, <3>2
  <2>3. PICK r : r = [s EXCEPT !.save = s.save \/ src.save]
    OBVIOUS
  <2>4. MergeLine(src, dst, stale) = r
    BY <1>4, <2>1, <2>3 DEF MergeLine
  <2>5. s \in Array /\ src.save = TRUE
    BY <1>1, <1>4, <2>2 DEF Fit, Sized, Array
  <2>6. r \in Array /\ r.cands = s.cands /\ r.real = s.real /\ r.cached = s.cached /\ r.save = TRUE
    BY <2>3, <2>5 DEF Array
  <2>7. Fit(r) /\ RealPart(r) = RealPart(s)
    BY <2>2, <2>6, SameArray
  <2>8. RealWords(r) = RealWords(s) /\ PurgedWords(r) = PurgedWords(s)
    BY <2>6, <2>7 DEF RealWords, PurgedWords, get_purged_cand_index
  <2>9. Kind(r)
    BY <2>2, <2>8 DEF Gains, Has
  <2>10. Line(r) /\ r.cached
    BY <1>4, <2>2, <2>6, <2>7 DEF Line, SameFlags
  <2> HIDE DEF Kind
  <2> QED BY <1>4, <2>4, <2>9, <2>10 DEF Kind
<1> QED
  BY <1>2, <1>3, <1>4

-----------------------------------------------------------------------------
(* What the user does keeps every word of the entry, in use or ignored.     *)

Covered(ca) == RealWords(ca) \cup PurgedWords(ca)

LEMMA SameReal ==
  ASSUME NEW ca, Fit(ca), NEW r, Fit(r), RealPart(r) = RealPart(ca)
  PROVE  Covered(r) = Covered(ca)
<1>1. /\ Sized(ca) /\ Sized(r)
  BY DEF Fit
<1>2. r.real = ca.real /\ \A i \in 1..ca.real : r.cands[i] = ca.cands[i]
  BY <1>1, RealPartFacts
<1>3. PurgedWords(r) = PurgedWords(ca)
  <2>1. CASE NoIgnore(ca)
    <3>1. NoIgnore(r)
      BY <1>2, <2>1 DEF NoIgnore
    <3> QED BY <2>1, <3>1, PurgedWordsFacts
  <2>2. CASE ~NoIgnore(ca)
    <3>1. PICK i \in 1..ca.real : is_purged_cand(ca.cands[i])
      BY <2>2 DEF NoIgnore
    <3>2. PurgedWords(ca) = ToSet(ca.cands[i].words)
      BY <3>1, PurgedWordsFacts
    <3>3. i \in 1..r.real /\ is_purged_cand(r.cands[i]) /\ r.cands[i] = ca.cands[i]
      BY <1>2, <3>1
    <3>4. PurgedWords(r) = ToSet(r.cands[i].words)
      BY <3>3, PurgedWordsFacts
    <3> QED BY <3>2, <3>3, <3>4
  <2> QED BY <2>1, <2>2
<1> QED
  BY <1>3 DEF Covered, RealWords

LEMMA Found ==
  ASSUME NEW ca, Fit(ca), NEW r, Fit(r),
         \A i \in 1..ca.real : \E j \in 1..r.real : r.cands[j] = ca.cands[i]
  PROVE  Covered(ca) \subseteq Covered(r)
<1>1. Sized(ca) /\ Sized(r)
  BY DEF Fit
<1>2. RealWords(ca) \subseteq RealWords(r)
  BY <1>1, RealWordsFacts
<1>3. PurgedWords(ca) \subseteq PurgedWords(r)
  <2>1. CASE NoIgnore(ca)
    BY <2>1, PurgedWordsFacts
  <2>2. CASE ~NoIgnore(ca)
    <3>1. PICK i \in 1..ca.real : is_purged_cand(ca.cands[i])
      BY <2>2 DEF NoIgnore
    <3>2. PurgedWords(ca) = ToSet(ca.cands[i].words)
      BY <3>1, PurgedWordsFacts
    <3>3. PICK j \in 1..r.real : r.cands[j] = ca.cands[i]
      OBVIOUS
    <3>4. PurgedWords(r) = ToSet(r.cands[j].words)
      BY <3>1, <3>3, PurgedWordsFacts
    <3> QED BY <3>2, <3>3, <3>4
  <2> QED BY <2>1, <2>2
<1> QED
  BY <1>2, <1>3 DEF Covered

LEMMA CommitCovers ==
  ASSUME NEW ca, Line(ca), ca.cached, NEW cand, cand \in ToSet(ca.cands)
  PROVE  Covered(ca) \subseteq Covered([reorder_candidate(ca, cand) EXCEPT !.save = TRUE])
<1>1. PICK s : s = reorder_candidate(ca, cand)
  OBVIOUS
<1>2. Fit(s) /\ \A i \in 1..ca.real : \E j \in 1..s.real : s.cands[j] = ca.cands[i]
  BY <1>1, ReorderStep DEF Line
<1>3. PICK r : r = [s EXCEPT !.save = TRUE]
  OBVIOUS
<1>4. s \in Array
  BY <1>2 DEF Fit, Sized
<1>5. r \in Array /\ r.cands = s.cands /\ r.real = s.real
  BY <1>3, <1>4 DEF Array
<1>6. Fit(r)
  BY <1>2, <1>5, SameArray
<1>7. Covered(ca) \subseteq Covered(r)
  BY <1>2, <1>5, <1>6, Found DEF Line
<1> QED
  BY <1>1, <1>3, <1>7

LEMMA LearnCovers ==
  ASSUME NEW ca, Line(ca), ca.cached, NEW w \in Words
  PROVE  Covered(ca) \subseteq Covered(learn_word_to_cand_array(ca, w))
<1>1. PICK c : c = Word(w)
  OBVIOUS
<1>2. c \in Candidate /\ ~is_purged_cand(c)
  BY <1>1, DictAssumption, OneWord, CandidateFacts
<1>3. PICK a : a = ca.cands
  OBVIOUS
<1>4. a \in Seq(Candidate) /\ Len(a) \in Nat /\ ca \in Array /\ Fit(ca)
  BY <1>3, SizedFacts DEF Line, Fit, Sized
<1>5. PICK known : known = IF c \in ToSet(a) THEN a ELSE Append(a, c)
  OBVIOUS
<1>6. PICK s : s = [ca EXCEPT !.cands = known]
  OBVIOUS
<1>7. learn_word_to_cand_array(ca, w) = [reorder_candidate(s, c) EXCEPT !.save = TRUE]
  BY <1>1, <1>3, <1>5, <1>6 DEF learn_word_to_cand_array
<1>8. Line(s) /\ s.cached /\ c \in ToSet(s.cands) /\ Covered(s) = Covered(ca)
  <2>1. CASE c \in ToSet(a)
    <3>1. s = ca
      BY <1>3, <1>4, <1>5, <1>6, <2>1 DEF Array
    <3> QED BY <1>3, <2>1, <3>1
  <2>2. CASE c \notin ToSet(a)
    <3>1. /\ known \in Seq(Candidate) /\ Len(known) = Len(a) + 1
          /\ \A j \in 1..(Len(a) + 1) : known[j] = IF j <= Len(a) THEN a[j] ELSE c
          /\ c \in ToSet(known)
      BY <1>2, <1>4, <1>5, <2>2, AppendStep
    <3>2. s \in Array /\ s.cands = known /\ s.real = ca.real /\ SameFlags(s, ca)
      BY <1>4, <1>6, <3>1 DEF Array, SameFlags
    <3>3. /\ Len(known) >= Len(a) /\ \A j \in 1..Len(a) : known[j] = a[j]
          /\ \A j \in 1..Len(known) : j <= Len(a) \/ ~is_purged_cand(known[j])
      BY <1>2, <1>4, <3>1
    <3>4. Longer(s, ca)
      BY <1>3, <3>2, <3>3 DEF Longer
    <3>5. Fit(s) /\ RealPart(s) = RealPart(ca)
      BY <1>4, <3>4, LongerFits
    <3>6. Covered(s) = Covered(ca)
      BY <1>4, <3>5, SameReal
    <3> QED BY <3>1, <3>2, <3>5, <3>6 DEF Line, SameFlags
  <2> QED BY <2>1, <2>2
<1> QED
  BY <1>7, <1>8, CommitCovers

\* A purged word is one the entry ignores from now on.
LEMMA PurgeCovers ==
  ASSUME NEW ca, Line(ca), NEW nn \in 1..ca.real, ~is_purged_cand(ca.cands[nn])
  PROVE  Covered(ca) \subseteq Covered(purge_candidate(ca, nn))
<1>1. /\ Fit(ca) /\ Sized(ca) /\ ca.real \in Nat /\ ca.real <= Len(ca.cands) /\ ca \in Array
      /\ nn \in 1..Len(ca.cands) /\ ca.cands[nn] \in Candidate
      /\ DOMAIN ca.cands = 1..Len(ca.cands) /\ ca.cands \in Seq(Candidate)
      /\ \A j \in 1..ca.real : j \in 1..Len(ca.cands)
  <2>1. Fit(ca) /\ Sized(ca) /\ ca \in Array
    BY DEF Line, Fit, Sized
  <2>2. \A j \in 1..ca.real : j \in 1..Len(ca.cands)
    BY <2>1, SizedFacts
  <2> QED BY <2>1, <2>2, SizedFacts
<1>2. PICK i, w : i = get_purged_cand_index(ca) /\ w = Head(ca.cands[nn].words)
  OBVIOUS
<1>3. w \in Text
  BY <1>1, <1>2, CandidateFacts
<1>4. First(i, ca.real, {j \in 1..ca.real : is_purged_cand(ca.cands[j])})
  BY <1>1, <1>2, PurgedIndexFacts
<1>5. PICK r : r = purge_candidate(ca, nn)
  OBVIOUS
<1>6. Fit(r) /\ Sized(r)
  BY <1>5, PurgeStep DEF Line, Fit
\* It is enough that the others stay, and that the word is in the list.
<1>7. ASSUME NEW k \in 1..r.real, is_purged_cand(r.cands[k]), w \in ToSet(r.cands[k].words),
             \A j \in 1..ca.real : j = nn \/ is_purged_cand(ca.cands[j])
                                   \/ \E l \in 1..r.real : r.cands[l] = ca.cands[j],
             \A j \in 1..ca.real : is_purged_cand(ca.cands[j]) =>
               ToSet(ca.cands[j].words) \subseteq ToSet(r.cands[k].words)
      PROVE  Covered(ca) \subseteq Covered(r)
  <2>1. PurgedWords(r) = ToSet(r.cands[k].words)
    BY <1>6, <1>7, PurgedWordsFacts
  <2>2. ASSUME NEW x \in RealWords(ca) PROVE x \in Covered(r)
    <3>1. PICK j \in 1..ca.real : ca.cands[j].kind = "word" /\ Head(ca.cands[j].words) = x
      BY <1>1, RealWordsFacts
    <3>2. CASE j = nn
      BY <1>2, <1>7, <2>1, <3>1, <3>2 DEF Covered
    <3>3. CASE j # nn
      <4>1. PICK l \in 1..r.real : r.cands[l] = ca.cands[j]
        BY <1>7, <3>1, <3>3 DEF is_purged_cand
      <4>2. x \in RealWords(r)
        BY <1>6, <3>1, <4>1, RealWordsFacts
      <4> QED BY <4>2 DEF Covered
    <3> QED BY <3>2, <3>3
  <2>3. PurgedWords(ca) \subseteq PurgedWords(r)
    <3>1. CASE NoIgnore(ca)
      BY <1>1, <3>1, PurgedWordsFacts
    <3>2. CASE ~NoIgnore(ca)
      <4>1. PICK j \in 1..ca.real : is_purged_cand(ca.cands[j])
        BY <3>2 DEF NoIgnore
      <4>2. PurgedWords(ca) = ToSet(ca.cands[j].words)
        BY <1>1, <4>1, PurgedWordsFacts
      <4> QED BY <1>7, <2>1, <4>1, <4>2
    <3> QED BY <3>1, <3>2
  <2> QED BY <2>2, <2>3 DEF Covered
<1>8. CASE i = 0
  <2>1. \A j \in 1..ca.real : ~is_purged_cand(ca.cands[j])
    BY <1>4, <1>8 DEF First
  <2>2. PICK c : c = Ignore(<<w>>)
    OBVIOUS
  <2>3. PICK s : s = [ca.cands EXCEPT ![nn] = c]
    OBVIOUS
  <2>4. r = [ca EXCEPT !.cands = s]
    BY <1>2, <1>5, <1>8, <2>2, <2>3 DEF purge_candidate
  <2>5. s[nn] = c /\ \A j \in 1..ca.real : j # nn => s[j] = ca.cands[j]
    BY <1>1, <2>3
  <2>6. r.cands = s /\ r.real = ca.real
    BY <1>1, <2>4 DEF Array
  <2>7. is_purged_cand(c) /\ w \in ToSet(c.words)
    <3>1. c.words = <<w>> /\ c.kind = "ignore"
      BY <2>2 DEF Ignore
    <3>2. w \in ToSet(<<w>>)
      BY DEF ToSet
    <3> QED BY <3>1, <3>2 DEF is_purged_cand
  <2>8. \A j \in 1..ca.real : j = nn \/ \E l \in 1..r.real : r.cands[l] = ca.cands[j]
    BY <2>5, <2>6
  <2> QED BY <1>5, <1>7, <2>1, <2>5, <2>6, <2>7, <2>8
<1>9. CASE i # 0
  <2>1. i \in 1..ca.real /\ is_purged_cand(ca.cands[i]) /\ i # nn /\ i \in 1..Len(ca.cands)
    BY <1>1, <1>4, <1>9 DEF First
  <2>2. PICK s : s = push_purged_word(ca, i, w)
    OBVIOUS
  <2>3. Grown(i, s, ca) /\ w \in ToSet(s.cands[i].words)
    BY <1>1, <1>3, <2>1, <2>2, PushGrows
  <2>4. Sized(s)
    <3>1. i \in Nat \ {0}
      BY <1>1, <2>1
    <3>2. Sized(push_purged_word(ca, i, w))
      BY <1>1, <1>3, <3>1, PushStep
    <3> QED BY <2>2, <3>2
  <2>5. /\ s.real = ca.real /\ Len(s.cands) = Len(ca.cands)
        /\ \A j \in 1..ca.real : j # i => s.cands[j] = ca.cands[j]
        /\ is_purged_cand(s.cands[i]) /\ ToSet(ca.cands[i].words) \subseteq ToSet(s.cands[i].words)
    BY <1>1, <2>3 DEF Grown
  <2>6. r = remove_candidate_from_array(s, nn)
    BY <1>2, <1>5, <1>9, <2>2 DEF purge_candidate
  <2>7. /\ r.real = ca.real - 1
        /\ \A j \in 1..(Len(ca.cands) - 1) : r.cands[j] = IF j < nn THEN s.cands[j] ELSE s.cands[j + 1]
    <3> DEFINE x == remove_candidate_from_array(s, nn)
    <3>1. nn \in 1..Len(s.cands)
      BY <1>1, <2>5
    <3>2. /\ x.real = IF nn <= s.real THEN s.real - 1 ELSE s.real
          /\ \A j \in 1..(Len(s.cands) - 1) : x.cands[j] = IF j < nn THEN s.cands[j] ELSE s.cands[j + 1]
      BY <2>4, <3>1, RemoveStep
    <3> HIDE DEF x
    <3>3. r = x
      BY <2>6 DEF x
    <3> QED BY <1>1, <2>5, <3>2, <3>3
  \* Where the others go.
  <2> DEFINE Q(j) == IF j < nn THEN j ELSE j - 1
  <2>8. ASSUME NEW j \in 1..ca.real, j # nn PROVE Q(j) \in 1..r.real /\ r.cands[Q(j)] = s.cands[j]
    <3>1. CASE j < nn
      <4>1. j \in 1..r.real /\ j \in 1..(Len(ca.cands) - 1) /\ Q(j) = j
        BY <1>1, <2>7, <3>1
      <4> QED BY <2>7, <3>1, <4>1
    <3>2. CASE ~(j < nn)
      <4>1. /\ j - 1 \in 1..r.real /\ j - 1 \in 1..(Len(ca.cands) - 1) /\ Q(j) = j - 1
            /\ ~(j - 1 < nn) /\ (j - 1) + 1 = j
        BY <1>1, <2>7, <2>8, <3>2
      <4> QED BY <2>7, <4>1
    <3> QED BY <3>1, <3>2
  <2> HIDE DEF Q
  <2>9. Q(i) \in 1..r.real /\ r.cands[Q(i)] = s.cands[i]
    BY <2>1, <2>8
  <2>10. ASSUME NEW j \in 1..ca.real
         PROVE  j = nn \/ is_purged_cand(ca.cands[j]) \/ \E l \in 1..r.real : r.cands[l] = ca.cands[j]
    BY <2>1, <2>5, <2>8
  <2>11. \A j \in 1..ca.real : is_purged_cand(ca.cands[j]) => j = i
    BY <1>1, <2>1 DEF Fit
  <2> QED BY <1>5, <1>7, <2>3, <2>5, <2>9, <2>10, <2>11
<1> QED
  BY <1>8, <1>9

-----------------------------------------------------------------------------
(* The state.                                                               *)

Modes == {"kanji", "converting", "dialog", "register", "more"}

LEMMA NthFacts ==
  ASSUME NEW ca, Line(ca), NEW n
  PROVE  /\ Nth(ca, n) # NoCand => ca.cached /\ Nth(ca, n) \in ToSet(ca.cands) /\ n \in Nat
         /\ NrCandidates(ca) \in Nat
         /\ PurgeIndex(ca, n) # 0 => /\ PurgeIndex(ca, n) \in 1..ca.real
                                     /\ ~is_purged_cand(ca.cands[PurgeIndex(ca, n)])
<1>1. Fit(ca) /\ Sized(ca)
  BY DEF Line, Fit
<1>2. /\ ca.real \in Nat /\ Len(ca.cands) \in Nat /\ DOMAIN ca.cands = 1..Len(ca.cands)
      /\ \A i \in 1..ca.real : i \in 1..Len(ca.cands)
  BY <1>1, SizedFacts
<1>3. PICK i : i = NthIndex(ca, n)
  OBVIOUS
<1>4. i = 0 \/ i \in Visible(ca)
  BY <1>3 DEF NthIndex
<1>5. i = 0 \/ i \in 1..Len(ca.cands)
  BY <1>4 DEF Visible
<1>6. Nth(ca, n) # NoCand => ca.cached /\ Nth(ca, n) \in ToSet(ca.cands)
  BY <1>2, <1>3, <1>5 DEF Nth, ToSet
<1>8. \A S \in SUBSET Visible(ca) : Cardinality(S) \in Nat
  <2>1. IsFiniteSet(1..Len(ca.cands)) /\ Visible(ca) \subseteq 1..Len(ca.cands)
    BY <1>2, FS_Interval DEF Visible
  <2> QED BY <2>1, FS_Subset, FS_CardinalityType
<1>9. Nth(ca, n) # NoCand => n \in Nat
  <2> DEFINE Before(k) == {j \in Visible(ca) : j < k}
             Is == {k \in Visible(ca) : Cardinality(Before(k)) = n}
  <2>1. \A k : Before(k) \in SUBSET Visible(ca)
    OBVIOUS
  <2>2. \A k \in Is : Cardinality(Before(k)) = n /\ Cardinality(Before(k)) \in Nat
    BY <1>8, <2>1
  <2>3. Is = {} => i = 0
    BY <1>3 DEF NthIndex
  <2>4. i = 0 => Nth(ca, n) = NoCand
    BY <1>3 DEF Nth
  <2> HIDE DEF Is, Before
  <2> QED BY <2>2, <2>3, <2>4
<1>7. ASSUME PurgeIndex(ca, n) # 0
      PROVE  /\ PurgeIndex(ca, n) \in 1..ca.real
             /\ ~is_purged_cand(ca.cands[PurgeIndex(ca, n)])
  <2>1. PurgeIndex(ca, n) = i /\ i <= ca.real /\ i # 0
    BY <1>3, <1>7 DEF PurgeIndex
  <2>2. i \in 1..ca.real /\ i # get_purged_cand_index(ca)
    BY <1>2, <1>4, <1>5, <2>1 DEF Visible
  <2>3. PICK k : k = get_purged_cand_index(ca)
    OBVIOUS
  <2>4. First(k, ca.real, {j \in 1..ca.real : is_purged_cand(ca.cands[j])})
    BY <1>1, <2>3, PurgedIndexFacts
  <2>5. ~is_purged_cand(ca.cands[i])
    BY <1>1, <2>2, <2>3, <2>4 DEF First, Fit
  <2> QED BY <2>1, <2>2, <2>5
<1> QED
  BY <1>6, <1>7, <1>8, <1>9 DEF NrCandidates

Windows == [open : BOOLEAN, nr : Nat]

\* The window that may open counts what the entry then lists.
LEMMA CheckFacts ==
  ASSUME NEW c, NEW v \in Windows, NEW ca, Line(ca), NEW n
  PROVE  LET w == CheckWindowBegin(c, v, n, ca)
         IN  w \in Windows /\ (w = v \/ (~v.open /\ w.nr = NrCandidates(ca)))
<1>1. NrCandidates(ca) \in Nat
  BY NthFacts
<1> QED
  BY <1>1 DEF CheckWindowBegin, Windows

\* What every key of a conversion does to the entry of its process.
Converts(c, ca, edited, m, n, w, saving) ==
  LET old == line[Owner[c]]
  IN  /\ SetLine(c, ca, edited) /\ SetContext(c, m, n, w, ca, saving)
      /\ pc[Owner[c]] = "idle"
      /\ Line(ca) /\ (old.cached => ca.cached)
      /\ ~edited => SameSaved(ca, old)
      /\ Covered(old) \subseteq Covered(ca)
      /\ m \in Modes /\ n \in Nat /\ w \in Windows
      /\ m # "converting" => ~w.open
      /\ w.open => \/ w.nr = NrCandidates(ca)
                   \/ window[c].open /\ w.nr = window[c].nr
      /\ w.open /\ window[c].open => ca = old

LEMMA LookUp ==
  ASSUME NEW ca, Line(ca), NEW create \in BOOLEAN
  PROVE  LET r == find_cand_array(ca, create)
         IN  /\ Line(r) /\ RealPart(r) = RealPart(ca) /\ r.real = ca.real
             /\ ca.cached \/ create => r.cached
             /\ SameSaved(r, ca) /\ Covered(ca) = Covered(r)
<1> DEFINE r == find_cand_array(ca, create)
<1>1. /\ Line(r) /\ RealPart(r) = RealPart(ca) /\ r.real = ca.real
      /\ ca.cached \/ create => r.cached
  BY FindStep
<1> HIDE DEF r
<1>2. SameSaved(r, ca) /\ Covered(ca) = Covered(r)
  BY <1>1, SameReal DEF SameSaved, Line
<1> QED
  BY <1>1, <1>2 DEF r

LEMMA ConvertShape ==
  ASSUME Owner \in [Contexts -> Procs], \A p \in Procs : Line(line[p]), nth \in [Contexts -> Nat],
         window \in [Contexts -> Windows],
         NEW c \in Contexts, mode[c] # "converting" => ~window[c].open, Convert(c)
  PROVE  \E ca, edited, m, n, w, saving : Converts(c, ca, edited, m, n, w, saving)
<1>1. PICK old, i, v : old = line[Owner[c]] /\ i = nth[c] /\ v = window[c]
  OBVIOUS
<1>2. Line(old) /\ i \in Nat /\ v \in Windows /\ Shut(v) \in Windows /\ ~Shut(v).open
  BY <1>1 DEF Windows, Shut
<1>3. ASSUME NEW m \in Modes, NEW n \in Nat, NEW w \in Windows, NEW saving, pc[Owner[c]] = "idle",
             SetLine(c, old, FALSE), SetContext(c, m, n, w, old, saving),
             m # "converting" => ~w.open,
             w.open => w.nr = NrCandidates(old) \/ (v.open /\ w.nr = v.nr)
      PROVE  Converts(c, old, FALSE, m, n, w, saving)
  BY <1>1, <1>2, <1>3 DEF Converts, SameSaved
<1>13. Line(old) /\ NoWindow \in Windows /\ ~NoWindow.open /\ "kanji" \in Modes /\ 0 \in Nat
  BY <1>2 DEF NoWindow, Windows, Modes
<1>14. ASSUME NEW n, NEW u \in {v, Shut(v)}, pc[Owner[c]] = "idle", ChangeCandidateIndex(c, n, u)
       PROVE  \E ca, edited, m, k, w, saving : Converts(c, ca, edited, m, k, w, saving)
  <2>1. SetLine(c, old, FALSE)
    BY <1>1, <1>14, Zenon DEF ChangeCandidateIndex
  <2>2. CASE Nth(old, n) = NoCand
    <3>1. SetContext(c, "more", 0, Shut(u), old, FALSE)
      BY <1>1, <1>14, <2>2, Zenon DEF ChangeCandidateIndex
    <3>2. Shut(u) \in Windows /\ ~Shut(u).open /\ "more" \in Modes
      BY <1>2, <1>14 DEF Shut, Windows, Modes
    <3> QED BY <1>3, <1>13, <1>14, <2>1, <3>1, <3>2
  <2>3. CASE Nth(old, n) # NoCand
    <3>1. PICK w : w = CheckWindowBegin(c, u, n, old)
      OBVIOUS
    <3>2. SetContext(c, "converting", n, w, old, FALSE)
      BY <1>1, <1>14, <2>3, <3>1, Zenon DEF ChangeCandidateIndex
    <3>3. n \in Nat /\ "converting" \in Modes
      BY <1>2, <2>3, NthFacts DEF Modes
    <3>4. w \in Windows /\ (w = u \/ (~u.open /\ w.nr = NrCandidates(old)))
      <4>1. u \in Windows
        BY <1>2, <1>14
      <4> QED BY <1>2, <3>1, <4>1, CheckFacts
    <3>5. w.open => w.nr = NrCandidates(old) \/ (v.open /\ w.nr = v.nr)
      BY <1>2, <1>14, <3>4
    <3> QED BY <1>3, <1>14, <2>1, <3>2, <3>3, <3>4, <3>5
  <2> QED BY <2>2, <2>3
<1>15. ASSUME pc[Owner[c]] = "idle", skk_back_to_kanji_state(c)
       PROVE  \E ca, edited, m, k, w, saving : Converts(c, ca, edited, m, k, w, saving)
  <2>1. SetLine(c, old, FALSE) /\ SetContext(c, "kanji", 0, NoWindow, old, FALSE)
    BY <1>1, <1>15, Zenon DEF skk_back_to_kanji_state
  <2> QED BY <1>3, <1>13, <1>15, <2>1
<1>4. CASE BeginConversion(c)
  <2>1. PICK ca : ca = find_cand_array(old, FALSE)
    OBVIOUS
  <2>2. Line(ca) /\ SameSaved(ca, old) /\ Covered(old) = Covered(ca) /\ (old.cached => ca.cached)
    <3> DEFINE x == find_cand_array(old, FALSE)
    <3>1. Line(x) /\ SameSaved(x, old) /\ Covered(old) = Covered(x) /\ (old.cached => x.cached)
      BY <1>2, LookUp
    <3> HIDE DEF x
    <3>2. ca = x
      BY <2>1 DEF x
    <3> QED BY <3>1, <3>2
  <2>3. ~v.open /\ pc[Owner[c]] = "idle" /\ SetLine(c, ca, FALSE)
    BY <1>1, <1>4, <2>1, Zenon DEF BeginConversion, Ready
  <2>4. CASE skk_get_entry(ca)
    <3>1. PICK u, w : u = [v EXCEPT !.nr = 0] /\ w = CheckWindowBegin(c, u, 0, ca)
      OBVIOUS
    <3>2. SetContext(c, "converting", 0, w, ca, FALSE)
      BY <1>1, <1>4, <2>1, <2>4, <3>1, Zenon DEF BeginConversion
    <3>3. u \in Windows /\ ~u.open
      BY <1>2, <2>3, <3>1 DEF Windows
    <3>4. w \in Windows /\ (w = u \/ (~u.open /\ w.nr = NrCandidates(ca)))
      BY <2>2, <3>1, <3>3, CheckFacts
    <3>5. "converting" \in Modes
      BY DEF Modes
    <3>6. Converts(c, ca, FALSE, "converting", 0, w, FALSE)
      BY <1>1, <1>13, <2>2, <2>3, <3>2, <3>3, <3>4, <3>5 DEF Converts
    <3> QED BY <3>6
  <2>5. CASE ~skk_get_entry(ca)
    <3>1. SetContext(c, "register", 0, v, ca, FALSE)
      BY <1>1, <1>4, <2>1, <2>5, Zenon DEF BeginConversion
    <3>2. "register" \in Modes
      BY DEF Modes
    <3>3. Converts(c, ca, FALSE, "register", 0, v, FALSE)
      BY <1>1, <1>2, <1>13, <2>2, <2>3, <3>1, <3>2 DEF Converts
    <3> QED BY <3>3
  <2> QED BY <2>4, <2>5
<1>5. CASE NextCandidate(c)
  <2>1. pc[Owner[c]] = "idle" /\ \E n : ChangeCandidateIndex(c, n, v)
    BY <1>1, <1>5, Zenon DEF NextCandidate, Ready
  <2> QED BY <1>14, <2>1
<1>6. CASE PreviousCandidate(c)
  <2>1. /\ pc[Owner[c]] = "idle"
        /\ \/ skk_back_to_kanji_state(c)
           \/ \E n : ChangeCandidateIndex(c, n, v)
           \/ \E n : ChangeCandidateIndex(c, n, Shut(v))
    BY <1>1, <1>6, Zenon DEF PreviousCandidate, Ready
  <2> QED BY <1>14, <1>15, <2>1
<1>16. CASE SelectCandidate(c)
  <2>1. PICK n \in Listed(c) : SetContext(c, "converting", n, v, old, FALSE)
    BY <1>1, <1>16, Zenon DEF SelectCandidate
  <2>2. pc[Owner[c]] = "idle" /\ SetLine(c, old, FALSE)
    BY <1>1, <1>16, Zenon DEF SelectCandidate, Ready
  <2>3. v.open /\ n \in FirstListed(c)..v.nr - 1
    BY <1>1, <2>1 DEF Listed
  <2>4. FirstListed(c) \in Nat
    <3>1. PICK p \in Procs : p = Owner[c]
      OBVIOUS
    <3>2. /\ OpCount[p] \in Nat /\ Style[p] \in {"uim", "ddskk-like"}
          /\ Style[p] = "ddskk-like" => OpCount[p] > 0
      BY WindowAssumption
    <3> QED BY <3>1, <3>2 DEF FirstListed
  <2>5. n \in Nat /\ "converting" \in Modes
    BY <1>2, <2>3, <2>4 DEF Modes, Windows
  <2> QED BY <1>2, <1>3, <2>1, <2>2, <2>3, <2>5
<1>7. ASSUME NEW j, pc[Owner[c]] = "idle", skk_commit_candidate(c, j)
      PROVE  \E ca, edited, m, n, w, saving : Converts(c, ca, edited, m, n, w, saving)
  <2>1. PICK cand : cand = Nth(old, j)
    OBVIOUS
  <2>2. PICK moved : moved = IF cand = NoCand THEN old
                             ELSE [reorder_candidate(old, cand) EXCEPT !.save = TRUE]
    OBVIOUS
  <2>3. PICK edited, saving : edited = (cand # NoCand /\ old.cands[1] # cand) /\ saving = (j > 0)
    OBVIOUS
  <2>4. SetLine(c, moved, edited) /\ SetContext(c, "kanji", 0, NoWindow, moved, saving)
    <3>1. cand = CommittedText(c, j)
      BY <1>1, <2>1 DEF CommittedText
    <3> QED BY <1>1, <1>7, <2>2, <2>3, <3>1, Zenon DEF skk_commit_candidate
  <2>5. Line(moved) /\ (old.cached => moved.cached) /\ (~edited => SameSaved(moved, old))
        /\ Covered(old) \subseteq Covered(moved)
    <3>1. CASE cand = NoCand
      BY <1>2, <2>2, <3>1 DEF SameSaved
    <3>2. CASE cand # NoCand
      <4>1. old.cached /\ cand \in ToSet(old.cands)
        BY <1>2, <2>1, <3>2, NthFacts
      <4> DEFINE x == [reorder_candidate(old, cand) EXCEPT !.save = TRUE]
      <4>2. Line(x) /\ x.cached /\ (old.cands[1] = cand => SameSaved(x, old))
        BY <1>2, <4>1, CommitStep
      <4>3. Covered(old) \subseteq Covered(x)
        BY <1>2, <4>1, CommitCovers
      <4>4. moved = x
        BY <2>2, <3>2
      <4> HIDE DEF x
      <4> QED BY <2>3, <3>2, <4>2, <4>3, <4>4
    <3> QED BY <3>1, <3>2
  <2>6. Converts(c, moved, edited, "kanji", 0, NoWindow, saving)
    BY <1>1, <1>7, <1>13, <2>4, <2>5 DEF Converts
  <2> QED BY <2>6
<1>8. CASE AskPurge(c)
  <2>1. /\ SetLine(c, old, FALSE) /\ SetContext(c, "dialog", i, Shut(v), old, FALSE)
        /\ pc[Owner[c]] = "idle"
    BY <1>1, <1>8, Zenon DEF AskPurge, Ready
  <2>2. "dialog" \in Modes
    BY DEF Modes
  <2> QED BY <1>2, <1>3, <2>1, <2>2
<1>17. CASE KeepCandidate(c)
  <2>1. /\ SetLine(c, old, FALSE) /\ SetContext(c, "converting", i, v, old, FALSE)
        /\ pc[Owner[c]] = "idle" /\ ~v.open
    BY <1>1, <1>17, Zenon DEF KeepCandidate, Ready
  <2>2. "converting" \in Modes
    BY DEF Modes
  <2> QED BY <1>2, <1>3, <2>1, <2>2
<1>9. CASE skk_purge_candidate(c)
  <2>1. PICK k : k = PurgeIndex(old, i)
    OBVIOUS
  <2>2. PICK purged : purged = IF k = 0 THEN old ELSE purge_candidate(old, k)
    OBVIOUS
  <2>3. PICK edited : edited = (k # 0)
    OBVIOUS
  <2>4. SetLine(c, purged, edited) /\ SetContext(c, "kanji", 0, NoWindow, purged, TRUE) /\ pc[Owner[c]] = "idle"
    BY <1>1, <1>9, <2>1, <2>2, <2>3, Zenon DEF skk_purge_candidate, Ready
  <2>5. Line(purged) /\ (old.cached => purged.cached) /\ (~edited => SameSaved(purged, old))
        /\ Covered(old) \subseteq Covered(purged)
    <3>1. CASE k = 0
      BY <1>2, <2>2, <3>1 DEF SameSaved
    <3>2. CASE k # 0
      <4>1. k \in 1..old.real /\ ~is_purged_cand(old.cands[k])
        BY <1>2, <2>1, <3>2, NthFacts
      <4> DEFINE x == purge_candidate(old, k)
      <4>2. Line(x) /\ x.cached = old.cached
        BY <1>2, <4>1, PurgeStep
      <4>3. Covered(old) \subseteq Covered(x)
        BY <1>2, <4>1, PurgeCovers
      <4>4. purged = x
        BY <2>2, <3>2
      <4> HIDE DEF x
      <4> QED BY <2>3, <3>2, <4>2, <4>3, <4>4
    <3> QED BY <3>1, <3>2
  <2>6. Converts(c, purged, edited, "kanji", 0, NoWindow, TRUE)
    BY <1>1, <1>13, <2>4, <2>5 DEF Converts
  <2> QED BY <2>6
<1>10. CASE CancelEditor(c)
  <2>1. CASE v.nr = 0 /\ skk_back_to_kanji_state(c)
    <3>1. pc[Owner[c]] = "idle"
      BY <1>10, Zenon DEF CancelEditor, Ready
    <3> QED BY <1>15, <2>1, <3>1
  <2>2. CASE v.nr > 0 /\ SetContext(c, "converting", v.nr - 1, CheckWindowBegin(c, v, v.nr - 1, old), old, FALSE)
    <3>1. PICK n, w : n = v.nr - 1 /\ w = CheckWindowBegin(c, v, n, old)
      OBVIOUS
    <3>2. pc[Owner[c]] = "idle" /\ SetLine(c, old, FALSE) /\ SetContext(c, "converting", n, w, old, FALSE)
      <4>1. pc[Owner[c]] = "idle"
        BY <1>10, Zenon DEF CancelEditor, Ready
      <4>2. SetLine(c, old, FALSE)
        BY <1>1, <1>10, Zenon DEF CancelEditor, skk_back_to_kanji_state
      <4> QED BY <2>2, <3>1, <4>1, <4>2
    <3>3. w \in Windows /\ (w = v \/ (~v.open /\ w.nr = NrCandidates(old)))
      BY <1>2, <3>1, CheckFacts
    <3>4. n \in Nat /\ "converting" \in Modes
      BY <1>2, <2>2, <3>1 DEF Windows, Modes
    <3> QED BY <1>3, <3>2, <3>3, <3>4
  <2> QED BY <1>1, <1>10, <2>1, <2>2, Zenon DEF CancelEditor
<1>18. CASE skk_flush(c)
  BY <1>15, <1>18 DEF skk_flush
<1>11. CASE ReleaseContext(c)
  <2>1. SetLine(c, old, FALSE) /\ SetContext(c, "kanji", 0, NoWindow, old, TRUE) /\ pc[Owner[c]] = "idle"
    BY <1>1, <1>11, Zenon DEF ReleaseContext
  <2> QED BY <1>3, <1>13, <2>1
<1>12. ASSUME NEW w \in Words, skk_learn_word(c, w)
       PROVE  \E ca, edited, m, n, u, saving : Converts(c, ca, edited, m, n, u, saving)
  <2>1. PICK ca : ca = find_cand_array(old, TRUE)
    OBVIOUS
  <2>2. Line(ca) /\ ca.cached /\ RealPart(ca) = RealPart(old) /\ ca.real = old.real
        /\ Covered(old) = Covered(ca)
    <3> DEFINE x == find_cand_array(old, TRUE)
    <3>1. Line(x) /\ x.cached /\ RealPart(x) = RealPart(old) /\ x.real = old.real
          /\ Covered(old) = Covered(x)
      BY <1>2, LookUp
    <3> HIDE DEF x
    <3>2. ca = x
      BY <2>1 DEF x
    <3> QED BY <3>1, <3>2
  <2>3. PICK learnt : learnt = learn_word_to_cand_array(ca, w)
    OBVIOUS
  <2>4. PICK edited : edited = (ca.cands # <<>> /\ ca.cands[1] # Word(w))
    OBVIOUS
  <2>5. SetLine(c, learnt, edited) /\ SetContext(c, "kanji", 0, NoWindow, learnt, TRUE) /\ pc[Owner[c]] = "idle"
    BY <1>1, <1>12, <2>1, <2>3, <2>4, Zenon DEF skk_learn_word, Ready
  <2>6. Line(learnt) /\ learnt.cached /\ (~edited => SameSaved(learnt, old))
        /\ Covered(old) \subseteq Covered(learnt)
    <3> DEFINE x == learn_word_to_cand_array(ca, w)
    <3>1. Line(x) /\ x.cached /\ (~(ca.cands # <<>> /\ ca.cands[1] # Word(w)) => SameSaved(x, ca))
      BY <2>2, LearnStep
    <3>2. Covered(ca) \subseteq Covered(x)
      BY <2>2, LearnCovers
    <3> HIDE DEF x
    <3>3. learnt = x
      BY <2>3 DEF x
    <3> QED BY <2>2, <2>4, <3>1, <3>2, <3>3 DEF SameSaved
  <2>7. Converts(c, learnt, edited, "kanji", 0, NoWindow, TRUE)
    BY <1>1, <1>13, <2>5, <2>6 DEF Converts
  <2> QED BY <2>7
<1>19. CASE skk_commit_preedit(c)
  BY <1>7, <1>19 DEF skk_commit_preedit, Ready
<1>20. ASSUME NEW n, skk_commit_by_label_key(c, n)
       PROVE  \E ca, edited, m, k, w, saving : Converts(c, ca, edited, m, k, w, saving)
  BY <1>7, <1>20 DEF skk_commit_by_label_key, Ready
<1> QED
  BY <1>4, <1>5, <1>6, <1>8, <1>9, <1>10, <1>11, <1>12, <1>16, <1>17, <1>18, <1>19, <1>20, Zenon
     DEF Convert

-----------------------------------------------------------------------------
(* The inductive invariant.                                                 *)

\* The words of the file are still here, in use or ignored.
Known(p) == WordsOf(file) \subseteq Covered(line[p])

\* UnsavedIsMarked, of one process.
Marked(p) == RealPart(line[p]) = synced[p] \/ (synced[p] = <<>> /\ line[p].real = 1)

ProcInv(p) ==
  /\ Line(line[p])
  /\ ~line[p].cached => synced[p] = <<>> /\ ~shrunk[p]
  /\ ~cache_modified[p] => ~shrunk[p]
  /\ pc[p] = "gone" => ~shrunk[p]
  /\ pc[p] # "gone" /\ ~cache_modified[p] => Marked(p)
  /\ pc[p] # "gone" /\ current[p] /\ file # NoFile /\ ~shrunk[p] => Known(p)
  /\ pc[p] \in {"lock", "write", "replace"} /\ file # NoFile =>
       current[p] \/ overlapped[p] \/ sameSecond[p]

ContextInv(c) ==
  /\ pc[Owner[c]] = "gone" => mode[c] = "kanji"
  /\ mode[c] # "converting" => ~window[c].open
  /\ ~window[c].open => listed[c] = <<>>
  /\ mode[c] = "converting" => shown[c] = CommittedText(c, nth[c]) \/ touched[c]
  /\ listed[c] # <<>> =>
       /\ listed[c] = Listing(line[Owner[c]])
       /\ window[c].nr = NrCandidates(line[Owner[c]])

Typed == TypeOK /\ Content(file) /\ DOMAIN shown = Contexts /\ DOMAIN listed = Contexts

DInv == IInv /\ Typed /\ (\A p \in Procs : ProcInv(p)) /\ (\A c \in Contexts : ContextInv(c))

\* What a step leaves alone of a process and of a context.
SameProc(q) ==
  /\ pc'[q] = pc[q] /\ line'[q] = line[q] /\ cache_modified'[q] = cache_modified[q]
  /\ synced'[q] = synced[q] /\ current'[q] = current[q] /\ overlapped'[q] = overlapped[q]
  /\ sameSecond'[q] = sameSecond[q] /\ shrunk'[q] = shrunk[q]
SameContext(c) ==
  /\ mode'[c] = mode[c] /\ nth'[c] = nth[c] /\ window'[c] = window[c]
  /\ shown'[c] = shown[c] /\ listed'[c] = listed[c] /\ touched'[c] = touched[c]

LEMMA SameProcInv ==
  ASSUME NEW q, ProcInv(q), SameProc(q), UNCHANGED file
  PROVE  ProcInv(q)'
<1>1. Known(q) => Known(q)'
  BY DEF SameProc, Known, Covered, RealWords, PurgedWords, get_purged_cand_index, RealPart, WordsOf
<1>2. Marked(q) => Marked(q)'
  BY DEF SameProc, Marked, RealPart
<1>3. Line(line[q])' <=> Line(line[q])
  BY DEF SameProc, Line, Fit, Sized
<1> QED
  BY <1>1, <1>2, <1>3 DEF SameProc, ProcInv

LEMMA SameContextInv ==
  ASSUME NEW c, ContextInv(c), SameContext(c), line'[Owner[c]] = line[Owner[c]],
         pc'[Owner[c]] = "gone" => pc[Owner[c]] = "gone"
  PROVE  ContextInv(c)'
<1>1. CommittedText(c, nth[c])' = CommittedText(c, nth[c])
  BY DEF SameContext, CommittedText
<1>2. /\ Listing(line[Owner[c]])' = Listing(line[Owner[c]])
      /\ NrCandidates(line[Owner[c]])' = NrCandidates(line[Owner[c]])
  OBVIOUS
<1> QED
  BY <1>1, <1>2 DEF ContextInv, SameContext

\* A save moves on without a change of the entry.
LEMMA Quiet ==
  ASSUME DInv, NEW p \in Procs, IInv', Typed',
         UNCHANGED <<file, line, synced, shrunk, cache_modified, mode, nth, window, shown, listed, touched>>,
         \A q \in Procs : q # p => SameProc(q),
         pc[p] # "gone", pc'[p] # "gone", current'[p] = current[p],
         pc'[p] \in {"lock", "write", "replace"} /\ file # NoFile =>
           current'[p] \/ overlapped'[p] \/ sameSecond'[p]
  PROVE  DInv'
<1>1. ASSUME NEW q \in Procs, q # p PROVE ProcInv(q)'
  BY <1>1, SameProcInv DEF DInv
<1>2. ProcInv(p)'
  <2>1. Known(p) => Known(p)'
    BY DEF Known, Covered, RealWords, PurgedWords, get_purged_cand_index, RealPart, WordsOf
  <2>2. Marked(p) => Marked(p)'
    BY DEF Marked, RealPart
  <2>3. Line(line[p])' <=> Line(line[p])
    BY DEF Line, Fit, Sized
  <2> QED BY <2>1, <2>2, <2>3 DEF DInv, ProcInv
<1>3. ASSUME NEW c \in Contexts PROVE ContextInv(c)'
  <2>1. SameContext(c) /\ line'[Owner[c]] = line[Owner[c]] /\ Owner[c] \in Procs
    BY OwnerAssumption DEF SameContext
  <2>2. pc'[Owner[c]] = "gone" => pc[Owner[c]] = "gone"
    BY <2>1 DEF SameProc
  <2> QED BY <2>1, <2>2, SameContextInv DEF DInv
<1> QED
  BY <1>1, <1>2, <1>3 DEF DInv

LEMMA InitDInv == Init => DInv
<1> SUFFICES ASSUME Init PROVE DInv
  OBVIOUS
<1>1. IInv
  BY InitIInv
<1>2. Content(file)
  BY DictAssumption DEF Init, Content
<1>3. NoLine \in Array /\ NoLine.real <= Len(NoLine.cands) /\ <<>> \in Saved
  BY NoLineFits DEF Line, Fit, Sized, Saved
<1>4. TypeOK
  <2>1. file \in {NoFile} \cup Saved
    BY <1>2 DEF Content, Saved
  <2>2. /\ mtime \in 0..now /\ now \in 0..MaxTime /\ left \in 0..MaxBegins
        /\ Epoch \in Epoch..MaxTime
    BY DictAssumption DEF Init, Epoch
  <2> HIDE DEF Saved
  <2>3. NoWindow \in [open : BOOLEAN, nr : Nat]
    BY DEF NoWindow
  <2> QED BY <1>3, <2>1, <2>2, <2>3 DEF Init, TypeOK
<1>5. ASSUME NEW p \in Procs PROVE ProcInv(p)
  BY <1>5, NoLineFits DEF Init, ProcInv
<1>6. ASSUME NEW c \in Contexts PROVE ContextInv(c)
  BY <1>6 DEF Init, ContextInv, NoWindow
<1>7. DOMAIN shown = Contexts /\ DOMAIN listed = Contexts
  BY DEF Init
<1> QED
  BY <1>1, <1>2, <1>4, <1>5, <1>6, <1>7 DEF DInv, Typed

\* The types, of what is on the disk and of what is in memory.
Disk ==
  /\ Content(file) /\ tmp \in {NoFile, Partial} \cup Saved
  /\ mtime \in 0..now /\ now \in 0..MaxTime /\ lock \in Procs \cup {NoProc}
  /\ current \in [Procs -> BOOLEAN] /\ overlapped \in [Procs -> BOOLEAN]
Memory ==
  /\ pc \in [Procs -> Saving \cup {"gone", "idle"}] /\ closing \in [Procs -> BOOLEAN]
  /\ line \in [Procs -> Array] /\ \A p \in Procs : Line(line[p])
  /\ personal_dic_timestamp \in [Procs -> Epoch..MaxTime]
  /\ cache_modified \in [Procs -> BOOLEAN]
  /\ mode \in [Contexts -> Modes] /\ nth \in [Contexts -> Nat] /\ left \in 0..MaxBegins
  /\ window \in [Contexts -> Windows] /\ DOMAIN listed = Contexts
  /\ synced \in [Procs -> Saved] /\ touched \in [Contexts -> BOOLEAN]
  /\ sameSecond \in [Procs -> BOOLEAN] /\ shrunk \in [Procs -> BOOLEAN]
  /\ DOMAIN shown = Contexts

LEMMA Typing ==
  /\ Disk' /\ Memory' => Typed'
  /\ DInv => Disk /\ Memory
<1>1. ASSUME Disk', Memory' PROVE Typed'
  <2>1. \A p \in Procs : line'[p].real <= Len(line'[p].cands)
    BY <1>1 DEF Memory, Line, Fit, Sized
  <2>2. file' \in {NoFile} \cup Saved /\ Content(file)'
    BY <1>1 DEF Disk, Content, Saved
  <2>3. TypeOK'
    BY <1>1, <2>1, <2>2 DEF Disk, Memory, TypeOK, Modes, Windows
  <2> QED BY <1>1, <2>2, <2>3 DEF Typed, Memory
<1>2. ASSUME DInv PROVE Disk /\ Memory
  <2>1. \A p \in Procs : Line(line[p])
    BY <1>2 DEF DInv, ProcInv
  <2> QED BY <1>2, <2>1 DEF DInv, Typed, TypeOK, Disk, Memory, Modes, Windows
<1> QED
  BY <1>1, <1>2

\* What a process that ends or returns from a save leaves alone.
Apart(p) ==
  \A q \in Procs : q # p =>
    /\ pc'[q] = pc[q] /\ line'[q] = line[q] /\ cache_modified'[q] = cache_modified[q]
    /\ synced'[q] = synced[q] /\ sameSecond'[q] = sameSecond[q] /\ shrunk'[q] = shrunk[q]

Forgets(p) ==
  /\ pc'[p] = "gone" /\ line'[p] = NoLine /\ ~cache_modified'[p]
  /\ synced'[p] = <<>> /\ ~shrunk'[p]

LEMMA ForgetFacts ==
  ASSUME DInv, NEW p \in Procs, Forget(p)
  PROVE  Apart(p) /\ Forgets(p) /\ Memory' /\ \A c \in Contexts : ContextInv(c)'
<1>1. Memory
  BY Typing
<1>2. Apart(p) /\ Forgets(p)
  BY <1>1 DEF Forget, Apart, Forgets, Memory
<1>3. Memory'
  <2>1. Line(NoLine) /\ NoLine \in Array /\ Epoch \in Epoch..MaxTime /\ <<>> \in Saved
    BY NoLineFits, DictAssumption DEF Line, Fit, Sized, Epoch, Saved
  <2>2. \A q \in Procs : Line(line'[q])
    BY <1>1, <1>2, <2>1 DEF Memory, Apart, Forgets
  <2>3. /\ mode' \in [Contexts -> Modes] /\ nth' \in [Contexts -> Nat]
        /\ window' \in [Contexts -> Windows] /\ touched' \in [Contexts -> BOOLEAN]
        /\ DOMAIN shown' = Contexts /\ DOMAIN listed' = Contexts
    BY <1>1 DEF Forget, Memory, Modes, Windows, NoWindow
  <2>4. (\A q \in Procs : Line(line[q]))'
    BY <2>2 DEF Line, Fit, Sized
  <2>5. line' \in [Procs -> Array] /\ synced' \in [Procs -> Saved]
    BY <1>1, <2>1 DEF Forget, Memory
  <2>6. /\ pc' \in [Procs -> Saving \cup {"gone", "idle"}] /\ closing' \in [Procs -> BOOLEAN]
        /\ cache_modified' \in [Procs -> BOOLEAN]
        /\ sameSecond' \in [Procs -> BOOLEAN] /\ shrunk' \in [Procs -> BOOLEAN]
        /\ left' \in 0..MaxBegins
    BY <1>1 DEF Forget, Memory
  <2>7. personal_dic_timestamp' \in [Procs -> Epoch..MaxTime]
    BY <1>1, <2>1 DEF Forget, Memory
  <2> QED BY <2>3, <2>4, <2>5, <2>6, <2>7 DEF Memory
<1>4. ASSUME NEW c \in Contexts PROVE ContextInv(c)'
  <2>1. Owner[c] \in Procs
    BY OwnerAssumption
  <2>2. CASE Owner[c] = p
    BY <2>2 DEF Forget, ContextInv, NoWindow
  <2>3. CASE Owner[c] # p
    <3>1. SameContext(c)
      BY <1>1, <2>3 DEF Forget, SameContext, Memory
    <3>2. line'[Owner[c]] = line[Owner[c]] /\ pc'[Owner[c]] = pc[Owner[c]]
      BY <1>2, <2>1, <2>3 DEF Apart
    <3> QED BY <3>1, <3>2, SameContextInv DEF DInv
  <2> QED BY <2>2, <2>3
<1> QED
  BY <1>2, <1>3, <1>4

Returns(p, modified, written) ==
  /\ pc'[p] = "idle" /\ line'[p] = line[p] /\ cache_modified'[p] = modified
  /\ synced'[p] = written /\ shrunk'[p] = (shrunk[p] /\ modified)

LEMMA ReturnFacts ==
  ASSUME DInv, NEW p \in Procs, pc[p] # "gone",
         NEW m \in BOOLEAN, NEW t \in Epoch..MaxTime, NEW w \in Saved, Return(p, m, t, w)
  PROVE  /\ Apart(p) /\ (Forgets(p) \/ Returns(p, m, w))
         /\ Memory' /\ \A c \in Contexts : ContextInv(c)'
<1>1. Memory
  BY Typing
<1>2. CASE Forget(p)
  BY <1>2, ForgetFacts
<1>3. CASE /\ pc' = [pc EXCEPT ![p] = "idle"]
           /\ cache_modified' = [cache_modified EXCEPT ![p] = m]
           /\ personal_dic_timestamp' = [personal_dic_timestamp EXCEPT ![p] = t]
           /\ synced' = [synced EXCEPT ![p] = w]
           /\ shrunk' = [shrunk EXCEPT ![p] = @ /\ m]
           /\ sameSecond' = [sameSecond EXCEPT ![p] = FALSE]
           /\ UNCHANGED <<closing, line, ctx, touched>>
  <2>1. Apart(p) /\ Returns(p, m, w)
    BY <1>1, <1>3 DEF Apart, Returns, Memory
  <2>2. Memory'
    <3>1. (\A q \in Procs : Line(line[q]))'
      BY <1>1, <1>3 DEF Memory, Line, Fit, Sized
    <3>2. /\ pc' \in [Procs -> Saving \cup {"gone", "idle"}] /\ closing' \in [Procs -> BOOLEAN]
          /\ cache_modified' \in [Procs -> BOOLEAN] /\ synced' \in [Procs -> Saved]
          /\ sameSecond' \in [Procs -> BOOLEAN] /\ shrunk' \in [Procs -> BOOLEAN]
      BY <1>1, <1>3 DEF Memory
    <3>3. personal_dic_timestamp' \in [Procs -> Epoch..MaxTime]
      BY <1>1, <1>3 DEF Memory
    <3> QED BY <1>1, <1>3, <3>1, <3>2, <3>3 DEF Memory, ctx, keys
  <2>3. ASSUME NEW c \in Contexts PROVE ContextInv(c)'
    <3>1. SameContext(c) /\ line'[Owner[c]] = line[Owner[c]] /\ Owner[c] \in Procs
      BY <1>3, OwnerAssumption DEF SameContext, ctx, keys
    <3>2. pc'[Owner[c]] = "gone" => pc[Owner[c]] = "gone"
      BY <2>1, <3>1 DEF Apart, Returns
    <3> QED BY <3>1, <3>2, SameContextInv DEF DInv
  <2> QED BY <2>1, <2>2, <2>3
<1> QED
  BY <1>2, <1>3 DEF Return

\* A process that is gone remembers nothing that could be wrong.
LEMMA ForgetsInv ==
  ASSUME NEW p, Forgets(p)
  PROVE  ProcInv(p)'
<1>1. Line(line[p])' /\ (line[p].cached => FALSE)'
  BY NoLineFits DEF Forgets, Line, NoLine, Fit, Sized
<1> QED
  BY <1>1 DEF Forgets, ProcInv

LEMMA OpenKeeps ==
  ASSUME DInv, NEW p \in Procs, Open(p)
  PROVE  DInv'
<1>1. IInv'
  BY OpenStep DEF DInv
<1>2. Disk /\ Memory
  BY Typing
<1>3. PICK garbage, words, own, jisyo, ca, ts, modified :
        /\ garbage \in BOOLEAN /\ words \in JisyoS
        /\ own = LineOf(file) /\ jisyo = JisyoLine(words)
        /\ ca = IF own.cached THEN own ELSE jisyo
        /\ ts = IF file = NoFile \/ (~own.cached /\ jisyo.cached) THEN Epoch ELSE mtime
        /\ modified = (own.cached \/ jisyo.cached \/ (file # NoFile /\ garbage))
        /\ line' = [line EXCEPT ![p] = ca]
        /\ personal_dic_timestamp' = [personal_dic_timestamp EXCEPT ![p] = ts]
        /\ cache_modified' = [cache_modified EXCEPT ![p] = modified]
        /\ synced' = [synced EXCEPT ![p] = RealPart(own)]
  <2>1. PICK garbage \in BOOLEAN, words \in JisyoS :
       LET own == LineOf(file)
           jisyo == JisyoLine(words)
       IN  /\ line' = [line EXCEPT ![p] = IF own.cached THEN own ELSE jisyo]
           /\ personal_dic_timestamp' = [personal_dic_timestamp EXCEPT ![p] =
                IF file = NoFile \/ (~own.cached /\ jisyo.cached) THEN Epoch ELSE mtime]
           /\ cache_modified' = [cache_modified EXCEPT ![p] =
                own.cached \/ jisyo.cached \/ (file # NoFile /\ garbage)]
           /\ synced' = [synced EXCEPT ![p] = RealPart(own)]
    BY Zenon DEF Open
  <2>2. PICK own, jisyo : own = LineOf(file) /\ jisyo = JisyoLine(words)
    OBVIOUS
  <2>3. PICK ca, ts, modified :
          /\ ca = IF own.cached THEN own ELSE jisyo
          /\ ts = IF file = NoFile \/ (~own.cached /\ jisyo.cached) THEN Epoch ELSE mtime
          /\ modified = (own.cached \/ jisyo.cached \/ (file # NoFile /\ garbage))
    OBVIOUS
  <2> QED BY <2>1, <2>2, <2>3, Zenon
<1>4. /\ pc[p] = "gone" /\ pc' = [pc EXCEPT ![p] = "idle"]
      /\ current' = [current EXCEPT ![p] = TRUE] /\ left > 0 /\ left' = left - 1
      /\ UNCHANGED <<file, mtime, tmp, lock, now, closing, mode, nth, window, shown, listed, touched,
                     overlapped, sameSecond, shrunk>>
  BY DEF Open, disk
<1>5. /\ Line(own) /\ RealPart(own) \in Saved
      /\ Line(jisyo) /\ RealPart(jisyo) = <<>>
      /\ own.cached => file # NoFile /\ RealPart(own) = file
      /\ ~own.cached => RealPart(own) = <<>> /\ (file = NoFile \/ file = <<>>)
  <2>1. Content(file)
    BY <1>2 DEF Disk
  <2>2. /\ Line(LineOf(file))
        /\ file \notin {NoFile, <<>>} => LineOf(file).cached /\ RealPart(LineOf(file)) = file
        /\ file \in {NoFile, <<>>} => LineOf(file) = NoLine
    BY <2>1, LineOfFits
  <2>3. Line(own)
    BY <1>3, <2>2
  <2>4. RealPart(own) \in Saved
    BY <2>3, WrittenFits DEF Saved
  <2>5. Line(jisyo) /\ RealPart(jisyo) = <<>>
    BY <1>3, JisyoFits
  <2>6. ~NoLine.cached /\ RealPart(NoLine) = <<>>
    BY NoLineFits DEF NoLine
  <2>7. own.cached => file # NoFile /\ RealPart(own) = file
    BY <1>3, <2>2, <2>6
  <2>8. ~own.cached => RealPart(own) = <<>> /\ (file = NoFile \/ file = <<>>)
    BY <1>3, <2>2, <2>6
  <2> QED BY <2>3, <2>4, <2>5, <2>7, <2>8
<1>6. Line(ca) /\ RealPart(ca) = RealPart(own) /\ modified \in BOOLEAN /\ (~ca.cached => ~own.cached)
      /\ (file # NoFile => WordsOf(file) \subseteq Covered(ca))
  <2>1. Line(ca) /\ RealPart(ca) = RealPart(own)
    BY <1>3, <1>5
  <2>2. modified \in BOOLEAN /\ (~ca.cached => ~own.cached)
    <3>1. ca \in Array /\ own \in Array /\ jisyo \in Array
      BY <1>5, <2>1 DEF Line, Fit, Sized
    <3>2. own.cached \in BOOLEAN /\ jisyo.cached \in BOOLEAN
      BY <3>1 DEF Array
    <3> QED BY <1>3, <3>2
  <2>3. file # NoFile => WordsOf(file) \subseteq Covered(ca)
    <3>1. CASE own.cached
      BY <1>5, <2>1, <3>1 DEF Covered, RealWords
    <3>2. CASE ~own.cached
      <4>1. WordsOf(<<>>) = {}
        BY DEF WordsOf, ToSet
      <4> QED BY <1>5, <3>2, <4>1
    <3> QED BY <3>1, <3>2
  <2> QED BY <2>1, <2>2, <2>3
<1>7. /\ line'[p] = ca /\ synced'[p] = RealPart(own) /\ pc'[p] = "idle"
      /\ current'[p] = TRUE /\ cache_modified'[p] = modified /\ shrunk' = shrunk
      /\ \A q \in Procs : q # p => SameProc(q)
  BY <1>2, <1>3, <1>4 DEF Disk, Memory, SameProc
<1>8. Disk'
  BY <1>2, <1>4 DEF Disk, Content, Sound
<1>9. Memory'
  <2>1. (\A q \in Procs : Line(line[q]))'
    <3>1. \A q \in Procs : Line(line'[q])
      BY <1>2, <1>6, <1>7 DEF Memory, SameProc
    <3> QED BY <3>1 DEF Line, Fit, Sized
  <2>2. line' \in [Procs -> Array] /\ synced' \in [Procs -> Saved]
    BY <1>2, <1>3, <1>5, <1>6 DEF Memory, Line, Fit, Sized
  <2>3. ts \in Epoch..MaxTime
    BY <1>2, <1>3, DictAssumption DEF Disk, Epoch
  <2>4. /\ personal_dic_timestamp' \in [Procs -> Epoch..MaxTime]
        /\ cache_modified' \in [Procs -> BOOLEAN]
    BY <1>2, <1>3, <1>6, <2>3 DEF Memory
  <2>5. pc' \in [Procs -> Saving \cup {"gone", "idle"}] /\ left' \in 0..MaxBegins
    BY <1>2, <1>4, DictAssumption DEF Memory
  <2> QED BY <1>2, <1>4, <2>1, <2>2, <2>4, <2>5 DEF Memory
<1>10. ASSUME NEW q \in Procs PROVE ProcInv(q)'
  <2>1. CASE q # p
    BY <1>4, <1>7, <2>1, SameProcInv DEF DInv
  <2>2. CASE q = p
    <3>1. Line(line[p])'
      BY <1>6, <1>7 DEF Line, Fit, Sized
    <3>2. Marked(p)'
      BY <1>6, <1>7 DEF Marked, RealPart
    <3>3. file # NoFile => Known(p)'
      BY <1>4, <1>6, <1>7 DEF Known, Covered, RealWords, PurgedWords, get_purged_cand_index, RealPart, WordsOf
    <3>4. ~shrunk'[p]
      BY <1>4, <1>7 DEF DInv, ProcInv
    <3>5. ~line'[p].cached => synced'[p] = <<>>
      BY <1>5, <1>6, <1>7
    <3> QED BY <1>4, <1>7, <2>2, <3>1, <3>2, <3>3, <3>4, <3>5 DEF ProcInv
  <2> QED BY <2>1, <2>2
<1>11. ASSUME NEW c \in Contexts PROVE ContextInv(c)'
  <2>1. Owner[c] \in Procs /\ SameContext(c)
    BY <1>4, OwnerAssumption DEF SameContext
  <2>2. CASE Owner[c] = p
    <3>1. mode[c] = "kanji"
      BY <1>4, <2>2 DEF DInv, ContextInv
    <3>2. ~window[c].open /\ listed[c] = <<>>
      BY <3>1 DEF DInv, ContextInv
    <3> QED BY <1>7, <2>1, <2>2, <3>1, <3>2 DEF ContextInv, SameContext
  <2>3. CASE Owner[c] # p
    <3>1. line'[Owner[c]] = line[Owner[c]] /\ pc'[Owner[c]] = pc[Owner[c]]
      BY <1>7, <2>1, <2>3 DEF SameProc
    <3> QED BY <2>1, <3>1, SameContextInv DEF DInv
  <2> QED BY <2>2, <2>3
<1> QED
  BY <1>1, <1>8, <1>9, <1>10, <1>11, Typing DEF DInv

LEMMA ConvertKeeps ==
  ASSUME DInv, NEW c \in Contexts, Convert(c)
  PROVE  DInv'
<1>1. IInv'
  BY ConvertStep DEF DInv
<1>2. Disk /\ Memory
  BY Typing
<1>3. PICK ca, edited, m, n, w, saving : Converts(c, ca, edited, m, n, w, saving)
  BY <1>2, OwnerAssumption, ConvertShape DEF Memory, DInv, ContextInv
<1>4. PICK p : p = Owner[c]
  OBVIOUS
<1>5. p \in Procs
  BY <1>4, OwnerAssumption
<1>6. PICK old : old = line[p]
  OBVIOUS
<1>7. PICK x : x = IF saving THEN "check" ELSE "idle"
  OBVIOUS
<1>8. /\ line' = [line EXCEPT ![p] = ca]
      /\ cache_modified' = [cache_modified EXCEPT ![p] =
           cache_modified[p] \/ edited \/ (ca.cached /\ ~old.cached)]
      /\ touched' = [d \in Contexts |->
                       d # c /\ (touched[d] \/ (Owner[d] = p /\ ca # old))]
      /\ UNCHANGED <<file, mtime, tmp, lock, now, closing, personal_dic_timestamp, synced,
                     current, overlapped, sameSecond, shrunk>>
      /\ mode' = [mode EXCEPT ![c] = m]
      /\ nth' = [nth EXCEPT ![c] = n]
      /\ window' = [window EXCEPT ![c] = w]
      /\ shown' = [shown EXCEPT ![c] = IF m = "converting" THEN Nth(ca, n) ELSE NoCand]
      /\ listed' = [d \in Contexts |->
           IF d = c THEN IF ~w.open THEN <<>> ELSE IF window[c].open THEN listed[c] ELSE Listing(ca)
           ELSE IF Owner[d] = p /\ ca # old THEN <<>> ELSE listed[d]]
      /\ pc' = [pc EXCEPT ![p] = x]
  BY <1>3, <1>4, <1>6, <1>7 DEF Converts, SetLine, SetContext, disk
<1>9. /\ pc[p] = "idle" /\ Line(ca) /\ (old.cached => ca.cached)
      /\ ~edited => SameSaved(ca, old)
      /\ Covered(old) \subseteq Covered(ca)
      /\ m \in Modes /\ n \in Nat /\ w \in Windows
      /\ m # "converting" => ~w.open
      /\ w.open => w.nr = NrCandidates(ca) \/ (window[c].open /\ w.nr = window[c].nr)
      /\ w.open /\ window[c].open => ca = old
  BY <1>3, <1>4, <1>6 DEF Converts
<1>10. left' \in 0..MaxBegins
  <2>1. left' = left \/ (left > 0 /\ left' = left - 1)
    BY KeyStep DEF Acts
  <2> QED BY <1>2, <2>1, DictAssumption DEF Memory
<1>11. x \in {"check", "idle"}
  BY <1>7
<1>12. /\ line'[p] = ca /\ pc'[p] = x
       /\ cache_modified'[p] = (cache_modified[p] \/ edited \/ (ca.cached /\ ~old.cached))
       /\ \A q \in Procs : q # p => SameProc(q)
  BY <1>2, <1>5, <1>8 DEF Memory, SameProc
<1>13. Disk'
  BY <1>2, <1>8 DEF Disk, Content, Sound
<1>14. Memory'
  <2>1. (\A q \in Procs : Line(line[q]))'
    <3>1. \A q \in Procs : Line(line'[q])
      BY <1>2, <1>9, <1>12 DEF Memory, SameProc
    <3> QED BY <3>1 DEF Line, Fit, Sized
  <2>2. line' \in [Procs -> Array]
    BY <1>2, <1>8, <1>9 DEF Memory, Line, Fit, Sized
  <2>3. cache_modified' \in [Procs -> BOOLEAN] /\ touched' \in [Contexts -> BOOLEAN]
    BY <1>2, <1>8 DEF Memory
  <2>4. pc' \in [Procs -> Saving \cup {"gone", "idle"}]
    BY <1>2, <1>8, <1>11 DEF Memory, Saving
  <2>5. /\ mode' \in [Contexts -> Modes] /\ nth' \in [Contexts -> Nat]
        /\ window' \in [Contexts -> Windows]
        /\ DOMAIN shown' = Contexts /\ DOMAIN listed' = Contexts
    BY <1>2, <1>8, <1>9 DEF Memory
  <2> QED BY <1>2, <1>8, <1>10, <2>1, <2>2, <2>3, <2>4, <2>5 DEF Memory
<1>15. ProcInv(p)'
  <2>1. ProcInv(p)
    BY <1>5 DEF DInv
  <2>2. Line(line[p])'
    BY <1>9, <1>12 DEF Line, Fit, Sized
  <2>3. ASSUME ~cache_modified'[p] PROVE Marked(p)'
    <3>1. ~cache_modified[p] /\ ~edited /\ (old.cached \/ ~ca.cached)
      BY <1>12, <2>3
    <3>2. Marked(p) /\ SameSaved(ca, old)
      BY <1>9, <2>1, <3>1 DEF ProcInv
    <3>3. Sized(ca) /\ Sized(old)
      BY <1>6, <1>9, <2>1 DEF ProcInv, Line, Fit
    <3>4. RealPart(ca) = synced[p] \/ (synced[p] = <<>> /\ ca.real = 1)
      <4>1. CASE RealPart(ca) = RealPart(old)
        <5>1. ca.real = old.real
          BY <3>3, <4>1, RealPartFacts
        <5> QED BY <1>6, <3>2, <4>1, <5>1 DEF Marked
      <4>2. CASE old.real = 0 /\ ca.real = 1
        <5>1. RealPart(old) = <<>>
          BY <3>3, <4>2, EmptyReal
        <5> QED BY <1>6, <3>2, <4>2, <5>1 DEF Marked
      <4> QED BY <3>2, <4>1, <4>2 DEF SameSaved
    <3> QED BY <1>8, <1>12, <3>4 DEF Marked, RealPart
  <2>4. Known(p) => Known(p)'
    <3>1. Known(p) => WordsOf(file) \subseteq Covered(ca)
      BY <1>6, <1>9 DEF Known
    <3> QED BY <1>8, <1>12, <3>1 DEF Known, Covered, RealWords, PurgedWords, get_purged_cand_index, RealPart, WordsOf
  <2>5. pc'[p] # "gone" /\ pc'[p] \notin {"lock", "write", "replace"}
    BY <1>11, <1>12
  <2>6. ~cache_modified'[p] => ~cache_modified[p]
    BY <1>12
  <2>7. ~line'[p].cached => ~line[p].cached
    BY <1>6, <1>9, <1>12
  <2>8. pc[p] # "gone"
    BY <1>9
  <2> QED BY <1>8, <2>1, <2>2, <2>3, <2>4, <2>5, <2>6, <2>7, <2>8 DEF ProcInv
<1>16. ASSUME NEW q \in Procs PROVE ProcInv(q)'
  <2>1. CASE q # p
    BY <1>8, <1>12, <2>1, SameProcInv DEF DInv
  <2> QED BY <1>15, <2>1
<1>17. ASSUME NEW d \in Contexts PROVE ContextInv(d)'
  <2>1. Owner[d] \in Procs /\ pc'[Owner[d]] = "gone" => pc[Owner[d]] = "gone"
    BY <1>11, <1>12 DEF SameProc
  <2>2. CASE d = c
    <3>1. pc'[Owner[d]] # "gone"
      BY <1>4, <1>11, <1>12, <2>2
    <3>2. mode'[d] = m /\ nth'[d] = n /\ (m = "converting" => shown'[d] = Nth(ca, n))
      BY <1>2, <1>8, <2>2 DEF Memory
    <3>3. CommittedText(d, nth[d])' = Nth(ca, n)
      <4>1. line'[Owner[d]] = ca /\ nth'[d] = n
        BY <1>4, <1>12, <2>2, <3>2
      <4> QED
        BY <4>1 DEF CommittedText
    <3>4. window'[d] = w /\ line'[Owner[d]] = ca /\ ContextInv(c)
      BY <1>2, <1>4, <1>8, <1>12, <2>2 DEF Memory, DInv
    <3>5. listed'[d] = IF ~w.open THEN <<>> ELSE IF window[c].open THEN listed[c] ELSE Listing(ca)
      BY <1>8, <2>2
    <3>6. listed'[d] # <<>> => listed'[d] = Listing(ca) /\ w.nr = NrCandidates(ca)
      <4>1. CASE w.open /\ window[c].open
        BY <1>4, <1>6, <1>9, <3>4, <3>5, <4>1 DEF ContextInv
      <4> QED BY <1>9, <3>5, <4>1
    <3> QED BY <1>9, <3>1, <3>2, <3>3, <3>4, <3>5, <3>6 DEF ContextInv
  <2>3. CASE d # c
    <3>1. /\ mode'[d] = mode[d] /\ nth'[d] = nth[d] /\ window'[d] = window[d]
          /\ shown'[d] = shown[d]
      BY <1>2, <1>8, <2>3 DEF Memory
    <3>2. /\ touched'[d] = (touched[d] \/ (Owner[d] = p /\ ca # old))
          /\ listed'[d] = IF Owner[d] = p /\ ca # old THEN <<>> ELSE listed[d]
      BY <1>8, <2>3
    <3>3. Owner[d] \in Procs
      BY OwnerAssumption
    <3>4. CASE Owner[d] = p /\ ca # old
      <4>1. pc'[Owner[d]] # "gone"
        BY <1>11, <1>12, <3>4
      <4> QED BY <3>1, <3>2, <3>4, <4>1 DEF ContextInv, DInv
    <3>5. CASE ~(Owner[d] = p /\ ca # old)
      <4>1. line'[Owner[d]] = line[Owner[d]]
        BY <1>6, <1>12, <3>3, <3>5 DEF SameProc
      <4>2. SameContext(d)
        BY <1>2, <3>1, <3>2, <3>5 DEF SameContext, Memory
      <4>3. pc'[Owner[d]] = "gone" => pc[Owner[d]] = "gone"
        BY <1>11, <1>12, <3>3 DEF SameProc
      <4> QED BY <4>1, <4>2, <4>3, SameContextInv DEF DInv
    <3> QED BY <3>4, <3>5
  <2> QED BY <2>2, <2>3
<1> QED
  BY <1>1, <1>13, <1>14, <1>16, <1>17, Typing DEF DInv

LEMMA ReleaseKeeps ==
  ASSUME DInv, NEW p \in Procs, Release(p)
  PROVE  DInv'
<1>1. IInv' /\ Disk /\ Memory
  BY ReleaseStep, Typing DEF DInv
<1>2. /\ pc[p] = "idle" /\ pc' = [pc EXCEPT ![p] = "check"]
      /\ closing' = [closing EXCEPT ![p] = TRUE]
      /\ UNCHANGED <<file, mtime, tmp, lock, now, line, personal_dic_timestamp, cache_modified,
                     mode, nth, window, left, shown, listed, touched, synced, current, overlapped, sameSecond, shrunk>>
  BY DEF Release, disk, dic, ctx, keys, hist
<1>3. Disk' /\ Memory'
  <2>1. Disk'
    BY <1>1, <1>2 DEF Disk, Content, Sound
  <2>2. (\A q \in Procs : Line(line[q]))'
    BY <1>1, <1>2 DEF Memory, Line, Fit, Sized
  <2>3. pc' \in [Procs -> Saving \cup {"gone", "idle"}] /\ closing' \in [Procs -> BOOLEAN]
    BY <1>1, <1>2 DEF Memory, Saving
  <2> QED BY <1>1, <1>2, <2>1, <2>2, <2>3 DEF Memory
<1>4. pc'[p] = "check" /\ \A q \in Procs : q # p => SameProc(q)
  BY <1>1, <1>2 DEF Memory, SameProc
<1> QED
  BY <1>1, <1>2, <1>3, <1>4, Quiet, Typing

LEMMA TickKeeps ==
  ASSUME DInv, Tick \/ UNCHANGED vars
  PROVE  DInv'
<1>1. Disk /\ Memory
  BY Typing
<1>2. /\ now' = now \/ (now < MaxTime /\ now' = now + 1)
      /\ UNCHANGED <<file, mtime, tmp, lock, pc, closing, line, personal_dic_timestamp, cache_modified,
                     mode, nth, window, left, shown, listed, touched, synced, current, overlapped, sameSecond, shrunk>>
  BY DEF Tick, vars, disk, dic, ctx, keys, hist
<1>3. IInv'
  BY <1>2 DEF DInv, IInv, Types, LockHolderWrites, RenamesOwnFile, Written, RealPart
<1>4. Disk' /\ Memory'
  <2>1. mtime' \in 0..now' /\ now' \in 0..MaxTime
    BY <1>1, <1>2, DictAssumption DEF Disk
  <2>2. Disk'
    BY <1>1, <1>2, <2>1 DEF Disk, Content, Sound
  <2>3. (\A q \in Procs : Line(line[q]))'
    BY <1>1, <1>2 DEF Memory, Line, Fit, Sized
  <2> QED BY <1>1, <1>2, <2>2, <2>3 DEF Memory
<1>5. \A q \in Procs : ProcInv(q)'
  <2>1. \A q \in Procs : SameProc(q)
    BY <1>2 DEF SameProc
  <2> QED BY <1>2, <2>1, SameProcInv DEF DInv
<1>6. ASSUME NEW c \in Contexts PROVE ContextInv(c)'
  BY <1>2, SameContextInv DEF DInv, SameContext
<1> QED
  BY <1>3, <1>4, <1>5, <1>6, Typing DEF DInv

\* The end of a save that leaves the file alone.
LEMMA ReturnKeeps ==
  ASSUME DInv, NEW p \in Procs, pc[p] # "gone", IInv', Disk', UNCHANGED <<file, current>>,
         \A q \in Procs : q # p => overlapped'[q] = overlapped[q],
         NEW m \in BOOLEAN, cache_modified[p] \/ m \/ ~shrunk[p], ~m => ~cache_modified[p],
         Return(p, m, personal_dic_timestamp[p], synced[p])
  PROVE  DInv'
<1>1. Disk /\ Memory
  BY Typing
<1>2. personal_dic_timestamp[p] \in Epoch..MaxTime /\ synced[p] \in Saved
  BY <1>1 DEF Memory
<1>3. /\ Apart(p) /\ (Forgets(p) \/ Returns(p, m, synced[p]))
      /\ Memory' /\ \A c \in Contexts : ContextInv(c)'
  BY <1>2, ReturnFacts
<1>4. ASSUME NEW q \in Procs, q # p PROVE ProcInv(q)'
  <2>1. SameProc(q)
    BY <1>3, <1>4 DEF Apart, SameProc
  <2> QED BY <2>1, SameProcInv DEF DInv
<1>5. ProcInv(p)'
  <2>1. CASE Forgets(p)
    BY <2>1, ForgetsInv
  <2>2. CASE Returns(p, m, synced[p])
    <3>1. ProcInv(p)
      BY DEF DInv
    <3>2. ~m => ~shrunk[p]
      BY <3>1 DEF ProcInv
    <3>3. shrunk'[p] = shrunk[p]
      BY <1>1, <2>2, <3>2 DEF Returns, Memory
    <3>4. /\ pc'[p] = "idle" /\ line'[p] = line[p] /\ cache_modified'[p] = m
          /\ synced'[p] = synced[p]
      BY <2>2 DEF Returns
    <3>5. Marked(p) => Marked(p)'
      BY <3>4 DEF Marked
    <3>6. Known(p) => Known(p)'
      BY <3>4 DEF Known
    <3>7. Line(line[p])'
      BY <3>1, <3>4 DEF ProcInv
    <3> QED BY <3>1, <3>2, <3>3, <3>4, <3>5, <3>6, <3>7 DEF ProcInv
  <2> QED BY <1>3, <2>1, <2>2
<1> QED
  BY <1>3, <1>4, <1>5, Typing DEF DInv

LEMMA CheckKeeps ==
  ASSUME DInv, NEW p \in Procs, CheckTimestamp(p)
  PROVE  DInv'
<1>1. IInv' /\ Disk /\ Memory
  BY CheckStep, Typing DEF DInv
<1>2. /\ pc[p] = "check" /\ overlapped' = [overlapped EXCEPT ![p] = FALSE]
      /\ UNCHANGED <<file, mtime, tmp, lock, now, current>>
  BY DEF CheckTimestamp, disk
<1>3. Disk'
  BY <1>1, <1>2 DEF Disk
<1>4. \A q \in Procs : q # p => overlapped'[q] = overlapped[q]
  BY <1>1, <1>2 DEF Disk
<1>5. CASE ~cache_modified[p] /\ Return(p, FALSE, personal_dic_timestamp[p], synced[p])
  <2>1. ~shrunk[p] /\ FALSE \in BOOLEAN
    BY <1>5 DEF DInv, ProcInv
  <2> QED BY <1>1, <1>2, <1>3, <1>4, <1>5, <2>1, ReturnKeeps
<1>6. CASE /\ cache_modified[p]
           /\ pc' = [pc EXCEPT ![p] =
                IF file # NoFile /\ mtime # personal_dic_timestamp[p] THEN "merge" ELSE "lock"]
           /\ sameSecond' = [sameSecond EXCEPT ![p] =
                mtime = personal_dic_timestamp[p] /\ ~current[p]]
           /\ UNCHANGED <<closing, dic, ctx, touched, synced, shrunk>>
  <2>1. UNCHANGED <<closing, line, personal_dic_timestamp, cache_modified, mode, nth, window, left, shown,
                    listed, touched, synced, shrunk>>
    BY <1>6 DEF dic, ctx, keys
  <2>2. Memory'
    <3>1. pc' \in [Procs -> Saving \cup {"gone", "idle"}] /\ sameSecond' \in [Procs -> BOOLEAN]
      BY <1>1, <1>6 DEF Memory, Saving
    <3>2. (\A q \in Procs : Line(line[q]))'
      BY <1>1, <2>1 DEF Memory
    <3> QED BY <1>1, <2>1, <3>1, <3>2 DEF Memory
  <2>3. \A q \in Procs : q # p => SameProc(q)
    BY <1>1, <1>2, <1>4, <1>6, <2>1 DEF Memory, SameProc
  <2>4. /\ pc'[p] \in {"merge", "lock"}
        /\ pc'[p] = "lock" => file = NoFile \/ mtime = personal_dic_timestamp[p]
        /\ sameSecond'[p] = (mtime = personal_dic_timestamp[p] /\ ~current[p])
    BY <1>1, <1>6 DEF Memory
  <2>5. current'[p] = current[p] /\ current[p] \in BOOLEAN
    BY <1>1, <1>2 DEF Disk
  <2> QED BY <1>1, <1>2, <1>3, <2>1, <2>2, <2>3, <2>4, <2>5, Quiet, Typing
<1> QED
  BY <1>5, <1>6 DEF CheckTimestamp

LEMMA LockKeeps ==
  ASSUME DInv, NEW p \in Procs, Lock(p) \/ Write(p)
  PROVE  DInv'
<1>1. IInv' /\ Disk /\ Memory
  BY LockStep, WriteStep, Typing DEF DInv
<1>2. PICK x \in {"write", "replace"} :
        /\ pc[p] \in {"lock", "write"} /\ pc' = [pc EXCEPT ![p] = x]
        /\ lock' \in {lock, p} /\ tmp' \in {Partial, Written(line[p])}
        /\ UNCHANGED <<file, mtime, now, closing, line, personal_dic_timestamp, cache_modified,
                       mode, nth, window, left, shown, listed, touched, synced, current, overlapped, sameSecond, shrunk>>
  BY DEF Lock, Write, dic, ctx, keys, hist
<1>3. tmp' \in {Partial} \cup Saved
  BY <1>1, <1>2, WrittenFits DEF Memory, Saved
<1>4. Disk'
  BY <1>1, <1>2, <1>3 DEF Disk
<1>5. Memory'
  <2>1. pc' \in [Procs -> Saving \cup {"gone", "idle"}]
    BY <1>1, <1>2 DEF Memory, Saving
  <2>2. (\A q \in Procs : Line(line[q]))'
    BY <1>1, <1>2 DEF Memory
  <2> QED BY <1>1, <1>2, <2>1, <2>2 DEF Memory
<1>6. pc'[p] = x /\ \A q \in Procs : q # p => SameProc(q)
  BY <1>1, <1>2 DEF Memory, SameProc
<1>7. file # NoFile => current'[p] \/ overlapped'[p] \/ sameSecond'[p]
  BY <1>2 DEF DInv, ProcInv
<1> QED
  BY <1>1, <1>2, <1>4, <1>5, <1>6, <1>7, Quiet, Typing

LEMMA FailKeeps ==
  ASSUME DInv, NEW p \in Procs, WriteFails(p)
  PROVE  DInv'
<1>1. IInv' /\ Disk /\ Memory
  BY EndStep, Typing DEF DInv
<1>2. /\ pc[p] # "gone" /\ lock' = NoProc /\ overlapped' = [overlapped EXCEPT ![p] = FALSE]
      /\ Return(p, TRUE, personal_dic_timestamp[p], synced[p])
      /\ UNCHANGED <<file, mtime, tmp, now, current>>
  BY DEF WriteFails
<1>3. Disk' /\ \A q \in Procs : q # p => overlapped'[q] = overlapped[q]
  BY <1>1, <1>2 DEF Disk
<1> QED
  BY <1>1, <1>2, <1>3, ReturnKeeps

LEMMA CrashKeeps ==
  ASSUME DInv, NEW p \in Procs, Crash(p)
  PROVE  DInv'
<1>1. IInv' /\ Disk /\ Memory
  BY EndStep, Typing DEF DInv
<1>2. /\ lock' \in {lock, NoProc} /\ Forget(p) /\ overlapped' = [overlapped EXCEPT ![p] = FALSE]
      /\ UNCHANGED <<file, mtime, tmp, now, current>>
  BY DEF Crash
<1>3. Disk' /\ \A q \in Procs : q # p => overlapped'[q] = overlapped[q]
  BY <1>1, <1>2 DEF Disk
<1>4. Apart(p) /\ Forgets(p) /\ Memory' /\ \A c \in Contexts : ContextInv(c)'
  BY <1>2, ForgetFacts
<1>5. ASSUME NEW q \in Procs PROVE ProcInv(q)'
  <2>1. CASE q = p
    BY <1>4, <2>1, ForgetsInv
  <2>2. CASE q # p
    <3>1. SameProc(q)
      BY <1>2, <1>3, <1>4, <2>2 DEF Apart, SameProc
    <3> QED BY <1>2, <3>1, SameProcInv DEF DInv
  <2> QED BY <2>1, <2>2
<1> QED
  BY <1>1, <1>3, <1>4, <1>5, Typing DEF DInv

\* The renamed file is the entry of the process that wrote it, and everybody
\* else who is about to write has yet to take the lock.
LEMMA ReplaceKeeps ==
  ASSUME DInv, NEW p \in Procs, Replace(p)
  PROVE  DInv'
<1>1. IInv' /\ Disk /\ Memory
  BY EndStep, Typing DEF DInv
<1>2. /\ pc[p] = "replace" /\ file' = tmp /\ mtime' = now /\ tmp' = NoFile /\ lock' = NoProc
      /\ Return(p, FALSE, now, tmp)
      /\ overlapped' = [q \in Procs |-> pc[q] = "lock"]
      /\ current' = [q \in Procs |-> q = p]
      /\ UNCHANGED now
  BY DEF Replace
<1>3. Line(line[p]) /\ tmp = RealPart(line[p]) /\ tmp \in Saved /\ Sound(tmp)
  <2>1. Line(line[p]) /\ tmp = Written(line[p])
    BY <1>1, <1>2 DEF Memory, DInv, IInv, RenamesOwnFile
  <2> QED BY <2>1, WrittenFits DEF Saved
<1>4. Disk'
  <2>1. Content(file)'
    BY <1>2, <1>3 DEF Content, Saved
  <2>2. mtime' \in 0..now' /\ now' \in 0..MaxTime
    BY <1>1, <1>2, DictAssumption DEF Disk
  <2> QED BY <1>1, <1>2, <2>1, <2>2 DEF Disk
<1>5. /\ Apart(p) /\ (Forgets(p) \/ Returns(p, FALSE, tmp))
      /\ Memory' /\ \A c \in Contexts : ContextInv(c)'
  <2>1. now \in Epoch..MaxTime /\ FALSE \in BOOLEAN /\ pc[p] # "gone"
    BY <1>1, <1>2, DictAssumption DEF Disk, Epoch
  <2> QED BY <1>2, <1>3, <2>1, ReturnFacts
<1>6. ASSUME NEW q \in Procs, q # p PROVE ProcInv(q)'
  <2>1. ProcInv(q)
    BY DEF DInv
  <2>2. /\ pc'[q] = pc[q] /\ line'[q] = line[q] /\ cache_modified'[q] = cache_modified[q]
        /\ synced'[q] = synced[q] /\ sameSecond'[q] = sameSecond[q] /\ shrunk'[q] = shrunk[q]
        /\ current'[q] = FALSE /\ overlapped'[q] = (pc[q] = "lock")
    BY <1>2, <1>5, <1>6 DEF Apart
  <2>3. pc[q] \notin {"write", "replace"}
    BY <1>2, <1>6, OneWrites DEF DInv, Writing
  <2>4. Marked(q) => Marked(q)'
    BY <2>2 DEF Marked
  <2>5. Line(line[q])'
    BY <2>1, <2>2 DEF ProcInv
  <2> QED BY <2>1, <2>2, <2>3, <2>4, <2>5 DEF ProcInv
<1>7. ProcInv(p)'
  <2>1. CASE Forgets(p)
    BY <2>1, ForgetsInv
  <2>2. CASE Returns(p, FALSE, tmp)
    <3>1. /\ pc'[p] = "idle" /\ line'[p] = line[p] /\ synced'[p] = tmp /\ ~shrunk'[p]
      BY <2>2 DEF Returns
    <3>2. Marked(p)'
      BY <1>3, <3>1 DEF Marked
    <3>3. Known(p)'
      BY <1>2, <1>3, <3>1 DEF Known, Covered, RealWords
    <3>4. ~line[p].cached => tmp = <<>>
      BY <1>3, NoLineFits DEF Line
    <3>5. Line(line[p])'
      BY <1>3, <3>1
    <3> QED BY <3>1, <3>2, <3>3, <3>4, <3>5 DEF ProcInv
  <2> QED BY <1>5, <2>1, <2>2
<1> QED
  BY <1>1, <1>4, <1>5, <1>6, <1>7, Typing DEF DInv

LEMMA MergeKeeps ==
  ASSUME DInv, NEW p \in Procs, Merge(p)
  PROVE  /\ DInv'
         /\ \/ PurgedWords(LineOf(file)) \cap RealWords(line[p]) # {}
            \/ RealWords(line[p]) \subseteq RealWords(line'[p])
<1>1. IInv' /\ Disk /\ Memory
  BY MergeStep, Typing DEF DInv
<1>2. PICK src, old : src = LineOf(file) /\ old = line[p]
  OBVIOUS
<1>3. PICK garbage \in BOOLEAN, stale \in BOOLEAN :
        /\ line' = [line EXCEPT ![p] = MergeLine(src, old, stale)]
        /\ cache_modified' = [cache_modified EXCEPT ![p] = old.cached \/ src.cached \/ garbage]
        /\ personal_dic_timestamp' = [personal_dic_timestamp EXCEPT ![p] =
             IF ~old.cached THEN mtime ELSE personal_dic_timestamp[p]]
        /\ shrunk' = [shrunk EXCEPT ![p] = shrunk[p] \/ Shrinks(src, old)]
        /\ touched' = [c \in Contexts |-> touched[c] \/ (Owner[c] = p /\ line'[p] # old)]
        /\ listed' = [c \in Contexts |-> IF Owner[c] = p /\ line'[p] # old THEN <<>> ELSE listed[c]]
  BY <1>2, Zenon DEF Merge, Shrinks
<1>4. /\ pc[p] = "merge" /\ pc' = [pc EXCEPT ![p] = "lock"]
      /\ current' = [current EXCEPT ![p] = TRUE]
      /\ UNCHANGED <<file, mtime, tmp, lock, now, closing, mode, nth, window, left, shown, synced,
                     overlapped, sameSecond>>
  BY DEF Merge, disk, keys
<1>5. PICK ca : ca = MergeLine(src, old, stale)
  OBVIOUS
<1>6. /\ Line(src) /\ (src.cached => src.save)
      /\ file # NoFile => WordsOf(file) = RealWords(src)
  <2>1. Content(file)
    BY <1>1 DEF Disk
  <2>2. /\ Line(src)
        /\ file \notin {NoFile, <<>>} => src.save /\ RealPart(src) = file
        /\ file \in {NoFile, <<>>} => src = NoLine
    BY <1>2, <2>1, LineOfFits
  <2>3. NoLine.cached = FALSE /\ RealPart(NoLine) = <<>>
    BY NoLineFits DEF NoLine
  <2> QED BY <2>2, <2>3 DEF RealWords
<1>7. Line(old) /\ ProcInv(p)
  BY <1>1, <1>2 DEF Memory, DInv
<1>8. /\ Line(ca)
      /\ ~src.cached => ca = old
      /\ src.cached => ca.cached
      /\ ~Shrinks(src, old) => Gains(ca, old) /\ \A i \in 1..src.real : Has(ca, src.cands[i])
  <2> DEFINE y == MergeLine(src, old, stale)
  <2>1. /\ Line(y)
        /\ ~src.cached => y = old
        /\ src.cached => y.cached
        /\ ~Shrinks(src, old) => Gains(y, old) /\ \A i \in 1..src.real : Has(y, src.cands[i])
    BY <1>6, <1>7, MergeLineStep
  <2>2. ca = y
    BY <1>5
  <2> HIDE DEF y
  <2> QED BY <2>1, <2>2
<1>9. /\ line' = [line EXCEPT ![p] = ca] /\ line'[p] = ca /\ pc'[p] = "lock" /\ current'[p] = TRUE
      /\ cache_modified'[p] = (old.cached \/ src.cached \/ garbage)
      /\ shrunk'[p] = (shrunk[p] \/ Shrinks(src, old))
      /\ \A q \in Procs : q # p => SameProc(q)
  BY <1>1, <1>3, <1>4, <1>5 DEF Disk, Memory, SameProc
<1>10. Disk'
  BY <1>1, <1>4 DEF Disk
<1>11. Memory'
  <2>1. (\A q \in Procs : Line(line[q]))'
    BY <1>1, <1>8, <1>9 DEF Memory, SameProc
  <2>2. line' \in [Procs -> Array]
    BY <1>1, <1>8, <1>9 DEF Memory, Line, Fit, Sized
  <2>3. old.cached \in BOOLEAN /\ src.cached \in BOOLEAN
    BY <1>6, <1>7 DEF Line, Fit, Sized, Array
  <2>4. /\ cache_modified' \in [Procs -> BOOLEAN] /\ shrunk' \in [Procs -> BOOLEAN]
        /\ touched' \in [Contexts -> BOOLEAN] /\ DOMAIN listed' = Contexts
    BY <1>1, <1>3, <2>3 DEF Memory
  <2>5. pc' \in [Procs -> Saving \cup {"gone", "idle"}]
    BY <1>1, <1>4 DEF Memory, Saving
  <2>6. mtime \in Epoch..MaxTime
    BY <1>1, DictAssumption DEF Disk, Epoch
  <2>7. personal_dic_timestamp' \in [Procs -> Epoch..MaxTime]
    BY <1>1, <1>3, <2>6 DEF Memory
  <2> QED BY <1>1, <1>4, <2>1, <2>2, <2>4, <2>5, <2>7 DEF Memory
<1>12. ~old.cached => RealWords(old) = {}
  <2> SUFFICES ASSUME ~old.cached PROVE RealWords(old) = {}
    OBVIOUS
  <2>1. RealPart(old) = <<>>
    BY <1>7, NoLineFits DEF Line
  <2> QED BY <2>1 DEF RealWords, WordsOf, ToSet
<1>13. ProcInv(p)'
  <2>1. Line(line[p])'
    BY <1>8, <1>9
  <2>2. ~ca.cached => ~old.cached /\ ~src.cached /\ ca = old
    BY <1>8
  <2>3. ~old.cached => ~Shrinks(src, old) /\ ~shrunk[p] /\ synced[p] = <<>>
    BY <1>2, <1>7, <1>12 DEF Shrinks, ProcInv
  <2>4. ~cache_modified'[p] => ~old.cached /\ ~src.cached /\ ca = old
    BY <1>8, <1>9
  <2>5. ~cache_modified'[p] => Marked(p)'
    <3>1. ~old.cached => RealPart(old) = <<>>
      BY <1>7, NoLineFits DEF Line
    <3> QED BY <1>4, <1>9, <2>3, <2>4, <3>1 DEF Marked
  <2>6. file # NoFile /\ ~shrunk'[p] => Known(p)'
    <3> SUFFICES ASSUME file # NoFile, ~Shrinks(src, old), NEW w \in RealWords(src)
                 PROVE  w \in Covered(ca)
      BY <1>4, <1>6, <1>9 DEF Known
    <3>1. Sized(src)
      BY <1>6 DEF Line, Fit
    <3>2. PICK i \in 1..src.real : src.cands[i].kind = "word" /\ Head(src.cands[i].words) = w
      BY <3>1, RealWordsFacts
    <3> QED BY <1>8, <3>2 DEF Has, Covered, is_purged_cand
  <2> QED BY <1>4, <1>9, <2>1, <2>2, <2>3, <2>4, <2>5, <2>6 DEF ProcInv
<1>14. ASSUME NEW q \in Procs PROVE ProcInv(q)'
  BY <1>4, <1>9, <1>13, SameProcInv DEF DInv
<1>15. ASSUME NEW c \in Contexts PROVE ContextInv(c)'
  <2>1. Owner[c] \in Procs
    BY OwnerAssumption
  <2>2. pc'[Owner[c]] = "gone" => pc[Owner[c]] = "gone"
    BY <1>9, <2>1 DEF SameProc
  <2>3. CASE Owner[c] = p /\ ca # old
    <3>1. ContextInv(c) /\ listed'[c] = <<>> /\ touched'[c]
      BY <1>3, <1>9, <2>3 DEF DInv
    <3> QED BY <1>4, <2>2, <3>1 DEF ContextInv
  <2>4. CASE ~(Owner[c] = p /\ ca # old)
    <3>1. line'[Owner[c]] = line[Owner[c]]
      BY <1>2, <1>9, <2>1, <2>4 DEF SameProc
    <3>2. SameContext(c)
      BY <1>1, <1>3, <1>4, <1>9, <2>4 DEF SameContext, Memory
    <3> QED BY <2>2, <3>1, <3>2, SameContextInv DEF DInv
  <2> QED BY <2>3, <2>4
<1>16. \/ PurgedWords(src) \cap RealWords(old) # {}
       \/ RealWords(old) \subseteq RealWords(ca)
  BY <1>8 DEF Shrinks, Gains
<1> QED
  BY <1>1, <1>2, <1>9, <1>10, <1>11, <1>14, <1>15, <1>16, Typing DEF DInv

\* Every step keeps the invariant.
LEMMA NextDInv == DInv /\ [Next]_vars => DInv'
<1> SUFFICES ASSUME DInv, [Next]_vars PROVE DInv'
  OBVIOUS
<1>1. ASSUME NEW p \in Procs, Open(p) \/ Release(p) \/ SaveStep(p) \/ Crash(p) PROVE DInv'
  BY <1>1, OpenKeeps, ReleaseKeeps, CheckKeeps, MergeKeeps, LockKeeps, FailKeeps, ReplaceKeeps,
     CrashKeeps DEF SaveStep
<1>2. ASSUME NEW c \in Contexts, Convert(c) PROVE DInv'
  BY <1>2, ConvertKeeps
<1> QED
  BY <1>1, <1>2, TickKeeps DEF Next

LEMMA AlwaysDInv == Spec => []DInv
BY InitDInv, NextDInv, PTL DEF Spec

\* The variables of the dictionary keep their types: the entry of every process
\* is an array whose real part fits in it (struct skk_cand_array), whatever was
\* looked up, committed, purged or merged.
THEOREM TypeCorrect == Spec => []TypeOK
<1>1. DInv => TypeOK
  BY DEF DInv, Typed
<1> QED
  BY AlwaysDInv, <1>1, PTL

\* The dictionary on disk is never half a file, however many processes save it
\* and wherever they fail or are killed (skk_save_personal_dictionary).
THEOREM FileStaysWhole == Spec => []FileIsWhole
<1>1. DInv => FileIsWhole
  BY DictAssumption DEF DInv, IInv, Typed, Content, FileIsWhole
<1> QED
  BY AlwaysDInv, <1>1, PTL

\* No sequence of commits, purges, lookups and merges makes a saved part with a
\* candidate twice (but for garbled ones) or with two lists of ignored words, in
\* memory or in the file.
THEOREM SavedPartsStaySound == Spec => []SavedPartsSound
<1>1. DInv => SavedPartsSound
  <2> SUFFICES ASSUME DInv, NEW s \in {file} \cup {RealPart(line[p]) : p \in Procs}, s # NoFile
               PROVE  Sound(s)
    BY DEF SavedPartsSound
  <2>1. CASE s = file
    BY <2>1 DEF DInv, Typed, Content
  <2>2. ASSUME NEW p \in Procs, s = RealPart(line[p]) PROVE Sound(s)
    BY <2>2, WrittenFits DEF DInv, ProcInv
  <2> QED BY <2>1, <2>2
<1> QED
  BY AlwaysDInv, <1>1, PTL

\* What is not yet on disk is marked to be saved, but for the first choice of
\* an entry that was never used (cache_modified).
THEOREM UnsavedStaysMarked == Spec => []UnsavedIsMarked
<1>1. DInv => UnsavedIsMarked
  BY DEF DInv, ProcInv, Marked, UnsavedIsMarked
<1> QED
  BY AlwaysDInv, <1>1, PTL

\* A save drops a word of the file only if the saver ignores it, or after a
\* race with another save or a merge that shrank the array.
THEOREM WordsDropOnlySo == Spec => WordsDropOnlyByRaceOrPurge
<1> DEFINE Drop(p) ==
      pc[p] = "replace" /\ file' # file /\ file # NoFile =>
         \/ WordsOf(file) \ WordsOf(file') \subseteq PurgedWords(line[p])
         \/ overlapped[p] \/ sameSecond[p] \/ shrunk[p]
<1>1. ASSUME DInv, [Next]_vars, NEW p \in Procs PROVE Drop(p)
  <2> SUFFICES ASSUME pc[p] = "replace", file' # file, file # NoFile,
                      ~overlapped[p], ~sameSecond[p], ~shrunk[p]
               PROVE  WordsOf(file) \ WordsOf(file') \subseteq PurgedWords(line[p])
    OBVIOUS
  <2>1. \E q \in Procs : Replace(q)
    <3>1. ASSUME NEW c \in Contexts, Convert(c) PROVE UNCHANGED file
      <4>1. \E ca, edited : SetLine(c, ca, edited)
        BY <1>1, <3>1, KeyStep DEF Acts
      <4> QED BY <4>1 DEF SetLine, disk
    <3> QED
      BY <1>1, <3>1 DEF Next, vars, disk, Tick, SaveStep, Open, Release, CheckTimestamp, Merge, Lock,
                        Write, WriteFails, Crash
  <2>2. Replace(p)
    <3>1. PICK q \in Procs : Replace(q)
      BY <2>1
    <3>2. pc[q] \in Writing /\ pc[p] \in Writing
      BY <3>1 DEF Replace, Writing
    <3>3. q = p
      BY <1>1, <3>2, OneWrites DEF DInv
    <3> QED BY <3>1, <3>3
  <2>3. file' = RealPart(line[p])
    <3>1. file' = Written(line[p]) /\ Line(line[p])
      BY <1>1, <2>2 DEF Replace, DInv, IInv, RenamesOwnFile, ProcInv
    <3> QED BY <3>1, WrittenFits
  <2>4. WordsOf(file) \subseteq Covered(line[p])
    BY <1>1 DEF DInv, ProcInv, Known
  <2> QED BY <2>3, <2>4 DEF Covered, RealWords
<1>2. DInv /\ [Next]_vars => [\A p \in Procs : Drop(p)]_vars
  BY <1>1
<1> QED
  BY AlwaysDInv, <1>2, PTL DEF Spec, WordsDropOnlyByRaceOrPurge

\* A merge takes from the cache only words the file lists as ignored.
THEOREM OwnWordsKept == Spec => MergeKeepsOwnWords
<1> DEFINE Keep(p) ==
      pc[p] = "merge" /\ pc'[p] = "lock" =>
         \/ RealWords(line[p]) \subseteq RealWords(line'[p])
         \/ PurgedWords(LineOf(file)) \cap RealWords(line[p]) # {}
<1>1. ASSUME DInv, [Next]_vars, NEW p \in Procs, pc[p] = "merge", pc'[p] = "lock" PROVE Merge(p)
  <2>1. Memory /\ pc' # pc
    BY <1>1, Typing
  <2>2. ASSUME NEW q \in Procs, q # p, pc'[p] = pc[p] PROVE FALSE
    BY <1>1, <2>2
  <2>3. ASSUME NEW q \in Procs, NEW x, x # "lock", pc' = [pc EXCEPT ![q] = x] PROVE FALSE
    BY <1>1, <2>1, <2>3 DEF Memory
  <2>4. ASSUME NEW c \in Contexts, Convert(c) PROVE FALSE
    <3>1. \E m, n, w, ca, saving : SetContext(c, m, n, w, ca, saving)
      BY <2>4, KeyStep DEF Acts
    <3>2. PICK x \in {"check", "idle"} : pc' = [pc EXCEPT ![Owner[c]] = x]
      BY <3>1 DEF SetContext
    <3> QED BY <2>3, <3>2, OwnerAssumption
  <2>5. ASSUME NEW q \in Procs, Forget(q) PROVE FALSE
    BY <2>3, <2>5 DEF Forget
  <2>6. ASSUME NEW q \in Procs, NEW m, NEW t, NEW w, Return(q, m, t, w) PROVE FALSE
    BY <2>3, <2>5, <2>6 DEF Return
  <2>7. ASSUME NEW q \in Procs, Open(q) \/ Release(q) \/ Crash(q) PROVE FALSE
    BY <2>3, <2>5, <2>7 DEF Open, Release, Crash
  <2>8. ASSUME NEW q \in Procs, Lock(q) \/ Write(q) \/ WriteFails(q) \/ Replace(q) PROVE FALSE
    BY <2>3, <2>6, <2>8 DEF Lock, Write, WriteFails, Replace
  <2>9. ASSUME NEW q \in Procs, CheckTimestamp(q) PROVE FALSE
    <3>1. CASE Return(q, FALSE, personal_dic_timestamp[q], synced[q])
      BY <2>6, <3>1
    <3>2. CASE \E x : pc' = [pc EXCEPT ![q] = x]
      <4>1. q # p
        BY <1>1, <2>9 DEF CheckTimestamp
      <4> QED BY <1>1, <2>1, <3>2, <4>1 DEF Memory
    <3> QED BY <2>9, <3>1, <3>2, Zenon DEF CheckTimestamp
  <2>10. ASSUME NEW q \in Procs, Merge(q) PROVE q = p
    BY <1>1, <2>1, <2>10 DEF Merge, Memory
  <2>11. ~Tick
    BY <2>1 DEF Tick
  <2>12. ~UNCHANGED vars
    BY <2>1 DEF vars
  <2> QED BY <1>1, <2>4, <2>7, <2>8, <2>9, <2>10, <2>11, <2>12 DEF Next, SaveStep
<1>2. ASSUME DInv, [Next]_vars, NEW p \in Procs PROVE Keep(p)
  BY <1>1, <1>2, MergeKeeps
<1>3. DInv /\ [Next]_vars => [\A p \in Procs : Keep(p)]_vars
  BY <1>2
<1> QED
  BY AlwaysDInv, <1>3, PTL DEF Spec, MergeKeepsOwnWords

\* What is committed, by the keys or by a label of the candidate window, is what
\* was on display there, and the entry remembers it as the latest choice; unless
\* somebody else changed the entry.
THEOREM CommitsTheShown == Spec => CommitsWhatWasShown
<1> DEFINE Commit(c) ==
      Ready(c, "converting") =>
       /\ skk_commit_preedit(c) => touched[c] \/ Commits(c, nth[c], shown[c])
       /\ \A n \in LabelIndices(c) :
            skk_commit_by_label_key(c, n) =>
              listed[c] = <<>> \/ (n \in DOMAIN listed[c] /\ Commits(c, n, listed[c][n]))
<1>1. ASSUME DInv, NEW c \in Contexts, NEW n, skk_commit_candidate(c, n),
             NEW cand, cand = CommittedText(c, n)
      PROVE  Commits(c, n, cand)
  <2> SUFFICES ASSUME cand # NoCand PROVE line'[Owner[c]].cands[1] = cand
    BY <1>1 DEF Commits
  <2>1. PICK ca, p : ca = line[Owner[c]] /\ p = Owner[c]
    OBVIOUS
  <2>2. p \in Procs /\ Line(ca) /\ p \in DOMAIN line
    BY <1>1, <2>1, OwnerAssumption, Typing DEF Memory
  <2>3. cand = Nth(ca, n)
    BY <1>1, <2>1 DEF CommittedText
  <2>4. cand \in ToSet(ca.cands)
    BY <2>2, <2>3, NthFacts
  <2>5. PICK r, moved : r = reorder_candidate(ca, cand) /\ moved = [r EXCEPT !.save = TRUE]
    OBVIOUS
  <2>6. line' = [line EXCEPT ![p] = moved]
    <3>1. \E edited : SetLine(c, moved, edited)
      BY <1>1, <2>1, <2>5, Zenon DEF skk_commit_candidate
    <3> QED BY <2>1, <3>1 DEF SetLine
  <2>7. r.cands[1] = cand /\ r \in Array
    BY <2>2, <2>4, <2>5, ReorderStep DEF Line, Fit, Sized
  <2>8. moved.cands[1] = cand
    BY <2>5, <2>7 DEF Array
  <2> QED BY <2>1, <2>2, <2>6, <2>8
<1>2. ASSUME DInv, NEW c \in Contexts PROVE Commit(c)
  <2>1. ContextInv(c) /\ Line(line[Owner[c]]) /\ window[c].nr \in Nat
    BY <1>2, OwnerAssumption, Typing DEF DInv, Memory, Windows
  <2>2. ASSUME Ready(c, "converting"), skk_commit_preedit(c), ~touched[c]
        PROVE  Commits(c, nth[c], shown[c])
    BY <1>1, <1>2, <2>1, <2>2 DEF Ready, skk_commit_preedit, ContextInv
  <2>3. ASSUME NEW n \in LabelIndices(c), skk_commit_by_label_key(c, n), listed[c] # <<>>
        PROVE  n \in DOMAIN listed[c] /\ Commits(c, n, listed[c][n])
    <3>1. n \in 0..window[c].nr - 1
      BY <2>3 DEF LabelIndices
    <3>2. /\ listed[c] = Listing(line[Owner[c]])
          /\ window[c].nr = NrCandidates(line[Owner[c]])
      BY <2>1, <2>3 DEF ContextInv
    <3>3. n \in DOMAIN listed[c] /\ listed[c][n] = CommittedText(c, n)
      BY <3>1, <3>2 DEF Listing, CommittedText
    <3>4. skk_commit_candidate(c, n)
      BY <2>3 DEF skk_commit_by_label_key
    <3> QED BY <1>1, <1>2, <3>3, <3>4
  <2> QED BY <2>2, <2>3
<1>3. DInv /\ [Next]_vars => [\A c \in Contexts : Commit(c)]_vars
  BY <1>2
<1> QED
  BY AlwaysDInv, <1>3, PTL DEF Spec, CommitsWhatWasShown
=============================================================================
