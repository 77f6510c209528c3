------------------------------ MODULE SkkDict ------------------------------
(***************************************************************************)
(* The SKK personal dictionary (uim/skk.c, scm/skk.scm).  Every process    *)
(* that uses SKK keeps the dictionary in memory, changes it as the user    *)
(* converts, learns and purges words, and writes all of it back: it merges *)
(* what is in the file when the file's time has changed, takes a write     *)
(* lock, writes <file>.tmp and renames it over the file.  The contexts of  *)
(* one process share the dictionary, and each remembers the candidate it   *)
(* shows, and those its candidate window lists, by their indices only.     *)
(*                                                                         *)
(* One entry stands for the dictionary; see SkkCandArray for its content.  *)
(***************************************************************************)
EXTENDS SkkCandArray

CONSTANTS
  Procs, Contexts,
  Owner,           \* the process of each context
  Words,           \* the words a user may register
  InitFiles,       \* the entry as the personal dictionary may hold it at first
  JisyoS,          \* what SKK-JISYO.S may have for the entry; <<>>: nothing
  \* custom variables, as each process has them:
  Style,           \* skk-candidate-selection-style
  UseWindow,       \* skk-use-candidate-window?
  OpCount,         \* skk-candidate-op-count
  PageSize,        \* skk-nr-candidate-max
  MaxTime,         \* bound: the last second of the clock
  MaxBegins,       \* bound: processes started, contexts replaced, conversions begun
  NoProc, NoFile, NoCand, Partial

\* What is saved has no candidate twice, but for texts garbled by a merge, and
\* at most one list of ignored words.
Sound(cands) ==
  \A i, j \in DOMAIN cands :
    /\ cands[i] = cands[j] => i = j \/ Garbled(cands[i])
    /\ is_purged_cand(cands[i]) /\ is_purged_cand(cands[j]) => i = j

ASSUME OwnerAssumption == Owner \in [Contexts -> Procs] /\ NoProc \notin Procs
ASSUME DictAssumption ==
  /\ Words \subseteq {<<w>> : w \in Chosen}
  /\ JisyoS \subseteq Seq({<<w>> : w \in Chosen})
  /\ \A f \in InitFiles \ {NoFile} : f \in Seq(Candidate) /\ Sound(f)
  /\ MaxTime \in Nat /\ MaxBegins \in Nat
  /\ Partial # NoFile /\ Partial \notin Seq(Candidate)

\* What the custom variables may be set to; in the ddskk-like style an OpCount
\* of 0 would put the window's first candidate at index -1 and is left out.
ASSUME WindowAssumption ==
  /\ Style \in [Procs -> {"uim", "ddskk-like"}] /\ UseWindow \in [Procs -> BOOLEAN]
  /\ OpCount \in [Procs -> Nat] /\ PageSize \in [Procs -> Nat \ {0}]
  /\ \A p \in Procs : Style[p] = "ddskk-like" => OpCount[p] > 0

VARIABLES
  \* the file system
  file,      \* its candidates (NoFile: it does not exist)
  mtime,     \* its modification time, in seconds
  tmp,       \* <file>.tmp: NoFile, Partial or a whole content
  lock,      \* the process that holds <file>.lock for writing
  now,
  \* each process
  pc,        \* "gone", "idle", or the step of skk_save_personal_dictionary
  closing,   \* the save is the one of skk-release-handler
  line, personal_dic_timestamp, cache_modified,
  \* each context
  mode,      \* "kanji", "converting", "dialog" (really purge?), and the editor of
             \* recursive learning: "register" (no entry), "more" (past the last)
  nth,
  window,    \* the candidate window, and nr-candidates as last counted
  left,      \* starts and conversions still to come
  \* history, read by the properties only
  shown,     \* the candidate the context displays
  listed,    \* those its window lists, by index; <<>>: it is closed, or somebody
             \* else changed the entry since it was opened
  touched,   \* the entry was changed by somebody else since then
  synced,    \* the real part as the process last read or wrote it
  current,   \* the cache takes account of the file as it stands
  overlapped,  \* the file was replaced after this save's stat() and merge
  sameSecond,  \* the file had changed, but within the second of the timestamp
  shrunk     \* a merge since the last save took words out of the cache

disk == <<file, mtime, tmp, lock, now>>
dic == <<line, personal_dic_timestamp, cache_modified>>
keys == <<mode, nth, window, left, shown>>
ctx == <<keys, listed>>
hist == <<touched, synced, current, overlapped, sameSecond, shrunk>>
vars == <<disk, pc, closing, dic, ctx, hist>>

ContextsOf(p) == {c \in Contexts : Owner[c] = p}
Epoch == -1  \* the timestamp of a dictionary nothing was read into

\* The entry as read_dictionary_file makes it from what the file holds.
LineOf(cands) ==
  IF cands \in {NoFile, <<>>} THEN NoLine
  ELSE [EmptyLine EXCEPT !.cands = cands, !.real = Len(cands), !.save = TRUE]
JisyoLine(words) ==
  IF words = <<>> THEN NoLine
  ELSE [EmptyLine EXCEPT !.cands = [i \in DOMAIN words |-> Word(words[i])]]

Nth(ca, n) ==
  LET i == NthIndex(ca, n) IN IF ca.cached /\ i # 0 THEN ca.cands[i] ELSE NoCand

NrCandidates(ca) == Cardinality(Visible(ca))
Listing(ca) == [n \in 0..NrCandidates(ca) - 1 |-> Nth(ca, n)]
NoWindow == [open |-> FALSE, nr |-> 0]

Init ==
  /\ file \in InitFiles /\ mtime = 0 /\ now = 0
  /\ tmp = NoFile /\ lock = NoProc
  /\ pc = [p \in Procs |-> "gone"]
  /\ closing = [p \in Procs |-> FALSE]
  /\ line = [p \in Procs |-> NoLine]
  /\ personal_dic_timestamp = [p \in Procs |-> Epoch]
  /\ cache_modified = [p \in Procs |-> FALSE]
  /\ mode = [c \in Contexts |-> "kanji"]
  /\ nth = [c \in Contexts |-> 0]
  /\ window = [c \in Contexts |-> NoWindow]
  /\ left = MaxBegins
  /\ shown = [c \in Contexts |-> NoCand]
  /\ listed = [c \in Contexts |-> <<>>]
  /\ touched = [c \in Contexts |-> FALSE]
  /\ synced = [p \in Procs |-> <<>>]
  /\ current = [p \in Procs |-> FALSE]
  /\ overlapped = [p \in Procs |-> FALSE]
  /\ sameSecond = [p \in Procs |-> FALSE]
  /\ shrunk = [p \in Procs |-> FALSE]

\* skk-context-new of the first context: the personal dictionary becomes the
\* cache as it is, and SKK-JISYO.S is merged behind it.  Without a line the
\* flag is copied from memory nobody wrote.
Open(p) ==
  /\ pc[p] = "gone" /\ lock = NoProc /\ left > 0
  /\ left' = left - 1
  /\ \E garbage \in BOOLEAN, words \in JisyoS :
       LET own == LineOf(file)
           jisyo == JisyoLine(words)
       IN  /\ line' = [line EXCEPT ![p] = IF own.cached THEN own ELSE jisyo]
           /\ personal_dic_timestamp' = [personal_dic_timestamp EXCEPT ![p] =
                IF file = NoFile \/ (~own.cached /\ jisyo.cached) THEN Epoch ELSE mtime]
           /\ cache_modified' = [cache_modified EXCEPT ![p] =
                own.cached \/ jisyo.cached \/ (file # NoFile /\ garbage)]
           /\ synced' = [synced EXCEPT ![p] = RealPart(own)]
  /\ pc' = [pc EXCEPT ![p] = "idle"]
  /\ current' = [current EXCEPT ![p] = TRUE]
  /\ UNCHANGED <<disk, closing, mode, nth, window, shown, listed, touched, overlapped, sameSecond, shrunk>>

-----------------------------------------------------------------------------
(* The user converts.  A process runs one handler at a time, and the save a *)
(* handler asks for ends before the next key is read.                       *)

\* Mutant: moving a candidate does not mark the cache.
SetLineMutant(c, ca, edited) ==
  LET p == Owner[c]
  IN  /\ line' = [line EXCEPT ![p] = ca]
      /\ cache_modified' = [cache_modified EXCEPT ![p] = @ \/ (ca.cached /\ ~line[p].cached)]
      /\ touched' = [d \in Contexts |->
                       d # c /\ (touched[d] \/ (Owner[d] = p /\ ca # line[p]))]
      /\ UNCHANGED <<disk, closing, personal_dic_timestamp, synced, current, overlapped,
                     sameSecond, shrunk>>

\* The entry of c's process becomes ca; `edited` says whether a candidate was
\* moved.  Looking an entry up for the first time already marks the cache.
SetLine(c, ca, edited) ==
  LET p == Owner[c]
  IN  /\ line' = [line EXCEPT ![p] = ca]
      /\ cache_modified' = [cache_modified EXCEPT ![p] = @ \/ edited \/ (ca.cached /\ ~line[p].cached)]
      /\ touched' = [d \in Contexts |->
                       d # c /\ (touched[d] \/ (Owner[d] = p /\ ca # line[p]))]
      /\ UNCHANGED <<disk, closing, personal_dic_timestamp, synced, current, overlapped,
                     sameSecond, shrunk>>

\* The context goes to mode m at index n with the window w, and the save follows
\* if asked for.
SetContext(c, m, n, w, ca, saving) ==
  LET p == Owner[c]
      list == IF ~w.open THEN <<>> ELSE IF window[c].open THEN listed[c] ELSE Listing(ca)
  IN  /\ mode' = [mode EXCEPT ![c] = m]
      /\ nth' = [nth EXCEPT ![c] = n]
      /\ window' = [window EXCEPT ![c] = w]
      /\ shown' = [shown EXCEPT ![c] = IF m = "converting" THEN Nth(ca, n) ELSE NoCand]
      /\ listed' = [d \in Contexts |->
           IF d = c THEN list
           ELSE IF Owner[d] = p /\ ca # line[p] THEN <<>> ELSE listed[d]]
      /\ pc' = [pc EXCEPT ![p] = IF saving THEN "check" ELSE "idle"]

Ready(c, m) == pc[Owner[c]] = "idle" /\ mode[c] = m

\* skk-reset-candidate-window keeps the number of candidates.
Shut(w) == [w EXCEPT !.open = FALSE]

\* skk-check-candidate-window-begin: from the OpCount-th candidate on there is a
\* window, and the candidates are counted when it opens.
CheckWindowBegin(c, w, n, ca) ==
  IF ~w.open /\ UseWindow[Owner[c]] /\ n > OpCount[Owner[c]] - 2
  THEN [open |-> TRUE, nr |-> NrCandidates(ca)] ELSE w

\* The window lists the candidates from this one on.
FirstListed(c) == IF Style[Owner[c]] = "uim" THEN 0 ELSE OpCount[Owner[c]] - 1
Listed(c) == IF window[c].open THEN FirstListed(c)..window[c].nr - 1 ELSE {}

\* skk-begin-conversion: without an entry the user is asked to register one.
BeginConversion(c) ==
  LET ca == find_cand_array(line[Owner[c]], FALSE)
  IN  /\ Ready(c, "kanji") /\ left > 0
      /\ left' = left - 1
      /\ SetLine(c, ca, FALSE)
      /\ IF skk_get_entry(ca)
         THEN SetContext(c, "converting", 0,
                CheckWindowBegin(c, [window[c] EXCEPT !.nr = 0], 0, ca), ca, FALSE)
         ELSE SetContext(c, "register", 0, window[c], ca, FALSE)

\* skk-change-candidate-index once the index is n and the window w: without a
\* candidate there the editor opens.
ChangeCandidateIndex(c, n, w) ==
  LET ca == line[Owner[c]]
  IN  /\ SetLine(c, ca, FALSE)
      /\ IF Nth(ca, n) = NoCand THEN SetContext(c, "more", 0, Shut(w), ca, FALSE)
         ELSE SetContext(c, "converting", n, CheckWindowBegin(c, w, n, ca), ca, FALSE)
      /\ UNCHANGED left

\* im-shift-page-candidate: the toolkit answers, if there is a window, with the
\* index it now selects, or later on its own.
ShiftPage(c) == {nth[c]} \cup Listed(c)

\* skk-incr-candidate-index: within the window the ddskk-like style goes by pages.
Incremented(c) ==
  LET p == Owner[c]
      n == nth[c]
      single == Style[p] = "uim" \/ n + 1 <= OpCount[p] - 1
  IN  CASE single -> {n + 1}
        [] ~single /\ n + PageSize[p] > window[c].nr - 1 -> {window[c].nr}
        [] ~single /\ n + PageSize[p] <= window[c].nr - 1 -> ShiftPage(c)

NextCandidate(c) ==
  /\ Ready(c, "converting")
  /\ \E n \in Incremented(c) : ChangeCandidateIndex(c, n, window[c])

\* skk-back-to-kanji-state, by the cancel key too: the head is edited again.
skk_back_to_kanji_state(c) ==
  /\ SetLine(c, line[Owner[c]], FALSE)
  /\ SetContext(c, "kanji", 0, NoWindow, line[Owner[c]], FALSE)
  /\ UNCHANGED left

\* skk-decr-candidate-index.  The uim style goes round to the last candidate
\* once they were counted; the ddskk-like one leaves the window from its first page.
PreviousCandidate(c) ==
  LET n == nth[c]
      w == window[c]
      uim == Style[Owner[c]] = "uim"
      last == OpCount[Owner[c]] - 2  \* before the window
      paged == n > PageSize[Owner[c]] + last
  IN  /\ Ready(c, "converting")
      /\ \/ n = 0 /\ (uim => w.nr = 0) /\ skk_back_to_kanji_state(c)
         \/ uim /\ n = 0 /\ w.nr # 0 /\ ChangeCandidateIndex(c, w.nr - 1, w)
         \/ uim /\ n > 0 /\ ChangeCandidateIndex(c, n - 1, w)
         \/ ~uim /\ paged /\ \E i \in ShiftPage(c) : ChangeCandidateIndex(c, i, w)
         \/ ~uim /\ n > 0 /\ ~paged /\
              IF n > last THEN ChangeCandidateIndex(c, last, Shut(w))
              ELSE ChangeCandidateIndex(c, n - 1, w)

\* skk-set-candidate-index-handler: a candidate of the window is selected, by a
\* click or because the page was turned.
SelectCandidate(c) ==
  /\ Ready(c, "converting")
  /\ SetLine(c, line[Owner[c]], FALSE)
  /\ \E n \in Listed(c) :
       SetContext(c, "converting", n, window[c], line[Owner[c]], FALSE)
  /\ UNCHANGED left

\* skk-prepare-commit-string: the candidate is read again by its index.
\* Mutant: the hidden candidates are counted.
CommittedTextMutant(c, n) ==
  LET ca == line[Owner[c]] IN IF n < Len(ca.cands) THEN ca.cands[n + 1] ELSE NoCand

CommittedText(c, n) == Nth(line[Owner[c]], n)
skk_commit_candidate(c, n) ==
  LET ca == line[Owner[c]]
      cand == CommittedText(c, n)
      moved == IF cand = NoCand THEN ca
               ELSE [reorder_candidate(ca, cand) EXCEPT !.save = TRUE]
  IN  /\ SetLine(c, moved, cand # NoCand /\ ca.cands[1] # cand)
      /\ SetContext(c, "kanji", 0, NoWindow, moved, n > 0)
      /\ UNCHANGED left

skk_commit_preedit(c) == Ready(c, "converting") /\ skk_commit_candidate(c, nth[c])

\* The candidates with a label on the page of the one selected; quotient
\* truncates.
Quotient(i, j) == IF i < 0 THEN -((-i) \div j) ELSE i \div j
LabelIndices(c) ==
  LET size == PageSize[Owner[c]]
      first == FirstListed(c) + Quotient(nth[c] - FirstListed(c), size) * size
  IN  (first..first + size - 1) \cap (0..window[c].nr - 1)

skk_commit_by_label_key(c, n) ==
  Ready(c, "converting") /\ window[c].open /\ skk_commit_candidate(c, n)

\* The dialog "Really purge?", whose answer may be no.
AskPurge(c) ==
  /\ Ready(c, "converting")
  /\ ~(Style[Owner[c]] = "ddskk-like" /\ window[c].open)
  /\ SetLine(c, line[Owner[c]], FALSE)
  /\ SetContext(c, "dialog", nth[c], Shut(window[c]), line[Owner[c]], FALSE)
  /\ UNCHANGED left
KeepCandidate(c) ==
  /\ Ready(c, "dialog")
  /\ SetLine(c, line[Owner[c]], FALSE)
  /\ SetContext(c, "converting", nth[c], window[c], line[Owner[c]], FALSE)
  /\ UNCHANGED left

\* Only a candidate of the real part is purged.
PurgeIndex(ca, n) == LET i == NthIndex(ca, n) IN IF i <= ca.real THEN i ELSE 0
skk_purge_candidate(c) ==
  LET ca == line[Owner[c]]
      i == PurgeIndex(ca, nth[c])
      purged == IF i = 0 THEN ca ELSE purge_candidate(ca, i)
  IN  /\ Ready(c, "dialog")
      /\ SetLine(c, purged, i # 0)
      /\ SetContext(c, "kanji", 0, NoWindow, purged, TRUE)
      /\ UNCHANGED left

\* Return in the editor of recursive learning.
skk_learn_word(c, w) ==
  LET ca == find_cand_array(line[Owner[c]], TRUE)
      learnt == learn_word_to_cand_array(ca, w)
  IN  /\ Ready(c, "register") \/ Ready(c, "more")
      /\ SetLine(c, learnt, ca.cands # <<>> /\ ca.cands[1] # Word(w))
      /\ SetContext(c, "kanji", 0, NoWindow, learnt, TRUE)
      /\ UNCHANGED left

\* Leaving it empty-handed: to the last candidate if they were ever counted.
CancelEditor(c) ==
  LET w == window[c]
      ca == line[Owner[c]]
  IN  /\ Ready(c, "register") \/ Ready(c, "more")
      /\ \/ w.nr = 0 /\ skk_back_to_kanji_state(c)
         \/ /\ w.nr > 0
            /\ SetLine(c, ca, FALSE)
            /\ SetContext(c, "converting", w.nr - 1,
                 CheckWindowBegin(c, w, w.nr - 1, ca), ca, FALSE)
            /\ UNCHANGED left

\* The cancel key, and skk-reset-handler with any child context: skk-flush.
skk_flush(c) ==
  /\ pc[Owner[c]] = "idle" /\ mode[c] # "kanji"
  /\ skk_back_to_kanji_state(c)

\* skk-release-handler: the save, with another context left that keeps the
\* dictionary alive.  Whatever c showed is gone; c is then a new context (bound:
\* making it counts like a conversion).
ReleaseContext(c) ==
  /\ pc[Owner[c]] = "idle" /\ ContextsOf(Owner[c]) # {c}
  /\ left > 0
  /\ left' = left - 1
  /\ SetLine(c, line[Owner[c]], FALSE)
  /\ SetContext(c, "kanji", 0, NoWindow, line[Owner[c]], TRUE)

\* The same of the last context: the dictionary is freed after the save.
Release(p) ==
  /\ pc[p] = "idle"
  /\ pc' = [pc EXCEPT ![p] = "check"]
  /\ closing' = [closing EXCEPT ![p] = TRUE]
  /\ UNCHANGED <<disk, dic, ctx, hist>>
-----------------------------------------------------------------------------
(* skk_save_personal_dictionary.                                            *)

\* Process p is gone, and so is all it had in memory.
Forget(p) ==
  /\ pc' = [pc EXCEPT ![p] = "gone"]
  /\ closing' = [closing EXCEPT ![p] = FALSE]
  /\ line' = [line EXCEPT ![p] = NoLine]
  /\ personal_dic_timestamp' = [personal_dic_timestamp EXCEPT ![p] = Epoch]
  /\ cache_modified' = [cache_modified EXCEPT ![p] = FALSE]
  /\ mode' = [c \in Contexts |-> IF Owner[c] = p THEN "kanji" ELSE mode[c]]
  /\ nth' = [c \in Contexts |-> IF Owner[c] = p THEN 0 ELSE nth[c]]
  /\ window' = [c \in Contexts |-> IF Owner[c] = p THEN NoWindow ELSE window[c]]
  /\ shown' = [c \in Contexts |-> IF Owner[c] = p THEN NoCand ELSE shown[c]]
  /\ listed' = [c \in Contexts |-> IF Owner[c] = p THEN <<>> ELSE listed[c]]
  /\ touched' = [c \in Contexts |-> Owner[c] # p /\ touched[c]]
  /\ synced' = [synced EXCEPT ![p] = <<>>]
  /\ sameSecond' = [sameSecond EXCEPT ![p] = FALSE]
  /\ shrunk' = [shrunk EXCEPT ![p] = FALSE]
  /\ UNCHANGED left

\* The save is over: back to the next key, or to the end of the last context.
Return(p, modified, timestamp, written) ==
  \/ closing[p] /\ Forget(p)
  \/ /\ ~closing[p]
     /\ pc' = [pc EXCEPT ![p] = "idle"]
     /\ cache_modified' = [cache_modified EXCEPT ![p] = modified]
     /\ personal_dic_timestamp' = [personal_dic_timestamp EXCEPT ![p] = timestamp]
     /\ synced' = [synced EXCEPT ![p] = written]
     /\ shrunk' = [shrunk EXCEPT ![p] = @ /\ modified]
     /\ sameSecond' = [sameSecond EXCEPT ![p] = FALSE]
     /\ UNCHANGED <<closing, line, ctx, touched>>

\* Mutant: the file is written over without a look at its time.
CheckTimestampMutant(p) ==
  /\ pc[p] = "check"
  /\ \/ /\ ~cache_modified[p]
        /\ Return(p, FALSE, personal_dic_timestamp[p], synced[p])
     \/ /\ cache_modified[p]
        /\ pc' = [pc EXCEPT ![p] = "lock"]
        /\ sameSecond' = [sameSecond EXCEPT ![p] =
             mtime = personal_dic_timestamp[p] /\ ~current[p]]
        /\ UNCHANGED <<closing, dic, ctx, touched, synced, shrunk>>
  /\ overlapped' = [overlapped EXCEPT ![p] = FALSE]
  /\ UNCHANGED <<disk, current>>

\* stat(): no lock is held yet.
CheckTimestamp(p) ==
  /\ pc[p] = "check"
  /\ \/ /\ ~cache_modified[p]
        /\ Return(p, FALSE, personal_dic_timestamp[p], synced[p])
     \/ /\ cache_modified[p]
        /\ pc' = [pc EXCEPT ![p] =
             IF file # NoFile /\ mtime # personal_dic_timestamp[p] THEN "merge" ELSE "lock"]
        /\ sameSecond' = [sameSecond EXCEPT ![p] =
             mtime = personal_dic_timestamp[p] /\ ~current[p]]
        /\ UNCHANGED <<closing, dic, ctx, touched, synced, shrunk>>
  /\ overlapped' = [overlapped EXCEPT ![p] = FALSE]
  /\ UNCHANGED <<disk, current>>

\* update_personal_dictionary_cache_with_file, under a read lock of its own.
Merge(p) ==
  /\ pc[p] = "merge" /\ lock = NoProc
  /\ \E garbage, stale \in BOOLEAN :
       LET src == LineOf(file)
           fresh == ~line[p].cached  \* no cache: the file's lines are taken as they are
       IN  /\ line' = [line EXCEPT ![p] = MergeLine(src, @, stale)]
           /\ cache_modified' = [cache_modified EXCEPT ![p] = ~fresh \/ src.cached \/ garbage]
           /\ personal_dic_timestamp' = [personal_dic_timestamp EXCEPT ![p] =
                IF fresh THEN mtime ELSE @]
           /\ shrunk' = [shrunk EXCEPT ![p] =
                @ \/ RealWords(line[p]) \cap (PurgedWords(src) \ RealWords(src)) # {}]
           /\ touched' = [c \in Contexts |-> touched[c] \/ (Owner[c] = p /\ line'[p] # line[p])]
           /\ listed' = [c \in Contexts |->
                IF Owner[c] = p /\ line'[p] # line[p] THEN <<>> ELSE listed[c]]
  /\ pc' = [pc EXCEPT ![p] = "lock"]
  /\ current' = [current EXCEPT ![p] = TRUE]
  /\ UNCHANGED <<disk, closing, keys, synced, overlapped, sameSecond>>

\* Mutant: the lock is not waited for.
LockMutant(p) ==
  /\ pc[p] = "lock"
  /\ lock' = p
  /\ tmp' = Partial
  /\ pc' = [pc EXCEPT ![p] = "write"]
  /\ UNCHANGED <<file, mtime, now, closing, dic, ctx, hist>>

\* fcntl(F_SETLKW) on <file>.lock, then fopen(<file>.tmp, "w").
Lock(p) ==
  /\ pc[p] = "lock" /\ lock = NoProc
  /\ lock' = p
  /\ tmp' = Partial
  /\ pc' = [pc EXCEPT ![p] = "write"]
  /\ UNCHANGED <<file, mtime, now, closing, dic, ctx, hist>>

\* write_out_line: the user's own candidates, if the entry is one to save.
Written(ca) == IF ca.save THEN RealPart(ca) ELSE <<>>

Write(p) ==
  /\ pc[p] = "write"
  /\ tmp' = Written(line[p])
  /\ pc' = [pc EXCEPT ![p] = "replace"]
  /\ UNCHANGED <<file, mtime, lock, now, closing, dic, ctx, hist>>

\* Mutant: the error path leaves the lock held.
WriteFailsMutant(p) ==
  /\ pc[p] \in {"write", "replace"}
  /\ Return(p, TRUE, personal_dic_timestamp[p], synced[p])
  /\ overlapped' = [overlapped EXCEPT ![p] = FALSE]
  /\ UNCHANGED <<file, mtime, tmp, lock, now, current>>

\* fflush, fsync, fclose or rename fails: the lock is closed and nothing said.
WriteFails(p) ==
  /\ pc[p] \in {"write", "replace"}
  /\ lock' = NoProc
  /\ Return(p, TRUE, personal_dic_timestamp[p], synced[p])
  /\ overlapped' = [overlapped EXCEPT ![p] = FALSE]
  /\ UNCHANGED <<file, mtime, tmp, now, current>>

\* rename(), the stat() after it, and close_lock().
Replace(p) ==
  /\ pc[p] = "replace"
  /\ file' = tmp /\ mtime' = now /\ tmp' = NoFile
  /\ lock' = NoProc
  /\ Return(p, FALSE, now, tmp)
  /\ overlapped' = [q \in Procs |-> pc[q] = "lock"]
  /\ current' = [q \in Procs |-> q = p]
  /\ UNCHANGED now

\* The process is killed: the kernel drops its locks.
Crash(p) ==
  /\ pc[p] # "gone"
  /\ lock' = IF lock = p THEN NoProc ELSE lock
  /\ Forget(p)
  /\ overlapped' = [overlapped EXCEPT ![p] = FALSE]
  /\ UNCHANGED <<file, mtime, tmp, now, current>>

Tick ==
  /\ now < MaxTime
  /\ now' = now + 1
  /\ UNCHANGED <<file, mtime, tmp, lock, pc, closing, dic, ctx, hist>>

SaveStep(p) ==
  CheckTimestamp(p) \/ Merge(p) \/ Lock(p) \/ Write(p) \/ WriteFails(p) \/ Replace(p)

Convert(c) ==
  \/ BeginConversion(c) \/ NextCandidate(c) \/ PreviousCandidate(c) \/ SelectCandidate(c)
  \/ skk_commit_preedit(c) \/ \E n \in LabelIndices(c) : skk_commit_by_label_key(c, n)
  \/ AskPurge(c) \/ KeepCandidate(c) \/ skk_purge_candidate(c)
  \/ CancelEditor(c) \/ skk_flush(c) \/ ReleaseContext(c)
  \/ \E w \in Words : skk_learn_word(c, w)

Next ==
  \/ \E p \in Procs : Open(p) \/ Release(p) \/ SaveStep(p) \/ Crash(p)
  \/ \E c \in Contexts : Convert(c)
  \/ Tick

Spec == Init /\ [][Next]_vars

-----------------------------------------------------------------------------
(* Properties. *)

Saving == {"check", "merge", "lock", "write", "replace"}
Saved == Seq(Candidate)

TypeOK ==
  /\ file \in {NoFile} \cup Saved /\ tmp \in {NoFile, Partial} \cup Saved
  /\ mtime \in 0..now /\ now \in 0..MaxTime
  /\ lock \in Procs \cup {NoProc}
  /\ pc \in [Procs -> Saving \cup {"gone", "idle"}]
  /\ closing \in [Procs -> BOOLEAN]
  /\ line \in [Procs -> Array] /\ \A p \in Procs : line[p].real <= Len(line[p].cands)
  /\ personal_dic_timestamp \in [Procs -> Epoch..MaxTime]
  /\ cache_modified \in [Procs -> BOOLEAN]
  /\ mode \in [Contexts -> {"kanji", "converting", "dialog", "register", "more"}]
  /\ nth \in [Contexts -> Nat]
  /\ window \in [Contexts -> [open : BOOLEAN, nr : Nat]]
  /\ left \in 0..MaxBegins
  /\ synced \in [Procs -> Saved]
  /\ touched \in [Contexts -> BOOLEAN] /\ current \in [Procs -> BOOLEAN]
  /\ overlapped \in [Procs -> BOOLEAN] /\ sameSecond \in [Procs -> BOOLEAN]
  /\ shrunk \in [Procs -> BOOLEAN]

\* What is about to be renamed over the file is what this process wrote, all
\* of it: all writers share one name for the temporary file, and the lock keeps
\* one from truncating it while another is about to rename it.
RenamesOwnFile == \A p \in Procs : pc[p] = "replace" => tmp = Written(line[p])

\* So the dictionary on disk is never half a file (skk_save_personal_dictionary).
FileIsWhole == file # Partial /\ RenamesOwnFile

\* Nobody waits for the lock for ever: it is held only by a process that is
\* writing the file, through every failed write, release and crash
\* (open_lock, close_lock), and nobody holds it while it waits for it.
LockHolderWrites ==
  \A p \in Procs : (lock = p) <=> pc[p] \in {"write", "replace"}

\* What is saved has no candidate twice and at most one list of ignored words,
\* which is what index lookups and purging rely on; after any number of
\* commits, purges and merges, and in the file as in memory.  Only a text that
\* a merge has garbled may be there twice: two merges may garble it alike.
SavedPartsSound ==
  \A cands \in {file} \cup {RealPart(line[p]) : p \in Procs} : cands # NoFile => Sound(cands)

\* "whether cached lines are modified or not": a cache whose saved part differs
\* from what was last read or written is marked, but for one case: committing
\* the first candidate of an entry the user never used moves nothing, so that
\* the choice is remembered in memory only.
UnsavedIsMarked ==
  \A p \in Procs : pc[p] # "gone" /\ ~cache_modified[p] =>
    \/ RealPart(line[p]) = synced[p]
    \/ synced[p] = <<>> /\ line[p].real = 1

\* Saving drops a word from the file only if the saver has it among the words
\* it ignores, or in one of the three ways the code leaves open: the file was
\* replaced between the stat() and the lock; it was replaced in the very second
\* of the timestamp; or a merge took words out of the cached array, after which
\* the loop of merge_real_candidate_array works with indices counted before.
WordsDropOnlyByRaceOrPurge ==
  [][\A p \in Procs :
       pc[p] = "replace" /\ file' # file /\ file # NoFile =>
         \/ WordsOf(file) \ WordsOf(file') \subseteq PurgedWords(line[p])
         \/ overlapped[p] \/ sameSecond[p] \/ shrunk[p]]_vars

\* Merging takes from a cache only words the file lists as ignored and does not
\* itself hold: what a user learned here and nobody removed stays. (A merge
\* that shrinks the array may also damage a neighbour, see `shrunk`.)
MergeKeepsOwnWords ==
  [][\A p \in Procs :
       pc[p] = "merge" /\ pc'[p] = "lock" =>
         \/ RealWords(line[p]) \subseteq RealWords(line'[p])
         \/ PurgedWords(LineOf(file)) \cap RealWords(line[p]) # {}]_vars

\* A context commits what it shows, the candidate in the preedit or the one its
\* window lists under the label pressed, after any walk through candidates,
\* pages, dialogs and the editor; and it is this word the entry remembers as the
\* latest chosen.  Unless another context of the process or a merge changed the
\* entry since: a context keeps indices, no words.
Commits(c, n, cand) ==
  /\ CommittedText(c, n) = cand
  /\ cand # NoCand => line'[Owner[c]].cands[1] = cand
CommitsWhatWasShown ==
  [][\A c \in Contexts : Ready(c, "converting") =>
       /\ skk_commit_preedit(c) => touched[c] \/ Commits(c, nth[c], shown[c])
       /\ \A n \in LabelIndices(c) :
            skk_commit_by_label_key(c, n) =>
              listed[c] = <<>> \/ (n \in DOMAIN listed[c] /\ Commits(c, n, listed[c][n]))]_vars
=============================================================================
