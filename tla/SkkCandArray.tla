---------------------------- MODULE SkkCandArray ----------------------------
(***************************************************************************)
(* The candidate array of one entry of the SKK dictionary (uim/skk.c).     *)
(* Its first `real` candidates are the user's own and are written to the   *)
(* personal dictionary, the others are copied from the master dictionary.  *)
(* The words the user removed are kept in one more candidate of the real   *)
(* part, (skk-ignore-dic-word "foo" "bar"), which hides the copies.        *)
(*                                                                         *)
(* Data abstraction.  A candidate is the kind of its text and the words in *)
(* it; a word is a sequence of one, and of more when texts have run into   *)
(* each other.  Only entries without okurigana and without numbers are     *)
(* modelled: an entry has one array, and it is also its line of the file.  *)
(***************************************************************************)
EXTENDS Integers, Sequences, FiniteSets, SequencesExt

CONSTANTS
  Chosen,    \* the words people use
  MasterDic  \* the words the system dictionary has for the entry

ASSUME MasterAssumption == MasterDic \in Seq({<<w>> : w \in Chosen})

Text == Seq(Chosen) \ {<<>>}
Candidate == {c \in [kind : {"word", "ignore"}, words : Seq(Text) \ {<<>>}] :
                c.kind = "word" => Len(c.words) = 1}
Array == [cached : BOOLEAN, cands : Seq(Candidate), real : Nat, used : BOOLEAN, save : BOOLEAN]

Word(w) == [kind |-> "word", words |-> <<w>>]
Ignore(ws) == [kind |-> "ignore", words |-> ws]
\* What is left of a candidate whose text was cut and appended to by mistake:
\* a word, but none the user ever chose.
Broken(cand, w) == Word(Head(cand.words) \o w)
Garbled(cand) == cand.kind = "word" /\ Len(Head(cand.words)) > 1

NoLine == [cached |-> FALSE, cands |-> <<>>, real |-> 0, used |-> FALSE, save |-> FALSE]
EmptyLine == [NoLine EXCEPT !.cached = TRUE]

RealPart(ca) == SubSeq(ca.cands, 1, ca.real)
MasterPart(ca) == SubSeq(ca.cands, ca.real + 1, Len(ca.cands))
WordsOf(cands) == {Head(c.words) : c \in {x \in ToSet(cands) : x.kind = "word"}}
RealWords(ca) == WordsOf(RealPart(ca))

is_purged_cand(cand) == cand.kind = "ignore"
get_purged_cand_index(ca) == SelectInSeq(RealPart(ca), is_purged_cand)
PurgedWords(ca) ==
  LET i == get_purged_cand_index(ca) IN IF i = 0 THEN {} ELSE ToSet(ca.cands[i].words)

\* The user is shown all but the ignore entry and the copies from the master
\* dictionary of the words it names, counted from 0.
Visible(ca) ==
  {i \in 1..Len(ca.cands) :
     /\ i # get_purged_cand_index(ca)
     /\ i > ca.real => ca.cands[i] \notin {Word(w) : w \in PurgedWords(ca)}}
NthIndex(ca, n) ==
  LET nth == {i \in Visible(ca) : Cardinality({j \in Visible(ca) : j < i}) = n}
  IN  IF nth = {} THEN 0 ELSE CHOOSE i \in nth : TRUE

\* Only cands[0] is looked at, and a copy that differs from any one of the
\* purged words counts as something to show.
is_purged_only(ca) ==
  /\ ca.real <= 1
  /\ is_purged_cand(ca.cands[1])
  /\ \A i \in (ca.real + 1)..Len(ca.cands) :
       \A k \in DOMAIN ca.cands[1].words : ca.cands[i] = Word(ca.cands[1].words[k])

skk_get_entry(ca) == ca.cached /\ ca.cands # <<>> /\ ~is_purged_only(ca)

-----------------------------------------------------------------------------
(* Looking an entry up. *)

merge_base_candidates_to_array(dst) ==
  LET push(cands, w) == IF Word(w) \in ToSet(cands) THEN cands ELSE Append(cands, Word(w))
  IN  [dst EXCEPT !.cands = FoldLeft(push, @, MasterDic)]

search_line_from_file ==
  IF MasterDic = <<>> THEN NoLine
  ELSE [EmptyLine EXCEPT !.cands = [i \in DOMAIN MasterDic |-> Word(MasterDic[i])]]

find_cand_array(line, create) ==
  LET found == CASE line.cached -> line
                 [] ~line.cached /\ search_line_from_file.cached -> search_line_from_file
                 [] OTHER -> IF create THEN EmptyLine ELSE NoLine
      full == IF line.cached /\ ~line.used
              THEN merge_base_candidates_to_array(line) ELSE found
  IN  [full EXCEPT !.used = full.cached]

-----------------------------------------------------------------------------
(* Changing an array. *)

IndexOf(seq, item) == SelectInSeq(seq, LAMBDA x : x = item)

\* Mutant: the real part grows although the candidate was in it already.
ReorderCandidateMutant(ca, cand) ==
  [ca EXCEPT !.cands = <<cand>> \o RemoveAt(@, IndexOf(ca.cands, cand)), !.real = @ + 1]

reorder_candidate(ca, cand) ==
  LET nth == IndexOf(ca.cands, cand)
  IN  [ca EXCEPT !.cands = <<cand>> \o RemoveAt(@, nth),
                 !.real = IF nth > @ THEN @ + 1 ELSE @]

learn_word_to_cand_array(ca, w) ==
  LET known == IF Word(w) \in ToSet(ca.cands) THEN ca.cands ELSE Append(ca.cands, Word(w))
  IN  [reorder_candidate([ca EXCEPT !.cands = known], Word(w)) EXCEPT !.save = TRUE]

\* push_purged_word(append = 1) closes the list of whatever candidate stands
\* at nth; beyond the array it writes to memory the array no longer owns.
push_purged_word(ca, nth, w) ==
  CASE nth > Len(ca.cands) -> ca
    [] nth <= Len(ca.cands) /\ is_purged_cand(ca.cands[nth]) ->
         [ca EXCEPT !.cands[nth] = IF w \in ToSet(@.words) THEN @ ELSE Ignore(Append(@.words, w))]
    [] OTHER -> [ca EXCEPT !.cands[nth] = Broken(@, w)]

remove_candidate_from_array(ca, nth) ==
  [ca EXCEPT !.cands = RemoveAt(@, nth), !.real = IF nth <= @ THEN @ - 1 ELSE @]

purge_candidate(ca, nth) ==
  LET i == get_purged_cand_index(ca)
      w == Head(ca.cands[nth].words)
  IN  IF i = 0 THEN [ca EXCEPT !.cands[nth] = Ignore(<<w>>)]
      ELSE remove_candidate_from_array(push_purged_word(ca, i, w), nth)

-----------------------------------------------------------------------------
(* Merging the array src read from the file into the cached array dst. *)

merge_word_to_real_cand_array(ca, cand) ==
  [ca EXCEPT !.cands = RealPart(ca) \o <<cand>> \o MasterPart(ca), !.real = @ + 1]

remove_purged_words_from_dst_cand_array(src, dst, ws) ==
  LET remove(ca, w) ==
        LET nth == IndexOf(RealPart(ca), Word(w))
        IN  IF nth = 0 \/ Word(w) \in ToSet(RealPart(src)) THEN ca
            ELSE remove_candidate_from_array(ca, nth)
  IN  FoldLeft(remove, dst, ws)

\* Words new to dst are appended one by one at dst_nth, and after the first
\* of them the purged words are taken out, which may move the ignore entry.
merge_purged_cands(src, dst, ws, dst_nth) ==
  LET push(ca, w) ==
        IF w \in ToSet(dst.cands[dst_nth].words) THEN ca
        ELSE remove_purged_words_from_dst_cand_array(src, push_purged_word(ca, dst_nth, w), ws)
  IN  FoldLeft(push, dst, ws)

\* Mutant: the word is taken over although the cache has it.
MergeCandidateMutant(src, n, stale, dst, cand) ==
  IF is_purged_cand(cand) THEN dst ELSE merge_word_to_real_cand_array(dst, cand)

\* One turn of the loop of merge_real_candidate_array.  It goes over the first
\* n candidates of dst, n counted before the loop: what is read beyond the end
\* of an array that shrank is freed memory, and `stale` says whether it
\* compares equal.
merge_candidate(src, n, stale, dst, cand) ==
  LET read == SubSeq(dst.cands, 1, IF n <= Len(dst.cands) THEN n ELSE Len(dst.cands))
      dup == cand \in ToSet(read) \/ (stale /\ n > Len(dst.cands))
      dst_purged == SelectInSeq(read, is_purged_cand)
  IN  CASE dup -> dst
        [] ~dup /\ is_purged_cand(cand) /\ dst_purged # 0 ->
             merge_purged_cands(src, dst, cand.words, dst_purged)
        [] ~dup /\ is_purged_cand(cand) /\ dst_purged = 0 ->
             merge_word_to_real_cand_array(
               remove_purged_words_from_dst_cand_array(src, dst, cand.words), cand)
        [] ~dup /\ ~is_purged_cand(cand) /\ dst_purged # 0
           /\ Head(cand.words) \in PurgedWords(dst) \ PurgedWords(src) -> dst
        [] OTHER -> merge_word_to_real_cand_array(dst, cand)

merge_real_candidate_array(src, dst, stale) ==
  FoldLeft(LAMBDA ca, cand : merge_candidate(src, dst.real, stale, ca, cand), dst, RealPart(src))

\* Mutant: the file's entry replaces the one in memory.
MergeLineMutant(src, dst, stale) == IF src.cached THEN src ELSE dst

\* compare_and_merge_skk_line when both have the entry, else a copy of src.
MergeLine(src, dst, stale) ==
  CASE ~src.cached -> dst
    [] src.cached /\ ~dst.cached -> src
    [] OTHER -> [merge_real_candidate_array(src, dst, stale) EXCEPT !.save = @ \/ src.save]
=============================================================================
