------------------------ MODULE MealPlanTrainerProofs ------------------------
(***************************************************************************)
(* Theorems of MealPlanTrainer, for every dump, every answer of the search *)
(* API and every number of runs.                                           *)
(***************************************************************************)
EXTENDS MealPlanTrainer, TLAPS

(***************************************************************************)
(* No product whatever passes: the wanted nutrients carry 2.0 of the 5.7   *)
(* that the sum is divided by (lstm995.py:93-113), so a score is at most   *)
(* 0.36, and 0.6 is asked for (141).                                       *)
(***************************************************************************)
THEOREM NothingPasses == \A nutri \in Nutriments : ~Passes(nutri)
<1> SUFFICES ASSUME NEW nutri \in Nutriments PROVE ~Passes(nutri)
  OBVIOUS
<1>1. Nutrient = {"fiber", "carbohydrates", "sugars", "proteins", "fat", "saturated_fat"}
  BY DEF Nutrient, Weight
<1>2. \A n \in DOMAIN nutri : nutri[n] \in 0 .. Scale
  BY DEF Nutriments
<1>3. Whole = 57
  BY <1>1 DEF Whole, Sum, Weight
<1>4. \A n \in {"fiber", "proteins"} : Part(nutri, n) \in Int /\ Part(nutri, n) <= 10 * Scale
  BY <1>2, ScaleAssumption DEF Part, Weight
<1>5. \A n \in {"carbohydrates", "sugars", "fat", "saturated_fat"} :
        Part(nutri, n) \in Int /\ Part(nutri, n) <= 0
  BY <1>2, ScaleAssumption DEF Part, Weight
<1>6. Score(nutri) \in Int /\ Score(nutri) <= 20 * Scale
  BY <1>1, <1>4, <1>5, ScaleAssumption DEF Score, Sum
<1> QED
  BY <1>3, <1>6, ScaleAssumption DEF Passes

\* What is streamed is a sample; every run comes down to the ten
\* examples, and so does every file it saves.
OnlyExamples ==
  /\ pc = "stream" => sample \in Seq(Lines) /\ Len(sample) <= Count
  /\ descriptions \subseteq {Examples}
  /\ pc \in {"train", "open_model", "write_model", "open_words", "write_words"} =>
       descriptions = {Examples}
  /\ model \in {Absent, Broken, {Examples}}
  /\ words \in {Absent, Broken, {Examples}}

IInv == TypeOK /\ OnlyExamples

LEMMA NothingKept == ASSUME NEW products PROVE Kept(products) = {}
  BY NothingPasses DEF Kept

LEMMA Initially == Init => IInv
  BY DEF Init, IInv, TypeOK, OnlyExamples, Places

\* What a killed download leaves of a sample is a sample, at most as long.
LEMMA Shortened ==
  ASSUME NEW s \in Seq(Lines), NEW n \in 0 .. Len(s)
  PROVE  LET whole == SubSeq(s, 1, n)
         IN /\ whole \in Seq(Lines) /\ Len(whole) = n
            /\ Append(whole, Blank) \in Seq(Lines) /\ Len(Append(whole, Blank)) = n + 1
<1> DEFINE whole == SubSeq(s, 1, n)
<1>1. whole \in Seq(Lines) /\ Len(whole) = n
  OBVIOUS
<1>2. Blank \in Lines
  BY DEF Lines
<1> HIDE DEF whole
<1>3. Append(whole, Blank) \in Seq(Lines) /\ Len(Append(whole, Blank)) = n + 1
  BY <1>1, <1>2
<1> QED
  BY <1>1, <1>3 DEF whole

LEMMA Stepwise == IInv /\ [Next]_vars => IInv'
<1> SUFFICES ASSUME IInv, [Next]_vars PROVE IInv'
  OBVIOUS
<1> USE DEF IInv, OnlyExamples
<1>1. CASE Start
  BY <1>1 DEF Start, Goes, TypeOK, files, Places
<1>2. CASE SkipDownload
  BY <1>2 DEF SkipDownload, Goes, TypeOK, files, Places
<1>3. CASE OpenSample
  <2>1. <<>> \in Seq(Lines) /\ Len(<<>>) <= Count
    BY TrainerAssumption
  <2> QED
    BY <1>3, <2>1 DEF OpenSample, Goes, TypeOK, Places
<1>4. CASE StreamLine
  <2>1. /\ sample \in Seq(Lines) /\ Len(sample) < SampleSize
        /\ sample' = Append(sample, Dump[Len(sample) + 1])
    BY <1>4 DEF StreamLine, Goes
  <2>2. Len(sample) < Count /\ Len(sample) < Len(Dump)
    BY <2>1, TrainerAssumption DEF SampleSize
  <2>3. Dump[Len(sample) + 1] \in Lines
    BY <2>1, <2>2, TrainerAssumption
  <2>4. sample' \in Seq(Lines) /\ Len(sample') <= Count
    <3>1. Count \in Nat
      BY TrainerAssumption
    <3> QED
      BY <2>1, <2>2, <2>3, <3>1
  <2> QED
    BY <1>4, <2>4 DEF StreamLine, Goes, TypeOK, Places
<1>5. CASE StreamEnds
  BY <1>5 DEF StreamEnds, Goes, TypeOK, files, Places
<1>6. CASE UseApi
  <2>1. PICK found \in (IF "use_api" \in args THEN Offers ELSE {{}}) :
          descriptions' = Kept(found)
    BY <1>6 DEF UseApi
  <2>2. descriptions' = {}
    BY <2>1, NothingKept
  <2> QED
    BY <1>6, <2>2 DEF UseApi, Goes, TypeOK, files, Places
<1>7. CASE LoadDump
  <2> DEFINE read == IF descriptions = {} /\ sample # Absent
                     THEN {sample[i] : i \in 1 .. Len(sample)} ELSE {}
             all == descriptions \cup Kept(read)
  <2>1. descriptions' = IF all = {} THEN {Examples} ELSE all
    BY <1>7 DEF LoadDump
  <2>2. descriptions' = {Examples}
    BY <2>1, NothingKept
  <2> QED
    BY <1>7, <2>2 DEF LoadDump, Goes, TypeOK, files, Places
<1>8. CASE Train
  BY <1>8 DEF Train, Goes, TypeOK, files, Places
<1>9. CASE OpenModel
  BY <1>9 DEF OpenModel, Goes, TypeOK, Places
<1>10. CASE WriteModel
  BY <1>10 DEF WriteModel, Goes, TypeOK, Places
<1>11. CASE OpenWords
  BY <1>11 DEF OpenWords, Goes, TypeOK, Places
<1>12. CASE WriteWords
  BY <1>12 DEF WriteWords, Goes, TypeOK, Places
<1>13. CASE Kill
  <2>1. sample' = Absent \/ (sample' \in Seq(Lines) /\ Len(sample') <= Count)
    <3>1. CASE pc # "stream"
      BY <1>13, <3>1 DEF Kill, TypeOK
    <3>2. CASE pc = "stream"
      <4>1. sample \in Seq(Lines) /\ Len(sample) <= Count
        BY <3>2
      <4>2. PICK n \in 0 .. Len(sample) :
              \/ sample' = SubSeq(sample, 1, n)
              \/ n < Len(sample) /\ sample' = Append(SubSeq(sample, 1, n), Blank)
        BY <1>13, <3>2 DEF Kill
      <4>3. /\ SubSeq(sample, 1, n) \in Seq(Lines) /\ Len(SubSeq(sample, 1, n)) = n
            /\ Append(SubSeq(sample, 1, n), Blank) \in Seq(Lines)
            /\ Len(Append(SubSeq(sample, 1, n), Blank)) = n + 1
        BY <4>1, Shortened
      <4>4. Len(sample) \in Nat /\ Count \in Nat
        BY <4>1, TrainerAssumption
      <4>5. CASE sample' = SubSeq(sample, 1, n)
        BY <4>1, <4>3, <4>4, <4>5
      <4>6. CASE n < Len(sample) /\ sample' = Append(SubSeq(sample, 1, n), Blank)
        BY <4>1, <4>3, <4>4, <4>6
      <4> QED
        BY <4>2, <4>5, <4>6
    <3> QED
      BY <3>1, <3>2
  <2> QED
    BY <1>13, <2>1 DEF Kill, TypeOK, Places
<1>14. CASE UNCHANGED vars
  BY <1>14 DEF vars, TypeOK
<1> QED
  BY <1>1, <1>2, <1>3, <1>4, <1>5, <1>6, <1>7, <1>8, <1>9, <1>10, <1>11, <1>12, <1>13, <1>14
  DEF Next

LEMMA Invariant == Spec => []IInv
  BY Initially, Stepwise, PTL DEF Spec

\* A sample is absent or has at most the lines asked for, whenever runs are killed.
THEOREM TypeCorrect == Spec => []TypeOK
<1>1. IInv => TypeOK
  BY DEF IInv
<1> QED
  BY Invariant, <1>1, PTL

(***************************************************************************)
(* The model on disk and the vocabulary on disk are of the same            *)
(* descriptions, because no product can pass (NothingPasses): the two      *)
(* saves (lstm995.py:925-929) are not what keeps them together.            *)
(***************************************************************************)
THEOREM SavedTogether == Spec => []SavedFilesFit
<1>1. IInv => SavedFilesFit
  BY DEF IInv, OnlyExamples, SavedFilesFit
<1> QED
  BY Invariant, <1>1, PTL

-----------------------------------------------------------------------------
\* What runs train on and save, whatever the dump and the search API have.
RunsOnExamples ==
  /\ pc \in {"train", "open_model", "write_model", "open_words", "write_words"} =>
       descriptions = {Examples}
  /\ {model, words} \subseteq {Absent, Broken, {Examples}}

(***************************************************************************)
(* A downloaded sample and the search API make no difference: every run    *)
(* trains on the ten examples in the text (lstm995.py:859-893), and saves  *)
(* what they give.                                                         *)
(***************************************************************************)
THEOREM DataMakesNoDifference == Spec => []RunsOnExamples
<1>1. IInv => RunsOnExamples
  BY DEF IInv, OnlyExamples, RunsOnExamples
<1> QED
  BY Invariant, <1>1, PTL

-----------------------------------------------------------------------------
\* A sample is the beginning of the dump, but for half a line at its end.
SampleIsPrefix ==
  \/ sample = Absent
  \/ /\ Len(sample) <= SampleSize
     /\ \A i \in 1 .. Len(sample) :
          sample[i] = Dump[i] \/ (pc # "stream" /\ i = Len(sample) /\ sample[i] = Blank)

\* Only the run that made a sample changes it: what a killed one leaves stays.
SampleStays == [][pc # "stream" /\ sample # Absent => sample' = sample]_vars

Streamed ==
  /\ Len(sample) <= SampleSize
  /\ \A i \in 1 .. Len(sample) : sample[i] = Dump[i]

Cut == (pc = "stream" => Streamed) /\ SampleIsPrefix

LEMMA SizeBound == SampleSize \in Nat /\ SampleSize <= Count /\ SampleSize <= Len(Dump)
BY TrainerAssumption DEF SampleSize

LEMMA CutKilled ==
  ASSUME IInv, Cut, Kill, pc = "stream"
  PROVE  Cut'
<1>1. sample \in Seq(Lines) /\ Len(sample) \in Nat
  BY DEF IInv, OnlyExamples
<1>2. Streamed
  BY DEF Cut
<1>3. PICK n \in 0 .. Len(sample) :
        \/ sample' = SubSeq(sample, 1, n)
        \/ n < Len(sample) /\ sample' = Append(SubSeq(sample, 1, n), Blank)
  BY DEF Kill
<1> DEFINE whole == SubSeq(sample, 1, n)
<1>4. /\ whole \in Seq(Lines) /\ Len(whole) = n /\ Blank \in Lines
      /\ \A i \in 1 .. n : whole[i] = Dump[i]
  <2>1. \A i \in 1 .. n : i \in 1 .. Len(sample)
    BY <1>1
  <2>2. \A i \in 1 .. n : whole[i] = sample[i]
    BY <1>1
  <2> QED
    BY <1>1, <1>2, <2>1, <2>2 DEF Streamed, Lines
<1> HIDE DEF whole
<1>5. n \in Nat /\ n <= Len(sample)
  BY <1>1
<1>6. pc' = "idle"
  BY DEF Kill
<1>7. CASE sample' = whole
  <2>1. Len(sample') <= SampleSize
    BY <1>1, <1>2, <1>4, <1>5, <1>7, SizeBound DEF Streamed
  <2> QED
    BY <1>4, <1>6, <1>7, <2>1 DEF Cut, SampleIsPrefix
<1>8. CASE n < Len(sample) /\ sample' = Append(whole, Blank)
  <2>1. /\ Len(sample') = n + 1 /\ sample'[n + 1] = Blank
        /\ \A i \in 1 .. n : sample'[i] = whole[i]
    BY <1>4, <1>8
  <2>2. n + 1 <= SampleSize
    BY <1>1, <1>2, <1>5, <1>8, SizeBound DEF Streamed
  <2>3. \A i \in 1 .. n + 1 : i \in 1 .. n \/ i = n + 1
    BY <1>5
  <2>4. SampleIsPrefix'
    BY <1>4, <1>6, <2>1, <2>2, <2>3 DEF SampleIsPrefix
  <2> QED
    BY <1>6, <2>4 DEF Cut
<1> QED
  BY <1>3, <1>7, <1>8 DEF whole

LEMMA CutStep == IInv /\ Cut /\ [Next]_vars => Cut'
<1> SUFFICES ASSUME IInv, Cut, [Next]_vars PROVE Cut'
  OBVIOUS
<1>1. ASSUME pc' # "stream", UNCHANGED sample PROVE Cut'
  <2>1. CASE sample = Absent
    BY <1>1, <2>1 DEF Cut, SampleIsPrefix
  <2>2. CASE sample # Absent
    BY <1>1, <2>2 DEF Cut, SampleIsPrefix
  <2> QED
    BY <2>1, <2>2
<1>2. CASE OpenSample
  <2>1. Len(sample') = 0 /\ \A i \in 1 .. 0 : FALSE
    BY <1>2 DEF OpenSample
  <2> QED
    BY <2>1, SizeBound DEF Cut, SampleIsPrefix, Streamed
<1>3. CASE StreamLine
  <2>1. /\ sample \in Seq(Lines) /\ Len(sample) \in Nat /\ Streamed
        /\ sample' = Append(sample, Dump[Len(sample) + 1]) /\ Len(sample) < SampleSize
    BY <1>3 DEF StreamLine, Goes, IInv, OnlyExamples, Cut
  <2>2. PICK n \in Nat : n = Len(sample)
    BY <2>1
  <2>3. Dump[n + 1] \in Lines
    BY <2>1, <2>2, SizeBound, TrainerAssumption
  <2>4. /\ Len(sample') = n + 1 /\ sample'[n + 1] = Dump[n + 1]
        /\ \A i \in 1 .. n : sample'[i] = sample[i]
    BY <2>1, <2>2, <2>3
  <2>5. \A i \in 1 .. n + 1 : i \in 1 .. n \/ i = n + 1
    OBVIOUS
  <2>6. n + 1 <= SampleSize
    BY <2>1, <2>2, SizeBound
  <2>7. \A i \in 1 .. n : sample[i] = Dump[i]
    BY <2>1, <2>2 DEF Streamed
  <2>8. Streamed'
    BY <2>4, <2>5, <2>6, <2>7, SizeBound DEF Streamed, SampleSize
  <2> QED
    BY <2>8 DEF Streamed, Cut, SampleIsPrefix
<1>4. CASE StreamEnds
  BY <1>4 DEF StreamEnds, Goes, files, Cut, SampleIsPrefix, Streamed
<1>5. CASE Kill
  BY <1>1, <1>5, CutKilled DEF Kill
<1>6. CASE UNCHANGED vars
  BY <1>6 DEF vars, Cut, SampleIsPrefix, Streamed
<1>7. CASE \/ Start \/ SkipDownload \/ UseApi \/ LoadDump \/ Train
           \/ OpenModel \/ WriteModel \/ OpenWords \/ WriteWords
  BY <1>1, <1>7 DEF Start, SkipDownload, UseApi, LoadDump, Train, OpenModel, WriteModel, OpenWords,
     WriteWords, Goes, files
<1> QED
  BY <1>2, <1>3, <1>4, <1>5, <1>6, <1>7 DEF Next

LEMMA CutAlways == Spec => [](IInv /\ Cut)
<1>1. Init => Cut
  BY DEF Init, Cut, SampleIsPrefix
<1> QED
  BY <1>1, CutStep, Invariant, PTL DEF Spec

(***************************************************************************)
(* What any number of killed runs leave of the sample is lines of the dump *)
(* in their order, at most the last of them half written; and since the    *)
(* name exists (lstm995.py:747), no later run completes or replaces it.    *)
(***************************************************************************)
THEOREM TornSampleStays == Spec => []SampleIsPrefix /\ SampleStays
<1>1. Cut => SampleIsPrefix
  BY DEF Cut
<1>2. [Next]_vars => [pc # "stream" /\ sample # Absent => sample' = sample]_vars
  BY DEF Next, Start, SkipDownload, OpenSample, StreamLine, StreamEnds, UseApi, LoadDump, Train,
     OpenModel, WriteModel, OpenWords, WriteWords, Kill, Goes, files
<1> QED
  BY <1>1, <1>2, CutAlways, PTL DEF Spec, SampleStays

-----------------------------------------------------------------------------
\* How many steps a run has before it: the lines to stream, the files to write.
StepsLeft ==
  CASE pc = "idle" -> 0 [] pc = "write_words" -> 1 [] pc = "open_words" -> 2
    [] pc = "write_model" -> 3 [] pc = "open_model" -> 4 [] pc = "train" -> 5
    [] pc = "load" -> 6 [] pc = "api" -> 7
    [] pc = "stream" -> 8 + (SampleSize - Len(sample))
    [] pc = "download" -> 9 + SampleSize

RunAdvances == [][pc # "idle" => StepsLeft' < StepsLeft]_vars

(***************************************************************************)
(* A run ends after at most 9 + SampleSize steps, whatever is on the disk  *)
(* and whatever the servers answer: it streams no more than it was asked   *)
(* for, and goes back to nothing (lstm995.py:841-929).                     *)
(***************************************************************************)
THEOREM EveryStepAdvances == Spec => RunAdvances
<1>1. IInv /\ Cut /\ [Next]_vars => [pc # "idle" => StepsLeft' < StepsLeft]_vars
  <2> SUFFICES ASSUME IInv, Cut, Next, pc # "idle" PROVE StepsLeft' < StepsLeft
    OBVIOUS
  <2>1. pc = "stream" => Len(sample) \in Nat /\ Len(sample) <= SampleSize
    BY DEF IInv, OnlyExamples, Cut, Streamed
  <2>2. PICK m \in Nat : m = SampleSize
    BY SizeBound
  <2>3. SampleSize' = SampleSize
    BY DEF SampleSize
  <2>4. CASE OpenSample
    <3>1. Len(sample') = 0 /\ pc = "download" /\ pc' = "stream"
      BY <2>4 DEF OpenSample, Goes
    <3> QED
      BY <2>2, <2>3, <3>1 DEF StepsLeft
  <2>5. CASE StreamLine
    <3>1. PICK n \in Nat : n = Len(sample)
      BY <2>1, <2>5 DEF StreamLine, Goes
    <3>2. pc = "stream" /\ pc' = "stream" /\ n < m /\ Len(sample') = n + 1
      <4>1. sample \in Seq(Lines) /\ n < m /\ sample' = Append(sample, Dump[n + 1])
        BY <2>2, <2>5, <3>1 DEF StreamLine, Goes, IInv, OnlyExamples
      <4>2. Len(Append(sample, Dump[n + 1])) = Len(sample) + 1
        BY <4>1
      <4> QED
        BY <2>5, <3>1, <4>1, <4>2 DEF StreamLine, Goes
    <3> QED
      BY <2>2, <2>3, <3>1, <3>2 DEF StepsLeft
  <2>6. CASE StreamEnds
    <3>1. PICK n \in Nat : n = Len(sample) /\ n <= m
      BY <2>1, <2>2, <2>6 DEF StreamEnds, Goes
    <3> QED
      BY <2>2, <2>3, <2>6, <3>1 DEF StepsLeft, StreamEnds, Goes
  <2>7. CASE Kill
    <3>1. pc = "stream" => \E n \in Nat : n = Len(sample) /\ n <= m
      BY <2>1, <2>2
    <3>2. pc \in Places /\ pc' = "idle"
      BY <2>7 DEF Kill, IInv, TypeOK
    <3> QED
      BY <2>2, <2>3, <3>1, <3>2 DEF StepsLeft, Places
  <2>8. CASE \/ Start \/ SkipDownload \/ UseApi \/ LoadDump \/ Train
             \/ OpenModel \/ WriteModel \/ OpenWords \/ WriteWords
    BY <2>2, <2>3, <2>8 DEF StepsLeft, Start, SkipDownload, UseApi, LoadDump, Train, OpenModel,
       WriteModel, OpenWords, WriteWords, Goes
  <2> QED
    BY <2>4, <2>5, <2>6, <2>7, <2>8 DEF Next
<1> QED
  BY <1>1, CutAlways, PTL DEF Spec, RunAdvances
=============================================================================
