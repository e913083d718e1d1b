--------------------------- MODULE MealPlanTrainer ---------------------------
(***************************************************************************)
(* The meal planner of src/lstm/lstm995.py, started any number of times in *)
(* one directory and killed at any moment.  What outlives a run are three  *)
(* files: the sample of products, the model and its vocabulary.  Numbers   *)
(* of the network are left out: a model or a vocabulary is known by the    *)
(* descriptions it was made from.                                          *)
(*                                                                         *)
(* Not kept: scraped_products.jsonl, which is written and never read; the  *)
(* limit of 15000 descriptions, which is above the 5000 lines of a sample; *)
(* --dump with another file.                                               *)
(***************************************************************************)
EXTENDS NutritionScore, Sequences

CONSTANTS Dump,     \* the lines that the server has: products, or Blank
          Count,    \* how many of them make a sample (5000 in the code)
          Offers,   \* what the search API may return: sets of products
          Blank,    \* a line without a product, or half of one
          Examples, \* the ten descriptions in the text of the program
          Absent, Broken

Lines == Nutriments \cup {Blank}

ASSUME TrainerAssumption ==
  /\ Dump \in Seq(Lines) /\ Count \in Nat /\ Offers \subseteq SUBSET Nutriments
  /\ Examples \notin Nutriments

VARIABLES sample,       \* sample_products.jsonl
          model, words, \* off_lstm_model.pt and off_vocab.json
          pc, args,     \* the run: where it stands, its flags
          descriptions  \* what it will train on

vars == <<sample, model, words, pc, args, descriptions>>
files == <<sample, model, words>>

Places == {"idle", "download", "stream", "api", "load", "train", "open_model", "write_model",
           "open_words", "write_words"}
Flags == {"download_sample", "use_api"}

Init ==
  /\ sample = Absent /\ model = Absent /\ words = Absent
  /\ pc = "idle" /\ args = {} /\ descriptions = {}

Goes(from, to) == pc = from /\ pc' = to

Start ==
  /\ Goes("idle", "download")
  /\ args' \in SUBSET Flags
  /\ descriptions' = {}
  /\ UNCHANGED files

-----------------------------------------------------------------------------
(* download_sample_dump *)

SampleSize == IF Count < Len(Dump) THEN Count ELSE Len(Dump)

\* No sample is asked for, or there is one, or the request fails.
SkipDownload == Goes("download", "api") /\ UNCHANGED <<files, args, descriptions>>

OpenSample ==
  /\ "download_sample" \in args
  /\ sample = Absent
  /\ Goes("download", "stream")
  /\ sample' = <<>>
  /\ UNCHANGED <<model, words, args, descriptions>>

\* Mutant of StreamLine: the line is written before the count is looked at.
StreamLineThenCount ==
  /\ Goes("stream", "stream")
  /\ Len(sample) <= Count /\ Len(sample) < Len(Dump)
  /\ sample' = Append(sample, Dump[Len(sample) + 1])
  /\ UNCHANGED <<model, words, args, descriptions>>

StreamLine ==
  /\ Goes("stream", "stream")
  /\ Len(sample) < SampleSize
  /\ sample' = Append(sample, Dump[Len(sample) + 1])
  /\ UNCHANGED <<model, words, args, descriptions>>

\* The lines are all there, or the stream breaks; the file is closed either way.
StreamEnds == Goes("stream", "api") /\ UNCHANGED <<files, args, descriptions>>

-----------------------------------------------------------------------------
\* Products that are graded high enough.
Kept(products) == {p \in products \cap Nutriments : Passes(p)}

(* fetch_from_openfoodfacts_api; a query that fails finds nothing. *)
UseApi ==
  /\ Goes("api", "load")
  /\ \E found \in IF "use_api" \in args THEN Offers ELSE {{}} :
       descriptions' = Kept(found)
  /\ UNCHANGED <<files, args>>

(* load_from_openfoodfacts_dump, and what is used when nothing is loaded. *)
LoadDump ==
  /\ Goes("load", "train")
  /\ LET read == IF descriptions = {} /\ sample # Absent
                 THEN {sample[i] : i \in 1 .. Len(sample)} ELSE {}
         all == descriptions \cup Kept(read)
     IN descriptions' = IF all = {} THEN {Examples} ELSE all
  /\ UNCHANGED <<files, args>>

Train == Goes("train", "open_model") /\ UNCHANGED <<files, args, descriptions>>

(* Each file is truncated and then written; the model comes first. *)
OpenModel ==
  /\ Goes("open_model", "write_model")
  /\ model' = Broken
  /\ UNCHANGED <<sample, words, args, descriptions>>

WriteModel ==
  /\ Goes("write_model", "open_words")
  /\ model' = descriptions
  /\ UNCHANGED <<sample, words, args, descriptions>>

OpenWords ==
  /\ Goes("open_words", "write_words")
  /\ words' = Broken
  /\ UNCHANGED <<sample, model, args, descriptions>>

WriteWords ==
  /\ Goes("write_words", "idle")
  /\ words' = descriptions
  /\ descriptions' = {}
  /\ UNCHANGED <<sample, model, args>>

\* Killed while it streams, a run leaves what had reached the disk, maybe half a
\* line.  (Half a character stops the run that reads it, which is a Kill as well.)
Kill ==
  /\ pc # "idle" /\ pc' = "idle"
  /\ descriptions' = {}
  /\ IF pc = "stream"
     THEN \E n \in 0 .. Len(sample) :
            LET whole == SubSeq(sample, 1, n)
            IN sample' \in {whole} \cup (IF n < Len(sample) THEN {Append(whole, Blank)} ELSE {})
     ELSE UNCHANGED sample
  /\ UNCHANGED <<model, words, args>>

Next ==
  \/ Start \/ SkipDownload \/ OpenSample \/ StreamLine \/ StreamEnds \/ UseApi \/ LoadDump
  \/ Train \/ OpenModel \/ WriteModel \/ OpenWords \/ WriteWords \/ Kill

Spec == Init /\ [][Next]_vars

-----------------------------------------------------------------------------
\* What the files and the locals of a run (lstm995.py:841-929) can hold; a
\* sample has at most as many lines as were asked for (781).
TypeOK ==
  /\ sample = Absent \/ (sample \in Seq(Lines) /\ Len(sample) <= Count)
  /\ \A file \in {model, words} :
       file \in {Absent, Broken} \/ file \subseteq Nutriments \cup {Examples}
  /\ pc \in Places /\ args \subseteq Flags
  /\ descriptions \subseteq Nutriments \cup {Examples}

(***************************************************************************)
(* The model and the vocabulary on disk are of the same descriptions, even *)
(* when runs were killed between the two saves (925-929).  They are, for a *)
(* reason that is nowhere in these lines: no product passes, and every run *)
(* trains on the ten examples.                                             *)
(***************************************************************************)
SavedFilesFit == {model, words} \cap {Absent, Broken} = {} => model = words
=============================================================================
