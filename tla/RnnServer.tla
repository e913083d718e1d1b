----------------------------- MODULE RnnServer -----------------------------
(***************************************************************************)
(* The character RNN of src/ml1.py under Flask's threads: ten globals, the *)
(* vocabulary and the weights made for it, and a file that keeps only the  *)
(* weights.  Every assignment of a global is a step; a value is known by   *)
(* the text it was made from, which gives its shape.  What a request does  *)
(* before it first reads or writes a global (the remote fetches) changes   *)
(* nothing and is not kept.                                                *)
(***************************************************************************)
EXTENDS Naturals, Sequences, FiniteSets

CONSTANTS Job,            \* requests under way
          Text,           \* the texts a vocabulary can be made from
          Static,         \* "tofu wrap", which meal_data is at import
          Empty,          \* what a scrape without descriptions leaves
          Chars,          \* the letters of each text
          Long,           \* texts of more than seq_length letters
          Iters, Draws,   \* bounds: training iterations, letters generated,
          MaxRebuilds,    \* rebuilds in the life of the file
          None, Absent, Broken

ASSUME TextAssumption ==
  /\ {Static, Empty} \subseteq Text /\ None \notin Text
  /\ Long \subseteq Text \ {Static, Empty}
  \* a one-letter alphabet would be broadcast to any other by NumPy
  /\ \A t \in Text : /\ IsFiniteSet(Chars[t]) /\ Cardinality(Chars[t]) # 1
                     /\ Chars[t] = {} <=> t = Empty
  /\ Iters \in Nat \ {0} /\ Draws \in Nat \ {0} /\ MaxRebuilds \in Nat

Weights == <<"Wxh", "Whh", "Why", "bh", "by">>
WeightNames == {Weights[i] : i \in DOMAIN Weights}

\* The globals in the order in which a rebuild assigns them.
Rebuilt == <<"meal_data", "chars", "vocab_size", "char_to_ix", "ix_to_char",
             "Wxh", "Whh", "Why", "bh", "by">>
Globals == {Rebuilt[i] : i \in DOMAIN Rebuilt}

ASSUME FileAssumption == \A h \in [WeightNames -> Text \cup {None}] : h \notin {Absent, Broken}

VARIABLES env,    \* global -> the text its value was made from
          file,   \* rnn_model.pkl
          req,    \* the local state of every request
          outcome, \* observed: how a request ended in the step just taken
          sound,   \* observed: the last rebuild was not disturbed
          rebuilds \* rebuilds begun, for the bound

vars == <<env, file, req, outcome, sound, rebuilds>>

Outcomes == {"none", "trained", "answered", "refused", "failed", "blank"}
Fresh == [kind |-> "none", pc |-> "idle", text |-> None, held |-> [w \in WeightNames |-> None],
          step |-> 1, left |-> 0, x |-> 0, top |-> 0]

\* Mutant of AtImport: a vocabulary is made of the text at hand.
AtImportWithVocabulary == [g \in Globals |-> IF g \in WeightNames THEN None ELSE Static]

AtImport == [g \in Globals |-> CASE g = "meal_data" -> Static
                                 [] g \in WeightNames -> None
                                 [] OTHER -> Empty]

Init ==
  /\ env = AtImport
  /\ file = Absent
  /\ req = [j \in Job |-> Fresh]
  /\ outcome = "none"
  /\ sound = FALSE
  /\ rebuilds = 0

Busy(j) == req[j].pc # "idle"
Rebuilding(j) == Busy(j) /\ req[j].kind = "rebuild"
Saving(j) == req[j].pc \in {"write", "clash"}

\* The size of the vocabulary a value was made for; weights not made have none.
Size(t) == IF t = None THEN 0 ELSE Cardinality(Chars[t])
VocabSize == Size(env["vocab_size"])
AllSet == \A w \in WeightNames : env[w] # None

\* The request goes on as r; it ends; it raises an exception.
GoOn(j, r) == req' = [req EXCEPT ![j] = r] /\ outcome' = "none"
End(j, how) == req' = [req EXCEPT ![j] = Fresh] /\ outcome' = how

\* Mutant of Raise: what failed is tried again.
RaiseRetry(j) == GoOn(j, req[j])

Raise(j) == End(j, "failed")

(***************************************************************************)
(* /scrape_kroger_train_rnn and /pubmed_train: a new text, everything that *)
(* is made from it, training.  A scrape that gets no description, as with  *)
(* an expired token, goes on with the empty text.                          *)
(***************************************************************************)
StartRebuild(j, texts) ==
  /\ ~Busy(j)
  /\ rebuilds < MaxRebuilds
  /\ \E t \in texts : GoOn(j, [Fresh EXCEPT !.kind = "rebuild", !.pc = "assign", !.text = t])
  /\ UNCHANGED <<env, file>>

Scrape(j) == StartRebuild(j, Text \ {Static})
FetchPubmed(j) == StartRebuild(j, Text \ {Static, Empty})

\* What the value of a global is computed from.
Source(g) ==
  IF g \in {"vocab_size", "char_to_ix", "ix_to_char"} THEN "chars"
  ELSE IF g = "chars" THEN "meal_data" ELSE "vocab_size"

\* Mutant of Made: weights that exist are kept.
MadeLazily(j, g) == IF g = "meal_data" THEN req[j].text
                    ELSE IF g \in WeightNames /\ env[g] # None THEN env[g] ELSE env[Source(g)]

Made(j, g) == IF g = "meal_data" THEN req[j].text ELSE env[Source(g)]

Assign(j) ==
  /\ req[j].pc = "assign"
  /\ LET g == Rebuilt[req[j].step] IN env' = [env EXCEPT ![g] = Made(j, g)]
  /\ GoOn(j, IF req[j].step = Len(Rebuilt)
             THEN [req[j] EXCEPT !.pc = "encode", !.step = 1]
             ELSE [req[j] EXCEPT !.step = @ + 1])
  /\ UNCHANGED file

(***************************************************************************)
(* train_rnn.  Text keeps the vocabulary meal_data was encoded with.  A    *)
(* text that is not Long has fewer targets than inputs, and the first      *)
(* lossFun raises, before anything is written.                             *)
(***************************************************************************)
EncodeFor(j, kind) ==
  /\ IF /\ Chars[env["meal_data"]] \subseteq Chars[env["char_to_ix"]]
        /\ env["meal_data"] \in Long
     THEN GoOn(j, [Fresh EXCEPT !.kind = kind, !.pc = "forward", !.left = Iters,
                                !.text = env["char_to_ix"]])
     ELSE Raise(j)
  /\ UNCHANGED <<env, file>>

Encode(j) == req[j].pc = "encode" /\ EncodeFor(j, "rebuild")
TrainRnn(j) == ~Busy(j) /\ EncodeFor(j, "train")

\* An index of the encoded text may be outside an array of size n.
MayExceed(j, n) == Size(req[j].text) > n

\* lossFun and the gradients, which have the shapes the weights have now.
Forward(j) ==
  /\ req[j].pc = "forward"
  /\ LET fits == /\ AllSet
                 /\ Size(env["Wxh"]) = VocabSize
                 /\ Size(env["Why"]) = Size(env["by"])
     IN \/ /\ fits
           /\ GoOn(j, [req[j] EXCEPT !.pc = "take", !.step = 1,
                                     !.held = [w \in WeightNames |-> env[w]]])
        \/ /\ ~fits \/ MayExceed(j, VocabSize) \/ MayExceed(j, Size(env["Why"]))
           /\ Raise(j)
  /\ UNCHANGED <<env, file>>

\* "W -= learning_rate * dW" loads the global, subtracts in place ...
Take(j) ==
  LET w == Weights[req[j].step] IN
  /\ req[j].pc = "take"
  /\ IF w \in {"Wxh", "Why", "by"} /\ Size(env[w]) # Size(req[j].held[w])
     THEN Raise(j)
     ELSE GoOn(j, [req[j] EXCEPT !.pc = "put", !.held[w] = env[w]])
  /\ UNCHANGED <<env, file>>

\* Mutant of LastWeight: the loop runs one too far.
LastWeightOffByOne(j) == req[j].step > Len(Weights)

LastWeight(j) == req[j].step = Len(Weights)

\* ... and stores the object back, whatever the global has become.
Put(j) ==
  LET w == Weights[req[j].step] IN
  /\ req[j].pc = "put"
  /\ env' = [env EXCEPT ![w] = req[j].held[w]]
  /\ GoOn(j, IF LastWeight(j)
             THEN [req[j] EXCEPT !.pc = "report", !.held = Fresh.held, !.step = 1]
             ELSE [req[j] EXCEPT !.pc = "take", !.step = @ + 1])
  /\ UNCHANGED file

\* sample can go on from an x of size n: every product and choice fits.
CanSample(n) ==
  /\ AllSet
  /\ Size(env["Wxh"]) = n
  /\ Size(env["Why"]) = VocabSize /\ Size(env["by"]) = VocabSize
  /\ VocabSize > 0

\* Every tenth iteration, the first included, prints a sample.
Report(j) ==
  /\ req[j].pc = "report"
  /\ LET prints == CanSample(VocabSize) /\ Size(env["ix_to_char"]) >= VocabSize
     IN \/ /\ prints \/ req[j].left < Iters
           /\ GoOn(j, [req[j] EXCEPT !.pc = IF req[j].left = 1 THEN "open" ELSE "forward",
                                     !.left = @ - 1])
        \/ /\ ~prints \/ MayExceed(j, VocabSize)
           /\ Raise(j)
  /\ UNCHANGED <<env, file>>

\* open(..., "wb") truncates; two who write at a time spoil each other's bytes.
Open(j) ==
  LET others == {k \in Job \ {j} : Saving(k)} IN
  /\ req[j].pc = "open"
  /\ file' = Broken
  /\ req' = [k \in Job |-> IF k = j \/ k \in others
                           THEN [req[k] EXCEPT !.pc = IF others = {} THEN "write" ELSE "clash"]
                           ELSE req[k]]
  /\ outcome' = "none"
  /\ UNCHANGED env

Write(j) ==
  /\ Saving(j)
  /\ \/ file' = [w \in WeightNames |-> env[w]]
     \/ req[j].pc = "clash" /\ file' = Broken
  /\ End(j, "trained")
  /\ UNCHANGED env

(***************************************************************************)
(* /mealplan and /mealplan2: load the weights over the globals, then       *)
(* sample.  The first takes any error of the load for "not trained", the   *)
(* second only that the file does not exist.                               *)
(***************************************************************************)
LoadFile(j, caught) ==
  /\ ~Busy(j)
  /\ IF file \in {Absent, Broken}
     THEN End(j, IF file \in caught THEN "refused" ELSE "failed")
     ELSE GoOn(j, [Fresh EXCEPT !.kind = "plan", !.pc = "bind", !.held = file])
  /\ UNCHANGED <<env, file>>

MealPlan(j) == LoadFile(j, {Absent, Broken})
MealPlan2(j) == LoadFile(j, {Absent})

\* The five stores follow each other without a call: no other thread gets between.
Bind(j) ==
  /\ req[j].pc = "bind"
  /\ env' = [g \in Globals |-> IF g \in WeightNames THEN req[j].held[g] ELSE env[g]]
  /\ GoOn(j, [Fresh EXCEPT !.kind = "plan", !.pc = "seed", !.left = Draws])
  /\ UNCHANGED file

\* Mutant of Seeds: a letter that is not known gets a number of its own.
SeedsPastEnd == 0 .. Size(env["char_to_ix"])

\* The first letter of the goal: a letter of the vocabulary, or the default.
Seeds == {0} \cup 0 .. Size(env["char_to_ix"]) - 1

\* goal[0] is an IndexError if the goal was blank: nothing has checked it.
Seed(j) ==
  /\ req[j].pc = "seed"
  /\ \/ End(j, "blank")
     \/ \E s \in Seeds : IF s < VocabSize
                         THEN GoOn(j, [req[j] EXCEPT !.pc = "draw", !.x = VocabSize])
                         ELSE Raise(j)
  /\ UNCHANGED <<env, file>>

Draw(j) ==
  /\ req[j].pc = "draw"
  /\ IF CanSample(req[j].x)
     THEN \E ix \in 0 .. VocabSize - 1 :
            GoOn(j, [req[j] EXCEPT !.pc = IF req[j].left = 1 THEN "decode" ELSE "draw",
                                   !.left = @ - 1, !.x = VocabSize,
                                   !.top = IF ix > @ THEN ix ELSE @])
     ELSE Raise(j)
  /\ UNCHANGED <<env, file>>

Decode(j) ==
  /\ req[j].pc = "decode"
  /\ IF req[j].top < Size(env["ix_to_char"])
     THEN End(j, "answered")
     ELSE Raise(j)
  /\ UNCHANGED <<env, file>>

\* The server stops, at any moment, and is started again.
Restart ==
  /\ env' = AtImport
  /\ req' = [j \in Job |-> Fresh]
  /\ outcome' = "none"
  /\ sound' = FALSE
  /\ UNCHANGED <<file, rebuilds>>

Overlap == \E j \in Job : Rebuilding(j) /\ \E k \in Job \ {j} : Busy(k)
Clash == \E j \in Job : req[j].pc = "clash"

(***************************************************************************)
(* A rebuild from a long enough text makes the model sound, if no other    *)
(* request is busy while it lasts; what ends it is another rebuild that is *)
(* not like that, two saves at a time and a restart.                       *)
(***************************************************************************)
Observe ==
  LET begun == {j \in Job : ~Busy(j) /\ Rebuilding(j)'} IN
  /\ rebuilds' = rebuilds + Cardinality(begun)
  /\ sound' = /\ ~Overlap' /\ ~Clash'
              /\ IF begun = {} THEN sound ELSE \A j \in begun : req'[j].text \in Long

Step(j) ==
  \/ Assign(j) \/ Encode(j) \/ Forward(j) \/ Take(j) \/ Put(j) \/ Report(j) \/ Open(j) \/ Write(j)
  \/ Bind(j) \/ Seed(j) \/ Draw(j) \/ Decode(j)

Request(j) == Scrape(j) \/ FetchPubmed(j) \/ TrainRnn(j) \/ MealPlan(j) \/ MealPlan2(j)

Next == Restart \/ \E j \in Job : (Request(j) \/ Step(j)) /\ Observe

\* A thread that can go on does; requests and restarts come when they please.
Spec == Init /\ [][Next]_vars /\ \A j \in Job : WF_vars(Step(j) /\ Observe)

-----------------------------------------------------------------------------
\* The values of the variables: each global is as ml1.py:52-54 and a rebuild can make it.
TypeOK ==
  /\ env \in [Globals -> Text \cup {None}]
  /\ file \in {Absent, Broken} \cup [WeightNames -> Text \cup {None}]
  /\ \A j \in Job :
       /\ req[j].kind \in {"none", "rebuild", "train", "plan"}
       /\ req[j].text \in Text \cup {None}
       /\ req[j].held \in [WeightNames -> Text \cup {None}]
       /\ req[j].step \in 1 .. (IF req[j].pc = "assign" THEN Len(Rebuilt) ELSE Len(Weights))
       /\ req[j].left \in 0 .. (IF req[j].kind = "plan" THEN Draws ELSE Iters)
       /\ req[j].x \in Nat /\ req[j].top \in Nat
  /\ outcome \in Outcomes
  /\ sound \in BOOLEAN /\ rebuilds \in 0 .. MaxRebuilds

(***************************************************************************)
(* After a rebuild that nothing disturbed, and through all training and    *)
(* generation that follows in any number of threads (ml1.py:77-136,        *)
(* 259-298), the vocabulary, the weights and the file are those of one     *)
(* text, until two requests save at a time, another rebuild is disturbed   *)
(* or is given too short a text, or the server is restarted.               *)
(***************************************************************************)
ModelFitsVocabulary ==
  sound /\ (\A j \in Job : ~Rebuilding(j)) =>
    \E t \in Long : /\ \A g \in Globals : env[g] = t
                    /\ \/ file = [w \in WeightNames |-> t]
                       \/ file = Broken /\ \E j \in Job : Saving(j)

(***************************************************************************)
(* While the model is sound, a training or a plan fails or is told "not    *)
(* trained" (ml1.py:119-120, 294-295) only if a file is being written or a *)
(* rebuild is at work, with one exception: a plan whose goal is blank      *)
(* always fails (the outcome "blank"), as ml1.py:122 and 296 take its      *)
(* first letter.  Numbers that overflow and errors of the disk are not     *)
(* modelled.                                                               *)
(***************************************************************************)
SoundModelServes ==
  [][outcome' \in {"refused", "failed"} =>
       ~sound \/ \E k \in Job : Saving(k) \/ Rebuilding(k)]_vars

(***************************************************************************)
(* The file alone is of no use: no plan is ever answered (ml1.py:122-134)  *)
(* by a process in which no new text was fetched, for a plan loads the     *)
(* weights and not the vocabulary.                                         *)
(***************************************************************************)
AnswersNeedVocabulary ==
  outcome = "answered" => env["meal_data"] # Static

(***************************************************************************)
(* A rebuild or training that has begun (ml1.py:77-108) comes to an end,   *)
(* whatever other requests do to the globals it works on.                  *)
(***************************************************************************)
TrainingEnds == \A j \in Job : (Busy(j) /\ req[j].kind # "plan") ~> ~Busy(j)
=============================================================================
