--------------------------- MODULE RnnServerProofs ---------------------------
(***************************************************************************)
(* Vocabulary, weights and file of RnnServer stay those of one text, for   *)
(* any requests, texts, alphabets, bounds and number of restarts.          *)
(***************************************************************************)
EXTENDS RnnServer, FiniteSetTheorems, TLAPS

Values == Text \cup {None}
AtWork == {"forward", "take", "put", "report", "open", "write", "clash"}
Planning == {"bind", "seed", "draw", "decode"}
Requests == [kind : {"none", "rebuild", "train", "plan"},
             pc : {"idle", "assign", "encode", "forward", "take", "put", "report", "open", "write",
                   "clash", "bind", "seed", "draw", "decode"},
             text : Values, held : [WeightNames -> Values],
             step : Nat, left : Nat, x : Nat, top : Nat]

\* What a request is at each of its places.
Consistent(kind, pc, text, step, left) ==
  /\ pc = "idle" <=> kind = "none"
  /\ pc \in {"assign", "encode"} => kind = "rebuild" /\ text \in Text \ {Static}
  /\ pc \in AtWork => kind \in {"rebuild", "train"}
  /\ pc \in Planning => kind = "plan"
  /\ step \in 1 .. IF pc = "assign" THEN 10 ELSE 5
  /\ kind = "plan" => left <= Draws
  /\ kind # "plan" => left <= Iters
  /\ pc \in {"forward", "take", "put", "report", "seed", "draw"} => left > 0

WellFormed(r) == r \in Requests /\ Consistent(r.kind, r.pc, r.text, r.step, r.left)

Types ==
  /\ env \in [Globals -> Values]
  /\ file \in {Absent, Broken} \cup [WeightNames -> Values]
  /\ DOMAIN req = Job /\ req = [j \in Job |-> req[j]]
  /\ \A j \in Job : WellFormed(req[j])
  /\ outcome \in Outcomes /\ sound \in BOOLEAN /\ rebuilds \in 0 .. MaxRebuilds

LEMMA Names ==
  /\ WeightNames = {"Wxh", "Whh", "Why", "bh", "by"}
  /\ Globals = {"meal_data", "chars", "vocab_size", "char_to_ix", "ix_to_char"} \cup WeightNames
  /\ Len(Rebuilt) = 10 /\ Len(Weights) = 5
  /\ \A i \in 1 .. 10 : Rebuilt[i] \in Globals
  /\ \A i \in 1 .. 5 : Weights[i] \in WeightNames
<1>1. DOMAIN Weights = 1 .. 5 /\ Len(Weights) = 5
  BY DEF Weights
<1>2. DOMAIN Rebuilt = 1 .. 10 /\ Len(Rebuilt) = 10
  BY DEF Rebuilt
<1>3. 1 .. 5 = {1, 2, 3, 4, 5} /\ 1 .. 10 = {1, 2, 3, 4, 5, 6, 7, 8, 9, 10}
  OBVIOUS
<1>4. WeightNames = {Weights[1], Weights[2], Weights[3], Weights[4], Weights[5]}
  BY <1>1, <1>3 DEF WeightNames
<1>5. Globals = {Rebuilt[1], Rebuilt[2], Rebuilt[3], Rebuilt[4], Rebuilt[5],
                 Rebuilt[6], Rebuilt[7], Rebuilt[8], Rebuilt[9], Rebuilt[10]}
  BY <1>2, <1>3 DEF Globals
<1>6. WeightNames = {"Wxh", "Whh", "Why", "bh", "by"}
  BY <1>4 DEF Weights
<1>7. Globals = {"meal_data", "chars", "vocab_size", "char_to_ix", "ix_to_char",
                 "Wxh", "Whh", "Why", "bh", "by"}
  BY <1>5 DEF Rebuilt
<1> QED
  BY <1>1, <1>2, <1>3, <1>6, <1>7 DEF WeightNames, Globals

LEMMA Sizes ==
  /\ \A v \in Values : Size(v) \in Nat
  /\ \A t \in Text \ {Empty} : Size(t) > 0
  /\ Size(Empty) = 0
<1>1. \A t \in Text : Size(t) = Cardinality(Chars[t])
  BY TextAssumption DEF Size
<1>2. \A t \in Text : IsFiniteSet(Chars[t]) /\ (Chars[t] = {} <=> t = Empty)
  BY TextAssumption
<1>3. \A t \in Text : Size(t) \in Nat /\ (Size(t) = 0 <=> t = Empty)
  BY <1>1, <1>2, FS_CardinalityType, FS_EmptySet
<1> QED
  BY <1>3, TextAssumption DEF Values, Size

LEMMA FreshFormed == WellFormed(Fresh)
<1>1. Fresh \in Requests
  BY DEF Fresh, Requests, Values
<1>2. Consistent("none", "idle", None, 1, 0)
  BY TextAssumption DEF Consistent, AtWork, Planning
<1> QED
  BY <1>1, <1>2 DEF WellFormed, Fresh

LEMMA Fields ==
  ASSUME NEW q, WellFormed(q)
  PROVE  /\ q \in Requests /\ Consistent(q.kind, q.pc, q.text, q.step, q.left)
         /\ q.held \in [WeightNames -> Values] /\ q.text \in Values
         /\ q.step \in 1 .. 10 /\ (q.pc # "assign" => q.step \in 1 .. 5)
         /\ q.left \in Nat /\ q.x \in Nat /\ q.top \in Nat
<1>1. q \in Requests /\ Consistent(q.kind, q.pc, q.text, q.step, q.left)
  BY DEF WellFormed
<1>2. q.step \in 1 .. 10 /\ (q.pc # "assign" => q.step \in 1 .. 5)
  BY <1>1 DEF Consistent
<1> QED
  BY <1>1, <1>2 DEF Requests

\* A request that differs from q in its place and in what it holds or counts.
LEMMA MovedStep ==
  ASSUME NEW q, WellFormed(q), NEW pc \in {"encode"} \cup AtWork, NEW step \in Nat,
         Consistent(q.kind, pc, q.text, step, q.left)
  PROVE  WellFormed([q EXCEPT !.pc = pc, !.step = step])
BY Fields DEF WellFormed, Requests, AtWork

LEMMA MovedHeld ==
  ASSUME NEW q, WellFormed(q), NEW pc \in AtWork, NEW held \in [WeightNames -> Values],
         Consistent(q.kind, pc, q.text, q.step, q.left)
  PROVE  WellFormed([q EXCEPT !.pc = pc, !.held = held])
BY Fields DEF WellFormed, Requests, AtWork

LEMMA MovedBoth ==
  ASSUME NEW q, WellFormed(q), NEW pc \in AtWork, NEW held \in [WeightNames -> Values],
         Consistent(q.kind, pc, q.text, 1, q.left)
  PROVE  /\ WellFormed([q EXCEPT !.pc = pc, !.step = 1, !.held = held])
         /\ WellFormed([q EXCEPT !.pc = pc, !.held = held, !.step = 1])
BY Fields DEF WellFormed, Requests, AtWork

LEMMA MovedLeft ==
  ASSUME NEW q, WellFormed(q), NEW pc \in AtWork, NEW left \in Nat,
         Consistent(q.kind, pc, q.text, q.step, left)
  PROVE  WellFormed([q EXCEPT !.pc = pc, !.left = left])
BY Fields DEF WellFormed, Requests, AtWork

LEMMA MovedPlan ==
  ASSUME NEW q, WellFormed(q), NEW pc \in Planning, NEW left \in Nat, NEW x \in Nat, NEW top \in Nat,
         Consistent(q.kind, pc, q.text, q.step, left)
  PROVE  /\ WellFormed([q EXCEPT !.pc = pc, !.left = left, !.x = x, !.top = top])
         /\ left = q.left => WellFormed([q EXCEPT !.pc = pc, !.x = x])
BY Fields DEF WellFormed, Requests, Planning

\* What a step of request j leaves of all requests.
Keeps(j) ==
  /\ DOMAIN req' = Job /\ req' = [k \in Job |-> req'[k]]
  /\ \A k \in Job : WellFormed(req'[k])
  /\ \A k \in Job \ {j} : req'[k] = req[k] \/ Saving(j)'
  /\ \A k \in Job \ {j} : req'[k].kind = req[k].kind
  /\ outcome' \in Outcomes
  /\ env' \in [Globals -> Values] /\ file' \in {Absent, Broken} \cup [WeightNames -> Values]

LEMMA GoOnKeeps ==
  ASSUME Types, NEW j \in Job, NEW r, WellFormed(r), NEW o \in Outcomes,
         req' = [req EXCEPT ![j] = r], outcome' = o,
         env' \in [Globals -> Values], file' \in {Absent, Broken} \cup [WeightNames -> Values]
  PROVE  Keeps(j) /\ req'[j] = r
<1>1. \A k \in Job : req'[k] = IF k = j THEN r ELSE req[k]
  BY DEF Types
<1>2. DOMAIN req' = Job /\ req' = [k \in Job |-> req'[k]]
  BY DEF Types
<1> QED
  BY <1>1, <1>2 DEF Types, Keeps

LEMMA RaiseKeeps ==
  ASSUME Types, NEW j \in Job, NEW how \in Outcomes, End(j, how), UNCHANGED env,
         file' \in {Absent, Broken} \cup [WeightNames -> Values]
  PROVE  Keeps(j) /\ req'[j] = Fresh /\ outcome' = how
BY GoOnKeeps, FreshFormed DEF End, Types

\* A request that begins.
LEMMA Begun ==
  ASSUME NEW kind \in {"rebuild", "train", "plan"}, NEW pc, NEW text \in Values, NEW left \in Nat,
         NEW held \in [WeightNames -> Values],
         pc \in {"assign"} \cup AtWork \cup Planning, Consistent(kind, pc, text, 1, left)
  PROVE  /\ text = None => WellFormed([Fresh EXCEPT !.kind = kind, !.pc = pc, !.left = left])
         /\ (text = None /\ left = 0) => WellFormed([Fresh EXCEPT !.kind = kind, !.pc = pc, !.held = held])
         /\ left = 0 => WellFormed([Fresh EXCEPT !.kind = kind, !.pc = pc, !.text = text])
<1>1. Fresh \in Requests
  BY FreshFormed DEF WellFormed
<1>2. Fresh.text = None /\ Fresh.left = 0 /\ Fresh.step = 1
  BY DEF Fresh
<1> QED
  BY <1>1, <1>2 DEF WellFormed, Requests, AtWork, Planning

LEMMA AssignTypes == ASSUME Types, NEW j \in Job, Assign(j) PROVE Keeps(j)
<1> DEFINE q == req[j]
           g == Rebuilt[q.step]
           n == IF q.step = 10 THEN 1 ELSE q.step + 1
           p == IF q.step = 10 THEN "encode" ELSE "assign"
           r == IF q.step = 10 THEN [q EXCEPT !.pc = "encode", !.step = 1]
                               ELSE [q EXCEPT !.step = @ + 1]
<1>1. WellFormed(q) /\ q.pc = "assign" /\ q.step \in 1 .. 10
  BY Fields DEF Types, Assign
<1>2. n \in 1 .. (IF p = "assign" THEN 10 ELSE 5) /\ n \in Nat
  BY <1>1
<1>3. Consistent(q.kind, p, q.text, n, q.left)
  BY <1>1, <1>2, Fields DEF Consistent, AtWork, Planning
<1>4. WellFormed(r)
  <2> HIDE DEF n, p
  <2>1. p = "encode" => WellFormed([q EXCEPT !.pc = "encode", !.step = n])
    BY <1>1, <1>2, <1>3, MovedStep
  <2>2. p = q.pc => WellFormed([q EXCEPT !.step = n])
    BY <1>1, <1>2, <1>3, Fields DEF WellFormed, Requests
  <2> QED
    BY <1>1, <2>1, <2>2 DEF n, p
<1>5. Made(j, g) \in Values
  <2>1. g \in Globals /\ Source(g) \in Globals
    BY <1>1, Names DEF Source
  <2> QED
    BY <1>1, <2>1, Fields DEF Made, Types
<1>6. env' \in [Globals -> Values]
  BY <1>5 DEF Assign, Types
<1>7. req' = [req EXCEPT ![j] = r] /\ outcome' = "none" /\ file' = file
  BY Names DEF Assign, GoOn
<1> QED
  BY <1>4, <1>6, <1>7, GoOnKeeps DEF Types, Outcomes

LEMMA EncodeTypes == ASSUME Types, NEW j \in Job, NEW kind \in {"rebuild", "train"}, EncodeFor(j, kind)
                     PROVE  Keeps(j)
<1> DEFINE v == env["char_to_ix"]
           r == [Fresh EXCEPT !.kind = kind, !.pc = "forward", !.left = Iters, !.text = v]
<1>1. WellFormed(r)
  <2>1. v \in Values
    BY Names DEF Types
  <2>2. Consistent(kind, "forward", v, 1, Iters) /\ Iters \in Nat
    BY TextAssumption DEF Consistent, AtWork, Planning
  <2>3. Fresh \in Requests /\ Fresh.step = 1
    BY FreshFormed DEF WellFormed, Fresh
  <2> HIDE DEF v
  <2> QED
    BY <2>1, <2>2, <2>3 DEF WellFormed, Requests
<1>2. CASE GoOn(j, r)
  BY <1>1, <1>2, GoOnKeeps DEF EncodeFor, GoOn, Types, Outcomes
<1>3. CASE Raise(j)
  BY <1>3, RaiseKeeps DEF EncodeFor, Raise, Types, Outcomes
<1> QED
  BY <1>2, <1>3 DEF EncodeFor

LEMMA ForwardTypes == ASSUME Types, NEW j \in Job, Forward(j) PROVE Keeps(j)
<1> DEFINE q == req[j]
           h == [w \in WeightNames |-> env[w]]
           r == [q EXCEPT !.pc = "take", !.step = 1, !.held = h]
<1>1. WellFormed(r)
  <2>1. h \in [WeightNames -> Values]
    BY Names DEF Types
  <2>2. WellFormed(q) /\ q.pc = "forward"
    BY DEF Types, Forward
  <2>3. Consistent(q.kind, "take", q.text, 1, q.left)
    BY <2>2, Fields DEF Consistent, AtWork, Planning
  <2> HIDE DEF h, q
  <2> QED
    BY <2>1, <2>2, <2>3, MovedBoth DEF AtWork
<1>2. CASE GoOn(j, r)
  BY <1>1, <1>2, GoOnKeeps DEF Forward, GoOn, Types, Outcomes
<1>3. CASE Raise(j)
  BY <1>3, RaiseKeeps DEF Forward, Raise, Types, Outcomes
<1> QED
  BY <1>2, <1>3 DEF Forward

LEMMA TakeTypes == ASSUME Types, NEW j \in Job, Take(j) PROVE Keeps(j)
<1> DEFINE q == req[j]
           w == Weights[q.step]
           h == [q.held EXCEPT ![w] = env[w]]
           r == [q EXCEPT !.pc = "put", !.held[w] = env[w]]
<1>1. WellFormed(r)
  <2>1. WellFormed(q) /\ q.pc = "take" /\ q.step \in 1 .. 5
    BY Fields DEF Types, Take
  <2>2. w \in WeightNames /\ env[w] \in Values
    BY <2>1, Names DEF Types
  <2>3. h \in [WeightNames -> Values]
    BY <2>1, <2>2, Fields
  <2>4. Consistent(q.kind, "put", q.text, q.step, q.left)
    BY <2>1, Fields DEF Consistent, AtWork, Planning
  <2>5. WellFormed([q EXCEPT !.pc = "put", !.held = h])
    <3> HIDE DEF h, q
    <3> QED
      BY <2>1, <2>3, <2>4, MovedHeld DEF AtWork
  <2>6. r = [q EXCEPT !.pc = "put", !.held = h]
    OBVIOUS
  <2> QED
    BY <2>5, <2>6
<1>2. CASE GoOn(j, r)
  BY <1>1, <1>2, GoOnKeeps DEF Take, GoOn, Types, Outcomes
<1>3. CASE Raise(j)
  BY <1>3, RaiseKeeps DEF Take, Raise, Types, Outcomes
<1> QED
  BY <1>2, <1>3 DEF Take

LEMMA PutTypes == ASSUME Types, NEW j \in Job, Put(j) PROVE Keeps(j)
<1> DEFINE q == req[j]
           w == Weights[q.step]
           n == q.step + 1
           r == IF LastWeight(j)
                THEN [q EXCEPT !.pc = "report", !.held = Fresh.held, !.step = 1]
                ELSE [q EXCEPT !.pc = "take", !.step = @ + 1]
<1>1. WellFormed(q) /\ q.pc = "put" /\ q.step \in 1 .. 5
  BY Fields DEF Types, Put
<1>2. ASSUME LastWeight(j) PROVE WellFormed(r)
  <2>1. Fresh.held \in [WeightNames -> Values]
    BY DEF Fresh, Values
  <2>2. Consistent(q.kind, "report", q.text, 1, q.left)
    BY <1>1, Fields DEF Consistent, AtWork, Planning
  <2>3. WellFormed([q EXCEPT !.pc = "report", !.held = Fresh.held, !.step = 1])
    <3> HIDE DEF q
    <3> QED
      BY <1>1, <2>1, <2>2, MovedBoth DEF AtWork
  <2>4. r = [q EXCEPT !.pc = "report", !.held = Fresh.held, !.step = 1]
    BY <1>2, Zenon
  <2> HIDE DEF r
  <2> QED
    BY <2>3, <2>4
<1>3. ASSUME ~LastWeight(j) PROVE WellFormed(r)
  <2>1. n \in 1 .. 5 /\ n \in Nat
    BY <1>1, <1>3, Names DEF LastWeight
  <2>2. Consistent(q.kind, "take", q.text, n, q.left)
    BY <1>1, <2>1, Fields DEF Consistent, AtWork, Planning
  <2>3. WellFormed([q EXCEPT !.pc = "take", !.step = n])
    <3> HIDE DEF n, q
    <3> QED
      BY <1>1, <2>1, <2>2, MovedStep DEF AtWork
  <2>4. r = [q EXCEPT !.pc = "take", !.step = n]
    BY <1>3, Zenon
  <2> HIDE DEF r
  <2> QED
    BY <2>3, <2>4
<1>4. env' \in [Globals -> Values]
  BY <1>1, Names, Fields DEF Put, Types
<1>5. req' = [req EXCEPT ![j] = r] /\ outcome' = "none" /\ file' = file
  BY DEF Put, GoOn
<1> QED
  BY <1>2, <1>3, <1>4, <1>5, GoOnKeeps DEF Types, Outcomes

LEMMA ReportTypes == ASSUME Types, NEW j \in Job, Report(j) PROVE Keeps(j)
<1> DEFINE q == req[j]
           n == q.left - 1
           p == IF q.left = 1 THEN "open" ELSE "forward"
           r == [q EXCEPT !.pc = IF q.left = 1 THEN "open" ELSE "forward", !.left = @ - 1]
<1>1. WellFormed(r)
  <2>1. WellFormed(q) /\ q.pc = "report"
    BY DEF Types, Report
  <2>2. q.left \in Nat \ {0}
    BY <2>1, Fields DEF Consistent
  <2>3. n \in Nat /\ (p # "open" => n > 0) /\ n < q.left
    BY <2>2
  <2>4. Consistent(q.kind, p, q.text, q.step, n)
    BY <2>1, <2>3, Fields, TextAssumption DEF Consistent, AtWork, Planning
  <2>5. p \in AtWork
    BY DEF AtWork
  <2>6. WellFormed([q EXCEPT !.pc = p, !.left = n])
    <3> HIDE DEF n, p, q
    <3> QED
      BY <2>1, <2>3, <2>4, <2>5, MovedLeft
  <2> QED
    BY <2>6
<1>2. CASE GoOn(j, r)
  BY <1>1, <1>2, GoOnKeeps DEF Report, GoOn, Types, Outcomes
<1>3. CASE Raise(j)
  BY <1>3, RaiseKeeps DEF Report, Raise, Types, Outcomes
<1> QED
  BY <1>2, <1>3 DEF Report

LEMMA OpenTypes == ASSUME Types, NEW j \in Job, Open(j) PROVE Keeps(j)
<1> DEFINE others == {k \in Job \ {j} : Saving(k)}
           p == IF others = {} THEN "write" ELSE "clash"
<1>1. /\ DOMAIN req' = Job /\ req' = [k \in Job |-> req'[k]]
      /\ \A k \in Job : req'[k] = IF k = j \/ k \in others THEN [req[k] EXCEPT !.pc = p] ELSE req[k]
  BY DEF Open
<1>2. ASSUME NEW k \in Job, k = j \/ k \in others PROVE WellFormed([req[k] EXCEPT !.pc = p])
  <2>1. WellFormed(req[k]) /\ req[k].pc \in AtWork
    BY <1>2 DEF Types, AtWork, Open, Saving
  <2>2. Consistent(req[k].kind, p, req[k].text, req[k].step, req[k].left)
    BY <2>1, Fields DEF Consistent, AtWork, Planning
  <2>3. p \in AtWork
    BY DEF AtWork
  <2> HIDE DEF p
  <2>4. [req[k] EXCEPT !.pc = p] \in Requests
    BY <2>1, <2>3, Fields DEF Requests, AtWork
  <2> QED
    BY <2>1, <2>2, <2>4, Fields DEF WellFormed, Requests
<1>3. Saving(j)'
  <2>1. req[j] \in Requests /\ req'[j] = [req[j] EXCEPT !.pc = p]
    BY <1>1, Fields DEF Types
  <2> QED
    BY <2>1 DEF Saving, Requests
<1>4. \A k \in Job : req'[k].kind = req[k].kind
  BY <1>1, Fields DEF Types, Requests
<1> QED
  BY <1>1, <1>2, <1>3, <1>4 DEF Keeps, Types, Open, Outcomes

LEMMA WriteTypes == ASSUME Types, NEW j \in Job, Write(j) PROVE Keeps(j)
<1>1. [w \in WeightNames |-> env[w]] \in [WeightNames -> Values]
  BY Names DEF Types
<1> QED
  BY <1>1, RaiseKeeps DEF Write, Outcomes

LEMMA LoadTypes == ASSUME Types, NEW j \in Job, NEW caught, LoadFile(j, caught) PROVE Keeps(j)
<1> DEFINE r == [Fresh EXCEPT !.kind = "plan", !.pc = "bind", !.held = file]
<1>1. CASE file \in {Absent, Broken}
  BY <1>1, RaiseKeeps DEF LoadFile, Types, Outcomes
<1>2. CASE file \notin {Absent, Broken}
  <2>1. Consistent("plan", "bind", None, 1, 0)
    BY TextAssumption DEF Consistent, AtWork, Planning
  <2>2. WellFormed(r)
    BY <1>2, <2>1, Begun DEF Planning, Types, Values
  <2> QED
    BY <1>2, <2>2, GoOnKeeps DEF LoadFile, GoOn, Types, Outcomes
<1> QED
  BY <1>1, <1>2

LEMMA RebuildTypes ==
  ASSUME Types, NEW j \in Job, NEW texts \in SUBSET (Text \ {Static}), StartRebuild(j, texts)
  PROVE  Keeps(j)
<1> PICK t \in texts : GoOn(j, [Fresh EXCEPT !.kind = "rebuild", !.pc = "assign", !.text = t])
  BY DEF StartRebuild
<1>1. Consistent("rebuild", "assign", t, 1, 0)
  BY TextAssumption DEF Consistent, AtWork, Planning
<1>2. Fresh.held \in [WeightNames -> Values] /\ t \in Values
  BY DEF Fresh, Values
<1>3. WellFormed([Fresh EXCEPT !.kind = "rebuild", !.pc = "assign", !.text = t])
  BY <1>1, <1>2, Begun
<1> QED
  BY <1>3, GoOnKeeps DEF StartRebuild, GoOn, Types, Outcomes

LEMMA BindTypes == ASSUME Types, NEW j \in Job, Bind(j) PROVE Keeps(j)
<1> DEFINE r == [Fresh EXCEPT !.kind = "plan", !.pc = "seed", !.left = Draws]
<1>1. Consistent("plan", "seed", None, 1, Draws) /\ Draws \in Nat
  BY TextAssumption DEF Consistent, AtWork, Planning
<1>2. Fresh.held \in [WeightNames -> Values] /\ None \in Values
  BY DEF Fresh, Values
<1>3. WellFormed(r)
  BY <1>1, <1>2, Begun DEF Planning
<1>4. \A w \in WeightNames : req[j].held[w] \in Values
  BY Fields DEF Types
<1>5. env' \in [Globals -> Values]
  BY <1>4, Names DEF Bind, Types
<1> QED
  BY <1>3, <1>5, GoOnKeeps DEF Bind, GoOn, Types, Outcomes

LEMMA SeedTypes == ASSUME Types, NEW j \in Job, Seed(j) PROVE Keeps(j)
<1> DEFINE q == req[j]
           r == [q EXCEPT !.pc = "draw", !.x = VocabSize]
<1>1. CASE Raise(j) \/ End(j, "blank")
  BY <1>1, RaiseKeeps DEF Seed, Raise, Types, Outcomes
<1>2. CASE GoOn(j, r)
  <2>1. VocabSize \in Nat /\ WellFormed(q) /\ q.pc = "seed"
    BY Names, Sizes DEF Types, VocabSize, Seed
  <2>2. Consistent(q.kind, "draw", q.text, q.step, q.left)
    BY <2>1, Fields DEF Consistent, AtWork, Planning
  <2>3. WellFormed(r)
    <3> HIDE DEF q
    <3> QED
      BY <2>1, <2>2, MovedPlan, Fields DEF Planning
  <2> QED
    BY <1>2, <2>3, GoOnKeeps DEF Seed, GoOn, Types, Outcomes
<1> QED
  BY <1>1, <1>2 DEF Seed

LEMMA DrawTypes == ASSUME Types, NEW j \in Job, Draw(j) PROVE Keeps(j)
<1>1. CASE Raise(j)
  BY <1>1, RaiseKeeps DEF Draw, Raise, Types, Outcomes
<1>2. CASE ~Raise(j)
  <2> DEFINE q == req[j]
             p == IF q.left = 1 THEN "decode" ELSE "draw"
             n == q.left - 1
  <2>1. VocabSize \in Nat
    BY Names, Sizes DEF Types, VocabSize
  <2>2. PICK ix \in 0 .. VocabSize - 1 :
            GoOn(j, [q EXCEPT !.pc = IF q.left = 1 THEN "decode" ELSE "draw",
                              !.left = @ - 1, !.x = VocabSize,
                              !.top = IF ix > @ THEN ix ELSE @])
    BY <1>2 DEF Draw
  <2> DEFINE top == IF ix > q.top THEN ix ELSE q.top
             r == [q EXCEPT !.pc = p, !.left = n, !.x = VocabSize, !.top = top]
  <2>3. WellFormed(q) /\ q.pc = "draw"
    BY DEF Types, Draw
  <2>4. q.left \in Nat \ {0} /\ top \in Nat
    BY <2>1, <2>3, Fields DEF Consistent
  <2>5. n \in Nat /\ (p # "decode" => n > 0) /\ n < q.left
    BY <2>4
  <2>6. Consistent(q.kind, p, q.text, q.step, n)
    BY <2>3, <2>5, Fields, TextAssumption DEF Consistent, AtWork, Planning
  <2>7. p \in Planning
    BY DEF Planning
  <2>8. WellFormed(r)
    <3> HIDE DEF n, p, q, top
    <3> QED
      BY <2>1, <2>3, <2>4, <2>5, <2>6, <2>7, MovedPlan
  <2>9. GoOn(j, r)
    BY <2>2, Zenon
  <2> HIDE DEF r
  <2> QED
    BY <2>8, <2>9, GoOnKeeps DEF Draw, GoOn, Types, Outcomes
<1> QED
  BY <1>1, <1>2

LEMMA DecodeTypes == ASSUME Types, NEW j \in Job, Decode(j) PROVE Keeps(j)
BY RaiseKeeps DEF Decode, Raise, Types, Outcomes

LEMMA EveryStepKeeps ==
  ASSUME Types, NEW j \in Job, Request(j) \/ Step(j)
  PROVE  Keeps(j)
<1>1. CASE Step(j)
  BY <1>1, AssignTypes, EncodeTypes, ForwardTypes, TakeTypes, PutTypes, ReportTypes, OpenTypes,
     WriteTypes, BindTypes, SeedTypes, DrawTypes, DecodeTypes DEF Step, Encode
<1>2. CASE Request(j)
  BY <1>2, RebuildTypes, EncodeTypes, LoadTypes, TextAssumption
     DEF Request, Scrape, FetchPubmed, TrainRnn, MealPlan, MealPlan2
<1> QED
  BY <1>1, <1>2

\* The rebuilds that begin in a step.
begun == {k \in Job : ~Busy(k) /\ Rebuilding(k)'}

LEMMA BeginsOne ==
  ASSUME Types, NEW j \in Job, Request(j) \/ Step(j)
  PROVE  \/ begun = {}
         \/ /\ begun = {j} /\ ~Busy(j) /\ rebuilds < MaxRebuilds
            /\ \E t \in Text \ {Static} :
                 req' = [req EXCEPT ![j] = [Fresh EXCEPT !.kind = "rebuild", !.pc = "assign", !.text = t]]
            /\ outcome' = "none"
            /\ UNCHANGED <<env, file>>
<1>1. Keeps(j)
  BY EveryStepKeeps
<1>2. ASSUME NEW k \in Job \ {j}, ~Busy(k) PROVE ~Rebuilding(k)'
  <2>1. req[k].kind = "none"
    BY <1>2, Fields DEF Types, Consistent, Busy
  <2> QED
    BY <1>1, <2>1 DEF Keeps, Rebuilding
<1>3. begun \subseteq {j}
  BY <1>2 DEF begun
<1>4. CASE Step(j)
  <2>1. Busy(j)
    BY <1>4 DEF Step, Assign, Encode, Forward, Take, Put, Report, Open, Write, Saving, Bind, Seed, Draw,
                Decode, Busy
  <2> QED
    BY <1>3, <2>1 DEF begun
<1>5. CASE Scrape(j) \/ FetchPubmed(j)
  <2>1. PICK t \in Text \ {Static} : GoOn(j, [Fresh EXCEPT !.kind = "rebuild", !.pc = "assign", !.text = t])
    BY <1>5 DEF Scrape, FetchPubmed, StartRebuild
  <2>2. ~Busy(j) /\ rebuilds < MaxRebuilds /\ UNCHANGED <<env, file>>
    BY <1>5 DEF Scrape, FetchPubmed, StartRebuild
  <2> QED
    BY <1>3, <2>1, <2>2 DEF GoOn
<1>6. CASE TrainRnn(j) \/ MealPlan(j) \/ MealPlan2(j)
  <2>1. req'[j].kind # "rebuild"
    <3> DEFINE trains == [Fresh EXCEPT !.kind = "train", !.pc = "forward", !.left = Iters,
                                       !.text = env["char_to_ix"]]
               plans == [Fresh EXCEPT !.kind = "plan", !.pc = "bind", !.held = file]
    <3>1. trains.kind = "train" /\ plans.kind = "plan" /\ Fresh.kind = "none"
      BY DEF Fresh
    <3>2. \/ GoOn(j, trains) \/ Raise(j)
          \/ GoOn(j, plans) \/ \E how \in Outcomes : End(j, how)
      BY <1>6 DEF TrainRnn, EncodeFor, MealPlan, MealPlan2, LoadFile, Outcomes
    <3> HIDE DEF trains, plans
    <3>3. req'[j] \in {trains, plans, Fresh}
      BY <3>2 DEF GoOn, Raise, End, Types
    <3> QED
      BY <3>1, <3>3
  <2> QED
    BY <1>3, <2>1 DEF begun, Rebuilding
<1> QED
  BY <1>4, <1>5, <1>6 DEF Request

LEMMA TypesInit == Init => Types
<1> SUFFICES ASSUME Init PROVE Types
  OBVIOUS
<1>1. env \in [Globals -> Values]
  BY TextAssumption DEF Init, AtImport, Values
<1>2. \A j \in Job : WellFormed(req[j])
  BY FreshFormed DEF Init
<1>3. DOMAIN req = Job /\ req = [j \in Job |-> req[j]]
  BY DEF Init
<1>4. rebuilds \in 0 .. MaxRebuilds
  BY TextAssumption DEF Init
<1> QED
  BY <1>1, <1>2, <1>3, <1>4 DEF Init, Types, Outcomes

LEMMA TypesStep == Types /\ [Next]_vars => Types'
<1> SUFFICES ASSUME Types, [Next]_vars PROVE Types'
  OBVIOUS
<1>1. CASE Restart
  <2>1. env' \in [Globals -> Values]
    BY <1>1, TextAssumption DEF Restart, AtImport, Values
  <2>2. \A j \in Job : WellFormed(req'[j])
    BY <1>1, FreshFormed DEF Restart
  <2> QED
    BY <1>1, <2>1, <2>2 DEF Restart, Types, Outcomes
<1>2. ASSUME NEW j \in Job, Request(j) \/ Step(j), Observe PROVE Types'
  <2>1. Keeps(j)
    BY <1>2, EveryStepKeeps
  <2>2. rebuilds' = rebuilds + Cardinality(begun) /\ sound' \in BOOLEAN
    <3>1. rebuilds' = rebuilds + Cardinality(begun)
      BY <1>2 DEF Observe, begun
    <3>2. sound' = /\ ~Overlap' /\ ~Clash'
                   /\ IF begun = {} THEN sound ELSE \A k \in begun : req'[k].text \in Long
      BY <1>2 DEF Observe, begun
    <3> QED
      BY <3>1, <3>2 DEF Types
  <2>3. rebuilds' \in 0 .. MaxRebuilds
    <3>1. CASE begun = {}
      BY <2>2, <3>1, FS_EmptySet DEF Types
    <3>2. CASE begun = {j} /\ rebuilds < MaxRebuilds
      BY <2>2, <3>2, FS_Singleton, TextAssumption DEF Types
    <3> QED
      BY <1>2, <3>1, <3>2, BeginsOne
  <2> QED
    BY <2>1, <2>2, <2>3 DEF Keeps, Types
<1>3. CASE UNCHANGED vars
  BY <1>3 DEF vars, Types
<1> QED
  BY <1>1, <1>2, <1>3 DEF Next

LEMMA TypesAlways == Spec => []Types
BY TypesInit, TypesStep, PTL DEF Spec

(***************************************************************************)
(* Every value stays one that a text has made, for any texts and requests. *)
(***************************************************************************)
THEOREM TypeCorrect == Spec => []TypeOK
<1>1. Types => TypeOK
  <2> SUFFICES ASSUME Types PROVE TypeOK
    OBVIOUS
  <2>1. ASSUME NEW j \in Job
        PROVE  /\ req[j].kind \in {"none", "rebuild", "train", "plan"}
               /\ req[j].text \in Text \cup {None}
               /\ req[j].held \in [WeightNames -> Text \cup {None}]
               /\ req[j].step \in 1 .. (IF req[j].pc = "assign" THEN Len(Rebuilt) ELSE Len(Weights))
               /\ req[j].left \in 0 .. (IF req[j].kind = "plan" THEN Draws ELSE Iters)
               /\ req[j].x \in Nat /\ req[j].top \in Nat
    <3>1. WellFormed(req[j])
      BY DEF Types
    <3>2. req[j].step \in 1 .. (IF req[j].pc = "assign" THEN 10 ELSE 5)
      BY <3>1, Fields DEF Consistent
    <3>3. req[j].left \in 0 .. (IF req[j].kind = "plan" THEN Draws ELSE Iters)
      BY <3>1, Fields, TextAssumption DEF Consistent
    <3>4. req[j].kind \in {"none", "rebuild", "train", "plan"}
      BY <3>1 DEF WellFormed, Requests
    <3> QED
      BY <3>1, <3>2, <3>3, <3>4, Fields, Names DEF Values
  <2> QED
    BY <2>1 DEF TypeOK, Types, Values
<1> QED
  BY <1>1, TypesAlways, PTL

-----------------------------------------------------------------------------
(***************************************************************************)
(* Until a new text is assigned there is no vocabulary, and without one    *)
(* nothing is drawn.                                                       *)
(***************************************************************************)
Fetched == env["meal_data"] # Static

Vacant ==
  /\ ~Fetched => env["chars"] = Empty /\ env["vocab_size"] = Empty
  /\ \A j \in Job : req[j].pc \in {"draw", "decode"} => Fetched
  /\ \A j \in Job : req[j].pc = "assign" /\ req[j].step > 1 => Fetched
  /\ outcome = "answered" => Fetched

LEMMA OnlyAssignRenames ==
  ASSUME Types, NEW j \in Job, Request(j) \/ Step(j), ~Assign(j)
  PROVE  \A g \in Globals \ WeightNames : env'[g] = env[g]
<1>1. CASE Put(j)
  <2>1. Weights[req[j].step] \in WeightNames
    BY <1>1, Names, Fields DEF Put, Types
  <2> QED
    BY <1>1, <2>1 DEF Put, Types
<1>2. CASE Bind(j)
  BY <1>2 DEF Bind
<1>3. CASE UNCHANGED env
  BY <1>3
<1> QED
  BY <1>1, <1>2, <1>3 DEF Request, Step, Scrape, FetchPubmed, StartRebuild, TrainRnn, EncodeFor, Encode,
     MealPlan, MealPlan2, LoadFile, Forward, Take, Report, Open, Write, Seed, Draw, Decode

LEMMA Just ==
  ASSUME Types, NEW j \in Job, NEW r, req' = [req EXCEPT ![j] = r]
  PROVE  req'[j] = r /\ \A k \in Job \ {j} : req'[k] = req[k]
BY DEF Types

\* Where a step takes the request that makes it, and what it has found.
Leads(j) ==
  /\ req'[j].pc \in {"draw", "decode"} => VocabSize > 0
  /\ req'[j].pc = "assign" => req'[j].step = 1
  /\ outcome' = "answered" => req[j].pc = "decode"
  /\ \A k \in Job \ {j} : req'[k] = req[k] \/ req'[k].pc \in {"write", "clash"}

LEMMA GoOnLeads ==
  ASSUME Types, NEW j \in Job, NEW r, GoOn(j, r),
         r.pc \in {"draw", "decode"} => VocabSize > 0,
         r.pc = "assign" => r.step = 1
  PROVE  Leads(j)
BY Just DEF Leads, GoOn

LEMMA EndLeads ==
  ASSUME Types, NEW j \in Job, NEW how \in Outcomes, End(j, how),
         how = "answered" => req[j].pc = "decode"
  PROVE  Leads(j)
<1>1. Fresh.pc = "idle"
  BY DEF Fresh
<1> QED
  BY <1>1, Just DEF Leads, End

LEMMA RaiseLeads == ASSUME Types, NEW j \in Job, Raise(j) PROVE Leads(j)
BY EndLeads DEF Raise, Outcomes

LEMMA NextPlace ==
  ASSUME Types, NEW j \in Job, Request(j) \/ Step(j), ~Assign(j)
  PROVE  Leads(j)
<1> DEFINE q == req[j]
<1>0. q \in Requests /\ VocabSize \in Nat
  BY Fields, Sizes, Names DEF Types, VocabSize
<1>1. CASE Scrape(j) \/ FetchPubmed(j)
  <2>1. PICK t \in Text : GoOn(j, [Fresh EXCEPT !.kind = "rebuild", !.pc = "assign", !.text = t])
    BY <1>1 DEF Scrape, FetchPubmed, StartRebuild
  <2>2. [Fresh EXCEPT !.kind = "rebuild", !.pc = "assign", !.text = t].pc = "assign"
    BY DEF Fresh
  <2>3. [Fresh EXCEPT !.kind = "rebuild", !.pc = "assign", !.text = t].step = 1
    BY DEF Fresh
  <2> QED
    BY <2>1, <2>2, <2>3, GoOnLeads
<1>2. ASSUME NEW kind \in {"rebuild", "train"}, EncodeFor(j, kind) PROVE Leads(j)
  <2> DEFINE r == [Fresh EXCEPT !.kind = kind, !.pc = "forward", !.left = Iters, !.text = env["char_to_ix"]]
  <2>1. r.pc = "forward"
    BY DEF Fresh
  <2>2. GoOn(j, r) \/ Raise(j)
    BY <1>2 DEF EncodeFor
  <2> HIDE DEF r
  <2> QED
    BY <2>1, <2>2, GoOnLeads, RaiseLeads
<1>3. ASSUME NEW caught, LoadFile(j, caught) PROVE Leads(j)
  <2> DEFINE r == [Fresh EXCEPT !.kind = "plan", !.pc = "bind", !.held = file]
  <2>1. r.pc = "bind"
    BY DEF Fresh
  <2>2. GoOn(j, r) \/ End(j, "refused") \/ End(j, "failed")
    BY <1>3 DEF LoadFile
  <2> HIDE DEF r
  <2> QED
    BY <2>1, <2>2, GoOnLeads, EndLeads DEF Outcomes
<1>4. CASE Forward(j)
  <2> DEFINE r == [q EXCEPT !.pc = "take", !.step = 1, !.held = [w \in WeightNames |-> env[w]]]
  <2>1. r.pc = "take"
    BY <1>0 DEF Requests
  <2>2. GoOn(j, r) \/ Raise(j)
    BY <1>4 DEF Forward
  <2> HIDE DEF r
  <2> QED
    BY <2>1, <2>2, GoOnLeads, RaiseLeads
<1>5. CASE Take(j)
  <2> DEFINE r == [q EXCEPT !.pc = "put", !.held[Weights[q.step]] = env[Weights[q.step]]]
  <2>1. r.pc = "put"
    BY <1>0 DEF Requests
  <2>2. GoOn(j, r) \/ Raise(j)
    BY <1>5 DEF Take
  <2> HIDE DEF r
  <2> QED
    BY <2>1, <2>2, GoOnLeads, RaiseLeads
<1>6. CASE Put(j)
  <2>1. PICK r : GoOn(j, r) /\ r \in {[q EXCEPT !.pc = "report", !.held = Fresh.held, !.step = 1],
                                       [q EXCEPT !.pc = "take", !.step = @ + 1]}
    BY <1>6, Zenon DEF Put
  <2>2. r.pc \in {"report", "take"}
    BY <1>0, <2>1 DEF Requests
  <2> QED
    BY <2>1, <2>2, GoOnLeads
<1>7. CASE Report(j)
  <2> DEFINE p == IF q.left = 1 THEN "open" ELSE "forward"
             r == [q EXCEPT !.pc = p, !.left = @ - 1]
  <2>1. r.pc = p /\ p \in {"open", "forward"}
    BY <1>0 DEF Requests
  <2>2. GoOn(j, r) \/ Raise(j)
    BY <1>7 DEF Report
  <2> HIDE DEF r, p
  <2> QED
    BY <2>1, <2>2, GoOnLeads, RaiseLeads
<1>8. CASE Open(j)
  <2>1. \A k \in Job : (req'[k] = req[k] /\ k # j) \/ req'[k].pc \in {"write", "clash"}
    BY <1>8, Fields DEF Open, Types, Requests
  <2> QED
    BY <1>8, <2>1 DEF Open, Leads
<1>9. CASE Write(j)
  BY <1>9, EndLeads DEF Write, Outcomes
<1>10. CASE Bind(j)
  <2> DEFINE r == [Fresh EXCEPT !.kind = "plan", !.pc = "seed", !.left = Draws]
  <2>1. r.pc = "seed"
    BY DEF Fresh
  <2> HIDE DEF r
  <2> QED
    BY <1>10, <2>1, GoOnLeads DEF Bind, r
<1>11. CASE Seed(j)
  <2> DEFINE r == [q EXCEPT !.pc = "draw", !.x = VocabSize]
  <2>1. (GoOn(j, r) /\ VocabSize > 0) \/ Raise(j) \/ End(j, "blank")
    <3>1. \A s \in Seeds : s \in Int /\ s >= 0
      <4>1. Size(env["char_to_ix"]) \in Nat
        BY Sizes, Names DEF Types
      <4> QED
        BY <4>1 DEF Seeds
    <3> QED
      BY <1>0, <1>11, <3>1 DEF Seed
  <2>2. r.pc = "draw"
    BY <1>0 DEF Requests
  <2> HIDE DEF r
  <2> QED
    BY <2>1, <2>2, GoOnLeads, RaiseLeads, EndLeads DEF Outcomes
<1>12. CASE Draw(j)
  <2>1. CASE CanSample(q.x)
    <3>1. PICK ix \in 0 .. VocabSize - 1 :
            GoOn(j, [q EXCEPT !.pc = IF q.left = 1 THEN "decode" ELSE "draw", !.left = @ - 1,
                              !.x = VocabSize, !.top = IF ix > @ THEN ix ELSE @])
      BY <1>12, <2>1 DEF Draw
    <3> DEFINE r == [q EXCEPT !.pc = IF q.left = 1 THEN "decode" ELSE "draw", !.left = @ - 1,
                              !.x = VocabSize, !.top = IF ix > @ THEN ix ELSE @]
    <3>2. r.pc \in {"decode", "draw"}
      BY <1>0 DEF Requests
    <3> HIDE DEF r
    <3> QED
      BY <2>1, <3>1, <3>2, GoOnLeads DEF r, CanSample
  <2> QED
    BY <1>12, <2>1, RaiseLeads DEF Draw
<1>13. CASE Decode(j)
  BY <1>13, EndLeads, RaiseLeads DEF Decode, Outcomes
<1> QED
  BY <1>1, <1>2, <1>3, <1>4, <1>5, <1>6, <1>7, <1>8, <1>9, <1>10, <1>11, <1>12, <1>13
     DEF Request, Step, TrainRnn, Encode, MealPlan, MealPlan2

LEMMA VacantStep == ASSUME Types, Vacant, [Next]_vars PROVE Vacant'
<1>1. CASE Restart
  BY <1>1, TextAssumption, Names DEF Restart, AtImport, Vacant, Fetched, Fresh
<1>2. ASSUME NEW j \in Job, Assign(j) PROVE Vacant'
  <2> DEFINE g == Rebuilt[req[j].step]
             r == IF req[j].step = Len(Rebuilt)
                  THEN [req[j] EXCEPT !.pc = "encode", !.step = 1]
                  ELSE [req[j] EXCEPT !.step = @ + 1]
  <2>1. WellFormed(req[j]) /\ req[j].pc = "assign" /\ req[j].step \in 1 .. 10
    BY <1>2, Fields DEF Assign, Types
  <2>2. g \in Globals /\ env' = [env EXCEPT ![g] = Made(j, g)] /\ outcome' = "none"
    BY <1>2, <2>1, Names DEF Assign, GoOn
  <2>3. \A k \in Job \ {j} : req'[k] = req[k]
    BY <1>2, Just DEF Assign, GoOn
  <2>4. req'[j] = r
    BY <1>2, Just DEF Assign, GoOn
  <2>5. req'[j].pc \in {"encode", "assign"}
    BY <2>1, <2>4, Fields DEF Requests
  <2>6. CASE g = "meal_data"
    <3>1. env'["meal_data"] = req[j].text /\ req[j].text # Static
      BY <2>1, <2>2, <2>6, Names, Fields DEF Made, Types, Consistent
    <3> QED
      BY <2>2, <3>1 DEF Vacant, Fetched
  <2>7. CASE g # "meal_data"
    <3>1. req[j].step # 1
      BY <2>7 DEF Rebuilt
    <3>2. Fetched
      BY <2>1, <3>1 DEF Vacant
    <3>3. Fetched'
      BY <2>2, <2>7, <3>2, Names DEF Fetched, Types
    <3> QED
      BY <2>2, <3>3 DEF Vacant
  <2> QED
    BY <2>6, <2>7
<1>3. ASSUME NEW j \in Job, Request(j) \/ Step(j), ~Assign(j) PROVE Vacant'
  <2>1. /\ env'["meal_data"] = env["meal_data"] /\ env'["chars"] = env["chars"]
        /\ env'["vocab_size"] = env["vocab_size"]
    BY <1>3, OnlyAssignRenames, Names
  <2>2. Leads(j)
    BY <1>3, NextPlace
  <2>3. VocabSize > 0 => Fetched
    BY Sizes DEF Vacant, VocabSize
  <2> QED
    BY <2>1, <2>2, <2>3 DEF Vacant, Fetched, Leads
<1>4. CASE UNCHANGED vars
  BY <1>4 DEF vars, Vacant, Fetched
<1> QED
  BY <1>1, <1>2, <1>3, <1>4 DEF Next

(***************************************************************************)
(* A restarted server answers no plan before it has fetched a new text,    *)
(* however good the weights in the file.                                   *)
(***************************************************************************)
THEOREM FileIsNotEnough == Spec => []AnswersNeedVocabulary
<1>1. Init => Vacant
  BY TextAssumption, Names DEF Init, AtImport, Vacant, Fetched, Fresh
<1>2. Vacant => AnswersNeedVocabulary
  BY DEF Vacant, Fetched, AnswersNeedVocabulary
<1> QED
  BY <1>1, <1>2, VacantStep, TypesAlways, PTL DEF Spec

-----------------------------------------------------------------------------
(***************************************************************************)
(* While the model is sound it is of one text t: a rebuild that works      *)
(* alone is making it so, or it is made and what every request holds fits. *)
(***************************************************************************)
AllOf(t) == \A g \in Globals : env[g] = t

Fits(r, t) ==
  /\ r.pc \in AtWork \cup {"assign", "encode"} => r.text = t
  /\ r.pc \in {"take", "put", "bind"} => \A w \in WeightNames : r.held[w] = t
  /\ r.pc = "draw" => r.x = Size(t)
  /\ r.pc \in {"seed", "draw", "decode"} => r.top < Size(t)

Made1(t) ==
  /\ AllOf(t)
  /\ \A j \in Job : ~Rebuilding(j) /\ Fits(req[j], t)
  /\ \/ file = [w \in WeightNames |-> t]
     \/ file = Broken /\ \E j \in Job : Saving(j)

InTheMaking(t) ==
  \E j \in Job :
    /\ Rebuilding(j) /\ Fits(req[j], t)
    /\ \A k \in Job \ {j} : ~Busy(k)
    /\ IF req[j].pc = "assign"
       THEN \A i \in 1 .. 10 : i < req[j].step => env[Rebuilt[i]] = t
       ELSE AllOf(t)

Whole == sound => \E t \in Long : Made1(t) \/ InTheMaking(t)

\* With a model all of one text no step fails, and what it stores is of that text.
Serves(j, t) ==
  /\ AllOf(t)' /\ Fits(req'[j], t)
  /\ outcome' \notin {"failed", "refused"}
  /\ req'[j].pc = "idle" \/ (req'[j].kind = req[j].kind /\ req'[j].pc # "assign")
  /\ \A k \in Job \ {j} : req'[k] = req[k] \/ Clash'
  /\ req[j].kind # "plan" /\ req'[j].pc = "idle" => file' = [w \in WeightNames |-> t]
  /\ \/ file' = file /\ ~Saving(j)
     \/ file' = [w \in WeightNames |-> t]
     \/ file' = Broken /\ Saving(j)'

LEMMA GoOnServes ==
  ASSUME Types, NEW j \in Job, NEW t \in Long, AllOf(t), UNCHANGED env, UNCHANGED file,
         NEW r, GoOn(j, r), Fits(r, t), r.kind = req[j].kind, r.pc \notin {"idle", "assign"},
         ~Saving(j)
  PROVE  Serves(j, t)
BY Just DEF Serves, GoOn, AllOf

LEMMA LongText ==
  ASSUME NEW t \in Long
  PROVE  t \in Text /\ t # None /\ t # Static /\ Size(t) \in Nat /\ Size(t) > 0 /\ t \in Values
BY Sizes, TextAssumption DEF Values

LEMMA AllOfSizes ==
  ASSUME NEW t \in Long, AllOf(t)
  PROVE  /\ AllSet /\ VocabSize = Size(t)
         /\ \A g \in Globals : env[g] = t
         /\ CanSample(Size(t))
         /\ env["char_to_ix"] = t /\ env["ix_to_char"] = t /\ env["meal_data"] = t
         /\ env["Wxh"] = t /\ env["Why"] = t /\ env["by"] = t
BY LongText, Names DEF AllOf, AllSet, VocabSize, CanSample

LEMMA EncodeServes ==
  ASSUME Types, NEW j \in Job, NEW t \in Long, AllOf(t), NEW kind \in {"rebuild", "train"}, EncodeFor(j, kind)
  PROVE  LET r == [Fresh EXCEPT !.kind = kind, !.pc = "forward", !.left = Iters, !.text = t]
         IN GoOn(j, r) /\ Fits(r, t) /\ r.kind = kind /\ r.pc = "forward" /\ UNCHANGED <<env, file>>
<1>1. env["meal_data"] = t /\ env["char_to_ix"] = t
  BY AllOfSizes
<1> QED
  BY <1>1 DEF EncodeFor, Fits, Fresh

LEMMA ForwardServes ==
  ASSUME Types, NEW j \in Job, NEW t \in Long, AllOf(t), Fits(req[j], t), Forward(j)
  PROVE  Serves(j, t)
<1> DEFINE h == [w \in WeightNames |-> env[w]]
           r == [req[j] EXCEPT !.pc = "take", !.step = 1, !.held = h]
<1>1. WellFormed(req[j]) /\ req[j].pc = "forward" /\ req[j].text = t /\ ~Saving(j)
  BY DEF Types, Forward, Fits, AtWork, Saving
<1>2. h = [w \in WeightNames |-> t]
  BY AllOfSizes, Names
<1>3. Size(req[j].text) = Size(t) /\ ~MayExceed(j, VocabSize) /\ ~MayExceed(j, Size(env["Why"]))
  BY <1>1, AllOfSizes, LongText DEF MayExceed
<1>4. GoOn(j, r) /\ UNCHANGED env /\ UNCHANGED file
  BY <1>3, AllOfSizes DEF Forward
<1>5. Fits(r, t) /\ r.kind = req[j].kind /\ r.pc = "take"
  <2> HIDE DEF h
  <2> QED
    BY <1>1, <1>2, Fields DEF Fits, AtWork, Requests
<1> HIDE DEF r
<1> QED
  BY <1>1, <1>4, <1>5, GoOnServes

LEMMA TakeServes ==
  ASSUME Types, NEW j \in Job, NEW t \in Long, AllOf(t), Fits(req[j], t), Take(j)
  PROVE  Serves(j, t)
<1> DEFINE w == Weights[req[j].step]
           r == [req[j] EXCEPT !.pc = "put", !.held[w] = env[w]]
<1>1. WellFormed(req[j]) /\ req[j].pc = "take" /\ req[j].text = t /\ ~Saving(j)
  BY DEF Types, Take, Fits, AtWork, Saving
<1>2. w \in WeightNames /\ env[w] = t /\ req[j].held[w] = t
  <2>1. req[j].step \in 1 .. 5
    BY <1>1, Fields
  <2> QED
    BY <1>1, <2>1, Names DEF Fits, AllOf
<1>3. GoOn(j, r) /\ UNCHANGED env /\ UNCHANGED file
  BY <1>2 DEF Take
<1>4. Fits(r, t) /\ r.kind = req[j].kind /\ r.pc = "put"
  <2> HIDE DEF w
  <2> QED
    BY <1>1, <1>2, Fields DEF Fits, AtWork, Requests
<1> HIDE DEF r
<1> QED
  BY <1>1, <1>3, <1>4, GoOnServes

LEMMA PutServes ==
  ASSUME Types, NEW j \in Job, NEW t \in Long, AllOf(t), Fits(req[j], t), Put(j)
  PROVE  Serves(j, t)
<1> DEFINE w == Weights[req[j].step]
<1>1. WellFormed(req[j]) /\ req[j].pc = "put" /\ req[j].text = t /\ ~Saving(j)
  BY DEF Types, Put, Fits, AtWork, Saving
<1>2. w \in WeightNames /\ req[j].held[w] = t
  <2>1. req[j].step \in 1 .. 5
    BY <1>1, Fields
  <2> QED
    BY <1>1, <2>1, Names DEF Fits
<1>3. env' = env
  BY <1>2, Names DEF Put, Types, AllOf
<1>4. PICK r : GoOn(j, r) /\ r \in {[req[j] EXCEPT !.pc = "report", !.held = Fresh.held, !.step = 1],
                                    [req[j] EXCEPT !.pc = "take", !.step = @ + 1]}
  BY Zenon DEF Put
<1>5. Fits(r, t) /\ r.kind = req[j].kind /\ r.pc \in {"report", "take"}
  <2> DEFINE n == req[j].step + 1
  <2>1. CASE r = [req[j] EXCEPT !.pc = "report", !.held = Fresh.held, !.step = 1]
    <3>1. r.text = req[j].text /\ r.kind = req[j].kind /\ r.pc = "report"
      BY <1>1, <2>1, Fields DEF Requests
    <3> QED
      BY <1>1, <3>1 DEF Fits
  <2>2. CASE r = [req[j] EXCEPT !.pc = "take", !.step = n]
    <3>1. r.text = req[j].text /\ r.kind = req[j].kind /\ r.pc = "take" /\ r.held = req[j].held
      <4> HIDE DEF n
      <4> QED
        BY <1>1, <2>2, Fields DEF Requests
    <3> QED
      BY <1>1, <3>1 DEF Fits
  <2> QED
    BY <1>4, <2>1, <2>2, Zenon
<1> QED
  BY <1>1, <1>3, <1>4, <1>5, GoOnServes DEF Put

LEMMA ReportServes ==
  ASSUME Types, NEW j \in Job, NEW t \in Long, AllOf(t), Fits(req[j], t), Report(j)
  PROVE  Serves(j, t)
<1> DEFINE p == IF req[j].left = 1 THEN "open" ELSE "forward"
           r == [req[j] EXCEPT !.pc = p, !.left = @ - 1]
<1>1. WellFormed(req[j]) /\ req[j].pc = "report" /\ req[j].text = t /\ ~Saving(j)
  BY DEF Types, Report, Fits, AtWork, Saving
<1>2. ~MayExceed(j, VocabSize) /\ CanSample(VocabSize) /\ Size(env["ix_to_char"]) >= VocabSize
  BY <1>1, AllOfSizes, LongText DEF MayExceed
<1>3. GoOn(j, r) /\ UNCHANGED env /\ UNCHANGED file
  BY <1>2 DEF Report
<1>4. Fits(r, t) /\ r.kind = req[j].kind /\ r.pc \in {"open", "forward"}
  BY <1>1, Fields DEF Fits, AtWork, Requests
<1> HIDE DEF r
<1> QED
  BY <1>1, <1>3, <1>4, GoOnServes

LEMMA OpenServes ==
  ASSUME Types, NEW j \in Job, NEW t \in Long, AllOf(t), Fits(req[j], t), Open(j)
  PROVE  Serves(j, t) /\ (Clash' \/ Saving(j)')
<1> DEFINE others == {k \in Job \ {j} : Saving(k)}
           p == IF others = {} THEN "write" ELSE "clash"
<1>1. WellFormed(req[j]) /\ req[j].pc = "open" /\ req[j].text = t
  BY DEF Types, Open, Fits, AtWork
<1>2. \A k \in Job : req'[k] = IF k = j \/ k \in others THEN [req[k] EXCEPT !.pc = p] ELSE req[k]
  BY DEF Open
<1>3. req'[j].pc = p /\ req'[j].text = t /\ req'[j].kind = req[j].kind
  <2>1. req'[j] = [req[j] EXCEPT !.pc = p]
    BY <1>2
  <2> HIDE DEF p
  <2> QED
    BY <1>1, <2>1, Fields DEF Requests
<1>4. Fits(req'[j], t) /\ Saving(j)'
  BY <1>3 DEF Fits, Saving, AtWork
<1>5. \A k \in Job \ {j} : req'[k] = req[k] \/ Clash'
  <2>1. CASE others = {}
    BY <1>2, <2>1
  <2>2. CASE others # {}
    BY <1>3, <2>2 DEF Clash
  <2> QED
    BY <2>1, <2>2
<1>6. file' = Broken /\ env' = env /\ outcome' = "none"
  BY DEF Open
<1> QED
  BY <1>3, <1>4, <1>5, <1>6 DEF Serves, AllOf

LEMMA WriteServes ==
  ASSUME Types, NEW j \in Job, NEW t \in Long, AllOf(t), Fits(req[j], t), Write(j), ~Clash
  PROVE  Serves(j, t)
<1>1. req[j].pc = "write"
  BY DEF Write, Saving, Clash
<1>2. file' = [w \in WeightNames |-> t]
  BY <1>1, AllOfSizes, Names DEF Write
<1>3. req'[j] = Fresh /\ Fresh.pc = "idle" /\ outcome' = "trained" /\ env' = env
  BY Just DEF Write, End, Fresh
<1>4. \A k \in Job \ {j} : req'[k] = req[k]
  BY Just DEF Write, End
<1> QED
  BY <1>2, <1>3, <1>4 DEF Serves, AllOf, Fits, AtWork

LEMMA BindServes ==
  ASSUME Types, NEW j \in Job, NEW t \in Long, AllOf(t), Fits(req[j], t), Bind(j)
  PROVE  Serves(j, t)
<1> DEFINE r == [Fresh EXCEPT !.kind = "plan", !.pc = "seed", !.left = Draws]
<1>1. WellFormed(req[j]) /\ req[j].pc = "bind" /\ ~Saving(j)
  BY DEF Types, Bind, Saving
<1>2. \A w \in WeightNames : req[j].held[w] = t
  BY <1>1 DEF Fits
<1>3. env' = env
  BY <1>2, Names DEF Bind, Types, AllOf
<1>4. r.kind = "plan" /\ r.pc = "seed" /\ r.top = 0
  BY DEF Fresh
<1>5. req[j].kind = "plan"
  BY <1>1, Fields DEF Consistent, Planning
<1> HIDE DEF r
<1>6. Fits(r, t)
  BY <1>4, LongText DEF Fits, AtWork
<1> QED
  BY <1>1, <1>3, <1>4, <1>5, <1>6, GoOnServes DEF Bind, r

LEMMA SeedServes ==
  ASSUME Types, NEW j \in Job, NEW t \in Long, AllOf(t), Fits(req[j], t), Seed(j)
  PROVE  Serves(j, t)
<1>1. WellFormed(req[j]) /\ req[j].pc = "seed" /\ ~Saving(j) /\ env' = env /\ file' = file
  BY DEF Types, Seed, Saving
<1>2. \A s \in Seeds : s < VocabSize
  BY AllOfSizes, LongText DEF Seeds
<1>3. CASE End(j, "blank")
  <2>1. req'[j] = Fresh /\ Fresh.pc = "idle" /\ outcome' = "blank"
    BY <1>3, Just DEF End, Fresh
  <2>2. \A k \in Job \ {j} : req'[k] = req[k]
    BY <1>3, Just DEF End
  <2>3. req[j].kind = "plan"
    BY <1>1, Fields DEF Consistent, Planning
  <2> QED
    BY <1>1, <2>1, <2>2, <2>3 DEF Serves, AllOf, Fits, AtWork
<1>4. CASE ~End(j, "blank")
  <2> DEFINE r == [req[j] EXCEPT !.pc = "draw", !.x = VocabSize]
  <2>1. GoOn(j, r) /\ UNCHANGED env /\ UNCHANGED file
    BY <1>2, <1>4 DEF Seed
  <2>2. Fits(r, t) /\ r.kind = req[j].kind /\ r.pc = "draw"
    BY <1>1, AllOfSizes, Fields DEF Fits, AtWork, Requests
  <2> HIDE DEF r
  <2> QED
    BY <1>1, <2>1, <2>2, GoOnServes
<1> QED
  BY <1>3, <1>4

LEMMA DrawServes ==
  ASSUME Types, NEW j \in Job, NEW t \in Long, AllOf(t), Fits(req[j], t), Draw(j)
  PROVE  Serves(j, t)
<1> DEFINE q == req[j]
           p == IF q.left = 1 THEN "decode" ELSE "draw"
<1>1. WellFormed(q) /\ q.pc = "draw" /\ q.x = Size(t) /\ q.top < Size(t) /\ ~Saving(j)
  BY DEF Types, Draw, Fits, Saving
<1>2. CanSample(q.x)
  BY <1>1, AllOfSizes
<1>3. PICK ix \in 0 .. VocabSize - 1 :
            GoOn(j, [q EXCEPT !.pc = IF q.left = 1 THEN "decode" ELSE "draw", !.left = @ - 1,
                              !.x = VocabSize, !.top = IF ix > @ THEN ix ELSE @])
  BY <1>2 DEF Draw
<1> DEFINE n == q.left - 1
           top == IF ix > q.top THEN ix ELSE q.top
           r == [q EXCEPT !.pc = p, !.left = n, !.x = VocabSize, !.top = top]
<1>4. GoOn(j, r)
  BY <1>3, Zenon
<1>5. top < Size(t) /\ VocabSize = Size(t)
  BY <1>1, AllOfSizes, LongText, Fields
<1>6. Fits(r, t) /\ r.kind = q.kind /\ r.pc \in {"draw", "decode"}
  <2>1. r.pc = p /\ r.x = VocabSize /\ r.top = top /\ r.kind = q.kind
    <3> HIDE DEF n, top, p, q
    <3> QED
      BY <1>1, Fields DEF Requests
  <2> HIDE DEF r
  <2> QED
    BY <1>5, <2>1 DEF Fits, AtWork
<1> HIDE DEF r
<1> QED
  BY <1>1, <1>4, <1>6, GoOnServes DEF Draw

LEMMA DecodeServes ==
  ASSUME Types, NEW j \in Job, NEW t \in Long, AllOf(t), Fits(req[j], t), Decode(j)
  PROVE  Serves(j, t)
<1>1. req[j].pc = "decode" /\ WellFormed(req[j]) /\ ~Saving(j)
  BY DEF Decode, Types, Saving
<1>2. End(j, "answered") /\ env' = env /\ file' = file
  BY <1>1, AllOfSizes DEF Decode, Fits
<1>3. req'[j] = Fresh /\ Fresh.pc = "idle" /\ outcome' = "answered"
  BY <1>2, Just DEF End, Fresh
<1>4. \A k \in Job \ {j} : req'[k] = req[k]
  BY <1>2, Just DEF End
<1>5. req[j].kind = "plan"
  BY <1>1, Fields DEF Consistent, Planning
<1> QED
  BY <1>1, <1>2, <1>3, <1>4, <1>5 DEF Serves, AllOf, Fits, AtWork

LEMMA StepServes ==
  ASSUME Types, NEW j \in Job, NEW t \in Long, AllOf(t), Fits(req[j], t), Step(j), ~Assign(j), ~Clash
  PROVE  Serves(j, t)
<1>1. CASE Encode(j)
  <2> DEFINE r == [Fresh EXCEPT !.kind = "rebuild", !.pc = "forward", !.left = Iters, !.text = t]
  <2>1. WellFormed(req[j]) /\ req[j].pc = "encode" /\ ~Saving(j)
    BY <1>1 DEF Encode, Types, Saving
  <2>2. req[j].kind = "rebuild"
    BY <2>1, Fields DEF Consistent
  <2>3. GoOn(j, r) /\ Fits(r, t) /\ r.kind = "rebuild" /\ r.pc = "forward" /\ UNCHANGED <<env, file>>
    BY <1>1, EncodeServes DEF Encode
  <2> HIDE DEF r
  <2> QED
    BY <2>1, <2>2, <2>3, GoOnServes
<1> QED
  BY <1>1, ForwardServes, TakeServes, PutServes, ReportServes, OpenServes, WriteServes, BindServes,
     SeedServes, DrawServes, DecodeServes DEF Step

LEMMA AssignServes ==
  ASSUME Types, NEW j \in Job, NEW t \in Long, req[j].text = t, Assign(j),
         \A i \in 1 .. 10 : i < req[j].step => env[Rebuilt[i]] = t
  PROVE  /\ req'[j].text = t /\ req'[j].kind = "rebuild"
         /\ outcome' = "none" /\ \A k \in Job \ {j} : req'[k] = req[k]
         /\ \/ /\ req'[j].pc = "assign"
               /\ \A i \in 1 .. 10 : i < req'[j].step => env'[Rebuilt[i]] = t
            \/ req'[j].pc = "encode" /\ AllOf(t)'
<1> DEFINE s == req[j].step
           n == s + 1
           g == Rebuilt[s]
           done == [req[j] EXCEPT !.pc = "encode", !.step = 1]
           more == [req[j] EXCEPT !.step = n]
<1>1. req[j] \in Requests /\ req[j].pc = "assign" /\ s \in 1 .. 10 /\ req[j].kind = "rebuild"
  BY Fields DEF Assign, Types, Consistent
<1>2. Made(j, g) = t
  <2>1. CASE s = 1
    BY <2>1 DEF Made, Rebuilt
  <2>2. CASE s = 2
    <3>1. env["meal_data"] = t
      BY <2>2 DEF Rebuilt
    <3> QED
      BY <2>2, <3>1 DEF Made, Rebuilt, Source
  <2>3. CASE s \in 3 .. 5
    <3>1. env[Rebuilt[2]] = t /\ Rebuilt[2] = "chars"
      BY <2>3 DEF Rebuilt
    <3>2. g \in {"vocab_size", "char_to_ix", "ix_to_char"}
      BY <2>3 DEF Rebuilt
    <3> QED
      BY <3>1, <3>2 DEF Made, Source
  <2>4. CASE s \in 6 .. 10
    <3>1. env[Rebuilt[3]] = t /\ Rebuilt[3] = "vocab_size"
      BY <2>4 DEF Rebuilt
    <3>2. g \in {"Wxh", "Whh", "Why", "bh", "by"}
      BY <2>4 DEF Rebuilt
    <3> QED
      BY <3>1, <3>2 DEF Made, Source
  <2> QED
    BY <1>1, <2>1, <2>2, <2>3, <2>4
<1>3. env' = [env EXCEPT ![g] = t]
  BY <1>2 DEF Assign
<1>4. \A i \in 1 .. 10 : i < n => env'[Rebuilt[i]] = t
  <2> SUFFICES ASSUME NEW i \in 1 .. 10, i < n PROVE env'[Rebuilt[i]] = t
    OBVIOUS
  <2>1. CASE Rebuilt[i] = g
    BY <1>1, <1>3, <2>1, Names DEF Types
  <2>2. CASE Rebuilt[i] # g
    <3>1. i < s
      BY <1>1, <2>2
    <3> QED
      BY <1>3, <2>2, <3>1, Names DEF Types
  <2> QED
    BY <2>1, <2>2
<1>5. outcome' = "none" /\ \A k \in Job \ {j} : req'[k] = req[k]
  BY Just DEF Assign, GoOn
<1>6. CASE s = 10
  <2>1. req'[j] = done
    BY <1>6, Just, Names DEF Assign, GoOn
  <2>2. req'[j].text = t /\ req'[j].kind = "rebuild" /\ req'[j].pc = "encode"
    BY <1>1, <2>1 DEF Requests
  <2>3. AllOf(t)'
    <3>1. \A i \in 1 .. 10 : env'[Rebuilt[i]] = t
      BY <1>4, <1>6
    <3>2. DOMAIN Rebuilt = 1 .. 10
      BY DEF Rebuilt
    <3>3. \A a \in Globals : \E i \in 1 .. 10 : a = Rebuilt[i]
      BY <3>2 DEF Globals
    <3> QED
      BY <3>1, <3>3 DEF AllOf
  <2> QED
    BY <1>5, <2>2, <2>3
<1>7. CASE s # 10
  <2>1. req'[j] = more
    <3>1. req' = [req EXCEPT ![j] = more]
      BY <1>7, Names, Zenon DEF Assign, GoOn
    <3> HIDE DEF more
    <3> QED
      BY <3>1, Just
  <2>2. req'[j].text = t /\ req'[j].kind = "rebuild" /\ req'[j].pc = "assign" /\ req'[j].step = n
    <3> HIDE DEF n
    <3> QED
      BY <1>1, <2>1 DEF Requests
  <2> QED
    BY <1>4, <1>5, <2>2
<1> QED
  BY <1>6, <1>7

\* What a request that does not begin a rebuild does when it comes.
LEMMA ComingServes ==
  ASSUME Types, NEW j \in Job, NEW t \in Long, Made1(t),
         TrainRnn(j) \/ MealPlan(j) \/ MealPlan2(j)
  PROVE  /\ UNCHANGED <<env, file>>
         /\ Fits(req'[j], t) /\ req'[j].kind # "rebuild"
         /\ outcome' \in {"failed", "refused"} => file = Broken
         /\ \A k \in Job \ {j} : req'[k] = req[k]
<1>1. CASE TrainRnn(j)
  <2> DEFINE r == [Fresh EXCEPT !.kind = "train", !.pc = "forward", !.left = Iters, !.text = t]
  <2>1. GoOn(j, r) /\ Fits(r, t) /\ r.kind = "train" /\ UNCHANGED <<env, file>>
    BY <1>1, EncodeServes DEF TrainRnn, Made1
  <2> HIDE DEF r
  <2> QED
    BY <2>1, Just DEF GoOn
<1>2. ASSUME NEW caught, LoadFile(j, caught)
      PROVE  /\ UNCHANGED <<env, file>>
             /\ Fits(req'[j], t) /\ req'[j].kind # "rebuild"
             /\ outcome' \in {"failed", "refused"} => file = Broken
             /\ \A k \in Job \ {j} : req'[k] = req[k]
  <2>1. CASE file = [w \in WeightNames |-> t]
    <3> DEFINE r == [Fresh EXCEPT !.kind = "plan", !.pc = "bind", !.held = file]
    <3>1. file \in [WeightNames -> Text \cup {None}]
      BY <2>1, LongText
    <3>2. file \notin {Absent, Broken}
      BY <3>1, FileAssumption
    <3>3. GoOn(j, r) /\ UNCHANGED <<env, file>>
      BY <1>2, <3>2 DEF LoadFile
    <3>4. r.kind = "plan" /\ r.pc = "bind" /\ r.held = file
      BY DEF Fresh
    <3> HIDE DEF r
    <3>5. Fits(r, t)
      BY <2>1, <3>4 DEF Fits, AtWork
    <3> QED
      BY <3>3, <3>4, <3>5, Just DEF GoOn
  <2>2. CASE file = Broken
    <3>1. req'[j] = Fresh /\ (\A k \in Job \ {j} : req'[k] = req[k]) /\ UNCHANGED <<env, file>>
      BY <1>2, <2>2, Just DEF LoadFile, End
    <3>2. Fits(Fresh, t) /\ Fresh.kind = "none"
      BY DEF Fits, AtWork, Fresh
    <3> QED
      BY <2>2, <3>1, <3>2
  <2> QED
    BY <2>1, <2>2 DEF Made1
<1> QED
  BY <1>1, <1>2 DEF MealPlan, MealPlan2

LEMMA Idle ==
  ASSUME Types, NEW k \in Job, ~Busy(k), NEW t
  PROVE  Fits(req[k], t) /\ ~Rebuilding(k)
BY DEF Fits, AtWork, Busy, Rebuilding

\* The step of a request that begins a rebuild, told from the others.
LEMMA FetchBegins ==
  ASSUME Types, NEW j \in Job, Scrape(j) \/ FetchPubmed(j)
  PROVE  begun # {}
<1>1. PICK t \in Text : GoOn(j, [Fresh EXCEPT !.kind = "rebuild", !.pc = "assign", !.text = t])
  BY DEF Scrape, FetchPubmed, StartRebuild
<1>2. ~Busy(j)
  BY DEF Scrape, FetchPubmed, StartRebuild
<1>3. [Fresh EXCEPT !.kind = "rebuild", !.pc = "assign", !.text = t].kind = "rebuild"
  BY DEF Fresh
<1>4. [Fresh EXCEPT !.kind = "rebuild", !.pc = "assign", !.text = t].pc = "assign"
  BY DEF Fresh
<1>5. req'[j].kind = "rebuild" /\ req'[j].pc = "assign"
  BY <1>1, <1>3, <1>4, Just DEF GoOn
<1>6. Rebuilding(j)'
  BY <1>5 DEF Rebuilding, Busy
<1> QED
  BY <1>2, <1>6 DEF begun

Calm == sound => ~Overlap /\ ~Clash

LEMMA CalmStep == ASSUME Calm, [Next]_vars PROVE Calm'
<1>1. CASE Restart
  BY <1>1 DEF Restart, Calm
<1>2. CASE Observe
  BY <1>2 DEF Observe, Calm
<1>3. CASE UNCHANGED vars
  BY <1>3 DEF vars, Calm, Overlap, Clash, Rebuilding, Busy
<1> QED
  BY <1>1, <1>2, <1>3 DEF Next

\* What Observe leaves of a step after which the model is still sound.
LEMMA Sounds ==
  ASSUME Observe, sound'
  PROVE  /\ ~Overlap' /\ ~Clash'
         /\ begun = {} => sound
         /\ \A k \in begun : req'[k].text \in Long
BY DEF Observe, begun

LEMMA BegunWhole ==
  ASSUME Types, NEW j \in Job, Request(j) \/ Step(j), Observe, sound', begun # {}
  PROVE  \E t \in Long : InTheMaking(t)'
<1>1. PICK t \in Text : req' = [req EXCEPT ![j] = [Fresh EXCEPT !.kind = "rebuild", !.pc = "assign", !.text = t]]
  BY BeginsOne
<1> DEFINE r == [Fresh EXCEPT !.kind = "rebuild", !.pc = "assign", !.text = t]
<1>2. req'[j] = r
  BY <1>1, Just
<1>3. r.kind = "rebuild" /\ r.pc = "assign" /\ r.text = t /\ r.step = 1
  BY DEF Fresh
<1> HIDE DEF r
<1>4. Rebuilding(j)'
  BY <1>2, <1>3 DEF Rebuilding, Busy
<1>5. t \in Long
  BY <1>2, <1>3, BeginsOne, Sounds
<1>6. \A k \in Job \ {j} : ~Busy(k)'
  BY <1>4, Sounds DEF Overlap
<1>7. Fits(req'[j], t)
  BY <1>2, <1>3 DEF Fits
<1>8. \A i \in 1 .. 10 : ~(i < req'[j].step)
  BY <1>2, <1>3
<1>9. InTheMaking(t)'
  BY <1>2, <1>3, <1>4, <1>6, <1>7, <1>8 DEF InTheMaking
<1> QED
  BY <1>5, <1>9

\* The model is made: who comes or steps leaves it so.
LEMMA MadeStays ==
  ASSUME Types, NEW t \in Long, Made1(t), ~Clash, NEW j \in Job, Request(j) \/ Step(j),
         begun = {}, ~Clash'
  PROVE  Made1(t)'
<1>1. ~Assign(j)
  <2>1. req[j].kind # "rebuild" \/ ~Busy(j)
    BY DEF Made1, Rebuilding
  <2>2. req[j].pc = "assign" => req[j].kind = "rebuild"
    BY Fields DEF Types, Consistent
  <2> QED
    BY <2>1, <2>2 DEF Assign, Busy
<1>2. CASE Step(j)
  <2>1. Serves(j, t)
    BY <1>1, <1>2, StepServes DEF Made1
  <2>2. AllOf(t)' /\ \A k \in Job \ {j} : req'[k] = req[k]
    BY <2>1 DEF Serves
  <2>3. \A k \in Job : ~Rebuilding(k)' /\ Fits(req'[k], t)
    <3>1. ~Rebuilding(j)' /\ Fits(req'[j], t)
      <4>1. Busy(j)
        BY <1>2 DEF Step, Busy, Assign, Encode, Forward, Take, Put, Report, Open, Write, Bind, Seed, Draw, Decode, Saving
      <4>2. req[j].kind # "rebuild"
        BY <4>1 DEF Made1, Rebuilding
      <4> QED
        BY <2>1, <4>2 DEF Serves, Rebuilding, Busy
    <3>2. ASSUME NEW k \in Job \ {j} PROVE ~Rebuilding(k)' /\ Fits(req'[k], t)
      BY <2>2 DEF Made1, Rebuilding, Busy
    <3> QED
      BY <3>1, <3>2
  <2>4. \/ file' = [w \in WeightNames |-> t]
        \/ file' = Broken /\ \E k \in Job : Saving(k)'
    <3>1. CASE file' = file /\ ~Saving(j)
      <4>1. CASE file = Broken
        <5>1. PICK k \in Job : Saving(k)
          BY <4>1, LongText, FileAssumption DEF Made1
        <5>2. k # j /\ Saving(k)'
          BY <2>2, <3>1, <5>1 DEF Saving
        <5> QED
          BY <3>1, <4>1, <5>2
      <4> QED
        BY <3>1, <4>1 DEF Made1
    <3> QED
      BY <2>1, <3>1 DEF Serves
  <2> QED
    BY <2>2, <2>3, <2>4 DEF Made1
<1>3. CASE Request(j)
  <2>1. TrainRnn(j) \/ MealPlan(j) \/ MealPlan2(j)
    BY <1>3, FetchBegins DEF Request
  <2>2. /\ UNCHANGED <<env, file>>
        /\ Fits(req'[j], t) /\ req'[j].kind # "rebuild"
        /\ \A k \in Job \ {j} : req'[k] = req[k]
    BY <2>1, ComingServes
  <2>3. ~Busy(j)
    BY <2>1 DEF TrainRnn, MealPlan, MealPlan2, LoadFile
  <2>4. AllOf(t)'
    BY <2>2 DEF Made1, AllOf
  <2>5. ASSUME NEW k \in Job PROVE ~Rebuilding(k)' /\ Fits(req'[k], t)
    BY <2>2 DEF Made1, Rebuilding, Busy
  <2>6. \A k \in Job : Saving(k) => Saving(k)'
    BY <2>2, <2>3 DEF Saving, Busy
  <2> QED
    BY <2>2, <2>4, <2>5, <2>6 DEF Made1
<1> QED
  BY <1>2, <1>3

LEMMA ComingLeaves ==
  ASSUME Types, NEW j \in Job, TrainRnn(j) \/ MealPlan(j) \/ MealPlan2(j)
  PROVE  ~Busy(j) /\ UNCHANGED <<env, file>> /\ \A k \in Job \ {j} : req'[k] = req[k]
<1>1. ~Busy(j) /\ UNCHANGED <<env, file>>
  BY DEF TrainRnn, EncodeFor, MealPlan, MealPlan2, LoadFile
<1>2. \E r : req' = [req EXCEPT ![j] = r]
  BY DEF TrainRnn, EncodeFor, MealPlan, MealPlan2, LoadFile, GoOn, Raise, End
<1> QED
  BY <1>1, <1>2, Just

\* A rebuild that works alone makes it, and leaves it made.
LEMMA MakingGoesOn ==
  ASSUME Types, NEW t \in Long, InTheMaking(t), ~Clash, NEW j \in Job, Request(j) \/ Step(j),
         begun = {}, ~Clash', ~Overlap'
  PROVE  Made1(t)' \/ InTheMaking(t)'
<1>1. PICK k \in Job :
        /\ Rebuilding(k) /\ Fits(req[k], t)
        /\ \A i \in Job \ {k} : ~Busy(i)
        /\ IF req[k].pc = "assign"
           THEN \A i \in 1 .. 10 : i < req[k].step => env[Rebuilt[i]] = t
           ELSE AllOf(t)
  BY DEF InTheMaking
<1>2. Step(j) => Busy(j)
  BY DEF Step, Busy, Assign, Encode, Forward, Take, Put, Report, Open, Write, Bind, Seed, Draw, Decode, Saving
<1>3. CASE j # k
  <2>1. Request(j)
    BY <1>1, <1>2, <1>3
  <2>2. TrainRnn(j) \/ MealPlan(j) \/ MealPlan2(j)
    BY <2>1, FetchBegins DEF Request
  <2>3. UNCHANGED <<env, file>> /\ \A i \in Job \ {j} : req'[i] = req[i]
    BY <2>2, ComingLeaves
  <2>4. req'[k] = req[k] /\ Rebuilding(k)'
    BY <1>1, <1>3, <2>3 DEF Rebuilding, Busy
  <2>5. \A i \in Job \ {k} : ~Busy(i)'
    BY <2>4 DEF Overlap
  <2>6. AllOf(t) => AllOf(t)'
    BY <2>3 DEF AllOf
  <2>7. InTheMaking(t)'
    BY <1>1, <2>3, <2>4, <2>5, <2>6 DEF InTheMaking
  <2> QED
    BY <2>7
<1>4. CASE j = k /\ req[j].pc = "assign"
  <2>1. Assign(j)
    BY <1>1, <1>4 DEF Request, Step, Scrape, FetchPubmed, StartRebuild, TrainRnn, MealPlan, MealPlan2,
       LoadFile, Rebuilding, Busy, Encode, Forward, Take, Put, Report, Open, Write, Saving, Bind,
       Seed, Draw, Decode
  <2>2. req[j].text = t
    BY <1>1, <1>4 DEF Fits
  <2>3. /\ req'[j].text = t /\ req'[j].kind = "rebuild"
        /\ \A i \in Job \ {j} : req'[i] = req[i]
        /\ \/ /\ req'[j].pc = "assign"
              /\ \A i \in 1 .. 10 : i < req'[j].step => env'[Rebuilt[i]] = t
           \/ req'[j].pc = "encode" /\ AllOf(t)'
    BY <1>1, <1>4, <2>1, <2>2, AssignServes
  <2>4. Rebuilding(j)' /\ Fits(req'[j], t)
    BY <2>3 DEF Rebuilding, Busy, Fits
  <2>5. \A i \in Job \ {j} : ~Busy(i)'
    BY <1>1, <1>4, <2>3 DEF Busy
  <2>6. InTheMaking(t)'
    BY <2>3, <2>4, <2>5 DEF InTheMaking
  <2> QED
    BY <2>6
<1>5. CASE j = k /\ req[j].pc # "assign"
  <2>1. Step(j) /\ ~Assign(j)
    BY <1>1, <1>5 DEF Request, Scrape, FetchPubmed, StartRebuild, TrainRnn, MealPlan, MealPlan2,
       LoadFile, Rebuilding, Assign
  <2>2. Serves(j, t)
    BY <1>1, <1>5, <2>1, StepServes
  <2>3. /\ AllOf(t)' /\ Fits(req'[j], t)
        /\ \A i \in Job \ {j} : req'[i] = req[i]
        /\ req'[j].pc = "idle" \/ (req'[j].kind = "rebuild" /\ req'[j].pc # "assign")
        /\ req'[j].pc = "idle" => file' = [w \in WeightNames |-> t]
    BY <1>1, <1>5, <2>2 DEF Serves, Rebuilding
  <2>4. \A i \in Job \ {j} : ~Busy(i)' /\ Fits(req'[i], t)
    BY <1>1, <1>5, <2>3, Idle DEF Busy
  <2>5. CASE req'[j].pc = "idle"
    <3>1. \A i \in Job : ~Rebuilding(i)' /\ Fits(req'[i], t)
      BY <2>3, <2>4, <2>5 DEF Rebuilding, Busy
    <3>2. Made1(t)'
      BY <2>3, <2>5, <3>1 DEF Made1
    <3> QED
      BY <3>2
  <2>6. CASE req'[j].pc # "idle"
    <3>1. Rebuilding(j)' /\ req'[j].pc # "assign"
      BY <2>3, <2>6 DEF Rebuilding, Busy
    <3>2. InTheMaking(t)'
      BY <2>3, <2>4, <3>1 DEF InTheMaking
    <3> QED
      BY <3>2
  <2> QED
    BY <2>5, <2>6
<1> QED
  BY <1>3, <1>4, <1>5

LEMMA WholeStep == ASSUME Types, Calm, Whole, [Next]_vars PROVE Whole'
<1>1. CASE Restart
  BY <1>1 DEF Restart, Whole
<1>2. ASSUME NEW j \in Job, Request(j) \/ Step(j), Observe, sound' PROVE Whole'
  <2>1. CASE begun # {}
    BY <1>2, <2>1, BegunWhole DEF Whole
  <2>2. CASE begun = {}
    <3>1. sound /\ ~Clash /\ ~Clash' /\ ~Overlap'
      BY <1>2, <2>2, Sounds DEF Calm
    <3>2. PICK t \in Long : Made1(t) \/ InTheMaking(t)
      BY <3>1 DEF Whole
    <3>3. Made1(t)' \/ InTheMaking(t)'
      BY <1>2, <2>2, <3>1, <3>2, MadeStays, MakingGoesOn
    <3> QED
      BY <3>3 DEF Whole
  <2> QED
    BY <2>1, <2>2
<1>3. CASE ~sound'
  BY <1>3 DEF Whole
<1>4. CASE UNCHANGED vars
  BY <1>4 DEF vars, Whole, Made1, InTheMaking, AllOf, Rebuilding, Busy, Saving
<1> QED
  BY <1>1, <1>2, <1>3, <1>4 DEF Next

LEMMA WholeAlways == Spec => [](Types /\ Calm /\ Whole)
<1>1. Init => Calm /\ Whole
  BY DEF Init, Calm, Whole
<1> QED
  BY <1>1, CalmStep, WholeStep, TypesAlways, PTL DEF Spec

(***************************************************************************)
(* Vocabulary, weights and file are of one text after a rebuild that       *)
(* nothing disturbed, whatever trains and generates after it.              *)
(***************************************************************************)
THEOREM SoundIsWhole == Spec => []ModelFitsVocabulary
<1>1. Whole => ModelFitsVocabulary
  BY DEF Whole, Made1, InTheMaking, AllOf, ModelFitsVocabulary
<1> QED
  BY <1>1, WholeAlways, PTL

(***************************************************************************)
(* With a sound model a request fails, or is told that there is none, only *)
(* while a file is being written or a rebuild is at work, a plan for a     *)
(* blank goal apart, which ends as "blank" and always fails.               *)
(***************************************************************************)
THEOREM SoundServes == Spec => SoundModelServes
<1> DEFINE Busily == \E k \in Job : Saving(k) \/ Rebuilding(k)
           Served == outcome' \in {"refused", "failed"} => ~sound \/ Busily
<1>1. ASSUME Types, Calm, Whole, [Next]_vars PROVE [Served]_vars
  <2>1. CASE Restart
    BY <2>1 DEF Restart
  <2>2. ASSUME NEW j \in Job, Request(j) \/ Step(j), sound PROVE Served
    <3>1. PICK t \in Long : Made1(t) \/ InTheMaking(t)
      BY <1>1, <2>2 DEF Whole
    <3>2. CASE InTheMaking(t)
      BY <3>2 DEF InTheMaking
    <3>3. CASE Made1(t) /\ begun # {}
      BY <1>1, <2>2, <3>3, BeginsOne
    <3>4. CASE Made1(t) /\ begun = {} /\ Request(j)
      <4>1. TrainRnn(j) \/ MealPlan(j) \/ MealPlan2(j)
        BY <1>1, <3>4, FetchBegins DEF Request
      <4>2. outcome' \in {"failed", "refused"} => file = Broken
        BY <1>1, <3>4, <4>1, ComingServes
      <4>3. file = Broken => Busily
        BY <3>4, LongText, FileAssumption DEF Made1
      <4> QED
        BY <4>2, <4>3
    <3>5. CASE Made1(t) /\ Step(j)
      <4>1. CASE Assign(j)
        <5>1. req[j].kind = "rebuild" /\ Busy(j)
          BY <1>1, <4>1, Fields DEF Assign, Types, Consistent, Busy
        <5> QED
          BY <5>1 DEF Rebuilding
      <4>2. CASE ~Assign(j)
        BY <1>1, <2>2, <3>5, <4>2, StepServes DEF Made1, Serves, Calm
      <4> QED
        BY <4>1, <4>2
    <3> QED
      BY <2>2, <3>1, <3>2, <3>3, <3>4, <3>5
  <2>3. CASE UNCHANGED vars
    BY <2>3
  <2> QED
    BY <1>1, <2>1, <2>2, <2>3 DEF Next
<1> QED
  BY <1>1, WholeAlways, PTL DEF Spec, SoundModelServes

-----------------------------------------------------------------------------
\* The globals a request has still to assign, the iterations it has still to
\* train, the letters it has still to draw, and what comes after them.
StepsAt(pc, step, left) ==
  CASE pc = "idle" -> 0
    [] pc \in {"write", "clash", "decode"} -> 1
    [] pc = "open" -> 2
    [] pc = "forward" -> 12 * left + 2
    [] pc = "take" -> 12 * left + 3 - 2 * step
    [] pc = "put" -> 12 * left + 2 - 2 * step
    [] pc = "report" -> 12 * left - 9
    [] pc = "encode" -> 12 * Iters + 3
    [] pc = "assign" -> 12 * Iters + 14 - step
    [] pc = "bind" -> Draws + 3
    [] pc = "seed" -> Draws + 2
    [] pc = "draw" -> left + 1
StepsLeft(r) == StepsAt(r.pc, r.step, r.left)

StepsBounded ==
  \A j \in Job :
    /\ StepsLeft(req[j]) \in 0 .. IF req[j].kind = "plan" THEN Draws + 3 ELSE 12 * Iters + 13
    /\ Busy(j) <=> StepsLeft(req[j]) > 0

\* A step is a restart, or of one request, which it begins or brings nearer to its end.
Advances ==
  \/ \A j \in Job : StepsLeft(req'[j]) = 0
  \/ \E j \in Job : /\ Busy(j) => StepsLeft(req'[j]) < StepsLeft(req[j])
                    /\ \A k \in Job \ {j} : StepsLeft(req'[k]) = StepsLeft(req[k])
StepsAdvance == [][Advances]_vars

\* What the places of a request, and its counters there, allow.
LEMMA Bounds ==
  ASSUME NEW q, WellFormed(q)
  PROVE  /\ StepsLeft(q) \in 0 .. IF q.kind = "plan" THEN Draws + 3 ELSE 12 * Iters + 13
         /\ q.pc # "idle" <=> StepsLeft(q) > 0
<1>1. /\ q \in Requests /\ q.left \in Nat /\ q.step \in 1 .. 10
      /\ q.pc # "assign" => q.step \in 1 .. 5
      /\ q.kind = "plan" => q.left <= Draws
      /\ q.kind # "plan" => q.left <= Iters
      /\ q.pc \in {"forward", "take", "put", "report", "seed", "draw"} => q.left > 0
      /\ q.pc \in {"assign", "encode"} \cup AtWork => q.kind # "plan"
      /\ q.pc \in Planning => q.kind = "plan"
  BY Fields DEF Consistent, AtWork, Planning
<1>2. Iters \in Nat \ {0} /\ Draws \in Nat \ {0}
  BY TextAssumption
<1>3. q.pc \in {"idle", "assign", "encode", "forward", "take", "put", "report", "open", "write",
                "clash", "bind", "seed", "draw", "decode"}
  BY <1>1 DEF Requests
<1> DEFINE n == StepsLeft(q)
           Within == /\ n \in Nat /\ (q.pc # "idle" <=> n > 0)
                     /\ q.kind = "plan" => n <= Draws + 3
                     /\ q.kind # "plan" => n <= 12 * Iters + 13
<1>4. ASSUME q.pc \in {"idle", "write", "clash", "open", "decode"} PROVE Within
  <2>1. n \in 0 .. 2 /\ (q.pc # "idle" <=> n > 0)
    BY <1>4 DEF StepsLeft, StepsAt
  <2> HIDE DEF n
  <2> QED
    BY <1>2, <2>1
<1>5. ASSUME q.pc \in {"forward", "take", "put", "report"} PROVE Within
  <2>1. q.kind # "plan" /\ q.left \in 1 .. Iters /\ q.step \in 1 .. 5
    BY <1>1, <1>2, <1>5 DEF AtWork
  <2>2. n \in {12 * q.left + 2, 12 * q.left + 3 - 2 * q.step, 12 * q.left + 2 - 2 * q.step, 12 * q.left - 9}
    BY <1>5 DEF StepsLeft, StepsAt
  <2> HIDE DEF n
  <2> QED
    BY <1>2, <1>5, <2>1, <2>2
<1>6. ASSUME q.pc \in {"assign", "encode"} PROVE Within
  <2>1. q.kind # "plan" /\ q.step \in 1 .. 10
    BY <1>1, <1>6
  <2>2. n \in {12 * Iters + 3, 12 * Iters + 14 - q.step}
    BY <1>6 DEF StepsLeft, StepsAt
  <2> HIDE DEF n
  <2> QED
    BY <1>2, <1>6, <2>1, <2>2
<1>7. ASSUME q.pc \in {"bind", "seed", "draw"} PROVE Within
  <2>1. q.kind = "plan" /\ q.left \in 0 .. Draws
    BY <1>1, <1>2, <1>7 DEF Planning
  <2>2. n \in {Draws + 3, Draws + 2, q.left + 1}
    BY <1>7 DEF StepsLeft, StepsAt
  <2> HIDE DEF n
  <2> QED
    BY <1>2, <1>7, <2>1, <2>2
<1>8. Within
  BY <1>3, <1>4, <1>5, <1>6, <1>7
<1> QED
  <2>1. StepsLeft(q) = n
    OBVIOUS
  <2> HIDE DEF n
  <2> QED
    BY <1>2, <1>8, <2>1

\* A step of request j, which leaves the others as far as they were.
Lowers(j) ==
  /\ StepsLeft(req'[j]) < StepsLeft(req[j])
  /\ \A k \in Job \ {j} : StepsLeft(req'[k]) = StepsLeft(req[k])

LEMMA GoOnLowers ==
  ASSUME Types, NEW j \in Job, NEW r, GoOn(j, r), StepsLeft(r) < StepsLeft(req[j])
  PROVE  Lowers(j)
BY Just DEF Lowers, GoOn

LEMMA EndLowers ==
  ASSUME Types, NEW j \in Job, NEW how, End(j, how), Busy(j)
  PROVE  Lowers(j)
<1>1. StepsLeft(Fresh) = 0
  BY DEF StepsLeft, StepsAt, Fresh
<1>2. StepsLeft(req[j]) > 0 /\ StepsLeft(req[j]) \in Int
  BY Bounds, TextAssumption DEF Types, Busy
<1>3. req'[j] = Fresh /\ \A k \in Job \ {j} : req'[k] = req[k]
  BY Just DEF End
<1> QED
  BY <1>1, <1>2, <1>3 DEF Lowers

LEMMA RebuildLowers ==
  ASSUME Types, NEW j \in Job, Assign(j) \/ Encode(j)
  PROVE  Lowers(j)
<1> DEFINE q == req[j]
<1>0. WellFormed(q) /\ q \in Requests /\ q.step \in 1 .. 10 /\ q.left \in Nat /\ Iters \in Nat
  BY Fields, TextAssumption DEF Types
<1>1. CASE Assign(j) /\ q.step = 10
  <2> DEFINE r == [q EXCEPT !.pc = "encode", !.step = 1]
  <2>1. r.pc = "encode" /\ r.step = 1 /\ r.left = q.left
    BY <1>0 DEF Requests
  <2>2. GoOn(j, r) /\ q.pc = "assign"
    BY <1>1, Names DEF Assign
  <2> HIDE DEF r
  <2>3. StepsLeft(r) < StepsLeft(q)
    BY <1>0, <1>1, <2>1, <2>2 DEF StepsLeft, StepsAt
  <2> QED
    BY <2>2, <2>3, GoOnLowers
<1>2. CASE Assign(j) /\ q.step # 10
  <2> DEFINE r == [q EXCEPT !.step = @ + 1]
  <2>1. r.pc = q.pc /\ r.step = q.step + 1 /\ r.left = q.left
    BY <1>0 DEF Requests
  <2>2. GoOn(j, r) /\ q.pc = "assign"
    BY <1>2, Names DEF Assign
  <2> HIDE DEF r
  <2>3. StepsLeft(r) < StepsLeft(q)
    BY <1>0, <2>1, <2>2 DEF StepsLeft, StepsAt
  <2> QED
    BY <2>2, <2>3, GoOnLowers
<1>3. CASE Encode(j)
  <2> DEFINE r == [Fresh EXCEPT !.kind = "rebuild", !.pc = "forward", !.left = Iters,
                                !.text = env["char_to_ix"]]
  <2>1. r.pc = "forward" /\ r.left = Iters
    BY DEF Fresh
  <2>2. q.pc = "encode" /\ (GoOn(j, r) \/ Raise(j))
    BY <1>3 DEF Encode, EncodeFor
  <2> HIDE DEF r
  <2>3. StepsLeft(r) < StepsLeft(q)
    BY <1>0, <2>1, <2>2 DEF StepsLeft, StepsAt
  <2> QED
    BY <2>2, <2>3, GoOnLowers, EndLowers DEF Raise, Busy
<1> QED
  BY <1>1, <1>2, <1>3

LEMMA TrainLowers ==
  ASSUME Types, NEW j \in Job, Forward(j) \/ Take(j) \/ Put(j) \/ Report(j)
  PROVE  Lowers(j)
<1> DEFINE q == req[j]
<1>0. WellFormed(q) /\ q \in Requests /\ q.left \in Nat /\ (q.pc # "assign" => q.step \in 1 .. 5)
  BY Fields DEF Types
<1>1. CASE Raise(j)
  BY <1>1, EndLowers DEF Forward, Take, Put, Report, Raise, Busy
<1>2. CASE Forward(j) /\ ~Raise(j)
  <2> DEFINE r == [q EXCEPT !.pc = "take", !.step = 1, !.held = [w \in WeightNames |-> env[w]]]
  <2>1. r.pc = "take" /\ r.step = 1 /\ r.left = q.left
    BY <1>0 DEF Requests
  <2>2. GoOn(j, r) /\ q.pc = "forward"
    BY <1>2 DEF Forward
  <2> HIDE DEF r
  <2>3. StepsLeft(r) < StepsLeft(q)
    BY <1>0, <2>1, <2>2 DEF StepsLeft, StepsAt
  <2> QED
    BY <2>2, <2>3, GoOnLowers
<1>3. CASE Take(j) /\ ~Raise(j)
  <2> DEFINE w == Weights[q.step]
             r == [q EXCEPT !.pc = "put", !.held[w] = env[w]]
  <2>1. r.pc = "put" /\ r.step = q.step /\ r.left = q.left
    BY <1>0 DEF Requests
  <2>2. GoOn(j, r) /\ q.pc = "take"
    BY <1>3 DEF Take
  <2> HIDE DEF r
  <2>3. StepsLeft(r) < StepsLeft(q)
    BY <1>0, <2>1, <2>2 DEF StepsLeft, StepsAt
  <2> QED
    BY <2>2, <2>3, GoOnLowers
<1>4. CASE Put(j) /\ LastWeight(j)
  <2> DEFINE r == [q EXCEPT !.pc = "report", !.held = Fresh.held, !.step = 1]
  <2>1. r.pc = "report" /\ r.left = q.left
    BY <1>0 DEF Requests
  <2>2. GoOn(j, r) /\ q.pc = "put"
    BY <1>4 DEF Put
  <2> HIDE DEF r
  <2>3. StepsLeft(r) < StepsLeft(q)
    BY <1>0, <2>1, <2>2 DEF StepsLeft, StepsAt
  <2> QED
    BY <2>2, <2>3, GoOnLowers
<1>5. CASE Put(j) /\ ~LastWeight(j)
  <2> DEFINE r == [q EXCEPT !.pc = "take", !.step = @ + 1]
  <2>1. r.pc = "take" /\ r.step = q.step + 1 /\ r.left = q.left
    BY <1>0 DEF Requests
  <2>2. GoOn(j, r) /\ q.pc = "put"
    BY <1>5 DEF Put
  <2> HIDE DEF r
  <2>3. StepsLeft(r) < StepsLeft(q)
    BY <1>0, <2>1, <2>2 DEF StepsLeft, StepsAt
  <2> QED
    BY <2>2, <2>3, GoOnLowers
<1>6. CASE Report(j) /\ ~Raise(j)
  <2> DEFINE r == [q EXCEPT !.pc = IF q.left = 1 THEN "open" ELSE "forward", !.left = @ - 1]
  <2>1. r.pc = (IF q.left = 1 THEN "open" ELSE "forward") /\ r.left = q.left - 1
    BY <1>0 DEF Requests
  <2>2. GoOn(j, r) /\ q.pc = "report"
    BY <1>6 DEF Report
  <2> HIDE DEF r
  <2>3. StepsLeft(r) < StepsLeft(q)
    BY <1>0, <2>1, <2>2 DEF StepsLeft, StepsAt
  <2> QED
    BY <2>2, <2>3, GoOnLowers
<1> QED
  BY <1>1, <1>2, <1>3, <1>4, <1>5, <1>6

\* Who opens the file takes the other writer into the clash, one step from its end.
LEMMA SaveLowers ==
  ASSUME Types, NEW j \in Job, Open(j) \/ Write(j)
  PROVE  Lowers(j)
<1>1. CASE Open(j)
  <2> DEFINE others == {k \in Job \ {j} : Saving(k)}
             p == IF others = {} THEN "write" ELSE "clash"
  <2>1. \A k \in Job : req'[k] = IF k = j \/ k \in others THEN [req[k] EXCEPT !.pc = p] ELSE req[k]
    BY <1>1 DEF Open
  <2>2. \A k \in Job : req[k] \in Requests
    BY Fields DEF Types
  <2>3. \A k \in Job : k = j \/ k \in others => req'[k].pc = p
    BY <2>1, <2>2 DEF Requests
  <2>4. p \in {"write", "clash"}
    OBVIOUS
  <2> HIDE DEF p
  <2>5. \A k \in Job : k = j \/ k \in others => StepsLeft(req'[k]) = 1
    BY <2>3, <2>4 DEF StepsLeft, StepsAt
  <2>6. \A k \in others : StepsLeft(req[k]) = 1
    BY DEF Saving, StepsLeft, StepsAt
  <2>7. StepsLeft(req[j]) = 2
    BY <1>1 DEF Open, StepsLeft, StepsAt
  <2> HIDE DEF others
  <2>8. StepsLeft(req'[j]) < StepsLeft(req[j])
    BY <2>5, <2>7
  <2>9. \A k \in Job \ {j} : StepsLeft(req'[k]) = StepsLeft(req[k])
    BY <2>1, <2>5, <2>6
  <2> QED
    BY <2>8, <2>9 DEF Lowers
<1>2. CASE Write(j)
  BY <1>2, EndLowers DEF Write, Saving, Busy
<1> QED
  BY <1>1, <1>2

LEMMA PlanLowers ==
  ASSUME Types, NEW j \in Job, Bind(j) \/ Seed(j) \/ Draw(j) \/ Decode(j)
  PROVE  Lowers(j)
<1> DEFINE q == req[j]
<1>0. WellFormed(q) /\ q \in Requests /\ q.left \in Nat /\ Draws \in Nat
  BY Fields, TextAssumption DEF Types
<1>1. CASE Raise(j) \/ End(j, "blank") \/ Decode(j)
  BY <1>1, EndLowers DEF Bind, Seed, Draw, Decode, Raise, Busy
<1>2. CASE Bind(j)
  <2> DEFINE r == [Fresh EXCEPT !.kind = "plan", !.pc = "seed", !.left = Draws]
  <2>1. r.pc = "seed"
    BY DEF Fresh
  <2>2. GoOn(j, r) /\ q.pc = "bind"
    BY <1>2 DEF Bind
  <2> HIDE DEF r
  <2>3. StepsLeft(r) < StepsLeft(q)
    BY <1>0, <2>1, <2>2 DEF StepsLeft, StepsAt
  <2> QED
    BY <2>2, <2>3, GoOnLowers
<1>3. CASE Seed(j) /\ ~Raise(j) /\ ~End(j, "blank")
  <2> DEFINE r == [q EXCEPT !.pc = "draw", !.x = VocabSize]
  <2>1. r.pc = "draw" /\ r.left = q.left
    BY <1>0 DEF Requests
  <2>2. GoOn(j, r) /\ q.pc = "seed"
    BY <1>3 DEF Seed
  <2>3. q.left <= Draws
    BY <1>0, <2>2, Fields DEF Consistent, Planning
  <2> HIDE DEF r
  <2>4. StepsLeft(r) < StepsLeft(q)
    BY <1>0, <2>1, <2>2, <2>3 DEF StepsLeft, StepsAt
  <2> QED
    BY <2>2, <2>4, GoOnLowers
<1>4. CASE Draw(j) /\ ~Raise(j)
  <2>1. PICK ix \in 0 .. VocabSize - 1 :
            GoOn(j, [q EXCEPT !.pc = IF q.left = 1 THEN "decode" ELSE "draw",
                              !.left = @ - 1, !.x = VocabSize,
                              !.top = IF ix > @ THEN ix ELSE @])
    BY <1>4 DEF Draw
  <2> DEFINE r == [q EXCEPT !.pc = IF q.left = 1 THEN "decode" ELSE "draw",
                            !.left = @ - 1, !.x = VocabSize,
                            !.top = IF ix > @ THEN ix ELSE @]
  <2>2. r.pc = (IF q.left = 1 THEN "decode" ELSE "draw") /\ r.left = q.left - 1
    BY <1>0 DEF Requests
  <2>3. GoOn(j, r) /\ q.pc = "draw"
    BY <1>4, <2>1 DEF Draw
  <2> HIDE DEF r
  <2>4. StepsLeft(r) < StepsLeft(q)
    BY <1>0, <2>2, <2>3 DEF StepsLeft, StepsAt
  <2> QED
    BY <2>3, <2>4, GoOnLowers
<1> QED
  BY <1>1, <1>2, <1>3, <1>4

LEMMA StepLowers == ASSUME Types, NEW j \in Job, Step(j) PROVE Lowers(j)
BY RebuildLowers, TrainLowers, SaveLowers, PlanLowers DEF Step

LEMMA RequestBegins ==
  ASSUME Types, NEW j \in Job, Request(j)
  PROVE  ~Busy(j) /\ \A k \in Job \ {j} : req'[k] = req[k]
<1>1. CASE Scrape(j) \/ FetchPubmed(j)
  <2>1. PICK t \in Text : GoOn(j, [Fresh EXCEPT !.kind = "rebuild", !.pc = "assign", !.text = t])
    BY <1>1 DEF Scrape, FetchPubmed, StartRebuild
  <2> QED
    BY <1>1, <2>1, Just DEF Scrape, FetchPubmed, StartRebuild, GoOn
<1>2. CASE TrainRnn(j) \/ MealPlan(j) \/ MealPlan2(j)
  BY <1>2, ComingLeaves
<1> QED
  BY <1>1, <1>2 DEF Request

(***************************************************************************)
(* The safety half of TrainingEnds: a request has a number of steps before *)
(* it, at most 12 * Iters + 13 for a rebuild (the ten globals, Iters times *)
(* five weights, the save) and Draws + 3 for a plan, and each of its steps *)
(* lowers it (ml1.py:77-136, 259-298).  Others change its weights, make it *)
(* raise or clash with its save, but never give it more to do.             *)
(***************************************************************************)
THEOREM EveryStepAdvances == Spec => []StepsBounded /\ StepsAdvance
<1>1. Types => StepsBounded
  BY Bounds DEF Types, StepsBounded, Busy
<1>2. Types /\ [Next]_vars => [Advances]_vars
  <2> SUFFICES ASSUME Types, Next PROVE Advances
    OBVIOUS
  <2>1. CASE Restart
    BY <2>1 DEF Restart, Advances, StepsLeft, StepsAt, Fresh
  <2>2. ASSUME NEW j \in Job, Step(j) PROVE Advances
    BY <2>2, StepLowers DEF Lowers, Advances
  <2>3. ASSUME NEW j \in Job, Request(j) PROVE Advances
    BY <2>3, RequestBegins DEF Advances
  <2> QED
    BY <2>1, <2>2, <2>3 DEF Next
<1> QED
  BY <1>1, <1>2, TypesAlways, PTL DEF Spec, StepsAdvance
=============================================================================
