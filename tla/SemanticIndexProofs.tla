------------------------- MODULE SemanticIndexProofs -------------------------
(***************************************************************************)
(* Theorems about SemanticIndex, for any number of uploads and searches,   *)
(* any batches and any K.                                                  *)
(***************************************************************************)
EXTENDS SemanticIndex, SequenceTheorems, FiniteSetTheorems, TLAPS

Labels == -1 .. MaxVectors - 1
Hit == [label : Labels, product : Products]

\* Until one overtakes another, the uploads between index and list wait in line.
InLine ==
  /\ \A i, j \in 1..Len(waiting) : waiting[i] = waiting[j] => i = j
  /\ \A u \in Upload : batch[u] # <<>> <=> \E i \in 1..Len(waiting) : waiting[i] = u

Typed ==
  /\ TypeOK
  /\ Len(index) <= MaxVectors
  /\ \A u \in Upload : flagged[u] => batch[u] # <<>>
  /\ overtaken \/ InLine

LEMMA BatchType ==
  ASSUME Typed, NEW u \in Upload
  PROVE  batch[u] \in Seq(Products) /\ (batch[u] # <<>> => batch[u] \in Batches)
<1>1. batch[u] \in Batches \cup {<<>>} /\ <<>> \in Seq(Products)
  BY DEF Typed, TypeOK
<1>2. \A b \in Batches : b \in Seq(Products)
  BY SemanticIndexAssumption
<1> QED
  BY <1>1, <1>2

LEMMA NewType ==
  ASSUME NEW new \in Batches
  PROVE  new \in Seq(Products) /\ new # <<>> /\ Len(new) \in Nat \ {0}
<1>1. new \in Seq(Products) /\ new # <<>>
  BY SemanticIndexAssumption
<1> QED
  BY <1>1, EmptySeq

-----------------------------------------------------------------------------
\* What the two steps of an upload do that the rest of the module needs.
LEMMA AddEffect ==
  ASSUME Typed, NEW u \in Upload, NEW new \in Batches, batch[u] = <<>>,
         Len(index) + Len(new) <= MaxVectors,
         batch' = [batch EXCEPT ![u] = new], index' = index \o new,
         waiting' = IF overtaken THEN <<>> ELSE Append(waiting, u),
         UNCHANGED <<index_is_empty, product_metadata, flagged, overtaken, queryVars>>
  PROVE  Typed'
<1>1. index' \in Seq(Products) /\ Len(index') <= MaxVectors
  <2>1. index \in Seq(Products) /\ new \in Seq(Products)
    BY NewType DEF Typed, TypeOK
  <2> QED
    BY <2>1, ConcatProperties
<1>2. waiting' \in Seq(Upload)
  BY DEF Typed, TypeOK
<1>3. TypeOK'
  BY <1>1, <1>2 DEF Typed, TypeOK, queryVars
<1>4. \A v \in Upload : flagged'[v] => batch'[v] # <<>>
  BY NewType DEF Typed, TypeOK
<1>5. ASSUME ~overtaken PROVE InLine'
  <2> DEFINE n == Len(waiting)
  <2>1. waiting \in Seq(Upload) /\ InLine /\ waiting' = Append(waiting, u)
    BY <1>5 DEF Typed, TypeOK
  <2>2. /\ n \in Nat /\ Len(waiting') = n + 1 /\ waiting'[n + 1] = u
        /\ \A i \in 1..n : waiting'[i] = waiting[i]
    BY <2>1
  <2>3. \A i \in 1..n : waiting[i] # u
    BY <2>1 DEF InLine
  <2>4. \A v \in Upload : batch'[v] = IF v = u THEN new ELSE batch[v]
    BY DEF Typed, TypeOK
  <2>5. 1..(n + 1) = (1..n) \cup {n + 1}
    BY <2>2
  <2>6. \A i, j \in 1..n : waiting[i] = waiting[j] => i = j
    BY <2>1 DEF InLine
  <2>7. \A v \in Upload : batch[v] # <<>> <=> \E i \in 1..n : waiting[i] = v
    BY <2>1 DEF InLine
  <2> HIDE DEF n
  <2>8. \A i, j \in 1..(n + 1) : waiting'[i] = waiting'[j] => i = j
    BY <2>2, <2>3, <2>5, <2>6
  <2>9. \A v \in Upload : batch'[v] # <<>> <=> \E i \in 1..(n + 1) : waiting'[i] = v
    BY <2>2, <2>4, <2>5, <2>7, NewType
  <2> QED
    BY <2>2, <2>8, <2>9 DEF InLine
<1> QED
  BY <1>1, <1>3, <1>4, <1>5 DEF Typed

\* An upload that gets to the list in its turn was the first in line.
LEMMA InTurnEffect ==
  ASSUME Typed, NEW u \in Upload, flagged[u], InTurn(u), ~overtaken'
  PROVE  LET n == Len(waiting)
         IN /\ ~overtaken /\ InLine
            /\ n \in Nat \ {0} /\ waiting[1] = u
            /\ waiting' \in Seq(Upload) /\ Len(waiting') = n - 1
            /\ \A i \in 1..(n - 1) :
                 waiting'[i] = waiting[i + 1] /\ waiting[i + 1] # u /\ waiting[i + 1] \in Upload
<1>1. ~overtaken /\ Head(waiting) = u /\ waiting' = Tail(waiting)
  BY DEF InTurn, Typed, TypeOK
<1>2. InLine /\ waiting \in Seq(Upload)
  BY <1>1 DEF Typed, TypeOK
<1>3. waiting # <<>>
  <2>1. PICK i \in 1..Len(waiting) : waiting[i] = u
    BY <1>2 DEF Typed, InLine
  <2> QED
    BY <2>1
<1>4. Len(waiting) \in Nat \ {0} /\ waiting[1] = u
  BY <1>1, <1>2, <1>3
<1>5. /\ waiting' \in Seq(Upload) /\ Len(waiting') = Len(waiting) - 1
      /\ \A i \in 1..(Len(waiting) - 1) : waiting'[i] = waiting[i + 1]
  BY <1>1, <1>2, <1>3
<1>6. \A i \in 1..(Len(waiting) - 1) : waiting[i + 1] # u /\ waiting[i + 1] \in Upload
  BY <1>2, <1>4 DEF InLine
<1> QED
  BY <1>1, <1>2, <1>4, <1>5, <1>6

LEMMA ExtendTyped ==
  ASSUME Typed, NEW u \in Upload, ExtendMetadata(u)
  PROVE  Typed'
<1>1. /\ flagged[u] /\ product_metadata' = product_metadata \o batch[u] /\ InTurn(u)
      /\ batch' = [batch EXCEPT ![u] = <<>>] /\ flagged' = [flagged EXCEPT ![u] = FALSE]
      /\ UNCHANGED <<index, index_is_empty, queryVars>>
  BY DEF ExtendMetadata
<1>2. product_metadata' \in Seq(Products)
  <2>1. product_metadata \in Seq(Products) /\ batch[u] \in Seq(Products)
    BY BatchType DEF Typed, TypeOK
  <2> QED
    BY <1>1, <2>1, ConcatProperties
<1>3. overtaken' \in BOOLEAN /\ overtaken' = (overtaken \/ Head(waiting) # u)
  BY <1>1 DEF InTurn, Typed, TypeOK
<1>4. waiting' \in Seq(Upload)
  <2>1. CASE overtaken'
    <3>1. waiting' = <<>>
      BY <1>1, <2>1 DEF InTurn
    <3> QED
      BY <3>1
  <2>2. CASE ~overtaken'
    BY <1>1, <2>2, InTurnEffect
  <2> QED
    BY <2>1, <2>2
<1>5. batch' \in [Upload -> Batches \cup {<<>>}] /\ flagged' \in [Upload -> BOOLEAN]
  BY <1>1 DEF Typed, TypeOK
<1>6. TypeOK'
  BY <1>1, <1>2, <1>3, <1>4, <1>5 DEF Typed, TypeOK, queryVars
<1>7. \A v \in Upload : /\ batch'[v] = (IF v = u THEN <<>> ELSE batch[v])
                        /\ flagged'[v] = (IF v = u THEN FALSE ELSE flagged[v])
  BY <1>1 DEF Typed, TypeOK
<1>8. ASSUME ~overtaken' PROVE InLine'
  <2> DEFINE n == Len(waiting)
  <2>1. /\ n \in Nat \ {0} /\ waiting[1] = u /\ Len(waiting') = n - 1
        /\ \A i \in 1..(n - 1) : waiting'[i] = waiting[i + 1] /\ waiting[i + 1] # u
    BY <1>1, <1>8, InTurnEffect
  <2>2. /\ \A i, j \in 1..n : waiting[i] = waiting[j] => i = j
        /\ \A v \in Upload : batch[v] # <<>> <=> \E i \in 1..n : waiting[i] = v
    BY <1>1, <1>8, InTurnEffect DEF InLine
  <2> HIDE DEF n
  <2>3. \A i \in 1..(n - 1) : i + 1 \in 1..n
    BY <2>1
  <2>4. \A i, j \in 1..(n - 1) : waiting'[i] = waiting'[j] => i = j
    BY <2>1, <2>2, <2>3
  <2>5. ASSUME NEW v \in Upload
        PROVE  batch'[v] # <<>> <=> \E i \in 1..(n - 1) : waiting'[i] = v
    <3>1. ASSUME NEW i \in 1..(n - 1), waiting'[i] = v PROVE batch'[v] # <<>>
      <4>1. v # u /\ waiting[i + 1] = v /\ i + 1 \in 1..n
        BY <2>1, <2>3, <3>1
      <4> QED
        BY <1>7, <2>2, <4>1
    <3>2. ASSUME batch'[v] # <<>> PROVE \E i \in 1..(n - 1) : waiting'[i] = v
      <4>1. v # u /\ batch[v] # <<>>
        BY <1>7, <3>2
      <4>2. PICK i \in 1..n : waiting[i] = v
        BY <2>2, <4>1
      <4>3. i - 1 \in 1..(n - 1) /\ (i - 1) + 1 = i
        BY <2>1, <4>1, <4>2
      <4> QED
        BY <2>1, <4>2, <4>3
    <3> QED
      BY <3>1, <3>2
  <2> QED
    BY <2>1, <2>4, <2>5 DEF InLine
<1>9. Len(index') <= MaxVectors
  BY <1>1 DEF Typed
<1> QED
  BY <1>6, <1>7, <1>8, <1>9 DEF Typed

-----------------------------------------------------------------------------
\* An answer of the index is a sequence of K labels of its vectors, or padding.
LEMMA AnswersType ==
  ASSUME Typed, NEW labels \in Answers
  PROVE  labels \in Seq(Labels) /\ labels # <<>>
<1>1. K \in Nat \ {0} /\ MaxVectors \in Nat
  BY SemanticIndexAssumption
<1>2. Len(index) \in Nat /\ Len(index) <= MaxVectors
  BY DEF Typed, TypeOK
<1>3. -1 .. Len(index) - 1 \subseteq Labels
  BY <1>1, <1>2 DEF Labels
<1>4. labels \in [1..K -> Labels]
  BY <1>3 DEF Answers
<1>5. labels \in Seq(Labels) /\ Len(labels) = K
  BY <1>1, <1>4
<1> QED
  BY <1>1, <1>5

LEMMA SearchTyped ==
  ASSUME Typed, NEW q \in Query, SearchIndex(q)
  PROVE  Typed'
<1>1. PICK labels \in Answers : hits' = [hits EXCEPT ![q] = labels]
  BY DEF SearchIndex
<1>2. hits' \in [Query -> Seq(Labels)]
  BY <1>1, AnswersType DEF Typed, TypeOK, Labels
<1>3. results' \in [Query -> Seq(Hit)]
  <2>1. results \in [Query -> Seq(Hit)]
    BY DEF Typed, TypeOK, Hit, Labels
  <2>2. results' = [results EXCEPT ![q] = <<>>]
    BY DEF SearchIndex
  <2>3. <<>> \in Seq(Hit)
    OBVIOUS
  <2> QED
    BY <2>1, <2>2, <2>3
<1> QED
  BY <1>2, <1>3 DEF SearchIndex, Typed, TypeOK, InLine, uploadVars, Hit, Labels

\* What a label that is looked up finds.
LEMMA SubscriptType ==
  ASSUME Typed, NEW label \in Labels, label < Len(product_metadata),
         label = Missing => product_metadata # <<>>
  PROVE  /\ Subscript(label) \in Products
         /\ label # Missing => Subscript(label) = product_metadata[label + 1]
<1>1. product_metadata \in Seq(Products)
  BY DEF Typed, TypeOK
<1>2. CASE label = Missing
  <2>1. Len(product_metadata) \in 1..Len(product_metadata)
    BY <1>1, <1>2
  <2> QED
    BY <1>1, <1>2, <2>1 DEF Subscript
<1>3. CASE label # Missing
  <2>1. MaxVectors \in Nat
    BY SemanticIndexAssumption
  <2>2. label + 1 \in 1..Len(product_metadata)
    BY <1>1, <1>3, <2>1 DEF Labels, Missing
  <2> QED
    BY <1>1, <1>3, <2>2 DEF Subscript
<1> QED
  BY <1>2, <1>3

LEMMA LookUpEffect ==
  ASSUME Typed, NEW q \in Query, LookUp(q)
  PROVE  LET label == Head(hits[q])
         IN /\ label \in Labels /\ Tail(hits[q]) \in Seq(Labels)
            /\ hits' = [hits EXCEPT ![q] = Tail(@)]
            /\ UNCHANGED <<index, index_is_empty, product_metadata, uploadVars>>
            /\ \/ results' = results
               \/ /\ label < Len(product_metadata)
                  /\ label = Missing => product_metadata # <<>>
                  /\ Subscript(label) \in Products
                  /\ results' = [results EXCEPT ![q] =
                                   Append(@, [label |-> label, product |-> Subscript(label)])]
<1>1. hits[q] \in Seq(Labels) /\ hits[q] # <<>>
  BY DEF LookUp, Typed, TypeOK, Labels
<1>2. Head(hits[q]) \in Labels /\ Tail(hits[q]) \in Seq(Labels)
  BY <1>1, HeadTailProperties
<1> QED
  BY <1>2, SubscriptType DEF LookUp

LEMMA LookUpTyped ==
  ASSUME Typed, NEW q \in Query, LookUp(q)
  PROVE  Typed'
<1> DEFINE label == Head(hits[q])
           found == [label |-> label, product |-> Subscript(label)]
<1>1. hits' \in [Query -> Seq(Labels)]
  BY LookUpEffect DEF Typed, TypeOK, Labels
<1>2. results' \in [Query -> Seq(Hit)]
  <2>1. results \in [Query -> Seq(Hit)]
    BY DEF Typed, TypeOK, Hit, Labels
  <2>2. CASE results' = results
    BY <2>1, <2>2
  <2>3. CASE /\ Subscript(label) \in Products
             /\ results' = [results EXCEPT ![q] = Append(@, found)]
    <3>1. found \in Hit
      BY <2>3, LookUpEffect DEF Hit
    <3> HIDE DEF found
    <3>2. Append(results[q], found) \in Seq(Hit)
      BY <2>1, <3>1
    <3> QED
      BY <2>1, <2>3, <3>2
  <2> QED
    BY <2>2, <2>3, LookUpEffect
<1>3. UNCHANGED <<index, index_is_empty, product_metadata, uploadVars>>
  BY LookUpEffect
<1> QED
  BY <1>1, <1>2, <1>3 DEF Typed, TypeOK, InLine, uploadVars, Hit, Labels

LEMMA FailsTyped ==
  ASSUME Typed, NEW q \in Query, LookUpFails(q)
  PROVE  Typed'
<1>1. results \in [Query -> Seq(Hit)] /\ hits \in [Query -> Seq(Labels)]
  BY DEF Typed, TypeOK, Hit, Labels
<1>2. results' = [results EXCEPT ![q] = <<>>] /\ hits' = [hits EXCEPT ![q] = <<>>]
  BY DEF LookUpFails
<1>3. <<>> \in Seq(Hit) /\ <<>> \in Seq(Labels)
  OBVIOUS
<1>4. results' \in [Query -> Seq(Hit)] /\ hits' \in [Query -> Seq(Labels)]
  BY <1>1, <1>2, <1>3
<1> QED
  BY <1>4 DEF LookUpFails, Typed, TypeOK, InLine, uploadVars, Hit, Labels

LEMMA TypedStep == Typed /\ [Next]_vars => Typed'
<1> SUFFICES ASSUME Typed, [Next]_vars PROVE Typed'
  OBVIOUS
<1>1. ASSUME NEW u \in Upload, AddVectors(u) PROVE Typed'
  BY <1>1, AddEffect DEF AddVectors
<1>2. ASSUME NEW u \in Upload, ClearFlag(u) PROVE Typed'
  BY <1>2 DEF ClearFlag, Typed, TypeOK, InLine, queryVars
<1>3. CASE UNCHANGED vars
  BY <1>3 DEF vars, Typed, TypeOK, InLine
<1> QED
  BY <1>1, <1>2, <1>3, FailsTyped, ExtendTyped, SearchTyped, LookUpTyped DEF Next

LEMMA AlwaysTyped == Spec => []Typed
<1>1. Init => Typed
  <2> SUFFICES ASSUME Init PROVE Typed
    OBVIOUS
  <2>1. MaxVectors \in Nat
    BY SemanticIndexAssumption
  <2>2. <<>> \in Seq(Products) /\ <<>> \in Seq(Upload) /\ <<>> \in Seq(Labels)
        /\ <<>> \in Seq(Hit)
    OBVIOUS
  <2>3. results \in [Query -> Seq(Hit)] /\ hits \in [Query -> Seq(Labels)]
    BY <2>2 DEF Init
  <2>4. TypeOK
    BY <2>2, <2>3 DEF Init, TypeOK, Hit, Labels
  <2>5. Len(index) <= MaxVectors /\ \A u \in Upload : ~flagged[u]
    BY <2>1 DEF Init
  <2>6. InLine
    <3>1. Len(waiting) = 0 /\ \A u \in Upload : batch[u] = <<>>
      BY DEF Init
    <3>2. \A i \in 1..Len(waiting) : FALSE
      BY <3>1
    <3> QED
      BY <3>1, <3>2 DEF InLine
  <2> QED
    BY <2>4, <2>5, <2>6 DEF Typed
<1> QED
  BY <1>1, TypedStep, PTL DEF Spec

(* Every variable keeps its type: a list entry for each vector that was    *)
(* added, labels of vectors that are in the index, results with a product. *)
THEOREM TypeCorrect == Spec => []TypeOK
<1>1. Typed => TypeOK
  BY DEF Typed
<1> QED
  BY <1>1, AlwaysTyped, PTL

-----------------------------------------------------------------------------
(* Whoever has a label to look up saw the flag clear, and whoever cleared  *)
(* it goes on to fill the list.                                            *)
Warned ==
  /\ \A q \in Query : hits[q] # <<>> => ~index_is_empty
  /\ ~index_is_empty /\ product_metadata = <<>> => \E u \in Upload : flagged[u]

LEMMA WarnedStep == Typed /\ Warned /\ [Next]_vars => Warned'
<1> SUFFICES ASSUME Typed, Warned, [Next]_vars PROVE Warned'
  OBVIOUS
<1>1. ASSUME NEW u \in Upload, AddVectors(u) PROVE Warned'
  BY <1>1 DEF AddVectors, Warned, queryVars
<1>2. ASSUME NEW u \in Upload, ClearFlag(u) PROVE Warned'
  BY <1>2 DEF ClearFlag, Warned, queryVars, Typed, TypeOK
<1>3. ASSUME NEW u \in Upload, ExtendMetadata(u) PROVE Warned'
  <2>1. batch[u] # <<>> /\ batch[u] \in Seq(Products) /\ product_metadata \in Seq(Products)
    BY <1>3, BatchType DEF ExtendMetadata, Typed, TypeOK
  <2>2. product_metadata \o batch[u] # <<>>
    BY <2>1, ConcatEqualIffEmpty
  <2> QED
    BY <1>3, <2>2 DEF ExtendMetadata, Warned, queryVars
<1>4. ASSUME NEW q \in Query, SearchIndex(q) PROVE Warned'
  <2>1. \A r \in Query : r # q => hits'[r] = hits[r]
    BY <1>4 DEF SearchIndex, Typed, TypeOK
  <2> QED
    BY <1>4, <2>1 DEF SearchIndex, Warned, uploadVars
<1>5. ASSUME NEW q \in Query, LookUp(q) \/ LookUpFails(q) PROVE Warned'
  <2>1. hits[q] # <<>> /\ \A r \in Query : r # q => hits'[r] = hits[r]
    BY <1>5 DEF LookUp, LookUpFails, Typed, TypeOK
  <2> QED
    BY <1>5, <2>1 DEF LookUp, LookUpFails, Warned, uploadVars
<1>6. CASE UNCHANGED vars
  BY <1>6 DEF vars, Warned
<1> QED
  BY <1>1, <1>2, <1>3, <1>4, <1>5, <1>6 DEF Next

(* A search that raises IndexError overlaps an upload between              *)
(* index_is_empty = False and product_metadata.extend (gen2.py:459-465).   *)
THEOREM FailureNeedsUpload == Spec => []FailsOnlyDuringUpload
<1>1. Init => Warned
  BY DEF Init, Warned
<1>2. Warned => FailsOnlyDuringUpload
  BY DEF Warned, FailsOnlyDuringUpload
<1> QED
  BY <1>1, <1>2, WarnedStep, AlwaysTyped, PTL DEF Spec
-----------------------------------------------------------------------------
(* Whatever the order, some line of the uploads with vectors and no        *)
(* entries accounts for what the list is short of: cut[i] is the length    *)
(* the list will have when the first i of them are through.                *)
Accounts(n, line, cut) ==
  /\ \A i, j \in 1..n : line[i] = line[j] => i = j
  /\ \A u \in Upload : batch[u] # <<>> <=> \E i \in 1..n : line[i] = u
  /\ cut[0] = Len(product_metadata) /\ cut[n] = Len(index)
  /\ \A i \in 1..n : cut[i] = cut[i - 1] + Len(batch[line[i]])

Accounted ==
  \E n \in Nat : \E line \in [1..n -> Upload], cut \in [0..n -> Nat] : Accounts(n, line, cut)

LEMMA AddAccounted ==
  ASSUME Typed, Accounted, NEW u \in Upload, AddVectors(u)
  PROVE  Accounted'
<1>1. PICK new \in Batches : batch' = [batch EXCEPT ![u] = new] /\ index' = index \o new
  BY DEF AddVectors
<1>2. batch[u] = <<>> /\ product_metadata' = product_metadata
  BY DEF AddVectors
<1>3a. PICK n \in Nat :
    \E line \in [1..n -> Upload], cut \in [0..n -> Nat] : Accounts(n, line, cut)
  BY DEF Accounted
<1>3. PICK line \in [1..n -> Upload], cut \in [0..n -> Nat] : Accounts(n, line, cut)
  BY <1>3a
<1>4. new \in Seq(Products) /\ new # <<>> /\ Len(new) \in Nat \ {0}
  BY NewType
<1>5. Len(index') = Len(index) + Len(new) /\ Len(index) \in Nat
  <2>1. index \in Seq(Products)
    BY DEF Typed, TypeOK
  <2> QED
    BY <1>1, <1>4, <2>1, ConcatProperties
<1>6. \A v \in Upload : batch'[v] = IF v = u THEN new ELSE batch[v]
  BY <1>1 DEF Typed, TypeOK
<1>7. PICK m \in Nat : m = n + 1
  OBVIOUS
<1>8. PICK size \in Nat : size = Len(index')
  BY <1>4, <1>5
<1> DEFINE line2 == [i \in 1..m |-> IF i = m THEN u ELSE line[i]]
           cut2 == [i \in 0..m |-> IF i = m THEN size ELSE cut[i]]
<1>9. line2 \in [1..m -> Upload] /\ cut2 \in [0..m -> Nat]
  <2>1. \A i \in 1..m : i # m => i \in 1..n
    BY <1>7
  <2>2. \A i \in 0..m : i # m => i \in 0..n
    BY <1>7
  <2> QED
    BY <2>1, <2>2
<1>10. /\ \A i \in 1..n : line2[i] = line[i] /\ line[i] # u
       /\ line2[m] = u
       /\ \A i \in 0..n : cut2[i] = cut[i]
       /\ cut2[m] = size /\ 1..m = (1..n) \cup {m}
  <2>1. \A i \in 1..n : i \in 1..m /\ i # m
    BY <1>7
  <2>2. \A i \in 0..n : i \in 0..m /\ i # m
    BY <1>7
  <2>3. m \in 1..m /\ m \in 0..m /\ 1..m = (1..n) \cup {m}
    BY <1>7
  <2>4. \A i \in 1..n : line[i] # u
    BY <1>2, <1>3 DEF Accounts
  <2> QED
    BY <2>1, <2>2, <2>3, <2>4
<1> HIDE DEF line2, cut2
<1>11. \A i, j \in 1..m : line2[i] = line2[j] => i = j
  <2> SUFFICES ASSUME NEW i \in 1..m, NEW j \in 1..m, line2[i] = line2[j] PROVE i = j
    OBVIOUS
  <2>1. i \in 1..n \/ i = m
    BY <1>10
  <2>2. j \in 1..n \/ j = m
    BY <1>10
  <2>3. CASE i \in 1..n /\ j \in 1..n
    <3>1. line[i] = line[j]
      BY <1>10, <2>3
    <3> QED
      BY <1>3, <2>3, <3>1 DEF Accounts
  <2> QED
    BY <1>10, <2>1, <2>2, <2>3
<1>12. ASSUME NEW v \in Upload
       PROVE  batch'[v] # <<>> <=> \E i \in 1..m : line2[i] = v
  <2>1. batch[v] # <<>> <=> \E i \in 1..n : line[i] = v
    BY <1>3 DEF Accounts
  <2>2. m \in 1..m
    BY <1>7
  <2>3. CASE v = u
    BY <1>4, <1>6, <1>10, <2>2, <2>3
  <2>4. CASE v # u
    <3>1. (\E i \in 1..m : line2[i] = v) <=> \E i \in 1..n : line[i] = v
      BY <1>10, <2>4
    <3> QED
      BY <1>6, <2>1, <2>4, <3>1
  <2> QED
    BY <2>3, <2>4
<1>13. cut2[0] = Len(product_metadata') /\ cut2[m] = Len(index')
  <2>1. 0 \in 0..n
    OBVIOUS
  <2> QED
    BY <1>2, <1>3, <1>8, <1>10, <2>1 DEF Accounts
<1>14. ASSUME NEW i \in 1..m PROVE cut2[i] = cut2[i - 1] + Len(batch'[line2[i]])
  <2>1. CASE i = m
    <3>1. i - 1 = n /\ n \in 0..n
      BY <1>7, <2>1
    <3>2. cut2[i - 1] = Len(index)
      BY <1>3, <1>10, <3>1 DEF Accounts
    <3> QED
      BY <1>5, <1>6, <1>8, <1>10, <2>1, <3>2
  <2>2. CASE i \in 1..n
    <3>1. i \in 0..n /\ i - 1 \in 0..n
      BY <2>2
    <3>2. cut[i] = cut[i - 1] + Len(batch[line[i]])
      BY <1>3, <2>2 DEF Accounts
    <3>3. batch'[line2[i]] = batch[line[i]]
      BY <1>6, <1>10, <2>2
    <3> QED
      BY <1>10, <3>1, <3>2, <3>3
  <2> QED
    BY <1>10, <2>1, <2>2
<1>15. Accounts(m, line2, cut2)'
  BY <1>11, <1>12, <1>13, <1>14 DEF Accounts
<1> QED
  BY <1>9, <1>15 DEF Accounted

LEMMA ExtendAccounted ==
  ASSUME Typed, Accounted, NEW u \in Upload, ExtendMetadata(u)
  PROVE  Accounted'
<1>1. batch' = [batch EXCEPT ![u] = <<>>] /\ product_metadata' = product_metadata \o batch[u]
      /\ flagged[u] /\ index' = index
  BY DEF ExtendMetadata
<1>2a. PICK n \in Nat :
    \E line \in [1..n -> Upload], cut \in [0..n -> Nat] : Accounts(n, line, cut)
  BY DEF Accounted
<1>2. PICK line \in [1..n -> Upload], cut \in [0..n -> Nat] : Accounts(n, line, cut)
  BY <1>2a
<1>3. batch[u] # <<>> /\ batch[u] \in Seq(Products) /\ Len(batch[u]) \in Nat
  BY <1>1, BatchType DEF Typed
<1>4. Len(product_metadata') = Len(product_metadata) + Len(batch[u])
  <2>1. product_metadata \in Seq(Products)
    BY DEF Typed, TypeOK
  <2> QED
    BY <1>1, <1>3, <2>1, ConcatProperties
<1>5. \A v \in Upload : batch'[v] = IF v = u THEN <<>> ELSE batch[v]
  BY <1>1 DEF Typed, TypeOK
<1>6. PICK p \in 1..n : line[p] = u
  BY <1>2, <1>3 DEF Accounts
<1>7. PICK m \in Nat : m = n - 1
  BY <1>6
<1>8. PICK size \in Nat : size = Len(batch[u])
  BY <1>3
<1> DEFINE line2 == [i \in 1..m |-> IF i < p THEN line[i] ELSE line[i + 1]]
           cut2 == [i \in 0..m |-> IF i < p THEN cut[i] + size ELSE cut[i + 1]]
<1>9. /\ \A i \in 1..m : i \in 1..n /\ i + 1 \in 1..n
      /\ \A i \in 0..m : i \in 0..n /\ i + 1 \in 0..n
  BY <1>7
<1>10. line2 \in [1..m -> Upload] /\ cut2 \in [0..m -> Nat]
  <2>1. \A i \in 1..m : line[i] \in Upload /\ line[i + 1] \in Upload
    BY <1>9
  <2>2. \A i \in 0..m : cut[i] \in Nat /\ cut[i] + size \in Nat /\ cut[i + 1] \in Nat
    <3>1. \A i \in 0..n : cut[i] \in Nat
      OBVIOUS
    <3> QED
      BY <1>8, <1>9, <3>1
  <2> QED
    BY <2>1, <2>2
<1>11. /\ \A i \in 1..m : line2[i] = IF i < p THEN line[i] ELSE line[i + 1]
       /\ \A i \in 0..m : cut2[i] = IF i < p THEN cut[i] + size ELSE cut[i + 1]
  OBVIOUS
<1> HIDE DEF line2, cut2
<1>12. \A i, j \in 1..n : line[i] = line[j] => i = j
  BY <1>2 DEF Accounts
<1>13. \A i, j \in 1..m : line2[i] = line2[j] => i = j
  <2> SUFFICES ASSUME NEW i \in 1..m, NEW j \in 1..m, line2[i] = line2[j] PROVE i = j
    OBVIOUS
  <2>1. CASE i < p /\ j < p
    BY <1>9, <1>11, <1>12, <2>1
  <2>2. CASE i < p /\ ~(j < p)
    <3>1. line[i] = line[j + 1] /\ i \in 1..n /\ j + 1 \in 1..n
      BY <1>9, <1>11, <2>2
    <3>2. i = j + 1
      BY <1>12, <3>1
    <3> QED
      BY <2>2, <3>2
  <2>3. CASE ~(i < p) /\ j < p
    <3>1. line[i + 1] = line[j] /\ i + 1 \in 1..n /\ j \in 1..n
      BY <1>9, <1>11, <2>3
    <3>2. i + 1 = j
      BY <1>12, <3>1
    <3> QED
      BY <2>3, <3>2
  <2>4. CASE ~(i < p) /\ ~(j < p)
    <3>1. line[i + 1] = line[j + 1] /\ i + 1 \in 1..n /\ j + 1 \in 1..n
      BY <1>9, <1>11, <2>4
    <3>2. i + 1 = j + 1
      BY <1>12, <3>1
    <3> QED
      BY <3>2
  <2> QED
    BY <2>1, <2>2, <2>3, <2>4
<1>14. \A i \in 1..m : line2[i] # u /\ line2[i] \in Upload
  <2> SUFFICES ASSUME NEW i \in 1..m PROVE line2[i] # u
    BY <1>10
  <2>1. CASE i < p
    <3>1. line2[i] = line[i] /\ i # p /\ i \in 1..n
      BY <1>9, <1>11, <2>1
    <3> QED
      BY <1>6, <1>12, <3>1
  <2>2. CASE ~(i < p)
    <3>1. line2[i] = line[i + 1] /\ i + 1 # p /\ i + 1 \in 1..n
      BY <1>9, <1>11, <2>2
    <3> QED
      BY <1>6, <1>12, <3>1
  <2> QED
    BY <2>1, <2>2
<1>15. ASSUME NEW v \in Upload
       PROVE  batch'[v] # <<>> <=> \E i \in 1..m : line2[i] = v
  <2>1. batch[v] # <<>> <=> \E i \in 1..n : line[i] = v
    BY <1>2 DEF Accounts
  <2>2. ASSUME batch'[v] # <<>> PROVE \E i \in 1..m : line2[i] = v
    <3>1. v # u /\ batch[v] # <<>>
      BY <1>5, <2>2
    <3>2. PICK i \in 1..n : line[i] = v
      BY <2>1, <3>1
    <3>3. CASE i < p
      <4>1. i \in 1..m
        BY <1>7, <3>3
      <4> QED
        BY <1>11, <3>2, <3>3, <4>1
    <3>4. CASE i > p
      <4>1. PICK j \in 1..m : i = j + 1 /\ ~(j < p)
        <5>1. i - 1 \in 1..m /\ i = (i - 1) + 1 /\ ~(i - 1 < p)
          BY <1>7, <3>4
        <5> QED
          BY <5>1
      <4> QED
        BY <1>11, <3>2, <4>1
    <3>5. i # p
      BY <1>6, <3>1, <3>2
    <3> QED
      BY <3>3, <3>4, <3>5
  <2>3. ASSUME NEW i \in 1..m, line2[i] = v PROVE batch'[v] # <<>>
    <3>1. v # u
      BY <1>14, <2>3
    <3>2. \E j \in 1..n : line[j] = v
      BY <1>9, <1>11, <2>3
    <3> QED
      BY <1>5, <2>1, <3>1, <3>2
  <2> QED
    BY <2>2, <2>3
<1>16. cut2[0] = Len(product_metadata') /\ cut2[m] = Len(index')
  <2>1. cut[0] = Len(product_metadata) /\ cut[n] = Len(index)
    BY <1>2 DEF Accounts
  <2>2. 0 \in 0..m /\ m \in 0..m /\ 0 < p /\ m + 1 = n
    BY <1>7
  <2>3. cut2[0] = cut[0] + size
    BY <1>11, <2>2
  <2>4. cut2[m] = cut[n]
    <3>1. CASE m < p
      <4>1. p = n /\ n - 1 = m
        BY <1>7, <3>1
      <4>2. cut[n] = cut[m] + size
        BY <1>2, <1>6, <1>8, <4>1 DEF Accounts
      <4> QED
        BY <1>11, <2>2, <3>1, <4>2
    <3>2. CASE ~(m < p)
      BY <1>11, <2>2, <3>2
    <3> QED
      BY <3>1, <3>2
  <2> QED
    BY <1>1, <1>4, <1>8, <2>1, <2>3, <2>4
<1>17. ASSUME NEW i \in 1..m PROVE cut2[i] = cut2[i - 1] + Len(batch'[line2[i]])
  <2>1. batch'[line2[i]] = batch[line2[i]]
    BY <1>5, <1>14
  <2>2. i \in 0..m /\ i - 1 \in 0..m /\ i \in 1..n /\ i + 1 \in 1..n
    BY <1>7
  <2>3. cut[i] \in Nat /\ cut[i - 1] \in Nat /\ cut[i + 1] \in Nat
    BY <1>7, <2>2
  <2>4. cut[i] = cut[i - 1] + Len(batch[line[i]])
    BY <1>2, <2>2 DEF Accounts
  <2>5. cut[i + 1] = cut[i] + Len(batch[line[i + 1]])
    <3>1. cut[i + 1] = cut[(i + 1) - 1] + Len(batch[line[i + 1]])
      BY <1>2, <2>2 DEF Accounts
    <3>2. (i + 1) - 1 = i
      OBVIOUS
    <3> QED
      BY <3>1, <3>2
  <2>6. CASE i < p
    <3>1. line2[i] = line[i] /\ cut2[i] = cut[i] + size /\ cut2[i - 1] = cut[i - 1] + size
      <4>1. i - 1 < p
        BY <2>6
      <4> QED
        BY <1>11, <2>2, <2>6, <4>1
    <3>2. Len(batch[line[i]]) \in Nat
      <4>1. line[i] \in Upload
        BY <2>2
      <4> QED
        BY <4>1, BatchType
    <3> QED
      BY <2>1, <2>3, <2>4, <3>1, <3>2
  <2>7. CASE i = p
    <3>1. /\ line2[i] = line[i + 1] /\ cut2[i] = cut[i + 1]
          /\ cut2[i - 1] = cut[i - 1] + size
      <4>1. i - 1 < p /\ ~(i < p)
        BY <2>7
      <4> QED
        BY <1>11, <2>2, <4>1
    <3>2. cut[i] = cut[i - 1] + size
      BY <1>6, <1>8, <2>4, <2>7
    <3> QED
      BY <2>1, <2>5, <3>1, <3>2
  <2>8. CASE i > p
    <3>1. /\ line2[i] = line[i + 1] /\ cut2[i] = cut[i + 1]
      BY <1>11, <2>2, <2>8
    <3>2. cut2[i - 1] = cut[i]
      <4>1. ~(i - 1 < p) /\ (i - 1) + 1 = i
        BY <2>8
      <4> QED
        BY <1>11, <2>2, <4>1
    <3> QED
      BY <2>1, <2>5, <3>1, <3>2
  <2> QED
    BY <2>6, <2>7, <2>8
<1>18. Accounts(m, line2, cut2)'
  BY <1>13, <1>15, <1>16, <1>17 DEF Accounts
<1> QED
  BY <1>10, <1>18 DEF Accounted

LEMMA AccountedStep == Typed /\ Accounted /\ [Next]_vars => Accounted'
<1> SUFFICES ASSUME Typed, Accounted, [Next]_vars PROVE Accounted'
  OBVIOUS
<1>1. ASSUME UNCHANGED <<index, product_metadata, batch>> PROVE Accounted'
  <2>1. PICK n \in Nat :
      \E line \in [1..n -> Upload], cut \in [0..n -> Nat] : Accounts(n, line, cut)
    BY DEF Accounted
  <2>2. PICK line \in [1..n -> Upload], cut \in [0..n -> Nat] : Accounts(n, line, cut)
    BY <2>1
  <2>3. Accounts(n, line, cut)'
    BY <1>1, <2>2 DEF Accounts
  <2> QED
    BY <2>3 DEF Accounted
<1>2. ASSUME NEW u \in Upload, ClearFlag(u) PROVE Accounted'
  BY <1>1, <1>2 DEF ClearFlag
<1>3. ASSUME NEW q \in Query, SearchIndex(q) \/ LookUp(q) \/ LookUpFails(q) PROVE Accounted'
  BY <1>1, <1>3 DEF SearchIndex, LookUp, LookUpFails, uploadVars
<1>4. CASE UNCHANGED vars
  BY <1>1, <1>4 DEF vars
<1> QED
  BY <1>2, <1>3, <1>4, AddAccounted, ExtendAccounted DEF Next

LEMMA AccountedInit == Init => Accounted
<1> SUFFICES ASSUME Init PROVE Accounted
  OBVIOUS
<1> DEFINE line == [i \in 1..0 |-> CHOOSE u \in Upload : TRUE]
           cut == [i \in 0..0 |-> 0]
<1>1. line \in [1..0 -> Upload] /\ cut \in [0..0 -> Nat] /\ cut[0] = 0
  <2>1. \A i \in 1..0 : FALSE
    OBVIOUS
  <2> QED
    BY <2>1
<1>2. Len(index) = 0 /\ Len(product_metadata) = 0 /\ \A u \in Upload : batch[u] = <<>>
  BY DEF Init
<1>3. \A i \in 1..0 : FALSE
  OBVIOUS
<1> HIDE DEF line, cut
<1>4. Accounts(0, line, cut)
  BY <1>1, <1>2, <1>3 DEF Accounts
<1> QED
  BY <1>1, <1>4 DEF Accounted

(* However uploads overlap and overtake each other, the list has an entry  *)
(* for every vector once they are through: upload_json adds as many of one *)
(* as of the other (gen2.py:456-465).                                      *)
THEOREM SameSizeAtRest == Spec => []SizesAgreeAtRest
<1>1. Typed /\ Accounted => SizesAgreeAtRest
  <2> SUFFICES ASSUME Accounted, \A u \in Upload : batch[u] = <<>>
               PROVE  Len(index) = Len(product_metadata)
    BY DEF SizesAgreeAtRest
  <2>1a. PICK n \in Nat :
      \E line \in [1..n -> Upload], cut \in [0..n -> Nat] : Accounts(n, line, cut)
    BY DEF Accounted
  <2>1. PICK line \in [1..n -> Upload], cut \in [0..n -> Nat] : Accounts(n, line, cut)
    BY <2>1a
  <2>2. \A i \in 1..n : FALSE
    BY <2>1 DEF Accounts
  <2>3. n = 0
    <3>1. n # 0 => 1 \in 1..n
      OBVIOUS
    <3> QED
      BY <2>2, <3>1
  <2> QED
    BY <2>1, <2>3 DEF Accounts
<1> QED
  BY <1>1, AccountedInit, AccountedStep, AlwaysTyped, PTL DEF Spec
-----------------------------------------------------------------------------
(* As long as none overtakes another, the vectors lie in the index as the  *)
(* list will name them: first those it names, then the batches of the      *)
(* uploads in line, the i-th up to cut[i].                                 *)
Layers(cut) ==
  /\ cut[0] = Len(product_metadata) /\ cut[Len(waiting)] = Len(index)
  /\ \A i \in 0..Len(waiting) : cut[i] <= Len(index)
  /\ \A k \in 1..Len(product_metadata) : index[k] = product_metadata[k]
  /\ \A i \in 1..Len(waiting) :
       /\ cut[i] = cut[i - 1] + Len(batch[waiting[i]])
       /\ \A k \in 1..Len(batch[waiting[i]]) : index[cut[i - 1] + k] = batch[waiting[i]][k]

\* What the searches have found is what the index holds.
Faithful ==
  \A q \in Query : \A i \in 1..Len(results[q]) :
    LET found == results[q][i]
    IN  found.label # Missing =>
          /\ found.label + 1 \in 1..Len(index)
          /\ found.product = index[found.label + 1]

Laid ==
  /\ \E cut \in [0..Len(waiting) -> Nat] : Layers(cut)
  /\ Faithful

LEMMA AddLaid ==
  ASSUME Typed, ~overtaken, Laid, NEW u \in Upload, AddVectors(u)
  PROVE  Laid'
<1>1. PICK new \in Batches : batch' = [batch EXCEPT ![u] = new] /\ index' = index \o new
  BY DEF AddVectors
<1>2. /\ batch[u] = <<>> /\ product_metadata' = product_metadata /\ results' = results
      /\ waiting' = Append(waiting, u)
  BY DEF AddVectors, queryVars
<1>3. PICK cut \in [0..Len(waiting) -> Nat] : Layers(cut)
  BY DEF Laid
<1>4. new \in Seq(Products) /\ Len(new) \in Nat
  BY NewType
<1>5. /\ Len(index') = Len(index) + Len(new) /\ Len(index) \in Nat
      /\ \A k \in 1..Len(index) : index'[k] = index[k]
      /\ \A k \in 1..Len(new) : index'[Len(index) + k] = new[k]
  <2>1. index \in Seq(Products)
    BY DEF Typed, TypeOK
  <2>2. \A k \in 1..Len(new) : Len(index) + k > Len(index) /\ (Len(index) + k) - Len(index) = k
                               /\ Len(index) + k \in 1..(Len(index) + Len(new))
    BY <1>4, <2>1
  <2> QED
    BY <1>1, <1>4, <2>1, <2>2, ConcatProperties
<1>6. \A v \in Upload : batch'[v] = IF v = u THEN new ELSE batch[v]
  BY <1>1 DEF Typed, TypeOK
<1>7. PICK n \in Nat : n = Len(waiting)
  BY DEF Typed, TypeOK
<1>8. /\ Len(waiting') = n + 1 /\ waiting'[n + 1] = u
      /\ \A i \in 1..n : waiting'[i] = waiting[i] /\ waiting[i] # u /\ waiting[i] \in Upload
  <2>1. waiting \in Seq(Upload) /\ InLine
    BY DEF Typed, TypeOK
  <2>2. \A i \in 1..n : waiting[i] # u /\ waiting[i] \in Upload
    BY <1>2, <1>7, <2>1 DEF InLine
  <2> QED
    BY <1>2, <1>7, <2>1, <2>2
<1>9. PICK size \in Nat : size = Len(index')
  BY <1>4, <1>5
<1> DEFINE cut2 == [i \in 0..(n + 1) |-> IF i = n + 1 THEN size ELSE cut[i]]
<1>10. /\ cut2 \in [0..(n + 1) -> Nat]
       /\ cut2[n + 1] = size
       /\ \A i \in 0..n : cut2[i] = cut[i] /\ cut[i] \in Nat
  <2>1. \A i \in 0..n : i \in 0..(n + 1) /\ i # n + 1
    OBVIOUS
  <2>2. \A i \in 0..(n + 1) : i = n + 1 \/ i \in 0..n
    OBVIOUS
  <2>3. n + 1 \in 0..(n + 1)
    OBVIOUS
  <2> QED
    BY <1>7, <2>1, <2>2, <2>3
<1> HIDE DEF cut2
<1>11. cut2[0] = Len(product_metadata') /\ cut2[Len(waiting')] = Len(index')
  <2>1. 0 \in 0..n
    OBVIOUS
  <2> QED
    BY <1>2, <1>3, <1>8, <1>9, <1>10, <2>1 DEF Layers
<1>12. ASSUME NEW i \in 0..Len(waiting') PROVE cut2[i] <= Len(index')
  <2>1. CASE i = n + 1
    BY <1>9, <1>10, <2>1
  <2>2. CASE i \in 0..n
    <3>1. cut[i] <= Len(index)
      BY <1>3, <1>7, <2>2 DEF Layers
    <3> QED
      BY <1>4, <1>5, <1>10, <2>2, <3>1
  <2> QED
    BY <1>8, <2>1, <2>2
<1>13. \A k \in 1..Len(product_metadata') : index'[k] = product_metadata'[k]
  <2>1. cut[0] <= Len(index) /\ cut[0] = Len(product_metadata)
    <3>1. 0 \in 0..Len(waiting)
      BY <1>7
    <3> QED
      BY <1>3, <3>1 DEF Layers
  <2>2. \A k \in 1..Len(product_metadata) : k \in 1..Len(index)
    <3>1. Len(product_metadata) \in Nat
      BY DEF Typed, TypeOK
    <3> QED
      BY <1>5, <2>1, <3>1
  <2> QED
    BY <1>2, <1>3, <1>5, <2>2 DEF Layers
<1>14. ASSUME NEW i \in 1..Len(waiting')
       PROVE  /\ cut2[i] = cut2[i - 1] + Len(batch'[waiting'[i]])
              /\ \A k \in 1..Len(batch'[waiting'[i]]) :
                   index'[cut2[i - 1] + k] = batch'[waiting'[i]][k]
  <2>1. CASE i = n + 1
    <3>1. batch'[waiting'[i]] = new
      BY <1>6, <1>8, <2>1
    <3>2. cut2[i - 1] = Len(index)
      <4>1. i - 1 = n /\ n \in 0..n
        BY <2>1
      <4> QED
        BY <1>3, <1>7, <1>10, <4>1 DEF Layers
    <3> QED
      BY <1>5, <1>9, <1>10, <2>1, <3>1, <3>2
  <2>2. CASE i \in 1..n
    <3>1. batch'[waiting'[i]] = batch[waiting[i]]
      BY <1>6, <1>8, <2>2
    <3>2. cut2[i] = cut[i] /\ cut2[i - 1] = cut[i - 1] /\ cut[i] \in Nat /\ cut[i - 1] \in Nat
      <4>1. i \in 0..n /\ i - 1 \in 0..n
        BY <2>2
      <4> QED
        BY <1>10, <4>1
    <3>3. /\ cut[i] = cut[i - 1] + Len(batch[waiting[i]])
          /\ \A k \in 1..Len(batch[waiting[i]]) : index[cut[i - 1] + k] = batch[waiting[i]][k]
          /\ cut[i] <= Len(index)
      <4>1. i \in 0..n
        BY <2>2
      <4> QED
        BY <1>3, <1>7, <2>2, <4>1 DEF Layers
    <3>4. Len(batch[waiting[i]]) \in Nat
      <4>1. waiting[i] \in Upload
        BY <1>8, <2>2
      <4> QED
        BY <4>1, BatchType
    <3>5. \A k \in 1..Len(batch[waiting[i]]) : cut[i - 1] + k \in 1..Len(index)
      <4>1. PICK a \in Nat, b \in Nat, l \in Nat :
              a = cut[i - 1] /\ b = Len(index) /\ l = Len(batch[waiting[i]])
        BY <1>5, <3>2, <3>4
      <4>2. a + l <= b
        BY <3>3, <4>1
      <4>3. \A k \in 1..l : a + k \in 1..b
        BY <4>2
      <4> QED
        BY <4>1, <4>3
    <3> QED
      BY <1>5, <3>1, <3>2, <3>3, <3>5
  <2> QED
    BY <1>8, <2>1, <2>2
<1>15. cut2 \in [0..Len(waiting') -> Nat] /\ Layers(cut2)'
  BY <1>8, <1>10, <1>11, <1>12, <1>13, <1>14 DEF Layers
<1>16. Faithful'
  <2>1. \A k \in 1..Len(index) : k \in 1..Len(index')
    BY <1>4, <1>5
  <2> QED
    BY <1>2, <1>5, <2>1 DEF Faithful, Laid
<1> QED
  BY <1>15, <1>16 DEF Laid

LEMMA ExtendLaid ==
  ASSUME Typed, Laid, NEW u \in Upload, ExtendMetadata(u), ~overtaken'
  PROVE  Laid'
<1>1. /\ flagged[u] /\ InTurn(u) /\ index' = index /\ results' = results
      /\ batch' = [batch EXCEPT ![u] = <<>>]
      /\ product_metadata' = product_metadata \o batch[u]
  BY DEF ExtendMetadata, queryVars
<1>2. PICK cut \in [0..Len(waiting) -> Nat] : Layers(cut)
  BY DEF Laid
<1>3. batch[u] \in Seq(Products) /\ Len(batch[u]) \in Nat
  BY BatchType
<1>4. PICK n \in Nat : n = Len(waiting)
  BY DEF Typed, TypeOK
<1>5. /\ n # 0 /\ waiting[1] = u /\ Len(waiting') = n - 1
      /\ \A i \in 1..(n - 1) :
           waiting'[i] = waiting[i + 1] /\ waiting[i + 1] # u /\ waiting[i + 1] \in Upload
  BY <1>1, <1>4, InTurnEffect
<1>6. \A v \in Upload : batch'[v] = IF v = u THEN <<>> ELSE batch[v]
  BY <1>1 DEF Typed, TypeOK
<1>7. PICK m \in Nat : m = n - 1
  BY <1>5
<1>8. /\ Len(product_metadata) \in Nat
      /\ Len(product_metadata') = Len(product_metadata) + Len(batch[u])
      /\ \A k \in 1..Len(product_metadata) : product_metadata'[k] = product_metadata[k]
      /\ \A k \in 1..Len(batch[u]) : product_metadata'[Len(product_metadata) + k] = batch[u][k]
  <2>1. product_metadata \in Seq(Products)
    BY DEF Typed, TypeOK
  <2>2. \A k \in 1..Len(batch[u]) :
          /\ Len(product_metadata) + k > Len(product_metadata)
          /\ (Len(product_metadata) + k) - Len(product_metadata) = k
          /\ Len(product_metadata) + k \in 1..(Len(product_metadata) + Len(batch[u]))
    BY <1>3, <2>1
  <2> QED
    BY <1>1, <1>3, <2>1, <2>2, ConcatProperties
<1> DEFINE cut2 == [i \in 0..m |-> cut[i + 1]]
<1>9. cut2 \in [0..m -> Nat] /\ \A i \in 0..m : cut2[i] = cut[i + 1] /\ i + 1 \in 0..n
  BY <1>4, <1>7
<1> HIDE DEF cut2
<1>10. /\ cut[1] = Len(product_metadata) + Len(batch[u])
       /\ \A k \in 1..Len(batch[u]) : index[Len(product_metadata) + k] = batch[u][k]
       /\ \A k \in 1..Len(product_metadata) : index[k] = product_metadata[k]
       /\ cut[n] = Len(index)
  <2>1. 1 \in 1..Len(waiting) /\ 1 - 1 = 0
    BY <1>4, <1>5
  <2>2. /\ cut[1] = cut[1 - 1] + Len(batch[waiting[1]])
        /\ \A k \in 1..Len(batch[waiting[1]]) : index[cut[1 - 1] + k] = batch[waiting[1]][k]
    BY <1>2, <2>1 DEF Layers
  <2>3. /\ cut[0] = Len(product_metadata) /\ cut[n] = Len(index)
        /\ \A k \in 1..Len(product_metadata) : index[k] = product_metadata[k]
    BY <1>2, <1>4 DEF Layers
  <2> QED
    BY <1>5, <2>1, <2>2, <2>3
<1>11. cut2[0] = Len(product_metadata') /\ cut2[Len(waiting')] = Len(index')
  <2>1. 0 \in 0..m /\ m \in 0..m /\ m + 1 = n /\ 0 + 1 = 1
    BY <1>7
  <2> QED
    BY <1>1, <1>5, <1>7, <1>8, <1>9, <1>10, <2>1
<1>12. \A i \in 0..Len(waiting') : cut2[i] <= Len(index')
  BY <1>1, <1>2, <1>4, <1>5, <1>7, <1>9 DEF Layers
<1>13. ASSUME NEW k \in 1..Len(product_metadata') PROVE index'[k] = product_metadata'[k]
  <2>1. CASE k \in 1..Len(product_metadata)
    BY <1>1, <1>8, <1>10, <2>1
  <2>2. CASE k \notin 1..Len(product_metadata)
    <3>1. PICK j \in 1..Len(batch[u]) : k = Len(product_metadata) + j
      <4>1. /\ k - Len(product_metadata) \in 1..Len(batch[u])
            /\ k = Len(product_metadata) + (k - Len(product_metadata))
        BY <1>3, <1>8, <2>2
      <4> QED
        BY <4>1
    <3> QED
      BY <1>1, <1>8, <1>10, <3>1
  <2> QED
    BY <2>1, <2>2
<1>14. ASSUME NEW i \in 1..Len(waiting')
       PROVE  /\ cut2[i] = cut2[i - 1] + Len(batch'[waiting'[i]])
              /\ \A k \in 1..Len(batch'[waiting'[i]]) :
                   index'[cut2[i - 1] + k] = batch'[waiting'[i]][k]
  <2>1. i \in 0..m /\ i - 1 \in 0..m /\ i + 1 \in 1..n /\ (i - 1) + 1 = i /\ (i + 1) - 1 = i
    BY <1>5, <1>7
  <2>2. batch'[waiting'[i]] = batch[waiting[i + 1]]
    BY <1>5, <1>6
  <2>3. cut2[i] = cut[i + 1] /\ cut2[i - 1] = cut[i]
    BY <1>9, <2>1
  <2>4. /\ cut[i + 1] = cut[(i + 1) - 1] + Len(batch[waiting[i + 1]])
        /\ \A k \in 1..Len(batch[waiting[i + 1]]) :
             index[cut[(i + 1) - 1] + k] = batch[waiting[i + 1]][k]
    BY <1>2, <1>4, <2>1 DEF Layers
  <2> QED
    BY <1>1, <2>1, <2>2, <2>3, <2>4
<1>15. cut2 \in [0..Len(waiting') -> Nat] /\ Layers(cut2)'
  BY <1>5, <1>7, <1>9, <1>11, <1>12, <1>13, <1>14 DEF Layers
<1>16. Faithful'
  BY <1>1 DEF Faithful, Laid
<1> QED
  BY <1>15, <1>16 DEF Laid

LEMMA LookUpLaid ==
  ASSUME Typed, Laid, NEW q \in Query, LookUp(q)
  PROVE  Laid'
<1> DEFINE label == Head(hits[q])
           found == [label |-> label, product |-> Subscript(label)]
<1>1. UNCHANGED <<index, product_metadata, batch, waiting>> /\ label \in Labels
  BY LookUpEffect DEF uploadVars
<1>2. PICK cut \in [0..Len(waiting) -> Nat] : Layers(cut)
  BY DEF Laid
<1>3. Layers(cut)' /\ cut \in [0..Len(waiting') -> Nat]
  BY <1>1, <1>2 DEF Layers
<1>4. Faithful'
  <2>1. Faithful
    BY DEF Laid
  <2>2. CASE results' = results
    BY <1>1, <2>1, <2>2 DEF Faithful
  <2>3. CASE /\ label < Len(product_metadata)
             /\ label = Missing => product_metadata # <<>>
             /\ results' = [results EXCEPT ![q] = Append(@, found)]
    <3>1. label # Missing => /\ label + 1 \in 1..Len(index)
                             /\ Subscript(label) = index[label + 1]
      <4> SUFFICES ASSUME label # Missing
                   PROVE  label + 1 \in 1..Len(index) /\ Subscript(label) = index[label + 1]
        OBVIOUS
      <4>1. Subscript(label) = product_metadata[label + 1]
        BY <1>1, <2>3, SubscriptType
      <4>2. MaxVectors \in Nat
        BY SemanticIndexAssumption
      <4>3. Len(product_metadata) \in Nat /\ Len(index) \in Nat
        BY DEF Typed, TypeOK
      <4>4. label \in Int /\ label >= 0 /\ label < Len(product_metadata)
        BY <1>1, <2>3, <4>2 DEF Labels, Missing
      <4>5. Len(product_metadata) <= Len(index)
        <5>1. 0 \in 0..Len(waiting)
          BY DEF Typed, TypeOK
        <5> QED
          BY <1>2, <5>1 DEF Layers
      <4>6. label + 1 \in 1..Len(product_metadata) /\ label + 1 \in 1..Len(index)
        BY <4>3, <4>4, <4>5
      <4> QED
        BY <1>2, <4>1, <4>6 DEF Layers
    <3>2. found.label = label /\ found.product = Subscript(label)
      OBVIOUS
    <3> HIDE DEF found, label
    <3>3. \A r \in Query : results'[r] = IF r = q THEN Append(results[r], found) ELSE results[r]
      BY <2>3 DEF Typed, TypeOK
    <3>4. results[q] \in Seq(Hit)
      BY DEF Typed, TypeOK, Hit, Labels
    <3>5. /\ Len(Append(results[q], found)) = Len(results[q]) + 1
          /\ Append(results[q], found)[Len(results[q]) + 1] = found
          /\ \A i \in 1..Len(results[q]) : Append(results[q], found)[i] = results[q][i]
          /\ Len(results[q]) \in Nat
      BY <3>4
    <3>6. ASSUME NEW i \in 1..Len(results'[q]), results'[q][i].label # Missing
          PROVE  /\ results'[q][i].label + 1 \in 1..Len(index)
                 /\ results'[q][i].product = index[results'[q][i].label + 1]
      <4>1. CASE i \in 1..Len(results[q])
        <5>1. results'[q][i] = results[q][i]
          BY <3>3, <3>5, <4>1
        <5> QED
          BY <2>1, <3>6, <4>1, <5>1 DEF Faithful
      <4>2. CASE i = Len(results[q]) + 1
        <5>1. results'[q][i] = found
          BY <3>3, <3>5, <4>2
        <5> QED
          BY <3>1, <3>2, <3>6, <5>1
      <4>3. Len(results'[q]) = Len(results[q]) + 1
        BY <3>3, <3>5
      <4>4. i \in 1..(Len(results[q]) + 1)
        BY <4>3
      <4> QED
        BY <3>5, <4>1, <4>2, <4>4
    <3>7. \A r \in Query : r # q => results'[r] = results[r]
      BY <3>3
    <3> QED
      BY <1>1, <2>1, <3>6, <3>7 DEF Faithful
  <2> QED
    BY <2>2, <2>3, LookUpEffect
<1> QED
  BY <1>3, <1>4 DEF Laid

LEMMA LaidStep == Typed /\ (overtaken \/ Laid) /\ [Next]_vars => overtaken' \/ Laid'
<1> SUFFICES ASSUME Typed, overtaken \/ Laid, [Next]_vars, ~overtaken' PROVE Laid'
  OBVIOUS
<1>1. ~overtaken /\ Laid
  <2>1. ASSUME NEW u \in Upload, AddVectors(u) \/ ClearFlag(u) PROVE overtaken' = overtaken
    BY <2>1 DEF AddVectors, ClearFlag
  <2>2. ASSUME NEW u \in Upload, ExtendMetadata(u) PROVE ~overtaken
    BY <2>2 DEF ExtendMetadata, InTurn
  <2>3. ASSUME NEW q \in Query, SearchIndex(q) \/ LookUp(q) \/ LookUpFails(q)
        PROVE  overtaken' = overtaken
    BY <2>3 DEF SearchIndex, LookUp, LookUpFails, uploadVars
  <2>4. CASE UNCHANGED vars
    BY <2>4 DEF vars
  <2> QED
    BY <2>1, <2>2, <2>3, <2>4 DEF Next
<1>2. ASSUME UNCHANGED <<index, product_metadata, batch, waiting>>, Faithful' PROVE Laid'
  <2>1. PICK cut \in [0..Len(waiting) -> Nat] : Layers(cut)
    BY <1>1 DEF Laid
  <2>2. Layers(cut)' /\ cut \in [0..Len(waiting') -> Nat]
    BY <1>2, <2>1 DEF Layers
  <2> QED
    BY <1>2, <2>2 DEF Laid
<1>3. ASSUME UNCHANGED <<index, results>> PROVE Faithful'
  BY <1>1, <1>3 DEF Laid, Faithful
<1>4. ASSUME NEW u \in Upload, ClearFlag(u) PROVE Laid'
  BY <1>2, <1>3, <1>4 DEF ClearFlag, queryVars
<1>5. ASSUME NEW q \in Query, results' = [results EXCEPT ![q] = <<>>], index' = index
      PROVE  Faithful'
  <2>1. \A r \in Query : results'[r] = IF r = q THEN <<>> ELSE results[r]
    BY <1>5 DEF Typed, TypeOK
  <2>2. Len(results'[q]) = 0 /\ \A i \in 1..0 : FALSE
    BY <2>1
  <2> QED
    BY <1>1, <1>5, <2>1, <2>2 DEF Laid, Faithful
<1>6. ASSUME NEW q \in Query, SearchIndex(q) \/ LookUpFails(q) PROVE Laid'
  BY <1>2, <1>5, <1>6 DEF SearchIndex, LookUpFails, uploadVars
<1>7. CASE UNCHANGED vars
  BY <1>2, <1>3, <1>7 DEF vars
<1> QED
  BY <1>1, <1>4, <1>6, <1>7, AddLaid, ExtendLaid, LookUpLaid DEF Next

LEMMA AlwaysLaid == Spec => [](overtaken \/ Laid)
<1>1. Init => Laid
  <2> SUFFICES ASSUME Init PROVE Laid
    OBVIOUS
  <2> DEFINE cut == [i \in 0..0 |-> 0]
  <2>1. cut \in [0..0 -> Nat] /\ \A i \in 0..0 : cut[i] = 0
    OBVIOUS
  <2>2. Len(waiting) = 0 /\ Len(index) = 0 /\ Len(product_metadata) = 0
    BY DEF Init
  <2>3. \A i \in 1..0 : FALSE
    OBVIOUS
  <2> HIDE DEF cut
  <2>4. Layers(cut)
    BY <2>1, <2>2, <2>3 DEF Layers
  <2>5. Faithful
    <3>1. \A q \in Query : Len(results[q]) = 0
      BY DEF Init
    <3> QED
      BY <2>3, <3>1 DEF Faithful
  <2> QED
    BY <2>1, <2>2, <2>4, <2>5 DEF Laid
<1> QED
  BY <1>1, LaidStep, AlwaysTyped, PTL DEF Spec

(* Uploads may overlap: as long as they reach the list in the order in     *)
(* which they reached the index, entry k of the list is the product of     *)
(* vector k (gen2.py:456-465).                                             *)
THEOREM PrefixHolds == Spec => []PrefixUntilOvertaken
<1>1. Typed /\ (overtaken \/ Laid) => PrefixUntilOvertaken
  <2> SUFFICES ASSUME Typed, Laid PROVE IsPrefix(product_metadata, index)
    BY DEF PrefixUntilOvertaken
  <2>1. PICK cut \in [0..Len(waiting) -> Nat] : Layers(cut)
    BY DEF Laid
  <2>2. product_metadata \in Seq(Products) /\ index \in Seq(Products) /\ Len(waiting) \in Nat
    BY DEF Typed, TypeOK
  <2>3. Len(product_metadata) <= Len(index)
    <3>1. 0 \in 0..Len(waiting)
      BY <2>2
    <3> QED
      BY <2>1, <3>1 DEF Layers
  <2>4. \A k \in 1..Len(product_metadata) : index[k] = product_metadata[k]
    BY <2>1 DEF Layers
  <2>5. SubSeq(product_metadata, 1, Len(product_metadata))
          = SubSeq(index, 1, Len(product_metadata))
    BY <2>2, <2>3, <2>4
  <2> QED
    BY <2>3, <2>5 DEF IsPrefix
<1> QED
  BY <1>1, AlwaysLaid, AlwaysTyped, PTL

(* A search between, before or after any such uploads answers with the     *)
(* product of every vector it found, or leaves it out: the index only      *)
(* grows, and "idx < len(product_metadata)" (gen2.py:479) keeps labels     *)
(* that have no entry yet out of the answer.                               *)
THEOREM AnswersAreFound == Spec => []AnswersWhatItFound
<1>1. Laid => AnswersWhatItFound
  BY DEF Laid, Faithful, AnswersWhatItFound
<1>2. overtaken => AnswersWhatItFound
  BY DEF AnswersWhatItFound
<1> QED
  BY <1>1, <1>2, AlwaysLaid, PTL

-----------------------------------------------------------------------------
\* The labels of search q: those it has answered, then those it has to look up.
Total(q) == Len(results[q]) + Len(hits[q])
Seen(q, i) == IF i <= Len(results[q]) THEN results[q][i].label ELSE hits[q][i - Len(results[q])]

OrderlyFor(q) ==
  /\ Total(q) <= K
  /\ \A i, j \in 1..Total(q) :
       /\ i < j => \/ Seen(q, j) = Missing
                   \/ Seen(q, i) # Missing /\ Seen(q, i) # Seen(q, j)
       /\ Seen(q, i) = Missing => Seen(q, j) + 1 < K
Orderly == \A q \in Query : OrderlyFor(q)

\* What a search may answer besides the products of the vectors it found.
AtMostK == \A q \in Query : Len(results[q]) <= K
NoVectorTwice ==
  \A q \in Query : \A i, j \in 1..Len(results[q]) :
    i < j => \/ results[q][j].label = Missing
             \/ results[q][i].label \notin {Missing, results[q][j].label}
PaddingMeansFewVectors ==
  \A q \in Query : \A i, j \in 1..Len(results[q]) :
    results[q][i].label = Missing => results[q][j].label < K - 1

LEMMA Lengths ==
  ASSUME Typed, NEW q \in Query
  PROVE  /\ Len(results[q]) \in Nat /\ Len(hits[q]) \in Nat /\ Total(q) \in Nat
         /\ results[q] \in Seq(Hit) /\ hits[q] \in Seq(Labels)
<1>1. results[q] \in Seq(Hit) /\ hits[q] \in Seq(Labels)
  BY DEF Typed, TypeOK, Hit, Labels
<1>2. Len(results[q]) \in Nat /\ Len(hits[q]) \in Nat
  BY <1>1
<1>3. PICK a \in Nat, b \in Nat : Len(results[q]) = a /\ Len(hits[q]) = b
  BY <1>2
<1>4. Total(q) = a + b
  BY <1>3, Zenon DEF Total
<1>5. a + b \in Nat
  OBVIOUS
<1> QED
  BY <1>1, <1>2, <1>4, <1>5

LEMMA FoundOrderly ==
  ASSUME Typed, NEW q \in Query, NEW labels \in Answers,
         hits' = [hits EXCEPT ![q] = labels], results' = [results EXCEPT ![q] = <<>>]
  PROVE  OrderlyFor(q)'
<1>1. hits'[q] = labels /\ results'[q] = <<>>
  BY DEF Typed, TypeOK
<1>2. K \in Nat /\ Len(index) \in Nat
  BY SemanticIndexAssumption DEF Typed, TypeOK
<1>3. /\ labels \in [1..K -> -1 .. Len(index) - 1]
      /\ \A i, j \in 1..K :
           /\ labels[i] = Missing <=> i > Len(index)
           /\ i # j => labels[i] # labels[j] \/ labels[i] = Missing
  BY DEF Answers
<1>4. Len(labels) = K
  BY <1>2, <1>3
<1>5. Total(q)' = K
  <2>1. Len(results'[q]) = 0 /\ Len(hits'[q]) = K
    BY <1>1, <1>4
  <2>2. Total(q)' = 0 + K
    BY <2>1, Zenon DEF Total
  <2> QED
    BY <1>2, <2>2
<1>6. ASSUME NEW i \in 1..K PROVE Seen(q, i)' = labels[i]
  BY <1>1, <1>2 DEF Seen
<1>7. ASSUME NEW i \in 1..K, NEW j \in 1..K
      PROVE  /\ i < j => \/ labels[j] = Missing
                         \/ labels[i] # Missing /\ labels[i] # labels[j]
             /\ labels[i] = Missing => labels[j] + 1 < K
  <2>1. labels[j] \in -1 .. Len(index) - 1
    BY <1>3
  <2>2. (labels[i] = Missing <=> i > Len(index)) /\ (labels[j] = Missing <=> j > Len(index))
    BY <1>3
  <2>3. i # j => labels[i] # labels[j] \/ labels[i] = Missing
    BY <1>3
  <2> QED
    BY <1>2, <2>1, <2>2, <2>3
<1> QED
  BY <1>2, <1>5, <1>6, <1>7 DEF OrderlyFor

\* A label is answered in its turn, or left out; the order of the others stays.
LEMMA LookUpOrderly ==
  ASSUME Typed, NEW q \in Query, OrderlyFor(q), LookUp(q)
  PROVE  OrderlyFor(q)'
<1> DEFINE label == Head(hits[q])
           found == [label |-> label, product |-> Subscript(label)]
<1>1. PICK a \in Nat, b \in Nat : a = Len(results[q]) /\ b = Len(hits[q])
  BY Lengths
<1>2. hits[q] # <<>> /\ hits[q] \in Seq(Labels) /\ results[q] \in Seq(Hit)
  BY Lengths DEF LookUp
<1>3. b > 0 /\ label = hits[q][1]
  BY <1>1, <1>2
<1>4. hits'[q] = Tail(hits[q])
  BY LookUpEffect DEF Typed, TypeOK
<1>5. Len(hits'[q]) = b - 1 /\ \A i \in 1..(b - 1) : hits'[q][i] = hits[q][i + 1]
  BY <1>1, <1>2, <1>4
<1>6. Total(q) = a + b /\ K \in Nat
  BY <1>1, SemanticIndexAssumption DEF Total
<1>7. ASSUME NEW d \in {0, 1}, Total(q)' = a + b - d,
             \A i \in 1..(a + b - d) : Seen(q, i)' = Seen(q, IF i <= a THEN i ELSE i + d)
      PROVE  OrderlyFor(q)'
  <2> DEFINE at == [i \in 1..(a + b - d) |-> IF i <= a THEN i ELSE i + d]
  <2>1. \A i \in 1..(a + b - d) : at[i] \in 1..(a + b) /\ Seen(q, i)' = Seen(q, at[i])
    BY <1>3, <1>7
  <2>2. \A i, j \in 1..(a + b - d) : i < j => at[i] < at[j]
    OBVIOUS
  <2> HIDE DEF at
  <2>3. a + b - d <= K
    BY <1>6 DEF OrderlyFor
  <2>4. ASSUME NEW i \in 1..(a + b - d), NEW j \in 1..(a + b - d)
        PROVE  /\ i < j => \/ Seen(q, j)' = Missing
                           \/ Seen(q, i)' # Missing /\ Seen(q, i)' # Seen(q, j)'
               /\ Seen(q, i)' = Missing => Seen(q, j)' + 1 < K
    <3>1. /\ at[i] < at[j] => \/ Seen(q, at[j]) = Missing
                              \/ Seen(q, at[i]) # Missing /\ Seen(q, at[i]) # Seen(q, at[j])
          /\ Seen(q, at[i]) = Missing => Seen(q, at[j]) + 1 < K
      BY <1>6, <2>1 DEF OrderlyFor
    <3> QED
      BY <2>1, <2>2, <3>1
  <2> QED
    BY <1>7, <2>3, <2>4 DEF OrderlyFor
<1>8. CASE results' = results
  <2>1. Total(q)' = a + b - 1
    BY <1>1, <1>5, <1>8 DEF Total
  <2>2. ASSUME NEW i \in 1..(a + b - 1)
        PROVE  Seen(q, i)' = Seen(q, IF i <= a THEN i ELSE i + 1)
    <3>1. CASE i <= a
      BY <1>1, <1>8, <3>1 DEF Seen
    <3>2. CASE i > a
      <4>1. i - a \in 1..(b - 1) /\ (i - a) + 1 = (i + 1) - a /\ ~(i + 1 <= a) /\ ~(i <= a)
        BY <3>2
      <4>2. Seen(q, i)' = hits'[q][i - a] /\ Seen(q, i + 1) = hits[q][(i + 1) - a]
        BY <1>1, <1>8, <4>1 DEF Seen
      <4> QED
        BY <1>5, <4>1, <4>2
    <3> QED
      BY <3>1, <3>2
  <2> QED
    BY <1>7, <2>1, <2>2
<1>9. CASE results' = [results EXCEPT ![q] = Append(@, found)]
  <2>1. found.label = label
    OBVIOUS
  <2> HIDE DEF found
  <2>2. results'[q] = Append(results[q], found)
    BY <1>9 DEF Typed, TypeOK
  <2>3. /\ Len(results'[q]) = a + 1 /\ results'[q][a + 1] = found
        /\ \A i \in 1..a : results'[q][i] = results[q][i]
    BY <1>1, <1>2, <2>2
  <2>4. Total(q)' = a + b - 0
    BY <1>5, <2>3 DEF Total
  <2>5. ASSUME NEW i \in 1..(a + b - 0)
        PROVE  Seen(q, i)' = Seen(q, IF i <= a THEN i ELSE i + 0)
    <3>1. CASE i <= a
      BY <1>1, <2>3, <3>1 DEF Seen
    <3>2. CASE i = a + 1
      BY <1>1, <1>3, <2>1, <2>3, <3>2 DEF Seen
    <3>3. CASE i > a + 1
      <4>1. /\ i - (a + 1) \in 1..(b - 1) /\ (i - (a + 1)) + 1 = i - a
            /\ ~(i <= a) /\ ~(i <= a + 1) /\ i + 0 = i
        BY <3>3
      <4>2. Seen(q, i)' = hits'[q][i - (a + 1)] /\ Seen(q, i) = hits[q][i - a]
        BY <1>1, <2>3, <4>1 DEF Seen
      <4> QED
        BY <1>5, <4>1, <4>2
    <3> QED
      BY <3>1, <3>2, <3>3
  <2> QED
    BY <1>7, <2>4, <2>5
<1> QED
  BY <1>8, <1>9, LookUpEffect

LEMMA OrderlyStep == Typed /\ Orderly /\ [Next]_vars => Orderly'
<1> SUFFICES ASSUME Typed, Orderly, [Next]_vars PROVE Orderly'
  OBVIOUS
<1>1. ASSUME NEW r \in Query, hits'[r] = hits[r], results'[r] = results[r]
      PROVE  OrderlyFor(r)'
  BY <1>1 DEF Orderly, OrderlyFor, Total, Seen
<1>2. ASSUME NEW u \in Upload, AddVectors(u) \/ ClearFlag(u) \/ ExtendMetadata(u) PROVE Orderly'
  BY <1>1, <1>2 DEF AddVectors, ClearFlag, ExtendMetadata, queryVars, Orderly
<1>3. ASSUME NEW q \in Query, SearchIndex(q) \/ LookUp(q) \/ LookUpFails(q) PROVE Orderly'
  <2>1. \A r \in Query \ {q} : hits'[r] = hits[r] /\ results'[r] = results[r]
    BY <1>3 DEF SearchIndex, LookUp, LookUpFails, Typed, TypeOK
  <2>2. ASSUME SearchIndex(q) PROVE OrderlyFor(q)'
    BY <2>2, FoundOrderly DEF SearchIndex
  <2>3. ASSUME LookUp(q) PROVE OrderlyFor(q)'
    BY <2>3, LookUpOrderly DEF Orderly
  <2>4. ASSUME LookUpFails(q) PROVE OrderlyFor(q)'
    <3>1. hits'[q] = <<>> /\ results'[q] = <<>>
      BY <2>4 DEF LookUpFails, Typed, TypeOK
    <3>2. Len(hits'[q]) = 0 /\ Len(results'[q]) = 0
      BY <3>1
    <3>3. Total(q)' = 0 /\ K \in Nat
      BY <3>2, SemanticIndexAssumption DEF Total
    <3>4. \A i \in 1..0 : FALSE
      OBVIOUS
    <3> QED
      BY <3>3, <3>4 DEF OrderlyFor
  <2>5. OrderlyFor(q)'
    BY <1>3, <2>2, <2>3, <2>4
  <2> QED
    BY <1>1, <2>1, <2>5 DEF Orderly
<1>4. CASE UNCHANGED vars
  BY <1>1, <1>4 DEF vars, Orderly
<1> QED
  BY <1>2, <1>3, <1>4 DEF Next

(* However uploads and searches interleave, and whatever overtakes         *)
(* whatever: an answer has at most K entries (gen2.py:473), no vector is   *)
(* answered twice, padding comes after all that was found, and an entry    *)
(* for padding is possible only if the index had fewer than K vectors when *)
(* it was searched, so that every vector answered is one of the first      *)
(* K - 1.  This bounds where ResultsAreMatches is violated.                *)
THEOREM AnswersAreOrderly == Spec => [](AtMostK /\ NoVectorTwice /\ PaddingMeansFewVectors)
<1>1. Init => Orderly
  <2> SUFFICES ASSUME Init, NEW q \in Query PROVE OrderlyFor(q)
    BY DEF Orderly
  <2>1. Total(q) = 0 /\ K \in Nat
    BY SemanticIndexAssumption DEF Init, Total
  <2> QED
    BY <2>1 DEF OrderlyFor
<1>2. Typed /\ Orderly => AtMostK /\ NoVectorTwice /\ PaddingMeansFewVectors
  <2> SUFFICES ASSUME Typed, Orderly, NEW q \in Query
               PROVE  /\ Len(results[q]) <= K
                      /\ \A i, j \in 1..Len(results[q]) :
                           /\ i < j => \/ results[q][j].label = Missing
                                       \/ results[q][i].label \notin {Missing, results[q][j].label}
                           /\ results[q][i].label = Missing => results[q][j].label < K - 1
    BY DEF AtMostK, NoVectorTwice, PaddingMeansFewVectors
  <2>1. PICK a \in Nat, b \in Nat : a = Len(results[q]) /\ b = Len(hits[q])
    BY Lengths
  <2>2. Total(q) = a + b /\ a + b <= K /\ K \in Nat
    BY <2>1, SemanticIndexAssumption DEF Orderly, OrderlyFor, Total
  <2>3. ASSUME NEW i \in 1..a, NEW j \in 1..a
        PROVE  /\ i < j => \/ results[q][j].label = Missing
                           \/ results[q][i].label \notin {Missing, results[q][j].label}
               /\ results[q][i].label = Missing => results[q][j].label < K - 1
    <3>1. i \in 1..(a + b) /\ j \in 1..(a + b)
      OBVIOUS
    <3>2. Seen(q, i) = results[q][i].label /\ Seen(q, j) = results[q][j].label
      BY <2>1 DEF Seen
    <3>3. results[q][j].label \in Int
      <4>1. results[q][j] \in Hit /\ MaxVectors \in Nat
        BY <2>1, Lengths, SemanticIndexAssumption
      <4> QED
        BY <4>1 DEF Hit, Labels
    <3>4. /\ i < j => \/ Seen(q, j) = Missing
                      \/ Seen(q, i) # Missing /\ Seen(q, i) # Seen(q, j)
          /\ Seen(q, i) = Missing => Seen(q, j) + 1 < K
      BY <2>2, <3>1 DEF Orderly, OrderlyFor
    <3> QED
      BY <2>2, <3>2, <3>3, <3>4
  <2>4. a <= K
    BY <2>2
  <2> QED
    BY <2>1, <2>3, <2>4, Zenon
<1> QED
  BY <1>1, <1>2, OrderlyStep, AlwaysTyped, PTL DEF Spec
=============================================================================
