---------------------------- MODULE SemanticIndex ----------------------------
(***************************************************************************)
(* Upload and vector search of the semantic product index, src/gen2.py     *)
(* (src/ml.py is the same file; gen1, gen3, gen5 and the two               *)
(* gemini-kroger windows repeat the two functions).  The server runs each  *)
(* request in a thread of its own, and the threads share a FAISS index, a  *)
(* list with the product of every vector, and a flag.                      *)
(*                                                                         *)
(* A vector stands for the product it was encoded from.  What a request    *)
(* computes for itself (parsing, encoding) is part of the step that uses   *)
(* it; steps on shared objects are separate.  A call of the FAISS library  *)
(* is one step.                                                            *)
(***************************************************************************)
EXTENDS Integers, Sequences, SequencesExt

CONSTANTS
  Upload,      \* bound: upload requests that can be under way
  Query,       \* bound: search requests that can be under way
  Batches,     \* what an upload may carry: sequences of products
  K,           \* the number of vectors a search asks for (5 in the code)
  MaxVectors   \* bound: vectors in the index

Products == UNION {Range(b) : b \in Batches}

ASSUME SemanticIndexAssumption ==
  /\ \A b \in Batches : b \in Seq(Products) /\ b # <<>>
  /\ K \in Nat \ {0} /\ MaxVectors \in Nat

VARIABLES
  index,             \* the product of every vector, in the order they were added
  index_is_empty,    \* the flag
  product_metadata,  \* the list beside the index
  batch,             \* batch[u]: what upload u has not put in the list; <<>> if none
  flagged,           \* flagged[u]: upload u has cleared the flag
  hits,              \* hits[q]: labels that search q has still to look up
  results,           \* results[q]: the products found so far, with their labels
  waiting,           \* observed: uploads with vectors but no list entries, oldest
                     \* first, as long as they reach the list in that order
  overtaken          \* observed: an upload got to the list before an older one

uploadVars == <<batch, flagged, waiting, overtaken>>
queryVars == <<hits, results>>
vars == <<index, index_is_empty, product_metadata, batch, flagged, hits,
          results, waiting, overtaken>>

Missing == -1   \* the label FAISS pads an answer with

TypeOK ==
  /\ index \in Seq(Products) /\ product_metadata \in Seq(Products)
  /\ index_is_empty \in BOOLEAN /\ overtaken \in BOOLEAN
  /\ batch \in [Upload -> Batches \cup {<<>>}]
  /\ flagged \in [Upload -> BOOLEAN]
  /\ hits \in [Query -> Seq(-1 .. MaxVectors - 1)]
  /\ results \in [Query -> Seq([label : -1 .. MaxVectors - 1, product : Products])]
  /\ waiting \in Seq(Upload)

Init ==
  /\ index = <<>> /\ index_is_empty = TRUE /\ product_metadata = <<>>
  /\ batch = [u \in Upload |-> <<>>]
  /\ flagged = [u \in Upload |-> FALSE]
  /\ hits = [q \in Query |-> <<>>]
  /\ results = [q \in Query |-> <<>>]
  /\ waiting = <<>> /\ overtaken = FALSE

(* Upload u gets to the list. *)
InTurn(u) ==
  /\ overtaken' = (overtaken \/ Head(waiting) # u)
  /\ waiting' = IF overtaken' THEN <<>> ELSE Tail(waiting)

-----------------------------------------------------------------------------
(* upload_json.  A file that cannot be read, or that names no product,     *)
(* changes nothing.                                                        *)

(* Mutant of AddVectors: a product without a description gets an entry too. *)
AddVectorsUnfiltered(u) ==
  /\ batch[u] = <<>>
  /\ \E new \in Batches :
       /\ Len(index) + Len(new) <= MaxVectors
       /\ batch' = [batch EXCEPT ![u] = new \o new]
       /\ index' = index \o new
  /\ waiting' = IF overtaken THEN <<>> ELSE Append(waiting, u)
  /\ UNCHANGED <<index_is_empty, product_metadata, flagged, overtaken, queryVars>>

AddVectors(u) ==
  /\ batch[u] = <<>>
  /\ \E new \in Batches :
       /\ Len(index) + Len(new) <= MaxVectors
       /\ batch' = [batch EXCEPT ![u] = new]
       /\ index' = index \o new
  /\ waiting' = IF overtaken THEN <<>> ELSE Append(waiting, u)
  /\ UNCHANGED <<index_is_empty, product_metadata, flagged, overtaken, queryVars>>

ClearFlag(u) ==
  /\ batch[u] # <<>> /\ ~flagged[u]
  /\ index_is_empty' = FALSE
  /\ flagged' = [flagged EXCEPT ![u] = TRUE]
  /\ UNCHANGED <<index, product_metadata, batch, waiting, overtaken, queryVars>>

(* Mutants of ExtendMetadata: the list is rebuilt from the new products;   *)
(* the products are put in front.                                          *)
ExtendMetadataReplaced(u) ==
  /\ flagged[u]
  /\ product_metadata' = batch[u]
  /\ batch' = [batch EXCEPT ![u] = <<>>]
  /\ flagged' = [flagged EXCEPT ![u] = FALSE]
  /\ InTurn(u)
  /\ UNCHANGED <<index, index_is_empty, queryVars>>

ExtendMetadataInFront(u) ==
  /\ flagged[u]
  /\ product_metadata' = batch[u] \o product_metadata
  /\ batch' = [batch EXCEPT ![u] = <<>>]
  /\ flagged' = [flagged EXCEPT ![u] = FALSE]
  /\ InTurn(u)
  /\ UNCHANGED <<index, index_is_empty, queryVars>>

ExtendMetadata(u) ==
  /\ flagged[u]
  /\ product_metadata' = product_metadata \o batch[u]
  /\ batch' = [batch EXCEPT ![u] = <<>>]
  /\ flagged' = [flagged EXCEPT ![u] = FALSE]
  /\ InTurn(u)
  /\ UNCHANGED <<index, index_is_empty, queryVars>>

-----------------------------------------------------------------------------
(* vector_search. *)

(* Whatever is nearest: K labels without repetition, or all there are and  *)
(* padding.                                                                *)
Answers ==
  {labels \in [1..K -> -1 .. Len(index) - 1] :
     \A i, j \in 1..K :
       /\ labels[i] = Missing <=> i > Len(index)
       /\ i # j => labels[i] # labels[j] \/ labels[i] = Missing}

(* Mutant of SearchIndex: the flag is not looked at. *)
SearchIndexUnchecked(q) ==
  /\ hits[q] = <<>>
  /\ \E labels \in Answers : hits' = [hits EXCEPT ![q] = labels]
  /\ results' = [results EXCEPT ![q] = <<>>]
  /\ UNCHANGED <<index, index_is_empty, product_metadata, uploadVars>>

(* The flag is never set again, so that it was clear when the request      *)
(* looked means that it is clear now.                                      *)
SearchIndex(q) ==
  /\ hits[q] = <<>>
  /\ ~index_is_empty
  /\ \E labels \in Answers : hits' = [hits EXCEPT ![q] = labels]
  /\ results' = [results EXCEPT ![q] = <<>>]
  /\ UNCHANGED <<index, index_is_empty, product_metadata, uploadVars>>

(* Mutant of Subscript: one place too low. *)
SubscriptOneLow(label) ==
  product_metadata[IF label <= 0 THEN Len(product_metadata) ELSE label]

(* -1 is the last entry, as subscripts are in Python. *)
Subscript(label) ==
  product_metadata[IF label = Missing THEN Len(product_metadata) ELSE label + 1]

(* "if idx < len(product_metadata)" leaves out a label that has no entry   *)
(* yet, but not the padding.                                               *)
LookUp(q) ==
  /\ hits[q] # <<>>
  /\ LET label == Head(hits[q])
     IN  /\ label = Missing => product_metadata # <<>>
         /\ results' = IF label < Len(product_metadata)
                         THEN [results EXCEPT ![q] =
                                 Append(@, [label |-> label, product |-> Subscript(label)])]
                         ELSE results
  /\ hits' = [hits EXCEPT ![q] = Tail(@)]
  /\ UNCHANGED <<index, index_is_empty, product_metadata, uploadVars>>

(* IndexError: the list is empty, and -1 is no subscript of it. *)
LookUpFails(q) ==
  /\ hits[q] # <<>>
  /\ Head(hits[q]) = Missing /\ product_metadata = <<>>
  /\ hits' = [hits EXCEPT ![q] = <<>>]
  /\ results' = [results EXCEPT ![q] = <<>>]
  /\ UNCHANGED <<index, index_is_empty, product_metadata, uploadVars>>

-----------------------------------------------------------------------------
Next ==
  \/ \E u \in Upload : AddVectors(u) \/ ClearFlag(u) \/ ExtendMetadata(u)
  \/ \E q \in Query : SearchIndex(q) \/ LookUp(q) \/ LookUpFails(q)

Spec == Init /\ [][Next]_vars

-----------------------------------------------------------------------------
(* As long as no upload overtook another, the list names the product of    *)
(* every vector that it has an entry for: uploads may overlap, as long as  *)
(* they reach the list in the order they reached the index.                *)
PrefixUntilOvertaken == overtaken \/ IsPrefix(product_metadata, index)

(* Whatever overtakes whatever, the two never drift apart in size: when no *)
(* upload is under way, each vector has one entry.                         *)
SizesAgreeAtRest ==
  (\A u \in Upload : batch[u] = <<>>) => Len(index) = Len(product_metadata)

(* A search that overlaps any uploads answers, for every vector it found   *)
(* and has an entry for, the product of that vector.                       *)
AnswersWhatItFound ==
  \A q \in Query : \A i \in 1..Len(results[q]) :
    LET found == results[q][i]
    IN  \/ overtaken
        \/ found.label = Missing
        \/ found.product = index[found.label + 1]

(* A search can only break off with an error while the first upload has    *)
(* cleared the flag and not filled the list.                               *)
FailsOnlyDuringUpload ==
  \A q \in Query :
    hits[q] # <<>> /\ product_metadata = <<>> => \E u \in Upload : flagged[u]

(* gen5.py:103 prints the results as "Top matches": each of them is one of *)
(* the vectors that the search found.                                      *)
ResultsAreMatches ==
  \A q \in Query : \A i \in 1..Len(results[q]) : results[q][i].label # Missing
=============================================================================
