------------------------------ MODULE Documents ------------------------------
(***************************************************************************)
(* DocumentsService: a document is a row of the documents table and an     *)
(* object in S3.  The two stores share no transaction: an upload puts the  *)
(* object first, a deletion removes the object first.                      *)
(***************************************************************************)
EXTENDS TripCalls

CONSTANT DocKeys

ASSUME DocumentsAssumption == DocKeys \subseteq Keys

VARIABLE stored  \* S3: the documents whose object is in the bucket

\* Two of the five categories.
DocumentCategory == {"IDS", "OTHER"}
Document == [category : DocumentCategory]
ASSUME DocumentIsRow == None \notin Document

DocInput == DocumentCategory \cup {"keep"}

DocSteps == {"doc.save", "doc.update", "doc.object", "doc.remove", "doc.publish"}

-----------------------------------------------------------------------------
\* uploadDocument(): storage.upload() under a new key, then the row.
DocUpload(q, k, category) ==
  /\ k \notin used \cup stored
  /\ Begin(q, "doc.save", [NoLocals EXCEPT !.op = "DOCUMENT_UPLOADED", !.key = k,
                             !.copy = [category |-> category]])
  /\ stored' = stored \cup {k}
  /\ UNCHANGED tableVars

DocSave(q) ==
  /\ pc[q] = "doc.save"
  /\ Insert(loc[q].key, loc[q].copy)
  /\ GoWith(q, "doc.publish", loc[q])
  /\ UNCHANGED <<told, stored>>

\* updateDocument() reads the row, assigns and saves it.
DocFind(q, k, input) ==
  /\ row[k] # None
  /\ Begin(q, "doc.update", [NoLocals EXCEPT !.op = "DOCUMENT_UPDATED", !.key = k,
                               !.copy = row[k], !.input = input])
  /\ UNCHANGED <<tableVars, stored>>

DocUpdate(q) ==
  LET saved == IF loc[q].input = "keep" THEN loc[q].copy ELSE [category |-> loc[q].input] IN
  /\ pc[q] = "doc.update"
  /\ SaveBack(loc[q].key, saved)
  /\ GoWith(q, "doc.publish", [loc[q] EXCEPT !.copy = saved])
  /\ UNCHANGED <<told, stored>>

\* deleteDocument() reads the row, deletes the object, then the row.
DocFindDoomed(q, k) ==
  /\ row[k] # None
  /\ Begin(q, "doc.object", [NoLocals EXCEPT !.op = "DOCUMENT_DELETED", !.key = k])
  /\ UNCHANGED <<tableVars, stored>>

\* Mutant: the object is left in the bucket.
DocDeleteObjectKept(q) ==
  /\ pc[q] = "doc.object"
  /\ GoWith(q, "doc.remove", loc[q])
  /\ UNCHANGED <<tableVars, stored>>

DocDeleteObject(q) ==
  /\ pc[q] = "doc.object"
  /\ stored' = stored \ {loc[q].key}
  /\ GoWith(q, "doc.remove", loc[q])
  /\ UNCHANGED tableVars

DocRemove(q) ==
  /\ pc[q] = "doc.remove"
  /\ RemoveRow(loc[q].key)
  /\ GoWith(q, "doc.publish", loc[q])
  /\ UNCHANGED <<told, stored>>

DocPublish(q) == Publish(q, "doc.publish") /\ UNCHANGED stored

DocNext ==
  \E q \in Calls :
    \/ \E k \in DocKeys, category \in DocumentCategory : DocUpload(q, k, category)
    \/ \E k \in DocKeys, input \in DocInput : DocFind(q, k, input)
    \/ \E k \in DocKeys : DocFindDoomed(q, k)
    \/ DocSave(q) \/ DocUpdate(q) \/ DocDeleteObject(q) \/ DocRemove(q) \/ DocPublish(q)

DocCut(Q) == Cut(Q) /\ UNCHANGED stored

\* The documents alone; TripApp composes them with the other services.
docVars == <<tableVars, callVars, stored>>

DocInit ==
  /\ row = [k \in Keys |-> None] /\ used = {} /\ stored = {}
  /\ told = [k \in Keys |-> [type |-> "none", row |-> None]]
  /\ CallsInit

DocSpec == DocInit /\ [][DocNext \/ \E Q \in SUBSET Calls : DocCut(Q)]_docVars

-----------------------------------------------------------------------------
At(step, k) == \E q \in Calls : pc[q] = step /\ loc[q].key = k

(* uploadDocument and deleteDocument order their two stores so that without *)
(* faults no object is ever left behind, however calls overlap: an object   *)
(* without a row is one being uploaded.  And with one call at a time a      *)
(* document that is listed can be downloaded, unless it is being deleted.   *)
DocumentStored ==
  /\ cuts = 0 => \A k \in stored : row[k] # None \/ At("doc.save", k)
  /\ ~disturbed => \A k \in DocKeys : row[k] # None => k \in stored \/ At("doc.remove", k)
=============================================================================
