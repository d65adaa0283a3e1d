--------------------------- MODULE DocumentsProofs ---------------------------
(* Proofs about Documents: the table and the bucket agree, for any number   *)
(* of documents and of calls.                                               *)
EXTENDS Documents, TLAPS

Ops == {"none", "DOCUMENT_UPLOADED", "DOCUMENT_UPDATED", "DOCUMENT_DELETED"}
Locals == [op : Ops, key : Keys \cup {None}, copy : Document \cup {None},
           input : DocInput \cup {None}, gone : SUBSET Keys]

DocTypes ==
  /\ row \in [Keys -> Document \cup {None}]
  /\ used \subseteq Keys /\ stored \subseteq DocKeys
  /\ pc \in [Calls -> DocSteps \cup {"idle"}]
  /\ loc \in [Calls -> Locals]
  /\ cuts \in Nat /\ disturbed \in BOOLEAN
  /\ disturbed = FALSE => cuts = 0

(* What a call holds: a key of the table, and the row it is going to write. *)
(* Keys are taken when their row is inserted, and a document whose row is   *)
(* about to be removed, or whose object is, has been inserted.              *)
CallHolds(q) ==
  /\ loc[q].key \in DocKeys
  /\ pc[q] = "doc.save" => loc[q].copy \in Document
  /\ pc[q] = "doc.update" =>
       loc[q].copy \in Document /\ loc[q].input \in DocInput /\ loc[q].key \in used
  /\ pc[q] \in {"doc.object", "doc.remove"} => loc[q].key \in used
  /\ pc[q] = "doc.remove" => loc[q].key \notin stored

HasRow(k) == row[k] # None
Taken == \A k \in DocKeys : HasRow(k) => k \in used

(* The first half: no object is left behind.                                *)
NoneLeft == cuts = 0 => \A k \in stored : HasRow(k) \/ At("doc.save", k)

(* The second half: calls made one at a time keep the object of every row   *)
(* and of every row that is about to be written.                            *)
Alone == \A q, r \in Calls : pc[q] # "idle" /\ pc[r] # "idle" => q = r
Downloadable(k) == HasRow(k) => k \in stored \/ At("doc.remove", k)
Kept ==
  ~disturbed =>
    /\ Alone
    /\ \A k \in DocKeys : Downloadable(k)
    /\ \A q \in Calls : pc[q] \in {"doc.save", "doc.update"} => loc[q].key \in stored

DocInv ==
  /\ DocTypes
  /\ \A q \in Calls : pc[q] # "idle" => CallHolds(q)
  /\ Taken /\ NoneLeft /\ Kept

USE DocumentsAssumption, DocumentIsRow

-----------------------------------------------------------------------------
(* The first step of a call: it holds nothing before, and if it disturbs    *)
(* nobody then nobody else is under way.                                    *)
LEMMA Begins ==
  ASSUME NEW q \in Calls, NEW step \in DocSteps, NEW locals \in Locals, DocTypes,
         Begin(q, step, locals), row' = row, used' = used,
         stored' \in SUBSET DocKeys
  PROVE  /\ DocTypes'
         /\ pc[q] = "idle" /\ pc'[q] = step /\ loc'[q] = [locals EXCEPT !.gone = Gone]
         /\ \A r \in Calls : r # q => pc'[r] = pc[r] /\ loc'[r] = loc[r]
         /\ cuts' = cuts
         /\ ~disturbed' => ~disturbed /\ \A r \in Calls : pc[r] = "idle"
<1>1. Gone \in SUBSET Keys
  BY DEF Gone, DocTypes
<1>2. [locals EXCEPT !.gone = Gone] \in Locals
  BY <1>1 DEF Locals
<1>. QED  BY <1>2 DEF Begin, DocTypes, Quiescent

(* A later step of a call, to which nobody else is under way if no call was *)
(* disturbed.                                                               *)
LEMMA Goes ==
  ASSUME NEW q \in Calls, NEW step \in DocSteps \cup {"idle"}, NEW locals \in Locals, DocInv,
         GoWith(q, step, locals), pc[q] # "idle", row' \in [Keys -> Document \cup {None}],
         used' \in SUBSET Keys, stored' \in SUBSET DocKeys
  PROVE  /\ DocTypes'
         /\ pc'[q] = step /\ loc'[q] = locals
         /\ \A r \in Calls : r # q => pc'[r] = pc[r] /\ loc'[r] = loc[r]
         /\ cuts' = cuts /\ disturbed' = disturbed
         /\ ~disturbed => \A r \in Calls : r # q => pc[r] = "idle"
BY DEF GoWith, DocTypes, DocInv, Kept, Alone

LEMMA Initially == DocInit => DocInv
<1>. SUFFICES ASSUME DocInit PROVE DocInv
  OBVIOUS
<1>1. NoLocals \in Locals
  BY DEF NoLocals, Locals, Ops
<1>2. DocTypes
  BY <1>1 DEF DocInit, CallsInit, DocTypes, DocSteps
<1>3. Taken /\ NoneLeft /\ Kept
  BY DEF DocInit, CallsInit, Taken, NoneLeft, Kept, Alone, Downloadable, HasRow
<1>. QED  BY <1>2, <1>3 DEF DocInit, CallsInit, DocInv

LEMMA Uploads ==
  ASSUME NEW q \in Calls, NEW k \in DocKeys, NEW category \in DocumentCategory,
         DocInv, DocUpload(q, k, category)
  PROVE  DocInv'
<1>. DEFINE locals == [NoLocals EXCEPT !.op = "DOCUMENT_UPLOADED", !.key = k,
                                       !.copy = [category |-> category]]
<1>1. /\ locals \in Locals /\ locals.key = k
      /\ locals.copy \in Document /\ locals.copy = [locals EXCEPT !.gone = Gone].copy
      /\ [locals EXCEPT !.gone = Gone].key = k
  BY DEF NoLocals, Locals, Ops, Document
<1>2. /\ k \notin used /\ stored' = stored \cup {k} /\ row' = row /\ used' = used
      /\ Begin(q, "doc.save", locals)
  BY DEF DocUpload, tableVars
<1>. HIDE DEF locals
<1>3. /\ DocTypes'
      /\ pc[q] = "idle" /\ pc'[q] = "doc.save" /\ loc'[q] = [locals EXCEPT !.gone = Gone]
      /\ \A r \in Calls : r # q => pc'[r] = pc[r] /\ loc'[r] = loc[r]
      /\ cuts' = cuts
      /\ ~disturbed' => ~disturbed /\ \A r \in Calls : pc[r] = "idle"
  BY <1>1, <1>2, Begins DEF DocInv, DocTypes, DocSteps
<1>4. \A r \in Calls : pc'[r] # "idle" => CallHolds(r)'
  <2>1. CallHolds(q)'
    BY <1>1, <1>3 DEF CallHolds
  <2>2. ASSUME NEW r \in Calls, r # q, pc'[r] # "idle" PROVE CallHolds(r)'
    <3>1. CallHolds(r) /\ pc'[r] = pc[r] /\ loc'[r] = loc[r]
      BY <1>3, <2>2 DEF DocInv
    <3>. QED  BY <1>2, <3>1 DEF CallHolds
  <2>. QED  BY <2>1, <2>2
<1>5. Taken'
  BY <1>2 DEF DocInv, Taken, HasRow
<1>6. NoneLeft'
  <2>1. \A l \in DocKeys : At("doc.save", l) => At("doc.save", l)'
    BY <1>3 DEF At
  <2>2. At("doc.save", k)'
    BY <1>1, <1>3 DEF At
  <2>. QED  BY <1>2, <1>3, <2>1, <2>2 DEF DocInv, DocTypes, NoneLeft, HasRow
<1>7. Kept'
  <2>. SUFFICES ASSUME ~disturbed' PROVE Kept'
    BY DEF Kept
  <2>1. Alone'
    BY <1>3 DEF Alone
  <2>2. \A l \in DocKeys : Downloadable(l)'
    BY <1>2, <1>3 DEF DocInv, Kept, Downloadable, HasRow, At
  <2>. QED  BY <1>1, <1>2, <1>3, <2>1, <2>2 DEF Kept
<1>. QED  BY <1>3, <1>4, <1>5, <1>6, <1>7 DEF DocInv

(* updateDocument() and deleteDocument() read the row of k.                 *)
LEMMA Finds ==
  ASSUME NEW q \in Calls, NEW k \in DocKeys, NEW locals \in Locals, DocInv, row[k] # None,
         NEW step \in {"doc.update", "doc.object"}, Begin(q, step, locals), locals.key = k,
         step = "doc.update" => locals.copy = row[k] /\ locals.input \in DocInput,
         UNCHANGED <<tableVars, stored>>
  PROVE  DocInv'
<1>1. /\ DocTypes'
      /\ pc[q] = "idle" /\ pc'[q] = step /\ loc'[q] = [locals EXCEPT !.gone = Gone]
      /\ \A r \in Calls : r # q => pc'[r] = pc[r] /\ loc'[r] = loc[r]
      /\ cuts' = cuts
      /\ ~disturbed' => ~disturbed /\ \A r \in Calls : pc[r] = "idle"
  <2>1. step \in DocSteps /\ row' = row /\ used' = used /\ stored' \in SUBSET DocKeys
    BY DEF DocSteps, tableVars, DocInv, DocTypes
  <2>. QED  BY <2>1, Begins DEF DocInv
<1>2. /\ loc'[q].key = k /\ loc'[q].copy = locals.copy /\ loc'[q].input = locals.input
  BY <1>1 DEF Locals
<1>3. k \in used /\ row[k] \in Document
  BY DEF DocInv, Taken, HasRow, DocTypes
<1>4. \A r \in Calls : pc'[r] # "idle" => CallHolds(r)'
  BY <1>1, <1>2, <1>3 DEF DocInv, CallHolds, tableVars
<1>5. Taken'
  BY DEF DocInv, Taken, HasRow, tableVars
<1>6. NoneLeft'
  <2>1. \A l \in DocKeys : At("doc.save", l) => At("doc.save", l)'
    BY <1>1 DEF At
  <2>. QED  BY <1>1, <2>1 DEF DocInv, DocTypes, NoneLeft, HasRow, tableVars
<1>7. Kept'
  <2>. SUFFICES ASSUME ~disturbed' PROVE Kept'
    BY DEF Kept
  <2>1. Alone'
    BY <1>1 DEF Alone
  <2>2. \A l \in DocKeys : HasRow(l) => l \in stored
    BY <1>1 DEF DocInv, Kept, Downloadable, At
  <2>3. \A l \in DocKeys : Downloadable(l)'
    BY <2>2 DEF Downloadable, HasRow, tableVars
  <2>4. k \in stored'
    BY <2>2 DEF HasRow
  <2>5. \A r \in Calls : pc'[r] # "idle" => loc'[r].key = k
    BY <1>1, <1>2
  <2>. QED  BY <2>1, <2>3, <2>4, <2>5 DEF Kept
<1>. QED  BY <1>1, <1>4, <1>5, <1>6, <1>7 DEF DocInv

(* save(), of a new row or of one that was read.                            *)
LEMMA Saves ==
  ASSUME NEW q \in Calls, NEW locals \in Locals, NEW saved \in Document, DocInv,
         pc[q] \in {"doc.save", "doc.update"}, row' = [row EXCEPT ![loc[q].key] = saved],
         used' = used \cup {loc[q].key}, stored' = stored,
         GoWith(q, "doc.publish", locals), locals.key = loc[q].key
  PROVE  DocInv'
<1>. DEFINE k == loc[q].key
<1>1. k \in DocKeys
  BY DEF DocInv, CallHolds
<1>2. /\ DocTypes'
      /\ pc'[q] = "doc.publish" /\ loc'[q] = locals
      /\ \A r \in Calls : r # q => pc'[r] = pc[r] /\ loc'[r] = loc[r]
      /\ cuts' = cuts /\ disturbed' = disturbed
      /\ ~disturbed => \A r \in Calls : r # q => pc[r] = "idle"
  BY <1>1, Goes DEF DocInv, DocTypes, DocSteps
<1>3. row'[k] # None /\ \A l \in DocKeys : l # k => row'[l] = row[l]
  BY <1>1 DEF DocInv, DocTypes
<1>. HIDE DEF k
<1>4. \A r \in Calls : pc'[r] # "idle" => CallHolds(r)'
  <2>1. CallHolds(q)'
    BY <1>1, <1>2 DEF CallHolds, k
  <2>2. ASSUME NEW r \in Calls, r # q, pc'[r] # "idle" PROVE CallHolds(r)'
    BY <1>2, <2>2 DEF DocInv, CallHolds
  <2>. QED  BY <2>1, <2>2
<1>5. Taken'
  BY <1>3 DEF DocInv, Taken, HasRow, k
<1>6. NoneLeft'
  <2>1. \A l \in DocKeys : l # k /\ At("doc.save", l) => At("doc.save", l)'
    BY <1>2 DEF At, k
  <2>. QED  BY <1>2, <1>3, <2>1 DEF DocInv, DocTypes, NoneLeft, HasRow
<1>7. Kept'
  <2>. SUFFICES ASSUME ~disturbed PROVE Kept'
    BY <1>2 DEF Kept
  <2>1. Alone'
    BY <1>2 DEF Alone
  <2>2. k \in stored
    BY DEF DocInv, Kept, k
  <2>3. \A l \in DocKeys : At("doc.remove", l) => At("doc.remove", l)'
    BY <1>2 DEF At
  <2>. QED  BY <1>2, <1>3, <2>1, <2>2, <2>3 DEF DocInv, Kept, Downloadable, HasRow
<1>. QED  BY <1>2, <1>4, <1>5, <1>6, <1>7 DEF DocInv

LEMMA DeletesObject ==
  ASSUME NEW q \in Calls, DocInv, DocDeleteObject(q)
  PROVE  DocInv'
<1>. DEFINE k == loc[q].key
<1>1. /\ pc[q] = "doc.object" /\ stored' = stored \ {k} /\ row' = row /\ used' = used
      /\ GoWith(q, "doc.remove", loc[q])
  BY DEF DocDeleteObject, tableVars
<1>2. k \in DocKeys /\ k \in used /\ loc[q] \in Locals
  BY <1>1 DEF DocInv, DocTypes, CallHolds
<1>3. /\ DocTypes'
      /\ pc'[q] = "doc.remove" /\ loc'[q] = loc[q]
      /\ \A r \in Calls : r # q => pc'[r] = pc[r] /\ loc'[r] = loc[r]
      /\ cuts' = cuts /\ disturbed' = disturbed
      /\ ~disturbed => \A r \in Calls : r # q => pc[r] = "idle"
  BY <1>1, <1>2, Goes DEF DocInv, DocTypes, DocSteps
<1>. HIDE DEF k
<1>4. \A r \in Calls : pc'[r] # "idle" => CallHolds(r)'
  <2>1. CallHolds(q)'
    BY <1>1, <1>2, <1>3 DEF CallHolds, k
  <2>2. ASSUME NEW r \in Calls, r # q, pc'[r] # "idle" PROVE CallHolds(r)'
    BY <1>1, <1>3, <2>2 DEF DocInv, CallHolds
  <2>. QED  BY <2>1, <2>2
<1>5. Taken'
  BY <1>1 DEF DocInv, Taken, HasRow
<1>6. NoneLeft'
  <2>1. \A l \in DocKeys : At("doc.save", l) => At("doc.save", l)'
    BY <1>1, <1>3 DEF At
  <2>. QED  BY <1>1, <1>3, <2>1 DEF DocInv, DocTypes, NoneLeft, HasRow
<1>7. Kept'
  <2>. SUFFICES ASSUME ~disturbed PROVE Kept'
    BY <1>3 DEF Kept
  <2>1. Alone'
    BY <1>3 DEF Alone
  <2>2. pc'[q] = "doc.remove" /\ loc'[q].key = k
    BY <1>3 DEF k
  <2>3. \A l \in DocKeys : At("doc.remove", l) => At("doc.remove", l)'
    BY <1>1, <1>3 DEF At
  <2>4. ASSUME NEW l \in DocKeys PROVE Downloadable(l)'
    <3>1. Downloadable(l)
      BY DEF DocInv, Kept
    <3>2. CASE l = k
      BY <2>2, <3>2 DEF Downloadable, At
    <3>3. CASE l # k
      BY <1>1, <2>3, <3>1, <3>3 DEF Downloadable, HasRow
    <3>. QED  BY <3>2, <3>3
  <2>5. \A r \in Calls : pc'[r] \notin {"doc.save", "doc.update"}
    BY <1>3
  <2>. QED  BY <2>1, <2>4, <2>5 DEF Kept
<1>. QED  BY <1>3, <1>4, <1>5, <1>6, <1>7 DEF DocInv

LEMMA Removes ==
  ASSUME NEW q \in Calls, DocInv, DocRemove(q)
  PROVE  DocInv'
<1>. DEFINE k == loc[q].key
<1>1. /\ pc[q] = "doc.remove" /\ stored' = stored /\ used' = used
      /\ row' = [row EXCEPT ![k] = None] /\ GoWith(q, "doc.publish", loc[q])
  BY DEF DocRemove, RemoveRow, SaveBack
<1>2. k \in DocKeys /\ k \notin stored /\ loc[q] \in Locals
  BY <1>1 DEF DocInv, DocTypes, CallHolds
<1>3. /\ DocTypes'
      /\ pc'[q] = "doc.publish" /\ loc'[q] = loc[q]
      /\ \A r \in Calls : r # q => pc'[r] = pc[r] /\ loc'[r] = loc[r]
      /\ cuts' = cuts /\ disturbed' = disturbed
      /\ ~disturbed => \A r \in Calls : r # q => pc[r] = "idle"
  BY <1>1, <1>2, Goes DEF DocInv, DocTypes, DocSteps
<1>4. row'[k] = None /\ \A l \in DocKeys : l # k => row'[l] = row[l]
  BY <1>1, <1>2 DEF DocInv, DocTypes
<1>. HIDE DEF k
<1>5. \A r \in Calls : pc'[r] # "idle" => CallHolds(r)'
  <2>1. CallHolds(q)'
    BY <1>2, <1>3 DEF CallHolds, k
  <2>2. ASSUME NEW r \in Calls, r # q, pc'[r] # "idle" PROVE CallHolds(r)'
    BY <1>1, <1>3, <2>2 DEF DocInv, CallHolds
  <2>. QED  BY <2>1, <2>2
<1>6. Taken'
  BY <1>1, <1>4 DEF DocInv, Taken, HasRow
<1>7. NoneLeft'
  <2>1. \A l \in DocKeys : At("doc.save", l) => At("doc.save", l)'
    BY <1>1, <1>3 DEF At
  <2>. QED  BY <1>1, <1>2, <1>3, <1>4, <2>1 DEF DocInv, DocTypes, NoneLeft, HasRow
<1>8. Kept'
  <2>. SUFFICES ASSUME ~disturbed PROVE Kept'
    BY <1>3 DEF Kept
  <2>1. Alone'
    BY <1>3 DEF Alone
  <2>2. \A l \in DocKeys : l # k /\ At("doc.remove", l) => At("doc.remove", l)'
    BY <1>1, <1>3 DEF At, k
  <2>3. \A l \in DocKeys : Downloadable(l)'
    BY <1>1, <1>4, <2>2 DEF DocInv, Kept, Downloadable, HasRow
  <2>. QED  BY <1>1, <1>3, <2>1, <2>3 DEF Kept
<1>. QED  BY <1>3, <1>5, <1>6, <1>7, <1>8 DEF DocInv

LEMMA Publishes ==
  ASSUME NEW q \in Calls, DocInv, DocPublish(q)
  PROVE  DocInv'
<1>1. /\ pc[q] = "doc.publish" /\ stored' = stored /\ used' = used /\ row' = row
      /\ GoWith(q, "idle", NoLocals)
  BY DEF DocPublish, Publish, End
<1>2. NoLocals \in Locals
  BY DEF NoLocals, Locals, Ops
<1>3. /\ DocTypes'
      /\ pc'[q] = "idle"
      /\ \A r \in Calls : r # q => pc'[r] = pc[r] /\ loc'[r] = loc[r]
      /\ cuts' = cuts /\ disturbed' = disturbed
      /\ ~disturbed => \A r \in Calls : r # q => pc[r] = "idle"
  BY <1>1, <1>2, Goes DEF DocInv, DocTypes
<1>4. \A r \in Calls : pc'[r] # "idle" => CallHolds(r)'
  BY <1>1, <1>3 DEF DocInv, CallHolds
<1>5. \A l \in DocKeys : /\ At("doc.save", l) => At("doc.save", l)'
                         /\ At("doc.remove", l) => At("doc.remove", l)'
  BY <1>1, <1>3 DEF At
<1>6. Taken' /\ NoneLeft'
  BY <1>1, <1>3, <1>5 DEF DocInv, DocTypes, Taken, NoneLeft, HasRow
<1>7. Kept'
  BY <1>1, <1>3, <1>5 DEF DocInv, Kept, Alone, Downloadable, HasRow
<1>. QED  BY <1>3, <1>4, <1>6, <1>7 DEF DocInv

(* A call that is cut short disturbs.                                       *)
LEMMA IsCut ==
  ASSUME NEW Q \in SUBSET Calls, DocInv, DocCut(Q)
  PROVE  DocInv'
<1>1. /\ pc' = [q \in Calls |-> IF q \in Q THEN "idle" ELSE pc[q]]
      /\ loc' = [q \in Calls |-> IF q \in Q THEN NoLocals ELSE loc[q]]
      /\ cuts' = cuts + 1 /\ disturbed' = TRUE /\ row' = row /\ used' = used /\ stored' = stored
  BY DEF DocCut, Cut, tableVars
<1>2. NoLocals \in Locals
  BY DEF NoLocals, Locals, Ops
<1>3. DocTypes' /\ cuts' # 0
  BY <1>1, <1>2 DEF DocInv, DocTypes
<1>4. \A r \in Calls : pc'[r] # "idle" => CallHolds(r)'
  BY <1>1 DEF DocInv, CallHolds
<1>. QED  BY <1>1, <1>3, <1>4 DEF DocInv, Taken, NoneLeft, Kept, HasRow

LEMMA DocStep ==
  DocInv /\ [DocNext \/ \E Q \in SUBSET Calls : DocCut(Q)]_docVars => DocInv'
<1>. SUFFICES ASSUME DocInv, [DocNext \/ \E Q \in SUBSET Calls : DocCut(Q)]_docVars
              PROVE  DocInv'
  OBVIOUS
<1>1. ASSUME NEW q \in Calls, NEW k \in DocKeys, NEW input \in DocInput, DocFind(q, k, input)
      PROVE  DocInv'
  <2>. DEFINE locals == [NoLocals EXCEPT !.op = "DOCUMENT_UPDATED", !.key = k,
                                         !.copy = row[k], !.input = input]
  <2>1. locals \in Locals /\ locals.key = k /\ locals.copy = row[k] /\ locals.input = input
    BY DEF NoLocals, Locals, Ops, DocInv, DocTypes
  <2>2. Begin(q, "doc.update", locals) /\ row[k] # None /\ UNCHANGED <<tableVars, stored>>
    BY <1>1 DEF DocFind
  <2>. HIDE DEF locals
  <2>. QED  BY <2>1, <2>2, Finds
<1>2. ASSUME NEW q \in Calls, NEW k \in DocKeys, DocFindDoomed(q, k) PROVE DocInv'
  <2>. DEFINE locals == [NoLocals EXCEPT !.op = "DOCUMENT_DELETED", !.key = k]
  <2>1. locals \in Locals /\ locals.key = k
    BY DEF NoLocals, Locals, Ops
  <2>2. Begin(q, "doc.object", locals) /\ row[k] # None /\ UNCHANGED <<tableVars, stored>>
    BY <1>2 DEF DocFindDoomed
  <2>. HIDE DEF locals
  <2>. QED  BY <2>1, <2>2, Finds
<1>3. ASSUME NEW q \in Calls, DocSave(q) PROVE DocInv'
  <2>1. loc[q] \in Locals /\ loc[q].copy \in Document
    BY <1>3 DEF DocSave, DocInv, DocTypes, CallHolds
  <2>. QED  BY <1>3, <2>1, Saves DEF DocSave, Insert
<1>4. ASSUME NEW q \in Calls, DocUpdate(q) PROVE DocInv'
  <2>. DEFINE saved == IF loc[q].input = "keep" THEN loc[q].copy
                                                ELSE [category |-> loc[q].input]
              locals == [loc[q] EXCEPT !.copy = saved]
  <2>1. /\ loc[q] \in Locals /\ loc[q].copy \in Document /\ loc[q].input \in DocInput
        /\ loc[q].key \in used /\ pc[q] = "doc.update"
    BY <1>4 DEF DocUpdate, DocInv, DocTypes, CallHolds
  <2>2. saved \in Document
    BY <2>1 DEF DocInput, Document
  <2>3. locals \in Locals /\ locals.key = loc[q].key
    BY <2>1, <2>2 DEF Locals
  <2>4. /\ row' = [row EXCEPT ![loc[q].key] = saved] /\ used' = used \cup {loc[q].key}
        /\ stored' = stored /\ GoWith(q, "doc.publish", locals)
    BY <1>4, <2>1 DEF DocUpdate, SaveBack
  <2>. HIDE DEF saved, locals
  <2>. QED  BY <2>1, <2>2, <2>3, <2>4, Saves
<1>5. CASE UNCHANGED docVars
  BY <1>5 DEF docVars, tableVars, callVars, DocInv, DocTypes, CallHolds, Taken, NoneLeft,
              Kept, Alone, Downloadable, HasRow, At
<1>. QED
  BY <1>1, <1>2, <1>3, <1>4, <1>5, Uploads, DeletesObject, Removes, Publishes, IsCut
  DEF DocNext

-----------------------------------------------------------------------------
(* uploadDocument and deleteDocument order their two stores well: without   *)
(* faults no object is left without a row, however many calls overlap, and  *)
(* calls made one at a time list no document that cannot be downloaded.     *)
THEOREM DocumentStoredHolds == DocSpec => []DocumentStored
<1>1. DocInv => DocumentStored
  BY DEF DocInv, NoneLeft, Kept, Downloadable, HasRow, DocumentStored
<1>. QED  BY <1>1, Initially, DocStep, PTL DEF DocSpec
=============================================================================
