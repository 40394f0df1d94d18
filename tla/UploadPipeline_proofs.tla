----------------------- MODULE UploadPipeline_proofs -----------------------
(***************************************************************************)
(* Proofs about UploadPipeline, for every set of documents, requests and   *)
(* sweepers and every bound.                                               *)
(***************************************************************************)
EXTENDS UploadPipeline, TLAPS, FiniteSetTheorems

-----------------------------------------------------------------------------
(* Objects                                                                 *)

LEMMA ObjectFacts ==
  /\ NoObject \in Objects /\ NoObject.kind = "none"
  /\ \A x \in Contents : Plain(x) \in Objects /\ Plain(x).kind = "plain"
  /\ \A x \in Contents, k \in Completions :
       /\ Cipher(x, k) \in Objects
       /\ Cipher(x, k).kind = "cipher" /\ Cipher(x, k).content = x /\ Cipher(x, k).key = k
<1>1. NoObject \in Objects /\ NoObject.kind = "none"
  BY DEF Objects, NoObject
<1>2. ASSUME NEW x \in Contents
      PROVE  Plain(x) \in Objects /\ Plain(x).kind = "plain"
  <2>1. Plain(x) \in Objects
    BY DEF Objects
  <2> QED BY <2>1 DEF Plain
<1>3. ASSUME NEW x \in Contents, NEW k \in Completions
      PROVE  /\ Cipher(x, k) \in Objects
             /\ Cipher(x, k).kind = "cipher" /\ Cipher(x, k).content = x /\ Cipher(x, k).key = k
  <2>1. Cipher(x, k) \in Objects
    BY DEF Objects
  <2> QED BY <2>1 DEF Cipher
<1> QED BY <1>1, <1>2, <1>3

LEMMA ObjectKinds ==
  ASSUME NEW o \in Objects
  PROVE  /\ o.kind \in {"none", "plain", "cipher"}
         /\ o.kind = "cipher" => o.key \in Completions /\ o.content \in Contents
         /\ o.kind = "plain" => o.content \in Contents
         /\ o.kind = "none" => o = NoObject
BY DEF Objects, NoObject, Plain, Cipher

-----------------------------------------------------------------------------
(* Type correctness: a request that has been sent is about a document, and *)
(* one that is about to encrypt holds bytes that passed the checks.        *)

RequestsHaveTargets ==
  /\ \A c \in Completions : pc[c] # "new" => target[c] \in Docs
  /\ \A c \in Completions : pc[c] = "put" => bytes[c] \in Accepted
  /\ \A a \in Aborts : apc[a] # "new" => atarget[a] \in Docs

TypeInv == TypeOK /\ RequestsHaveTargets

LEMMA InitTypeInv == Init => TypeInv
BY UploadAssumption
   DEF Init, TypeInv, TypeOK, RequestsHaveTargets, DocRow, Row, Objects, CompletionPcs, AbortPcs

LEMMA DocStepsTypeInv ==
  ASSUME TypeInv, NEW d \in Docs, ClientStep(d) \/ OwnerStep(d) \/ ScanObject(d)
  PROVE  TypeInv'
<1> USE DEF TypeInv, TypeOK, RequestsHaveTargets, compVars, abortVars, sweepVars, storeVars
<1>1. CASE Presign(d)
  BY <1>1 DEF Presign, DocRow, Row
<1>2. CASE PutObject(d)
  BY <1>2, ObjectFacts DEF PutObject
<1>3. CASE UrlExpires(d)
  BY <1>3 DEF UrlExpires
<1>4. CASE DeleteDocObject(d)
  BY <1>4, ObjectFacts DEF DeleteDocObject, clientVars
<1>5. CASE DeleteDocRow(d)
  BY SMTT(30), <1>5 DEF DeleteDocRow, clientVars, DocRow
<1>6. CASE ScanObject(d)
  BY <1>6 DEF ScanObject, clientVars, Judgement
<1> QED
  BY <1>1, <1>2, <1>3, <1>4, <1>5, <1>6 DEF ClientStep, OwnerStep

LEMMA CompletionStepsTypeInv ==
  ASSUME TypeInv, NEW c \in Completions,
         \/ \E d \in Docs : CompleteStarts(c, d)
         \/ CompletionStep(c) \/ RouteTimeout(c) \/ CompletionDies(c)
  PROVE  TypeInv'
<1> USE DEF TypeInv, TypeOK, RequestsHaveTargets, clientVars, abortVars, sweepVars, storeVars,
            Goto, CompletionPcs, Working, Ended
<1>1. CASE \E d \in Docs : CompleteStarts(c, d)
  BY <1>1 DEF CompleteStarts
<1>2. CASE VerifyRow(c)
  BY <1>2 DEF VerifyRow
<1>3. CASE HeadObject(c)
  BY <1>3 DEF HeadObject
<1>4. CASE ReadObject(c)
  BY <1>4 DEF ReadObject, Passes, Accepted, Contents
<1>5. CASE EncryptOverwrite(c)
  <2>1. bytes[c] \in Contents /\ target[c] \in Docs
    BY <1>5 DEF EncryptOverwrite, Accepted, Contents
  <2>2. object' \in [Docs -> Objects]
    BY <1>5, <2>1, ObjectFacts DEF EncryptOverwrite
  <2> QED BY <1>5, <2>2 DEF EncryptOverwrite
<1>6. CASE UpdateDoc(c)
  BY <1>6 DEF UpdateDoc, DocRow, Row
<1>7. CASE CreateAlias(c)
  BY <1>7 DEF CreateAlias
<1>8. CASE CleanupRejectedObject(c)
  BY <1>8, ObjectFacts DEF CleanupRejectedObject
<1>9. CASE RouteTimeout(c)
  BY <1>9 DEF RouteTimeout
<1>10. CASE CompletionDies(c)
  BY <1>10 DEF CompletionDies
<1> QED
  BY <1>1, <1>2, <1>3, <1>4, <1>5, <1>6, <1>7, <1>8, <1>9, <1>10 DEF CompletionStep

LEMMA AbortStepsTypeInv ==
  ASSUME TypeInv, NEW a \in Aborts,
         (\E d \in Docs : AbortSelects(a, d)) \/ AbortStep(a) \/ AbortDies(a)
  PROVE  TypeInv'
<1> USE DEF TypeInv, TypeOK, RequestsHaveTargets, clientVars, compVars, sweepVars, storeVars, AbortPcs
<1>1. CASE \E d \in Docs : AbortSelects(a, d)
  BY <1>1 DEF AbortSelects
<1>2. CASE AbortDeletesObject(a)
  BY <1>2, ObjectFacts DEF AbortDeletesObject
<1>3. CASE AbortDeletesRow(a)
  BY SMTT(30), <1>3 DEF AbortDeletesRow, DocRow
<1>4. CASE AbortDies(a)
  BY <1>4 DEF AbortDies
<1> QED
  BY <1>1, <1>2, <1>3, <1>4 DEF AbortStep

LEMMA SweepStepsTypeInv ==
  ASSUME TypeInv, NEW s \in Sweepers, SweepStep(s) \/ SweepDies(s)
  PROVE  TypeInv'
<1> USE DEF TypeInv, TypeOK, RequestsHaveTargets, clientVars, compVars, abortVars, storeVars
<1>1. CASE SweepLists(s)
  BY <1>1 DEF SweepLists, Listing, Stored
<1>2. CASE SweepSelects(s)
  BY <1>2 DEF SweepSelects, LiveKeys
<1>3. CASE SweepDeletes(s)
  BY <1>3, ObjectFacts DEF SweepDeletes
<1>4. CASE SweepDies(s)
  BY <1>4 DEF SweepDies
<1> QED
  BY <1>1, <1>2, <1>3, <1>4 DEF SweepStep

LEMMA NextTypeInv == TypeInv /\ [Next]_vars => TypeInv'
<1> SUFFICES ASSUME TypeInv, [Next]_vars
             PROVE  TypeInv'
  OBVIOUS
<1>1. CASE UNCHANGED vars
  BY <1>1 DEF vars, TypeInv, TypeOK, RequestsHaveTargets
<1> QED
  BY <1>1, DocStepsTypeInv, CompletionStepsTypeInv, AbortStepsTypeInv, SweepStepsTypeInv DEF Next

\* Every variable keeps its type, whatever the interleaving.
THEOREM TypeCorrect == Spec => []TypeOK
<1>1. TypeInv => TypeOK
  BY DEF TypeInv
<1> QED
  BY <1>1, InitTypeInv, NextTypeInv, PTL DEF Spec

-----------------------------------------------------------------------------
(* What a step can do to each part of the state                            *)

LEMMA RowWriters ==
  ASSUME [Next]_vars
  PROVE  \/ UNCHANGED docs
         \/ \E d \in Docs : Presign(d) \/ DeleteDocRow(d)
         \/ \E c \in Completions : UpdateDoc(c)
         \/ \E a \in Aborts : AbortDeletesRow(a)
BY DEF Next, vars, storeVars, ClientStep, CompletionStep, AbortStep, OwnerStep, SweepStep,
       PutObject, UrlExpires, RouteTimeout, CompleteStarts, VerifyRow, HeadObject, ReadObject,
       EncryptOverwrite, CreateAlias, CleanupRejectedObject, CompletionDies, AbortSelects,
       AbortDeletesObject, AbortDies, DeleteDocObject, SweepLists, SweepSelects, SweepDeletes,
       SweepDies, ScanObject

LEMMA ObjectWriters ==
  ASSUME [Next]_vars
  PROVE  \/ UNCHANGED object
         \/ \E d \in Docs : PutObject(d) \/ DeleteDocObject(d)
         \/ \E c \in Completions : EncryptOverwrite(c) \/ CleanupRejectedObject(c)
         \/ \E a \in Aborts : AbortDeletesObject(a)
         \/ \E s \in Sweepers : SweepDeletes(s)
BY DEF Next, vars, storeVars, ClientStep, CompletionStep, AbortStep, OwnerStep, SweepStep,
       Presign, UrlExpires, RouteTimeout, CompleteStarts, VerifyRow, HeadObject, ReadObject,
       UpdateDoc, CreateAlias, CompletionDies, AbortSelects, AbortDeletesRow, AbortDies,
       DeleteDocRow, SweepLists, SweepSelects, SweepDies, ScanObject

LEMMA CompletionWriters ==
  ASSUME [Next]_vars
  PROVE  \/ UNCHANGED <<pc, target, bytes>>
         \/ \E c \in Completions, d \in Docs : CompleteStarts(c, d)
         \/ \E c \in Completions : CompletionStep(c) \/ CompletionDies(c)
BY DEF Next, vars, compVars, ClientStep, AbortStep, OwnerStep, SweepStep,
       Presign, PutObject, UrlExpires, RouteTimeout, AbortSelects, AbortDeletesObject,
       AbortDeletesRow, AbortDies, DeleteDocObject, DeleteDocRow, SweepLists, SweepSelects,
       SweepDeletes, SweepDies, ScanObject

\* A row that was inserted is never absent again, one that is gone stays gone, and
\* a finished one goes only where its owner deletes it.
LEMMA RowsAgeOneWay ==
  ASSUME TypeInv, [Next]_vars, NEW d \in Docs
  PROVE  /\ docs[d].status # "none" => docs'[d].status # "none"
         /\ docs[d].status = "gone" => docs'[d].status = "gone"
         /\ docs[d].status = "ready" => docs'[d].status \in {"ready", "gone"}
         /\ docs[d].status = "ready" => docs'[d].status = "ready" \/ d \in doomed'
         /\ d \in doomed => d \in doomed'
<1> USE DEF TypeInv, TypeOK, DocRow
<1>1. doomed \subseteq doomed'
  BY DEF Next, vars, ClientStep, CompletionStep, AbortStep, OwnerStep, SweepStep,
       Presign, PutObject, UrlExpires, RouteTimeout, CompleteStarts, VerifyRow, HeadObject,
       ReadObject, EncryptOverwrite, UpdateDoc, CreateAlias, CleanupRejectedObject,
       CompletionDies, AbortSelects, AbortDeletesObject, AbortDeletesRow, AbortDies,
       DeleteDocObject, DeleteDocRow, SweepLists, SweepSelects, SweepDeletes, SweepDies, ScanObject
<1>2. CASE UNCHANGED docs
  BY <1>1, <1>2
<1>3. ASSUME NEW e \in Docs, Presign(e)
      PROVE  docs'[d] = docs[d] \/ (docs[d].status = "none" /\ docs'[d].status = "uploading")
  BY <1>3 DEF Presign, Row
<1>4. ASSUME NEW e \in Docs, DeleteDocRow(e)
      PROVE  docs'[d] = docs[d] \/ (d \in doomed /\ docs'[d].status = "gone")
  BY <1>4 DEF DeleteDocRow
<1>5. ASSUME NEW c \in Completions, UpdateDoc(c)
      PROVE  docs'[d] = docs[d] \/ (RowExists(d) /\ docs'[d].status = "ready")
  BY <1>5 DEF UpdateDoc, Row
<1>6. ASSUME NEW a \in Aborts, AbortDeletesRow(a)
      PROVE  docs'[d].status = docs[d].status
             \/ (docs[d].status = "uploading" /\ docs'[d].status = "gone")
  BY <1>6 DEF AbortDeletesRow
<1> QED
  BY <1>1, <1>2, <1>3, <1>4, <1>5, <1>6, RowWriters DEF RowExists

\* What a step can do to a completion: start it, move it one step, or end it.
LEMMA CompletionsAgeOneWay ==
  ASSUME TypeInv, [Next]_vars, NEW c \in Completions
  PROVE  \/ pc'[c] = pc[c] /\ target'[c] = target[c] /\ bytes'[c] = bytes[c]
         \/ pc[c] = "new" /\ \E d \in Docs : CompleteStarts(c, d)
         \/ target'[c] = target[c] /\ (CompletionStep(c) \/ CompletionDies(c))
<1> USE DEF TypeInv, TypeOK
<1>1. CASE UNCHANGED <<pc, target, bytes>>
  BY <1>1
<1>2. CASE \E e \in Completions, d \in Docs : CompleteStarts(e, d)
  BY ZenonT(40), <1>2 DEF CompleteStarts, Goto
<1>3. CASE \E e \in Completions : CompletionDies(e)
  BY <1>3 DEF CompletionDies, Goto
<1>4. CASE \E e \in Completions : CompletionStep(e)
  <2> PICK e \in Completions : CompletionStep(e)
    BY <1>4
  <2>1. target' = target
    BY DEF CompletionStep, VerifyRow, HeadObject, ReadObject, EncryptOverwrite, UpdateDoc,
           CreateAlias, CleanupRejectedObject
  <2>2. e # c => pc'[c] = pc[c]
    BY DEF CompletionStep, VerifyRow, HeadObject, ReadObject, EncryptOverwrite, UpdateDoc,
           CreateAlias, CleanupRejectedObject, Goto
  <2>3. e # c => bytes'[c] = bytes[c]
    BY DEF CompletionStep, VerifyRow, HeadObject, ReadObject, EncryptOverwrite, UpdateDoc,
           CreateAlias, CleanupRejectedObject
  <2> QED BY <2>1, <2>2, <2>3
<1> QED BY <1>1, <1>2, <1>3, <1>4, CompletionWriters

-----------------------------------------------------------------------------
(* The sweep. Nothing is stored, or worked on, under a key whose row was   *)
(* never inserted; rows do not come back. So a listed key without a row is *)
(* a key whose row is gone for good, whatever happens after the select.    *)

RowComesFirst ==
  /\ \A d \in Docs : url[d] # "none" \/ puts[d] > 0 \/ object[d].kind # "none"
                       => docs[d].status # "none"
  /\ \A c \in Completions : pc[c] # "new" => docs[target[c]].status # "none"
  /\ \A s \in Sweepers : \A d \in listed[s] : docs[d].status # "none"

SweepInv == TypeInv /\ RowComesFirst /\ OrphansAreGone

LEMMA InitSweepInv == Init => SweepInv
BY InitTypeInv DEF Init, SweepInv, RowComesFirst, OrphansAreGone, NoObject

LEMMA NextSweepInv == SweepInv /\ [Next]_vars => SweepInv'
<1> SUFFICES ASSUME SweepInv, [Next]_vars
             PROVE  SweepInv'
  OBVIOUS
<1> USE DEF SweepInv
<1>t. TypeInv /\ TypeInv'
  BY NextTypeInv
<1>r. \A d \in Docs : /\ docs[d].status # "none" => docs'[d].status # "none"
                      /\ docs[d].status = "gone" => docs'[d].status = "gone"
  BY <1>t, RowsAgeOneWay
<1>1. ASSUME NEW d \in Docs, url'[d] # "none" \/ puts'[d] > 0
      PROVE  docs'[d].status # "none"
  <2>1. CASE UNCHANGED <<url, puts>>
    BY <1>1, <1>r, <2>1 DEF RowComesFirst
  <2>2. CASE \E e \in Docs : Presign(e)
    BY <1>1, <1>r, <1>t, <2>2 DEF Presign, RowComesFirst, TypeInv, TypeOK, Row
  <2>3. CASE \E e \in Docs : PutObject(e) \/ UrlExpires(e)
    BY <1>1, <1>r, <1>t, <2>3 DEF PutObject, UrlExpires, RowComesFirst, TypeInv, TypeOK
  <2> QED
    BY <2>1, <2>2, <2>3 DEF Next, vars, clientVars, ClientStep, CompletionStep, AbortStep, OwnerStep,
         SweepStep, RouteTimeout, CompleteStarts, VerifyRow, HeadObject, ReadObject,
         EncryptOverwrite, UpdateDoc, CreateAlias, CleanupRejectedObject, CompletionDies,
         AbortSelects, AbortDeletesObject, AbortDeletesRow, AbortDies, DeleteDocObject,
         DeleteDocRow, SweepLists, SweepSelects, SweepDeletes, SweepDies, ScanObject
<1>2. ASSUME NEW d \in Docs, object'[d].kind # "none"
      PROVE  docs'[d].status # "none"
  <2>1. CASE UNCHANGED object
    BY <1>2, <1>r, <2>1 DEF RowComesFirst
  <2>2. CASE \E e \in Docs : PutObject(e)
    BY <1>2, <1>r, <1>t, <2>2 DEF PutObject, RowComesFirst, TypeInv, TypeOK
  <2>3. CASE \E e \in Docs : DeleteDocObject(e)
    BY <1>2, <1>r, <1>t, <2>3, ObjectFacts DEF DeleteDocObject, RowComesFirst, TypeInv, TypeOK
  <2>4. CASE \E c \in Completions : EncryptOverwrite(c)
    BY SMTT(30), <1>2, <1>r, <1>t, <2>4 DEF EncryptOverwrite, RowComesFirst, TypeInv, TypeOK
  <2>5. CASE \E c \in Completions : CleanupRejectedObject(c)
    BY <1>2, <1>r, <1>t, <2>5, ObjectFacts DEF CleanupRejectedObject, RowComesFirst, TypeInv, TypeOK
  <2>6. CASE \E a \in Aborts : AbortDeletesObject(a)
    <3> PICK a \in Aborts : AbortDeletesObject(a)
      BY <2>6
    <3>1. object' = [object EXCEPT ![atarget[a]] = NoObject] \/ object' = object
      BY DEF AbortDeletesObject
    <3>2. CASE object' = object
      BY <1>2, <1>r, <3>2 DEF RowComesFirst
    <3>3. CASE object' = [object EXCEPT ![atarget[a]] = NoObject]
      <4>1. object'[d] = object[d] \/ object'[d] = NoObject
        BY <1>t, <3>3 DEF TypeInv, TypeOK
      <4> QED BY <1>2, <1>r, <4>1, ObjectFacts DEF RowComesFirst
    <3> QED BY <3>1, <3>2, <3>3
  <2>7. CASE \E s \in Sweepers : SweepDeletes(s)
    BY <1>2, <1>r, <1>t, <2>7, ObjectFacts DEF SweepDeletes, RowComesFirst, TypeInv, TypeOK
  <2> QED BY <2>1, <2>2, <2>3, <2>4, <2>5, <2>6, <2>7, ObjectWriters
<1>3. ASSUME NEW c \in Completions, pc'[c] # "new"
      PROVE  docs'[target'[c]].status # "none"
  <2>1. CASE pc[c] # "new" /\ target'[c] = target[c]
    BY <1>r, <1>t, <2>1 DEF RowComesFirst, TypeInv, RequestsHaveTargets
  <2>2. CASE \E d \in Docs : CompleteStarts(c, d)
    BY <1>r, <1>t, <2>2 DEF CompleteStarts, RowComesFirst, TypeInv, TypeOK
  <2>3. CompletionStep(c) \/ CompletionDies(c) => pc[c] # "new"
    BY DEF CompletionStep, CompletionDies, VerifyRow, HeadObject, ReadObject, EncryptOverwrite,
           UpdateDoc, CreateAlias, CleanupRejectedObject, Working
  <2> QED BY <1>3, <1>t, <2>1, <2>2, <2>3, CompletionsAgeOneWay
<1>4. ASSUME NEW s \in Sweepers
      PROVE  /\ \A d \in listed'[s] : docs'[d].status # "none"
             /\ \A d \in orphans'[s] : docs'[d].status = "gone"
  <2> USE DEF TypeInv, TypeOK
  <2>1. CASE UNCHANGED sweepVars
    BY <1>r, <1>t, <2>1 DEF sweepVars, RowComesFirst, OrphansAreGone
  <2>2. CASE \E q \in Sweepers : SweepLists(q)
    <3> PICK q \in Sweepers : SweepLists(q)
      BY <2>2
    <3>1. \A d \in Listing(Stored) : docs[d].status # "none"
      BY DEF Listing, Stored, RowComesFirst
    <3>2. docs' = docs /\ orphans' = orphans /\ listed' = [listed EXCEPT ![q] = Listing(Stored)]
      BY DEF SweepLists, storeVars
    <3> QED BY <1>t, <3>1, <3>2 DEF RowComesFirst, OrphansAreGone
  <2>3. CASE \E q \in Sweepers : SweepSelects(q)
    <3> PICK q \in Sweepers : SweepSelects(q)
      BY <2>3
    <3>1. \A d \in listed[q] \ LiveKeys(listed[q]) : docs[d].status = "gone"
      BY <1>t DEF LiveKeys, RowExists, RowComesFirst, DocRow
    <3>2. /\ docs' = docs /\ listed' = listed
          /\ orphans' = [orphans EXCEPT ![q] = listed[q] \ LiveKeys(listed[q])]
      BY DEF SweepSelects, storeVars
    <3> QED BY <1>t, <3>1, <3>2 DEF RowComesFirst, OrphansAreGone
  <2>4. CASE \E q \in Sweepers : SweepDeletes(q) \/ SweepDies(q)
    <3> PICK q \in Sweepers : SweepDeletes(q) \/ SweepDies(q)
      BY <2>4
    <3>1. /\ docs' = docs
          /\ listed' = [listed EXCEPT ![q] = {}] /\ orphans' = [orphans EXCEPT ![q] = {}]
      BY DEF SweepDeletes, SweepDies, storeVars
    <3> QED BY <1>t, <3>1 DEF RowComesFirst, OrphansAreGone
  <2> QED
    BY <2>1, <2>2, <2>3, <2>4 DEF Next, vars, sweepVars, ClientStep, CompletionStep, AbortStep,
         OwnerStep, SweepStep, Presign, PutObject, UrlExpires, RouteTimeout, CompleteStarts,
         VerifyRow, HeadObject, ReadObject, EncryptOverwrite, UpdateDoc, CreateAlias,
         CleanupRejectedObject, CompletionDies, AbortSelects, AbortDeletesObject,
         AbortDeletesRow, AbortDies, DeleteDocObject, DeleteDocRow, ScanObject
<1> QED BY <1>t, <1>1, <1>2, <1>3, <1>4 DEF RowComesFirst, OrphansAreGone

\* The sweep deletes only objects of documents that are gone for good.
THEOREM SweepIsSafe == Spec => []OrphansAreGone
<1>1. SweepInv => OrphansAreGone
  BY DEF SweepInv
<1> QED
  BY <1>1, InitSweepInv, NextSweepInv, PTL DEF Spec

-----------------------------------------------------------------------------
(* Confirmed uploads. A completion that passed its UPDATE has found its    *)
(* row, or the row was gone; the alias can only be created in the first    *)
(* case, and a ready row goes by its owner's hand only.                    *)

UpdateFoundTheRow ==
  \A c \in Completions : pc[c] = "alias" =>
    docs[target[c]].status \in {"ready", "gone"}

ConfirmedInv == SweepInv /\ UpdateFoundTheRow /\ ConfirmedUploadsSurvive

LEMMA NextConfirmedInv == ConfirmedInv /\ [Next]_vars => ConfirmedInv'
<1> SUFFICES ASSUME ConfirmedInv, [Next]_vars
             PROVE  ConfirmedInv'
  OBVIOUS
<1> USE DEF ConfirmedInv, SweepInv
<1>t. TypeInv /\ SweepInv'
  BY NextSweepInv
<1>r. \A d \in Docs :
        /\ docs[d].status = "gone" => docs'[d].status = "gone"
        /\ docs[d].status = "ready" => docs'[d].status \in {"ready", "gone"}
        /\ docs[d].status = "ready" => docs'[d].status = "ready" \/ d \in doomed'
        /\ d \in doomed => d \in doomed'
  BY <1>t, RowsAgeOneWay
<1>1. ASSUME NEW c \in Completions, pc'[c] = "alias"
      PROVE  docs'[target'[c]].status \in {"ready", "gone"}
  <2>1. CASE pc[c] = "alias" /\ target'[c] = target[c]
    BY <1>r, <1>t, <2>1 DEF UpdateFoundTheRow, TypeInv, RequestsHaveTargets
  <2>2. CASE UpdateDoc(c)
    BY <1>t, <2>2 DEF UpdateDoc, RowExists, Row, RowComesFirst, TypeInv, TypeOK, RequestsHaveTargets, DocRow
  <2>3. CASE \E d \in Docs : CompleteStarts(c, d)
    BY <1>1, <1>t, <2>3 DEF CompleteStarts, Goto, TypeInv, TypeOK
  <2>4. CompletionStep(c) \/ CompletionDies(c) => UpdateDoc(c)
    BY <1>1, <1>t DEF CompletionStep, CompletionDies, VerifyRow, HeadObject, ReadObject,
           EncryptOverwrite, CreateAlias, CleanupRejectedObject, Goto, TypeInv, TypeOK
  <2> QED BY <1>1, <1>t, <2>1, <2>2, <2>3, <2>4, CompletionsAgeOneWay
<1>2. ASSUME NEW c \in Completions, pc'[c] = "ok"
      PROVE  docs'[target'[c]].status = "ready" \/ target'[c] \in doomed'
  <2>1. CASE pc[c] = "ok" /\ target'[c] = target[c]
    BY <1>r, <1>t, <2>1 DEF ConfirmedUploadsSurvive, TypeInv, RequestsHaveTargets
  <2>2. CASE CreateAlias(c)
    BY <1>2, <1>t, <2>2 DEF CreateAlias, Goto, storeVars, RowExists, UpdateFoundTheRow,
           TypeInv, TypeOK, RequestsHaveTargets
  <2>3. CASE \E d \in Docs : CompleteStarts(c, d)
    BY <1>2, <1>t, <2>3 DEF CompleteStarts, Goto, TypeInv, TypeOK
  <2>4. CompletionStep(c) \/ CompletionDies(c) => CreateAlias(c)
    BY <1>2, <1>t DEF CompletionStep, CompletionDies, VerifyRow, HeadObject, ReadObject,
           EncryptOverwrite, UpdateDoc, CleanupRejectedObject, Goto, TypeInv, TypeOK
  <2> QED BY <1>2, <1>t, <2>1, <2>2, <2>3, <2>4, CompletionsAgeOneWay
<1> QED BY <1>t, <1>1, <1>2 DEF UpdateFoundTheRow, ConfirmedUploadsSurvive

\* A confirmed upload stays until its owner deletes it.
THEOREM ConfirmedIsFinal == Spec => []ConfirmedUploadsSurvive
<1>1. Init => ConfirmedInv
  BY InitSweepInv DEF Init, ConfirmedInv, UpdateFoundTheRow, ConfirmedUploadsSurvive
<1>2. ConfirmedInv => ConfirmedUploadsSurvive
  BY DEF ConfirmedInv
<1> QED
  BY <1>1, <1>2, NextConfirmedInv, PTL DEF Spec

-----------------------------------------------------------------------------
(* What opens was checked. A completion keeps its bytes once it has read   *)
(* them, so a stored ciphertext is what its completion still holds.        *)

Early == {"new", "verify", "head", "read"}

CiphersAreChecked ==
  \A d \in Docs : object[d].kind = "cipher" =>
    /\ object[d].content = bytes[object[d].key]
    /\ object[d].content \in Accepted
    /\ pc[object[d].key] \notin Early

CheckedInv == TypeInv /\ CiphersAreChecked

LEMMA BytesAreKept ==
  ASSUME TypeInv, [Next]_vars, NEW c \in Completions, pc[c] \notin Early
  PROVE  pc'[c] \notin Early /\ bytes'[c] = bytes[c]
<1> USE DEF TypeInv, TypeOK, Early
<1>1. CASE CompletionDies(c)
  BY <1>1 DEF CompletionDies, Goto
<1>2. CASE CompletionStep(c)
  BY <1>2 DEF CompletionStep, VerifyRow, HeadObject, ReadObject, EncryptOverwrite, UpdateDoc,
              CreateAlias, CleanupRejectedObject, Goto
<1> QED BY <1>1, <1>2, CompletionsAgeOneWay

LEMMA NextCheckedInv == CheckedInv /\ [Next]_vars => CheckedInv'
<1> SUFFICES ASSUME CheckedInv, [Next]_vars
             PROVE  CheckedInv'
  OBVIOUS
<1> USE DEF CheckedInv
<1>t. TypeInv /\ TypeInv'
  BY NextTypeInv
<1> SUFFICES ASSUME NEW d \in Docs, object'[d].kind = "cipher"
             PROVE  /\ object'[d].content = bytes'[object'[d].key]
                    /\ object'[d].content \in Accepted
                    /\ pc'[object'[d].key] \notin Early
  BY <1>t DEF CiphersAreChecked
<1>1. CASE object'[d] = object[d]
  <2>1. object[d].key \in Completions
    BY <1>1, <1>t, ObjectKinds DEF TypeInv, TypeOK
  <2> QED BY <1>1, <1>t, <2>1, BytesAreKept DEF CiphersAreChecked
<1>2. ASSUME NEW c \in Completions, EncryptOverwrite(c), object' # object
      PROVE  \/ object'[d] = object[d]
             \/ /\ object'[d] = Cipher(bytes[c], c) /\ bytes[c] \in Accepted
                /\ bytes' = bytes /\ pc'[c] = "finalize"
  BY <1>2, <1>t DEF EncryptOverwrite, Goto, TypeInv, TypeOK, RequestsHaveTargets
<1>3. ASSUME NEW c \in Completions, EncryptOverwrite(c)
      PROVE  \/ object'[d] = object[d]
             \/ /\ object'[d].content = bytes'[object'[d].key]
                /\ object'[d].content \in Accepted
                /\ pc'[object'[d].key] \notin Early
  BY <1>2, <1>3, <1>t, ObjectFacts DEF Accepted, Contents, Early
<1>4. ASSUME NEW e \in Docs, PutObject(e) \/ DeleteDocObject(e)
      PROVE  object'[d] = object[d]
  BY <1>4, <1>t, ObjectFacts DEF PutObject, DeleteDocObject, TypeInv, TypeOK
<1>5. ASSUME NEW c \in Completions, CleanupRejectedObject(c)
      PROVE  object'[d] = object[d]
  BY <1>5, <1>t, ObjectFacts DEF CleanupRejectedObject, TypeInv, TypeOK
<1>6. ASSUME NEW a \in Aborts, AbortDeletesObject(a), object' # object
      PROVE  object'[d] = object[d]
  BY <1>6, <1>t, ObjectFacts DEF AbortDeletesObject, TypeInv, TypeOK
<1>7. ASSUME NEW s \in Sweepers, SweepDeletes(s)
      PROVE  object'[d] = object[d]
  BY <1>7, <1>t, ObjectFacts DEF SweepDeletes, TypeInv, TypeOK
<1> QED BY <1>1, <1>3, <1>4, <1>5, <1>6, <1>7, ObjectWriters

\* A row's key opens only the bytes that its completion read and checked.
THEOREM OpenedWasChecked == Spec => []OnlyCheckedContentOpens
<1>1. Init => CheckedInv
  BY InitTypeInv DEF Init, CheckedInv, CiphersAreChecked, NoObject
<1>2. CheckedInv => OnlyCheckedContentOpens
  BY DEF CheckedInv, CiphersAreChecked, OnlyCheckedContentOpens, Opens
<1> QED
  BY <1>1, <1>2, NextCheckedInv, PTL DEF Spec

-----------------------------------------------------------------------------
(* Orderly clients: one PUT, one completion, and an abort only after the   *)
(* answer. Then nobody else touches the document of a working completion,  *)
(* except its owner who deletes it.                                        *)

OrderlyDocs == {d \in Docs : Orderly(d)}

OneRequestAtATime ==
  /\ \A c \in Completions : pc[c] = "new" => target[c] = NoDoc
  /\ \A c \in Completions : pc[c] # "new" => puts[target[c]] >= 1
  /\ \A c \in Completions, a \in Aborts :
       pc[c] \in Working /\ target[c] \in OrderlyDocs => atarget[a] # target[c]

NobodyElseTouches ==
  /\ \A c \in Completions : pc[c] \in Working /\ docs[target[c]].status = "gone"
                              => target[c] \in doomed \/ target[c] \notin OrderlyDocs
  /\ \A c \in Completions : pc[c] = "finalize" /\ target[c] \in OrderlyDocs \ doomed
                              => /\ object[target[c]].kind = "cipher"
                                 /\ object[target[c]].key = c
  /\ \A a \in Aborts : apc[a] \in {"delete_object", "delete_row"} /\ atarget[a] \in OrderlyDocs
                         => docs[atarget[a]].status # "ready"
  /\ \A d \in Docs : docs[d].status = "ready" =>
       /\ docs[d].key \in Completions
       /\ target[docs[d].key] = d
       /\ pc[docs[d].key] \in {"alias"} \cup Ended

PanelInv == SweepInv /\ OneRequestAtATime /\ NobodyElseTouches /\ ReadyDocsOpen

LEMMA InitPanelInv == Init => PanelInv
BY InitSweepInv
   DEF Init, PanelInv, OneRequestAtATime, NobodyElseTouches, ReadyDocsOpen, Row, Working

\* A client that was disorderly stays so.
LEMMA OrderlyBefore ==
  ASSUME TypeInv, OneRequestAtATime, [Next]_vars, NEW d \in Docs
  PROVE  /\ puts[d] \in Nat /\ puts'[d] \in Nat /\ puts[d] <= puts'[d]
         /\ d \in OrderlyDocs' => d \in OrderlyDocs
<1>t. TypeInv'
  BY NextTypeInv
<1> USE DEF TypeInv, TypeOK
<1>1. \A c \in Completions : gaveUp[c] => gaveUp'[c]
  <2>1. CASE \E c \in Completions : RouteTimeout(c)
    BY <2>1 DEF RouteTimeout
  <2>2. gaveUp' = gaveUp \/ \E c \in Completions : RouteTimeout(c)
    BY DEF Next, vars, compVars, ClientStep, CompletionStep, AbortStep, OwnerStep, SweepStep,
       Presign, PutObject, UrlExpires, CompleteStarts, VerifyRow, HeadObject,
       ReadObject, EncryptOverwrite, UpdateDoc, CreateAlias, CleanupRejectedObject,
       CompletionDies, AbortSelects, AbortDeletesObject, AbortDeletesRow, AbortDies,
       DeleteDocObject, DeleteDocRow, SweepLists, SweepSelects, SweepDeletes, SweepDies, ScanObject
  <2> QED BY <2>1, <2>2
<1>2. puts[d] <= puts'[d]
  <2>1. CASE \E e \in Docs : PutObject(e)
    BY <1>t, <2>1 DEF PutObject
  <2>2. puts' = puts \/ \E e \in Docs : PutObject(e)
    BY DEF Next, vars, clientVars, ClientStep, CompletionStep, AbortStep, OwnerStep,
       SweepStep, Presign, UrlExpires, RouteTimeout, CompleteStarts, VerifyRow, HeadObject,
       ReadObject, EncryptOverwrite, UpdateDoc, CreateAlias, CleanupRejectedObject,
       CompletionDies, AbortSelects, AbortDeletesObject, AbortDeletesRow, AbortDies,
       DeleteDocObject, DeleteDocRow, SweepLists, SweepSelects, SweepDeletes, SweepDies, ScanObject
  <2> QED BY <2>1, <2>2
<1>3. \A c \in Completions : target[c] = d => target'[c] = d
  <2> SUFFICES ASSUME NEW c \in Completions, target[c] = d PROVE target'[c] = d
    OBVIOUS
  <2>1. pc[c] # "new"
    BY UploadAssumption DEF OneRequestAtATime
  <2>2. CASE CompletionStep(c) \/ CompletionDies(c)
    BY <2>2 DEF CompletionStep, CompletionDies, VerifyRow, HeadObject, ReadObject,
       EncryptOverwrite, UpdateDoc, CreateAlias, CleanupRejectedObject, compVars
  <2>3. ~ \E e \in Docs : CompleteStarts(c, e)
    BY <2>1 DEF CompleteStarts
  <2> QED BY <2>2, <2>3, CompletionsAgeOneWay
<1> QED BY <1>t, <1>1, <1>2, <1>3 DEF OrderlyDocs, Orderly, CompletionsOf

LEMMA NextOneRequest ==
  ASSUME SweepInv, OneRequestAtATime, [Next]_vars
  PROVE  OneRequestAtATime'
<1> USE DEF SweepInv
<1>t. TypeInv /\ TypeInv'
  BY NextTypeInv
<1> USE DEF TypeInv, TypeOK
<1>3. ASSUME NEW c \in Completions, CompletionStep(c) \/ CompletionDies(c)
      PROVE  pc[c] \in Working /\ pc'[c] # "new"
  BY <1>3, <1>t DEF CompletionStep, CompletionDies, VerifyRow, HeadObject, ReadObject,
       EncryptOverwrite, UpdateDoc, CreateAlias, CleanupRejectedObject, Goto, Working
<1>4. ASSUME NEW c \in Completions, NEW d \in Docs, CompleteStarts(c, d)
      PROVE  /\ pc[c] = "new" /\ pc'[c] # "new"
             /\ target' = [target EXCEPT ![c] = d]
             /\ \A a \in Aborts : atarget'[a] # d
             /\ puts[d] > 0
  BY <1>4, <1>t DEF CompleteStarts, AbortsOf, Goto, abortVars
<1>5. ASSUME NEW c \in Completions
      PROVE  \/ pc'[c] = pc[c] /\ target'[c] = target[c]
             \/ pc[c] \in Working /\ pc'[c] # "new" /\ target'[c] = target[c]
             \/ pc[c] = "new" /\ pc'[c] # "new" /\ \E d \in Docs : CompleteStarts(c, d)
  BY <1>t, <1>3, <1>4, CompletionsAgeOneWay
<1>6. ASSUME NEW c \in Completions, pc'[c] = "new"
      PROVE  target'[c] = NoDoc
  BY <1>5, <1>6 DEF OneRequestAtATime
<1>8. ASSUME NEW c \in Completions, pc'[c] # "new"
      PROVE  puts'[target'[c]] >= 1
  <2>1. CASE pc[c] # "new" /\ target'[c] = target[c]
    <3>1. target[c] \in Docs /\ puts[target[c]] >= 1
      BY <1>t, <2>1 DEF OneRequestAtATime, RequestsHaveTargets
    <3>2. /\ puts[target[c]] \in Nat /\ puts'[target[c]] \in Nat
          /\ puts[target[c]] <= puts'[target[c]]
      BY <1>t, <3>1, OrderlyBefore
    <3> QED BY <2>1, <3>1, <3>2
  <2>2. ASSUME NEW d \in Docs, CompleteStarts(c, d)
        PROVE  puts'[target'[c]] >= 1
    <3>1. target'[c] = d /\ puts[d] > 0
      BY <1>4, <1>t, <2>2
    <3>2. puts[d] \in Nat /\ puts'[d] \in Nat /\ puts[d] <= puts'[d]
      BY <1>t, OrderlyBefore
    <3> QED BY <3>1, <3>2
  <2> QED BY <1>5, <1>8, <2>1, <2>2 DEF Working
<1>9. ASSUME NEW c \in Completions, NEW a \in Aborts, pc'[c] \in Working, target'[c] \in OrderlyDocs'
      PROVE  atarget'[a] # target'[c]
  <2>1. CASE \E d \in Docs : CompleteStarts(c, d)
    BY <1>4, <1>t, <2>1
  <2>2. CASE pc[c] \in Working /\ target'[c] = target[c]
    <3>0. target[c] \in Docs
      BY <1>t, <2>2 DEF RequestsHaveTargets, Working
    <3>o. target[c] \in OrderlyDocs
      BY <1>9, <1>t, <2>2, <3>0, OrderlyBefore
    <3>1. ASSUME NEW b \in Aborts, NEW d \in Docs, AbortSelects(b, d)
          PROVE  atarget'[a] # target[c]
      <4>1. target[c] # d
        BY <2>2, <3>1, <3>o DEF AbortSelects, CompletionsOf, ToldFailure, Working, OrderlyDocs, Orderly
      <4> QED BY <1>t, <2>2, <3>o, <3>1, <4>1 DEF AbortSelects, OneRequestAtATime
    <3>2. CASE atarget' = atarget
      BY <2>2, <3>o, <3>2 DEF OneRequestAtATime
    <3>3. atarget' = atarget \/ \E b \in Aborts, d \in Docs : AbortSelects(b, d)
      BY DEF Next, vars, abortVars, ClientStep, CompletionStep, AbortStep, OwnerStep, SweepStep,
         Presign, PutObject, UrlExpires, RouteTimeout, CompleteStarts, VerifyRow, HeadObject,
         ReadObject, EncryptOverwrite, UpdateDoc, CreateAlias, CleanupRejectedObject,
         CompletionDies, AbortDeletesObject, AbortDeletesRow, AbortDies, DeleteDocObject,
         DeleteDocRow, SweepLists, SweepSelects, SweepDeletes, SweepDies, ScanObject
    <3> QED BY <2>2, <3>1, <3>2, <3>3
  <2>3. pc[c] # "new" => pc[c] \in Working
    BY <1>5, <1>9 DEF Working
  <2> QED BY <1>5, <1>9, <2>1, <2>2, <2>3 DEF Working
<1> QED BY <1>6, <1>8, <1>9 DEF OneRequestAtATime

LEMMA NextNobodyElse ==
  ASSUME PanelInv, [Next]_vars
  PROVE  NobodyElseTouches' /\ ReadyDocsOpen'
<1> USE DEF PanelInv, SweepInv
<1>t. TypeInv /\ TypeInv' /\ OneRequestAtATime' /\ OrphansAreGone
  BY NextTypeInv, NextOneRequest
<1>u. \A d \in Docs : d \in OrderlyDocs => \A c, e \in Completions : target[c] = d /\ target[e] = d => c = e
  BY DEF OrderlyDocs, Orderly, CompletionsOf
<1>o. \A d \in Docs : /\ puts[d] \in Nat /\ puts'[d] \in Nat /\ puts[d] <= puts'[d]
                      /\ d \in OrderlyDocs' => d \in OrderlyDocs
  BY <1>t, OrderlyBefore
<1>w. \A c \in Completions : pc[c] \in Working => target[c] \in Docs
  BY <1>t DEF TypeInv, RequestsHaveTargets, Working
<1>r. \A d \in Docs :
        /\ docs[d].status = "gone" => docs'[d].status = "gone"
        /\ docs[d].status = "ready" => docs'[d].status \in {"ready", "gone"}
        /\ d \in doomed => d \in doomed'
  BY <1>t, RowsAgeOneWay
<1>d. /\ DocRow = [status: {"none", "uploading", "ready", "gone"}, key: Completions \cup {NoKey}]
      /\ docs \in [Docs -> DocRow] /\ docs' \in [Docs -> DocRow]
  BY <1>t DEF DocRow, TypeInv, TypeOK

\* How a row changes.
<1>1. ASSUME NEW d \in Docs
      PROVE  \/ docs'[d] = docs[d]
             \/ docs[d].status = "none" /\ docs'[d].status = "uploading"
             \/ d \in doomed' /\ docs'[d].status = "gone"
             \/ /\ docs[d].status = "uploading" /\ docs'[d].status = "gone"
                /\ \E a \in Aborts : atarget[a] = d
             \/ \E c \in Completions : UpdateDoc(c) /\ target[c] = d /\ docs'[d] = Row("ready", c)
  <2>1. ASSUME NEW e \in Docs, Presign(e)
        PROVE  docs'[d] = docs[d] \/ (docs[d].status = "none" /\ docs'[d].status = "uploading")
    BY <1>d, <2>1 DEF Presign, Row
  <2>2. ASSUME NEW e \in Docs, DeleteDocRow(e)
        PROVE  docs'[d] = docs[d] \/ (d \in doomed' /\ docs'[d].status = "gone")
    BY <1>d, <2>2 DEF DeleteDocRow
  <2>3. ASSUME NEW c \in Completions, UpdateDoc(c)
        PROVE  docs'[d] = docs[d] \/ (target[c] = d /\ docs'[d] = Row("ready", c))
    BY <1>d, <2>3 DEF UpdateDoc
  <2>4. ASSUME NEW a \in Aborts, AbortDeletesRow(a)
        PROVE  \/ docs'[d] = docs[d]
               \/ atarget[a] = d /\ docs[d].status = "uploading" /\ docs'[d].status = "gone"
    BY <1>d, <2>4 DEF AbortDeletesRow
  <2> QED BY <2>1, <2>2, <2>3, <2>4, RowWriters

\* How an object changes.
<1>2. ASSUME NEW d \in Docs, d \notin doomed', d \in OrderlyDocs', object'[d] # object[d]
      PROVE  \/ puts[d] < 1
             \/ \E c \in Completions : /\ pc[c] \in {"put", "cleanup"} /\ target[c] = d
                                       /\ pc'[c] = "finalize" => /\ object'[d].kind = "cipher"
                                                                 /\ object'[d].key = c
             \/ \E a \in Aborts : apc[a] = "delete_object" /\ atarget[a] = d
             \/ docs[d].status = "gone"
  <2> USE DEF TypeInv, TypeOK
  <2>1. CASE \E e \in Docs : PutObject(e)
    <3>1. puts'[d] = puts[d] + 1
      BY <1>2, <1>t, <2>1 DEF PutObject
    <3> QED BY <1>2, <1>o, <3>1 DEF OrderlyDocs, Orderly
  <2>2. CASE \E e \in Docs : DeleteDocObject(e)
    BY <1>2, <1>t, <2>2 DEF DeleteDocObject
  <2>3. ASSUME NEW c \in Completions, EncryptOverwrite(c)
        PROVE  /\ pc[c] = "put" /\ target[c] = d
               /\ object'[d].kind = "cipher" /\ object'[d].key = c
    BY <1>2, <1>t, <2>3 DEF EncryptOverwrite, Cipher
  <2>4. ASSUME NEW c \in Completions, CleanupRejectedObject(c)
        PROVE  pc[c] = "cleanup" /\ target[c] = d /\ pc'[c] = "refused"
    BY <1>2, <1>t, <2>4 DEF CleanupRejectedObject, Goto
  <2>5. ASSUME NEW a \in Aborts, AbortDeletesObject(a)
        PROVE  apc[a] = "delete_object" /\ atarget[a] = d
    BY <1>2, <1>t, <2>5 DEF AbortDeletesObject
  <2>6. CASE \E s \in Sweepers : SweepDeletes(s)
    BY <1>2, <1>t, <2>6 DEF SweepDeletes, OrphansAreGone
  <2> QED BY <1>2, <2>1, <2>2, <2>3, <2>4, <2>5, <2>6, ObjectWriters

\* How a completion changes.
<1>3. ASSUME NEW c \in Completions
      PROVE  \/ pc'[c] = pc[c] /\ target'[c] = target[c]
             \/ /\ pc[c] \in Working /\ target'[c] = target[c]
                /\ pc'[c] = "finalize" => pc[c] = "put" /\ EncryptOverwrite(c)
                /\ pc[c] = "alias" => pc'[c] \in Ended
             \/ /\ pc[c] = "new" /\ pc'[c] # "finalize"
                /\ target'[c] \in Docs
                /\ pc'[c] \in Working => docs'[target'[c]].status # "gone"
  <2>1. CASE CompletionDies(c)
    BY <1>t, <2>1 DEF CompletionDies, Goto, Working, Ended, TypeInv, TypeOK, compVars
  <2>2. CASE CompletionStep(c)
    BY <1>t, <2>2 DEF CompletionStep, VerifyRow, HeadObject, ReadObject, EncryptOverwrite, UpdateDoc,
           CreateAlias, CleanupRejectedObject, Goto, Working, Ended, TypeInv, TypeOK
  <2>3. ASSUME NEW d \in Docs, CompleteStarts(c, d)
        PROVE  /\ pc[c] = "new" /\ pc'[c] # "finalize"
               /\ target'[c] = d
               /\ pc'[c] \in Working => docs'[d].status # "gone"
    BY <1>t, <2>3 DEF CompleteStarts, Goto, Working, RowExists, TypeInv, TypeOK, storeVars
  <2> QED BY <1>t, <2>1, <2>2, <2>3, CompletionsAgeOneWay

<1>4. ASSUME NEW c \in Completions, pc'[c] \in Working, docs'[target'[c]].status = "gone",
             target'[c] \in OrderlyDocs'
      PROVE  target'[c] \in doomed'
  <2>1. pc[c] \in Working /\ target'[c] = target[c]
    BY <1>3, <1>4 DEF Working, Ended
  <2>o. target[c] \in OrderlyDocs
    BY <1>4, <1>o, <1>w, <2>1
  <2>2. CASE docs[target[c]].status = "gone"
    BY <1>r, <1>w, <2>o, <2>1, <2>2 DEF NobodyElseTouches
  <2>3. CASE docs[target[c]].status # "gone"
    <3>1. target[c] \in Docs /\ docs'[target[c]].status = "gone"
      BY <1>4, <1>w, <2>1
    <3>2. \A a \in Aborts : atarget[a] # target[c]
      BY <2>o, <2>1 DEF OneRequestAtATime
    <3>3. \A e \in Completions : Row("ready", e).status = "ready"
      BY DEF Row
    <3>4. docs'[target[c]] # docs[target[c]]
      BY <2>3, <3>1
    <3>5. target[c] \in doomed'
      BY <1>1, <3>1, <3>2, <3>3, <3>4
    <3> QED BY <2>1, <3>5
  <2> QED BY <2>2, <2>3
<1>5. ASSUME NEW c \in Completions, pc'[c] = "finalize", target'[c] \notin doomed',
             target'[c] \in OrderlyDocs'
      PROVE  object'[target'[c]].kind = "cipher" /\ object'[target'[c]].key = c
  <2>1. target'[c] = target[c] /\ (pc[c] = "finalize" \/ EncryptOverwrite(c))
    BY <1>3, <1>5
  <2>2. CASE EncryptOverwrite(c)
    <3>1. pc[c] = "put" /\ target[c] \in Docs
      BY <1>t, <2>2 DEF EncryptOverwrite, TypeInv, RequestsHaveTargets
    <3>2. object' = [object EXCEPT ![target[c]] = Cipher(bytes[c], c)]
      BY <1>5, <1>t, <2>2 DEF EncryptOverwrite, Goto, TypeInv, TypeOK
    <3>3. object'[target[c]] = Cipher(bytes[c], c)
      BY <1>t, <3>1, <3>2 DEF TypeInv, TypeOK
    <3> QED BY <2>1, <3>3 DEF Cipher
  <2>3. CASE pc[c] = "finalize"
    <3> DEFINE d == target[c]
    <3>1. d \in Docs /\ d \notin doomed /\ d \in OrderlyDocs /\ ~(puts[d] < 1)
      BY <1>5, <1>o, <1>r, <1>w, <2>1, <2>3 DEF OneRequestAtATime, Working
    <3>2. object'[d] = object[d]
      BY <1>2, <1>5, <1>u, <2>1, <2>3, <3>1 DEF OneRequestAtATime, NobodyElseTouches, Working
    <3> QED BY <2>1, <2>3, <3>1, <3>2 DEF NobodyElseTouches
  <2> QED BY <2>1, <2>2, <2>3
<1>6. ASSUME NEW a \in Aborts, apc'[a] \in {"delete_object", "delete_row"}, atarget'[a] \in OrderlyDocs'
      PROVE  docs'[atarget'[a]].status # "ready"
  <2> USE DEF TypeInv, TypeOK
  <2>1. CASE \E d \in Docs : AbortSelects(a, d)
    BY <1>6, <1>t, <2>1 DEF AbortSelects, storeVars
  <2>2. CASE apc[a] \in {"delete_object", "delete_row"} /\ atarget'[a] = atarget[a]
    <3>1. atarget[a] \in Docs /\ atarget[a] \in OrderlyDocs /\ docs[atarget[a]].status # "ready"
      BY <1>6, <1>o, <1>t, <2>2 DEF RequestsHaveTargets, NobodyElseTouches
    <3>2. ASSUME NEW c \in Completions, UpdateDoc(c)
          PROVE  target[c] # atarget[a]
      BY <3>1, <3>2 DEF UpdateDoc, OneRequestAtATime, Working
    <3> QED BY ZenonT(40), <1>1, <2>2, <3>1, <3>2 DEF Row
  <2>3. UNCHANGED abortVars \/ \E b \in Aborts : AbortStep(b) \/ AbortDies(b) \/ \E d \in Docs : AbortSelects(b, d)
    BY DEF Next, vars, abortVars, ClientStep, CompletionStep, OwnerStep, SweepStep,
       Presign, PutObject, UrlExpires, RouteTimeout, CompleteStarts, VerifyRow, HeadObject,
       ReadObject, EncryptOverwrite, UpdateDoc, CreateAlias, CleanupRejectedObject,
       CompletionDies, DeleteDocObject, DeleteDocRow, SweepLists, SweepSelects, SweepDeletes,
       SweepDies, ScanObject
  <2>4. CASE \E b \in Aborts : AbortStep(b) \/ AbortDies(b)
    <3>1. /\ atarget' = atarget
          /\ apc'[a] = apc[a] \/ apc[a] \in {"delete_object", "delete_row"}
      BY <1>t, <2>4 DEF AbortStep, AbortDeletesObject, AbortDeletesRow, AbortDies
    <3> QED BY <1>6, <2>2, <3>1
  <2>5. CASE \E b \in Aborts, d \in Docs : b # a /\ AbortSelects(b, d)
    <3>1. apc'[a] = apc[a] /\ atarget'[a] = atarget[a]
      BY <1>t, <2>5 DEF AbortSelects
    <3> QED BY <1>6, <2>2, <3>1
  <2>6. CASE UNCHANGED abortVars
    BY <1>6, <2>2, <2>6 DEF abortVars
  <2> QED BY <2>1, <2>3, <2>4, <2>5, <2>6
<1>7. ASSUME NEW d \in Docs, docs'[d].status = "ready"
      PROVE  /\ docs'[d].key \in Completions
             /\ target'[docs'[d].key] = d
             /\ pc'[docs'[d].key] \in {"alias"} \cup Ended
  <2>1. CASE docs'[d] = docs[d]
    BY <1>3, <1>7, <2>1 DEF NobodyElseTouches, Working, Ended
  <2>2. ASSUME NEW c \in Completions, UpdateDoc(c), target[c] = d, docs'[d] = Row("ready", c)
        PROVE  docs'[d].key = c /\ target'[c] = d /\ pc'[c] = "alias"
    BY <1>t, <2>2 DEF UpdateDoc, Row, Goto, TypeInv, TypeOK
  <2> QED BY <1>1, <1>7, <2>1, <2>2
<1>8. ASSUME NEW d \in Docs, docs'[d].status = "ready", d \notin doomed', d \in OrderlyDocs'
      PROVE  object'[d].kind = "cipher" /\ object'[d].key = docs'[d].key
  <2>1. CASE docs'[d] = docs[d]
    <3> DEFINE c == docs[d].key
    <3>1. c \in Completions /\ target[c] = d /\ pc[c] \in {"alias"} \cup Ended
          /\ d \notin doomed /\ d \in OrderlyDocs
      BY <1>8, <1>o, <1>r, <2>1 DEF NobodyElseTouches
    <3>2. ~(puts[d] < 1)
      BY <1>o, <3>1 DEF OneRequestAtATime, Ended
    <3>3. \A e \in Completions : target[e] = d => e = c
      BY <1>u, <3>1 DEF Ended
    <3>4. object'[d] = object[d]
      BY <1>2, <1>8, <2>1, <3>1, <3>2, <3>3 DEF NobodyElseTouches, Ended
    <3> QED BY <1>8, <2>1, <3>1, <3>4 DEF ReadyDocsOpen, Opens, OrderlyDocs
  <2>2. ASSUME NEW c \in Completions, UpdateDoc(c), target[c] = d, docs'[d] = Row("ready", c)
        PROVE  object'[d].kind = "cipher" /\ object'[d].key = docs'[d].key
    <3>1. pc[c] = "finalize" /\ object' = object /\ d \notin doomed /\ d \in OrderlyDocs
      BY <1>8, <1>o, <1>r, <2>2 DEF UpdateDoc
    <3> QED BY <2>2, <3>1 DEF NobodyElseTouches, Row
  <2> QED BY <1>1, <1>8, <2>1, <2>2
<1> QED BY <1>4, <1>5, <1>6, <1>7, <1>8 DEF NobodyElseTouches, ReadyDocsOpen, Opens, OrderlyDocs

\* A finished document whose client waited for its answers opens until its owner
\* deletes it.
THEOREM OrderlyUploadsOpen == Spec => []ReadyDocsOpen
<1>1. PanelInv /\ [Next]_vars => PanelInv'
  BY NextSweepInv, NextOneRequest, NextNobodyElse DEF PanelInv
<1>2. PanelInv => ReadyDocsOpen
  BY DEF PanelInv
<1> QED
  BY <1>1, <1>2, InitPanelInv, PTL DEF Spec
=============================================================================
