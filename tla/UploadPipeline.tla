--------------------------- MODULE UploadPipeline ---------------------------
(***************************************************************************)
(* Uploads and the object store: the row of a document, its object in R2,  *)
(* the client that uploads (presign, PUT, complete, abort), deletion by    *)
(* its owner, the orphan sweep, and what the malware scanner is handed.    *)
(*                                                                         *)
(* A completion is a chain of awaits on the database and on R2; withRoute- *)
(* Timeout answers 504 and lets it run on. The client of UploadPanel.tsx   *)
(* answers every failure, a 504 included, by asking for an abort.          *)
(***************************************************************************)
EXTENDS Naturals, FiniteSets

CONSTANTS
  Docs,          \* documents, numbered in the order in which R2 lists their keys
  Completions,   \* requests to /api/admin/upload/complete
  Aborts,        \* requests to /api/admin/upload/abort
  Sweepers,      \* concurrent invocations of the orphan sweep
  NoDoc,         \* what a request not yet sent is about
  NoKey,         \* the data key of a row that has none
  Impatient,     \* TRUE: a client may be answered 504 while its request runs on
  MaxCompletes,  \* bound: completions of one document
  MaxPuts,       \* bound: PUTs to one presigned URL
  MaxObjects,    \* RETENTION_R2_AUDIT_MAX_OBJECTS: objects one sweep looks at
  MaxDeaths      \* bound: requests that die or whose SQL statement throws

ASSUME UploadAssumption ==
  /\ Docs \subseteq Nat /\ IsFiniteSet(Completions)
  /\ NoDoc \notin Docs /\ NoKey \notin Completions
  /\ Impatient \in BOOLEAN
  /\ MaxCompletes \in Nat /\ MaxPuts \in Nat /\ MaxDeaths \in Nat
  /\ MaxObjects \in Nat \ {0}

VARIABLES
  docs,     \* [Docs -> DocRow]: the rows
  object,   \* [Docs -> Object]: what R2 holds under the document's key
  url,      \* [Docs -> {"none", "valid", "expired"}]: the presigned PUT URL
  puts,     \* [Docs -> Nat]: PUTs through it so far
  pc,       \* [Completions -> CompletionPcs]
  target,   \* [Completions -> Docs \cup {NoDoc}]: the document it is about
  bytes,    \* [Completions -> Contents \cup {"none"}]: uploadedBytes
  gaveUp,   \* [Completions -> BOOLEAN]: its client was answered 504
  apc,      \* [Aborts -> AbortPcs]
  atarget,  \* [Aborts -> Docs \cup {NoDoc}]
  spc,      \* [Sweepers -> {"list", "select", "delete"}]
  listed,   \* [Sweepers -> SUBSET Docs]: the keys it listed
  orphans,  \* [Sweepers -> SUBSET Docs]: the keys it is about to delete
  doomed,   \* documents whose deletion has begun (history)
  verdict,  \* [Docs -> {"none", "clean", "infected"}]: what the scanner said
  deaths    \* requests that died so far

storeVars == <<docs, object>>
clientVars == <<url, puts>>
compVars == <<pc, target, bytes, gaveUp>>
abortVars == <<apc, atarget>>
sweepVars == <<spc, listed, orphans>>
vars == <<docs, object, url, puts, pc, target, bytes, gaveUp, apc, atarget,
          spc, listed, orphans, doomed, verdict, deaths>>

-----------------------------------------------------------------------------
(* Contents and objects. A data key is named by the completion that        *)
(* generated it: every completion generates one of its own.                *)

Contents == {"good", "infected", "bad"}
Accepted == {"good", "infected"}   \* passes the type and PDF checks; ClamAV knows "infected"

NoObject == [kind |-> "none"]
Plain(content) == [kind |-> "plain", content |-> content]
Cipher(content, key) == [kind |-> "cipher", content |-> content, key |-> key]
Objects == {NoObject} \cup {Plain(x) : x \in Contents}
                      \cup {Cipher(x, k) : x \in Contents, k \in Completions}

DocRow == [status: {"none", "uploading", "ready", "gone"}, key: Completions \cup {NoKey}]
Row(status, key) == [status |-> status, key |-> key]
RowExists(d) == docs[d].status \in {"uploading", "ready"}

Working == {"verify", "head", "read", "put", "finalize", "alias", "cleanup"}
Ended == {"ok", "refused", "dead"}
CompletionPcs == {"new"} \cup Working \cup Ended
AbortPcs == {"new", "delete_object", "delete_row", "removed", "refused", "dead"}

\* The key the row holds decrypts the object (AES-GCM rejects anything else).
Opens(d) == /\ object[d].kind = "cipher"
            /\ object[d].key = docs[d].key

TypeOK ==
  /\ docs \in [Docs -> DocRow]
  /\ object \in [Docs -> Objects]
  /\ url \in [Docs -> {"none", "valid", "expired"}]
  /\ puts \in [Docs -> Nat]
  /\ pc \in [Completions -> CompletionPcs]
  /\ target \in [Completions -> Docs \cup {NoDoc}]
  /\ bytes \in [Completions -> Contents \cup {"none"}]
  /\ gaveUp \in [Completions -> BOOLEAN]
  /\ apc \in [Aborts -> AbortPcs]
  /\ atarget \in [Aborts -> Docs \cup {NoDoc}]
  /\ spc \in [Sweepers -> {"list", "select", "delete"}]
  /\ listed \in [Sweepers -> SUBSET Docs]
  /\ orphans \in [Sweepers -> SUBSET Docs]
  /\ doomed \subseteq Docs
  /\ verdict \in [Docs -> {"none", "clean", "infected"}]
  /\ deaths \in Nat

Init ==
  /\ docs = [d \in Docs |-> Row("none", NoKey)]
  /\ object = [d \in Docs |-> NoObject]
  /\ url = [d \in Docs |-> "none"]
  /\ puts = [d \in Docs |-> 0]
  /\ pc = [c \in Completions |-> "new"]
  /\ target = [c \in Completions |-> NoDoc]
  /\ bytes = [c \in Completions |-> "none"]
  /\ gaveUp = [c \in Completions |-> FALSE]
  /\ apc = [a \in Aborts |-> "new"]
  /\ atarget = [a \in Aborts |-> NoDoc]
  /\ spc = [s \in Sweepers |-> "list"]
  /\ listed = [s \in Sweepers |-> {}]
  /\ orphans = [s \in Sweepers |-> {}]
  /\ doomed = {}
  /\ verdict = [d \in Docs |-> "none"]
  /\ deaths = 0

-----------------------------------------------------------------------------
(* The client                                                              *)

\* The row exists before the URL does.
Presign(d) ==
  /\ docs[d].status = "none"
  /\ docs' = [docs EXCEPT ![d] = Row("uploading", NoKey)]
  /\ url' = [url EXCEPT ![d] = "valid"]
  /\ UNCHANGED <<object, puts, compVars, abortVars, sweepVars, doomed, verdict, deaths>>

\* A PUT may land whenever the URL is valid, after an abort too: the client may
\* have taken it for failed.
PutObject(d) ==
  /\ url[d] = "valid" /\ puts[d] < MaxPuts
  /\ \E x \in Contents : object' = [object EXCEPT ![d] = Plain(x)]
  /\ puts' = [puts EXCEPT ![d] = @ + 1]
  /\ UNCHANGED <<docs, url, compVars, abortVars, sweepVars, doomed, verdict, deaths>>

UrlExpires(d) ==
  /\ url[d] = "valid"
  /\ url' = [url EXCEPT ![d] = "expired"]
  /\ UNCHANGED <<storeVars, puts, compVars, abortVars, sweepVars, doomed, verdict, deaths>>

CompletionsOf(d) == {c \in Completions : target[c] = d}
AbortsOf(d) == {a \in Aborts : atarget[a] = d}

\* What the client of c has been told: its request failed.
ToldFailure(c) == pc[c] \in {"refused", "dead"} \/ gaveUp[c]

\* withRouteTimeout: the client gets its 504, the work goes on.
RouteTimeout(c) ==
  /\ Impatient
  /\ pc[c] \in Working /\ ~gaveUp[c]
  /\ gaveUp' = [gaveUp EXCEPT ![c] = TRUE]
  /\ UNCHANGED <<storeVars, clientVars, pc, target, bytes, abortVars, sweepVars,
                 doomed, verdict, deaths>>

-----------------------------------------------------------------------------
(* /api/admin/upload/complete                                              *)

Goto(c, next) == pc' = [pc EXCEPT ![c] = next]

\* Loads the row. The client has PUT, and has not asked for an abort.
CompleteStarts(c, d) ==
  /\ pc[c] = "new"
  /\ puts[d] > 0 /\ AbortsOf(d) = {}
  /\ Cardinality(CompletionsOf(d)) < MaxCompletes
  /\ target' = [target EXCEPT ![c] = d]
  /\ Goto(c, IF RowExists(d) THEN "verify" ELSE "refused")
  /\ UNCHANGED <<storeVars, clientVars, bytes, gaveUp, abortVars, sweepVars,
                 doomed, verdict, deaths>>

\* 'mark_processing' writes 'uploading' over 'uploading' or 'processing', which no
\* row has; the next select finds encryption_enabled, unless the row is gone.
VerifyRow(c) ==
  /\ pc[c] = "verify"
  /\ Goto(c, IF RowExists(target[c]) THEN "head" ELSE "cleanup")
  /\ UNCHANGED <<storeVars, clientVars, target, bytes, gaveUp, abortVars, sweepVars,
                 doomed, verdict, deaths>>

\* HEAD: an encrypted object has another length and another content type than the
\* upload that was signed; an upload may have them too.
HeadObject(c) ==
  LET found == object[target[c]] IN
  /\ pc[c] = "head"
  /\ \/ found.kind = "none" /\ Goto(c, "refused")
     \/ found.kind = "plain" /\ Goto(c, "read")
     \/ found.kind = "cipher" /\ Goto(c, "cleanup")
     \/ found = Plain("bad") /\ Goto(c, "cleanup")
  /\ UNCHANGED <<storeVars, clientVars, target, bytes, gaveUp, abortVars, sweepVars,
                 doomed, verdict, deaths>>

\* Mutant of Passes: the checks are left to the scanner.
PassesUnchecked(found) == found.kind = "plain"

Passes(found) == found.kind = "plain" /\ found.content \in Accepted

\* GET and the checks on the bytes; the GET may fail.
ReadObject(c) ==
  LET found == object[target[c]] IN
  /\ pc[c] = "read"
  /\ \/ /\ Passes(found)
        /\ bytes' = [bytes EXCEPT ![c] = found.content]
        /\ Goto(c, "put")
     \/ UNCHANGED bytes /\ Goto(c, "cleanup")
  /\ UNCHANGED <<storeVars, clientVars, target, gaveUp, abortVars, sweepVars,
                 doomed, verdict, deaths>>

\* Encrypts under a new data key and overwrites the object; either may fail.
EncryptOverwrite(c) ==
  /\ pc[c] = "put"
  /\ \/ /\ object' = [object EXCEPT ![target[c]] = Cipher(bytes[c], c)]
        /\ Goto(c, "finalize")
     \/ UNCHANGED object /\ Goto(c, "cleanup")
  /\ UNCHANGED <<docs, clientVars, target, bytes, gaveUp, abortVars, sweepVars,
                 doomed, verdict, deaths>>

\* The UPDATE has no condition on the status, and nobody looks at how many rows it
\* found.
UpdateDoc(c) ==
  /\ pc[c] = "finalize"
  /\ docs' = IF RowExists(target[c]) THEN [docs EXCEPT ![target[c]] = Row("ready", c)]
                                     ELSE docs
  /\ Goto(c, "alias")
  /\ UNCHANGED <<object, clientVars, target, bytes, gaveUp, abortVars, sweepVars,
                 doomed, verdict, deaths>>

\* The alias' foreign key needs the row; fifty candidates may also be taken.
CreateAlias(c) ==
  /\ pc[c] = "alias"
  /\ \/ RowExists(target[c]) /\ Goto(c, "ok")
     \/ Goto(c, "refused")
  /\ UNCHANGED <<storeVars, clientVars, target, bytes, gaveUp, abortVars, sweepVars,
                 doomed, verdict, deaths>>

CleanupRejectedObject(c) ==
  /\ pc[c] = "cleanup"
  /\ object' = [object EXCEPT ![target[c]] = NoObject]
  /\ Goto(c, "refused")
  /\ UNCHANGED <<docs, clientVars, target, bytes, gaveUp, abortVars, sweepVars,
                 doomed, verdict, deaths>>

\* The function is killed, or a statement throws, or the DELETE of the cleanup fails.
CompletionDies(c) ==
  /\ pc[c] \in Working /\ deaths < MaxDeaths
  /\ deaths' = deaths + 1
  /\ Goto(c, "dead")
  /\ UNCHANGED <<storeVars, clientVars, target, bytes, gaveUp, abortVars, sweepVars,
                 doomed, verdict>>

-----------------------------------------------------------------------------
(* /api/admin/upload/abort                                                 *)

\* Mutant of AbortSelects: the status is not looked at.
AbortSelectsUnchecked(a, d) ==
  /\ apc[a] = "new"
  /\ url[d] # "none" /\ AbortsOf(d) = {}
  /\ \A c \in CompletionsOf(d) : ToldFailure(c)
  /\ atarget' = [atarget EXCEPT ![a] = d]
  /\ apc' = [apc EXCEPT ![a] = "delete_object"]
  /\ UNCHANGED <<storeVars, clientVars, compVars, sweepVars, doomed, verdict, deaths>>

\* The client aborts when its PUT seemed to fail or its completion did; only an
\* upload that is not finished is aborted.
AbortSelects(a, d) ==
  /\ apc[a] = "new"
  /\ url[d] # "none" /\ AbortsOf(d) = {}
  /\ \A c \in CompletionsOf(d) : ToldFailure(c)
  /\ atarget' = [atarget EXCEPT ![a] = d]
  /\ apc' = [apc EXCEPT ![a] = IF docs[d].status = "uploading" THEN "delete_object" ELSE "refused"]
  /\ UNCHANGED <<storeVars, clientVars, compVars, sweepVars, doomed, verdict, deaths>>

\* Best effort: R2 may refuse and the abort goes on.
AbortDeletesObject(a) ==
  /\ apc[a] = "delete_object"
  /\ \/ object' = [object EXCEPT ![atarget[a]] = NoObject]
     \/ UNCHANGED object
  /\ apc' = [apc EXCEPT ![a] = "delete_row"]
  /\ UNCHANGED <<docs, clientVars, compVars, atarget, sweepVars, doomed, verdict, deaths>>

\* Mutant of AbortDeletesRow: marks the row instead of deleting it.
AbortMarksRow(a) ==
  /\ apc[a] = "delete_row"
  /\ docs' = [docs EXCEPT ![atarget[a]].status = IF @ = "uploading" THEN "deleted" ELSE @]
  /\ apc' = [apc EXCEPT ![a] = "removed"]
  /\ UNCHANGED <<object, clientVars, compVars, atarget, sweepVars, doomed, verdict, deaths>>

\* Mutant of AbortDeletesRow: trusts the status it read.
AbortDeletesAnyRow(a) ==
  /\ apc[a] = "delete_row"
  /\ docs' = [docs EXCEPT ![atarget[a]].status = "gone"]
  /\ apc' = [apc EXCEPT ![a] = "removed"]
  /\ UNCHANGED <<object, clientVars, compVars, atarget, sweepVars, doomed, verdict, deaths>>

AbortDeletesRow(a) ==
  /\ apc[a] = "delete_row"
  /\ docs' = [docs EXCEPT ![atarget[a]].status = IF @ = "uploading" THEN "gone" ELSE @]
  /\ apc' = [apc EXCEPT ![a] = "removed"]
  /\ UNCHANGED <<object, clientVars, compVars, atarget, sweepVars, doomed, verdict, deaths>>

AbortDies(a) ==
  /\ apc[a] \in {"delete_object", "delete_row"} /\ deaths < MaxDeaths
  /\ deaths' = deaths + 1
  /\ apc' = [apc EXCEPT ![a] = "dead"]
  /\ UNCHANGED <<storeVars, clientVars, compVars, atarget, sweepVars, doomed, verdict>>

-----------------------------------------------------------------------------
(* Deletion by the owner; it may stop between its two steps.               *)

DeleteDocObject(d) ==
  /\ RowExists(d)
  /\ object' = [object EXCEPT ![d] = NoObject]
  /\ doomed' = doomed \cup {d}
  /\ UNCHANGED <<docs, clientVars, compVars, abortVars, sweepVars, verdict, deaths>>

DeleteDocRow(d) ==
  /\ d \in doomed /\ RowExists(d)
  /\ docs' = [docs EXCEPT ![d].status = "gone"]
  /\ UNCHANGED <<object, clientVars, compVars, abortVars, sweepVars, doomed, verdict, deaths>>

-----------------------------------------------------------------------------
(* The orphan sweep: list, select the live keys, delete the others.        *)

Stored == {d \in Docs : object[d].kind # "none"}

\* Mutant of Listing: stops one object early.
ListingShort(keys) == {d \in keys : Cardinality({e \in keys : e < d}) < MaxObjects - 1}

\* ListObjects returns keys in order, and every sweep starts at the first.
Listing(keys) == {d \in keys : Cardinality({e \in keys : e < d}) < MaxObjects}

SweepLists(s) ==
  /\ spc[s] = "list"
  /\ Listing(Stored) # {}
  /\ listed' = [listed EXCEPT ![s] = Listing(Stored)]
  /\ spc' = [spc EXCEPT ![s] = "select"]
  /\ UNCHANGED <<storeVars, clientVars, compVars, abortVars, orphans, doomed, verdict, deaths>>

\* Mutant of LiveKeys: only finished documents count.
ReadyKeys(keys) == {d \in keys : docs[d].status = "ready"}

\* The keys of rows that exist: no code writes the status 'deleted'.
LiveKeys(keys) == {d \in keys : RowExists(d)}

SweepSelects(s) ==
  /\ spc[s] = "select"
  /\ orphans' = [orphans EXCEPT ![s] = listed[s] \ LiveKeys(listed[s])]
  /\ spc' = [spc EXCEPT ![s] = "delete"]
  /\ UNCHANGED <<storeVars, clientVars, compVars, abortVars, listed, doomed, verdict, deaths>>

SweepDeletes(s) ==
  /\ spc[s] = "delete"
  /\ object' = [d \in Docs |-> IF d \in orphans[s] THEN NoObject ELSE object[d]]
  /\ spc' = [spc EXCEPT ![s] = "list"]
  /\ listed' = [listed EXCEPT ![s] = {}]
  /\ orphans' = [orphans EXCEPT ![s] = {}]
  /\ UNCHANGED <<docs, clientVars, compVars, abortVars, doomed, verdict, deaths>>

SweepDies(s) ==
  /\ spc[s] # "list" /\ deaths < MaxDeaths
  /\ deaths' = deaths + 1
  /\ spc' = [spc EXCEPT ![s] = "list"]
  /\ listed' = [listed EXCEPT ![s] = {}]
  /\ orphans' = [orphans EXCEPT ![s] = {}]
  /\ UNCHANGED <<storeVars, clientVars, compVars, abortVars, doomed, verdict>>

-----------------------------------------------------------------------------
(* The malware scan, as far as bytes go: the job reads the object as it is *)
(* stored, and ClamAV finds the signatures it knows in the bytes it gets.  *)

Judgement(found) == IF found = Plain("infected") THEN "infected" ELSE "clean"

ScanObject(d) ==
  /\ docs[d].status = "ready" /\ verdict[d] = "none"
  /\ object[d].kind # "none"
  /\ verdict' = [verdict EXCEPT ![d] = Judgement(object[d])]
  /\ UNCHANGED <<storeVars, clientVars, compVars, abortVars, sweepVars, doomed, deaths>>

-----------------------------------------------------------------------------
(* Specification                                                           *)

ClientStep(d) == Presign(d) \/ PutObject(d) \/ UrlExpires(d)

CompletionStep(c) ==
  \/ VerifyRow(c) \/ HeadObject(c) \/ ReadObject(c) \/ EncryptOverwrite(c)
  \/ UpdateDoc(c) \/ CreateAlias(c) \/ CleanupRejectedObject(c)

AbortStep(a) == AbortDeletesObject(a) \/ AbortDeletesRow(a)
OwnerStep(d) == DeleteDocObject(d) \/ DeleteDocRow(d)
SweepStep(s) == SweepLists(s) \/ SweepSelects(s) \/ SweepDeletes(s)

\* Nothing that is left to do: the system may really stop there.
Next ==
  \/ \E d \in Docs : ClientStep(d) \/ OwnerStep(d) \/ ScanObject(d)
  \/ \E c \in Completions, d \in Docs : CompleteStarts(c, d)
  \/ \E c \in Completions : CompletionStep(c) \/ RouteTimeout(c) \/ CompletionDies(c)
  \/ \E a \in Aborts, d \in Docs : AbortSelects(a, d)
  \/ \E a \in Aborts : AbortStep(a) \/ AbortDies(a)
  \/ \E s \in Sweepers : SweepStep(s) \/ SweepDies(s)

Spec == Init /\ [][Next]_vars

\* The cron keeps calling the sweep, and an invocation that is not killed goes on.
Fairness == \A s \in Sweepers : WF_vars(SweepStep(s))
FairSpec == Spec /\ Fairness

-----------------------------------------------------------------------------
(* Properties                                                              *)

\* Nobody was told too early, or tried again: what the upload panel does to a
\* document unless a route times out.
Orderly(d) ==
  /\ puts[d] <= 1
  /\ \A c, e \in CompletionsOf(d) : c = e
  /\ \A c \in CompletionsOf(d) : ~gaveUp[c]

\* A document that is 'ready' has an object in the store, encrypted, and the key in
\* its row opens it, unless its owner has begun to delete it: the reject paths, the
\* abort, the sweep and whatever dies never take it away, as long as its client waits
\* for its answer and completes once.
ReadyDocsOpen ==
  \A d \in Docs : docs[d].status = "ready" /\ d \notin doomed /\ Orderly(d) => Opens(d)

\* What a row's key opens are the very bytes that the completion which generated
\* the key has read and checked, whatever has been PUT or deleted meanwhile.
OnlyCheckedContentOpens ==
  \A d \in Docs : docs[d].key # NoKey /\ Opens(d) =>
    /\ object[d].content = bytes[docs[d].key]
    /\ object[d].content \in Accepted

\* A completion that answered 'ok' is final: no abort, retry or sweep takes its
\* document back, only its owner does. (The route does not look at the number of
\* rows its UPDATE found.)
ConfirmedUploadsSurvive ==
  \A c \in Completions : pc[c] = "ok" =>
    docs[target[c]].status = "ready" \/ target[c] \in doomed

\* The sweep is about to delete only objects of documents that are gone for good,
\* though it lists, selects and deletes at three different moments: an upload that
\* begins or finishes in between is safe.
OrphansAreGone ==
  \A s \in Sweepers : \A d \in orphans[s] : docs[d].status = "gone"

\* Every object whose document is gone is deleted in the end and stays deleted,
\* also when an abort could not delete it or a completion stored it afterwards.
OrphansDisappear ==
  \A d \in Docs : <>[](docs[d].status = "gone" => object[d] = NoObject)

\* malware-scanner-ovhcloud.md: "Upload the standard EICAR test file; confirm the
\* scanner reports infected". A document the scanner calls clean has no signature
\* that the scanner knows.
CleanMeansClean ==
  \A d \in Docs : verdict[d] = "clean" =>
    object[d].kind = "none" \/ object[d].content # "infected"
=============================================================================
