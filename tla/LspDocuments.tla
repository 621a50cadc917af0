----------------------------- MODULE LspDocuments -----------------------------
(***************************************************************************)
(* The documents of the FlatPPL language server (crates/lsp): what the     *)
(* notification handlers of server.rs do to the tracked files, the file    *)
(* set that imports resolve against, the document versions and the         *)
(* diagnostics the client shows.                                           *)
(*                                                                         *)
(* The main thread runs one handler at a time, so each handler is one      *)
(* action; how it drains requests and waits for database clones is the     *)
(* business of LspRequests.  The disk changes on its own, and the client's *)
(* watcher reports each change later.                                      *)
(***************************************************************************)
EXTENDS Naturals, Sequences, FiniteSets

CONSTANTS
  Files,        \* documents with a file: URI, which may exist on disk
  Members,      \* members of an archive the client mounts, virtual documents
  Urls,         \* modules the client fetched from a URL
  Mountable,    \* documents the client may send with flatppl/bundleSources
  Excluded,     \* files below an excluded directory
  Texts,        \* contents of documents
  Imports,      \* Imports[t]: the documents a text loads
  None,         \* no file, no text, no version
  MaxVersion,   \* bound: document versions the editor uses
  MaxEvents     \* bound: notifications and disk changes in all

Docs == Files \cup Members \cup Urls

ASSUME DocsAssumption ==
  /\ Files \cap Members = {} /\ Files \cap Urls = {} /\ Members \cap Urls = {}
  /\ IsFiniteSet(Docs)
  /\ Excluded \subseteq Files /\ Mountable \subseteq Docs

(* A SourceFile: which salsa input it is, its text, and whether a mounted  *)
(* archive gave it its path.                                               *)
SourceFile == [handle : Nat, text : Texts, archive : BOOLEAN]

ASSUME TextsAssumption ==
  /\ Imports \in [Texts -> SUBSET Docs]
  /\ None \notin Texts /\ None \notin 1..MaxVersion /\ None \notin SourceFile
ASSUME BoundsAssumption == MaxVersion \in Nat /\ MaxEvents \in Nat

VARIABLES
  disk,      \* the text of each file on disk, or None
  reports,   \* watcher events not yet sent to the server, oldest first
  tracked,   \* uri_to_file: the SourceFile behind each document, or None
  fed,       \* url_to_file: the SourceFile behind each fed URL, or None
  made,      \* SourceFiles made so far for each document
  fileset,   \* the FileSet input: the SourceFiles imports resolve against
  open,      \* editor_open_uris
  versions,  \* doc_versions, None where the map has no entry
  dirty,     \* documents whose diagnostics must be published
  armed,     \* is the debounce deadline set?
  shown,     \* what each document's diagnostics on the client's screen were
             \* computed from, or None when it shows none
  newest,    \* the editor's buffer: highest version sent and its text
  lost,      \* open documents deleted on disk and not edited since
  mounted,   \* the text the client last mounted each document with
  budget     \* notifications and disk changes still to come

serverVars == <<tracked, fed, made, fileset, open, versions, dirty, armed>>
vars == <<disk, reports, serverVars, shown, newest, lost, mounted, budget>>

Versions == 1..MaxVersion

-----------------------------------------------------------------------------
(* SourceFiles, imports and what a document's diagnostics depend on.       *)

(* `archive_member`: only a mounted archive gives a file such a path.      *)
NeverArchive(d) == FALSE

ArchiveMember(d) == tracked[d] # None /\ tracked[d].archive

(* A new SourceFile is a new salsa input, another than any before it.      *)
NewSource(mk, d, t) == [handle |-> mk[d] + 1, text |-> t, archive |-> FALSE]

(* `upsert_file`, on the tracked files tr and the counters mk.             *)
Upsert(st, d, t) ==
  IF st.tr[d] # None
    THEN [st EXCEPT !.tr[d].text = t]
    ELSE [tr |-> [st.tr EXCEPT ![d] = NewSource(st.mk, d, t)],
          mk |-> [st.mk EXCEPT ![d] = @ + 1]]

Now == [tr |-> tracked, mk |-> made]

(* What the tracked files become; the fed URLs are not concerned.          *)
Become(st) == tracked' = st.tr /\ made' = st.mk /\ UNCHANGED fed

(* The SourceFiles of two maps, as the FileSet lists them.                 *)
Sources(tr, ur) ==
  {<<d, tr[d].handle>> : d \in {e \in Docs : tr[e] # None}} \cup
  {<<d, ur[d].handle>> : d \in {e \in Docs : ur[e] # None}}

(* `resolve_path` takes the first SourceFile with the path it looks for,   *)
(* and the tracked ones come first.                                        *)
TextOf(tr, ur, d) == IF tr[d] # None THEN tr[d].text
                     ELSE IF ur[d] # None THEN ur[d].text ELSE None

LoadedBy(tr, ur, d) ==
  LET t == TextOf(tr, ur, d) IN IF t = None THEN {} ELSE Imports[t]

(* `import_bundle`: the documents reachable from d, d among them.          *)
ImportBundle(tr, ur, d) ==
  {e \in Docs : \A S \in SUBSET Docs :
     (d \in S /\ \A c \in S : LoadedBy(tr, ur, c) \subseteq S) => e \in S}

(* All that `diagnostics` of d is computed from, and the version they are  *)
(* stamped with.                                                           *)
View(tr, ur, vs, d) ==
  [version |-> vs[d],
   texts |-> [e \in ImportBundle(tr, ur, d) |-> TextOf(tr, ur, e)]]

Current(d) == View(tracked, fed, versions, d)

(* `affected_files`: the changed document and those that import it.        *)
Importers(tr, ur, changed) ==
  {d \in Docs : tr[d] # None /\ changed \in Imports[tr[d].text]} \cup {changed}

AffectedFiles(tr, ur, changed) ==
  {d \in Docs : tr[d] # None /\ changed \in ImportBundle(tr, ur, d)}

Tracked(tr) == {d \in Docs : tr[d] # None}

-----------------------------------------------------------------------------

(* The workspace scan finds the files outside excluded directories, and    *)
(* their diagnostics are published before the loop starts.                 *)
Init ==
  /\ disk \in [Files -> Texts \cup {None}]
  /\ tracked = [d \in Docs |->
       IF d \in Files \ Excluded /\ disk[d] # None
         THEN [handle |-> 1, text |-> disk[d], archive |-> FALSE]
         ELSE None]
  /\ fed = [d \in Docs |-> None]
  /\ made = [d \in Docs |-> IF tracked[d] # None THEN 1 ELSE 0]
  /\ fileset = Sources(tracked, fed)
  /\ open = {} /\ versions = [d \in Docs |-> None]
  /\ shown = [d \in Docs |->
                IF tracked[d] # None THEN Current(d) ELSE None]
  /\ dirty = {} /\ armed = FALSE
  /\ reports = <<>> /\ newest = [d \in Docs |-> None] /\ lost = {}
  /\ mounted = [d \in Docs |-> None]
  /\ budget = MaxEvents

Spend == budget > 0 /\ budget' = budget - 1

(* `sync_file_set`, at the end of every handler.                           *)
SyncByCount ==
  fileset' = IF Cardinality(Sources(tracked', fed')) = Cardinality(fileset)
               THEN fileset ELSE Sources(tracked', fed')

SyncFileSet == fileset' = Sources(tracked', fed')

(* Every tracked document is to be published again.                        *)
MarkUnarmed == dirty' = dirty \cup Tracked(tracked') /\ UNCHANGED armed

MarkAll == dirty' = dirty \cup Tracked(tracked') /\ armed' = TRUE

MarkAffected(d) ==
  /\ dirty' = dirty \cup AffectedFiles(tracked', fed', d)
  /\ armed' = TRUE

DidOpen(d, t, v) ==
  /\ Spend /\ d \notin open
  /\ open' = open \cup {d}
  /\ versions' = [versions EXCEPT ![d] = v]
  /\ Become(IF ArchiveMember(d) THEN Now ELSE Upsert(Now, d, t))
  /\ SyncFileSet /\ MarkAll
  /\ newest' = [newest EXCEPT ![d] = [version |-> v, text |-> t]]
  /\ UNCHANGED <<disk, reports, shown, lost, mounted>>

(* didChange with a text, or with no content change at all (t = None).     *)
(* Versions may come out of order and twice.                               *)
Outdated(d, v) == versions[d] # None /\ v < versions[d]

NeverOutdated(d, v) == FALSE

Overtaken(d, v) == Outdated(d, v)

DidChange(d, t, v) ==
  /\ Spend /\ d \in open
  /\ ~ArchiveMember(d) /\ ~Overtaken(d, v)
  /\ versions' = [versions EXCEPT ![d] = v]
  /\ Become(IF t = None THEN Now ELSE Upsert(Now, d, t))
  /\ SyncFileSet
  /\ IF tracked'[d] # None THEN MarkAffected(d) ELSE UNCHANGED <<dirty, armed>>
  /\ newest' = IF v < newest[d].version THEN newest
               ELSE [newest EXCEPT ![d] =
                       [version |-> v, text |-> IF t = None THEN @.text ELSE t]]
  /\ lost' = IF t = None THEN lost ELSE lost \ {d}
  /\ UNCHANGED <<disk, reports, open, shown, mounted>>

(* The disk has the truth again; with no file there and no archive behind  *)
(* it the document is forgotten, and its diagnostics are withdrawn.        *)
DiskText(d) == IF d \in Files THEN disk[d] ELSE None

KeepBuffer(d) == Now

BackToDisk(d) ==
  CASE DiskText(d) # None -> Upsert(Now, d, DiskText(d))
    [] DiskText(d) = None /\ ArchiveMember(d) -> Now
    [] OTHER -> [Now EXCEPT !.tr[d] = None]

ForgetEditor(d) ==
  open' = open \ {d} /\ versions' = [versions EXCEPT ![d] = None]

DidClose(d) ==
  /\ Spend /\ d \in open
  /\ ForgetEditor(d)
  /\ Become(BackToDisk(d))
  /\ SyncFileSet /\ MarkAll
  /\ shown' = IF tracked'[d] = None THEN [shown EXCEPT ![d] = None] ELSE shown
  /\ newest' = [newest EXCEPT ![d] = None] /\ lost' = lost \ {d}
  /\ UNCHANGED <<disk, reports, mounted>>

(* One entry of didChangeWatchedFiles.                                     *)
ApplyReportBlindly(st, e) ==
  CASE e.type = "deleted" -> [st EXCEPT !.tr[e.doc] = None]
    [] e.type = "changed" /\ disk[e.doc] # None ->
         Upsert(st, e.doc, disk[e.doc])
    [] OTHER -> st

ApplyReport(st, e) ==
  CASE e.type = "deleted" -> [st EXCEPT !.tr[e.doc] = None]
    [] /\ e.type = "changed" /\ e.doc \notin open
       /\ e.doc \notin Excluded /\ disk[e.doc] # None ->
         Upsert(st, e.doc, disk[e.doc])
    [] OTHER -> st

(* The client sends its oldest n reports in one notification; what they    *)
(* leave after the first i of them.                                        *)
AfterReports(n) ==
  LET after[i \in 0..n] == IF i = 0 THEN Now
                           ELSE ApplyReport(after[i - 1], reports[i])
  IN  after

DidChangeWatchedFiles(n) ==
  /\ n \in 1..Len(reports)
  /\ Become(AfterReports(n)[n])
  /\ reports' = SubSeq(reports, n + 1, Len(reports))
  /\ SyncFileSet /\ MarkAll
  /\ lost' = lost \cup {d \in open : tracked[d] # None /\ tracked'[d] = None}
  /\ UNCHANGED <<disk, open, versions, shown, newest, mounted, budget>>

(* `upsert_bundle_sources`: texts for the documents in the domain of g.    *)
MountTarget(d, t) ==
  IF tracked[d] # None THEN tracked[d]
  ELSE IF fed[d] # None THEN fed[d] ELSE NewSource(made, d, t)

Mounted(d, t) ==
  [MountTarget(d, t) EXCEPT
     !.archive = d \in Members,
     !.text = IF d \notin open \/ d \in Members THEN t ELSE @]

BundleSources(g) ==
  /\ Spend
  /\ tracked' = [d \in Docs |-> IF d \in DOMAIN g THEN Mounted(d, g[d])
                                ELSE tracked[d]]
  /\ made' = [d \in Docs |-> IF d \in DOMAIN g /\ tracked[d] = None
                                /\ fed[d] = None
                               THEN made[d] + 1 ELSE made[d]]
  /\ fed' = [d \in Docs |-> IF d \in DOMAIN g THEN None ELSE fed[d]]
  /\ mounted' = [d \in Docs |-> IF d \in DOMAIN g THEN g[d] ELSE mounted[d]]
  /\ SyncFileSet /\ MarkAll
  /\ UNCHANGED <<disk, reports, open, versions, shown, newest, lost>>

(* `upsert_url_source`: the text of one URL the client fetched.            *)
UrlSources(d, t) ==
  /\ Spend
  /\ fed' = [fed EXCEPT ![d] = IF @ # None THEN [@ EXCEPT !.text = t]
                               ELSE NewSource(made, d, t)]
  /\ made' = IF fed[d] = None THEN [made EXCEPT ![d] = @ + 1] ELSE made
  /\ UNCHANGED tracked
  /\ SyncFileSet /\ MarkAll
  /\ UNCHANGED <<disk, reports, open, versions, shown, newest, lost, mounted>>

(* `flush_dirty` when the debounce fires; untracked documents are skipped. *)
FlushDirty ==
  /\ armed
  /\ shown' = [d \in Docs |-> IF d \in dirty \cap Tracked(tracked)
                                THEN Current(d) ELSE shown[d]]
  /\ dirty' = {} /\ armed' = FALSE
  /\ UNCHANGED <<disk, reports, tracked, fed, made, fileset, open, versions,
                 newest, lost, mounted, budget>>

(* The disk changes under the server; the client's watcher notices.        *)
ChangeDisk(d, t) ==
  /\ Spend /\ disk[d] # t
  /\ disk' = [disk EXCEPT ![d] = t]
  /\ reports' = Append(reports,
       [doc |-> d, type |-> IF t = None THEN "deleted" ELSE "changed"])
  /\ UNCHANGED <<serverVars, shown, newest, lost, mounted>>

Notification ==
  \/ \E d \in Docs, v \in Versions :
       \/ \E t \in Texts : DidOpen(d, t, v)
       \/ \E t \in Texts \cup {None} : DidChange(d, t, v)
  \/ \E d \in Docs : DidClose(d)
  \/ \E n \in 1..Len(reports) : DidChangeWatchedFiles(n)
  \/ \E S \in SUBSET Mountable : \E g \in [S -> Texts] : BundleSources(g)
  \/ \E d \in Urls, t \in Texts : UrlSources(d, t)

Next == \/ Notification \/ FlushDirty
        \/ \E d \in Files, t \in Texts \cup {None} : ChangeDisk(d, t)

Spec == Init /\ [][Next]_vars

(* Once the burst is over the debounce fires, and the watcher's reports    *)
(* arrive; nothing obliges the editor or the disk to do anything.          *)
Fairness == /\ WF_vars(FlushDirty)
            /\ WF_vars(\E n \in 1..Len(reports) : DidChangeWatchedFiles(n))

FairSpec == Spec /\ Fairness

-----------------------------------------------------------------------------
(* What the editor sends of a document.                                    *)
Edit == [version : Versions, text : Texts]

(* The types of the variables; a version is on record exactly for the      *)
(* documents the editor has open.                                          *)
TypeOK ==
  /\ disk \in [Files -> Texts \cup {None}]
  /\ reports \in Seq([doc : Files, type : {"changed", "deleted"}])
  /\ tracked \in [Docs -> SourceFile \cup {None}]
  /\ fed \in [Docs -> SourceFile \cup {None}]
  /\ made \in [Docs -> Nat]
  /\ open \subseteq Docs /\ dirty \subseteq Docs /\ lost \subseteq open
  /\ armed \in BOOLEAN
  /\ versions \in [Docs -> Versions \cup {None}]
  /\ open = {d \in Docs : versions[d] # None}
  /\ newest \in [Docs -> Edit \cup {None}]
  /\ \A d \in open : newest[d] \in Edit
  /\ mounted \in [Docs -> Texts \cup {None}]

(* A stale diagnostic is never left on the screen: what the client shows   *)
(* of a tracked document was computed from its present text and imports,   *)
(* or the document is dirty and the debounce is running (server.rs, the    *)
(* comments on `affected_files` and on each handler's dirty marking).      *)
StaleIsDirty ==
  \A d \in Tracked(tracked) :
    shown[d] # Current(d) => d \in dirty /\ armed

(* Imports resolve against exactly the files the server tracks, also after *)
(* a batch that deletes and creates (`sync_file_set`).                     *)
FileSetCurrent == fileset = Sources(tracked, fed)

(* The server works on the editor's buffer while a document is open: the   *)
(* newest version the editor sent, whatever the disk, the watcher or a     *)
(* mount does, unless the file was deleted since.                          *)
EditorTextKept ==
  \A d \in open \ lost :
    ~ArchiveMember(d) =>
      /\ tracked[d] # None /\ tracked[d].text = newest[d].text
      /\ versions[d] = newest[d].version

(* With no report under way, a file that is not open, and that the client  *)
(* never mounted a text over, has the text the disk has, or is not tracked *)
(* when the disk has none (didClose returns to the disk, and the watcher   *)
(* takes over).                                                            *)
SettledIsDisk ==
  \A d \in Files \ (open \cup Excluded) :
    mounted[d] = None /\ (\A i \in 1..Len(reports) : reports[i].doc # d) =>
      TextOf(tracked, fed, d) = disk[d]

(* A mounted archive member is read-only: it stays tracked, with the text  *)
(* of its last mount, however the editor opens, edits and closes it.       *)
ArchiveReadOnly ==
  \A d \in Members :
    mounted[d] # None => tracked[d] # None /\ tracked[d].text = mounted[d]

(* When the editor and the disk fall silent, every report is taken in and  *)
(* the client ends up with the diagnostics of the present texts.           *)
Settled == /\ reports = <<>>
           /\ \A d \in Tracked(tracked) : shown[d] = Current(d)

DiagnosticsConverge == <>[]Settled
=============================================================================
