-------------------------- MODULE LspDocumentsProofs --------------------------
(***************************************************************************)
(* Theorems about LspDocuments, for every set of documents, texts and      *)
(* imports, and for every bound.                                           *)
(***************************************************************************)
EXTENDS LspDocuments, FiniteSetTheorems, SequenceTheorems,
        WellFoundedInduction, TLAPS

(* A set of numbers has a least one: what inductions over the reports of a *)
(* notification rest on.                                                   *)
LEMMA LeastNumber ==
  ASSUME NEW T \in SUBSET Nat, T # {}
  PROVE  \E m \in T : \A k \in T : m <= k
<1>. DEFINE R == {ss \in Nat \X Nat : ss[1] < ss[2]}
<1>1. IsWellFoundedOn(R, Nat)
  BY NatLessThanWellFounded DEF OpToRel
<1>2. \A x, y \in Nat : x < y => <<x, y>> \in R
  OBVIOUS
<1>. HIDE DEF R
<1>3. PICK m \in T : \A k \in T : ~ (<<k, m>> \in R)
  BY <1>1, WFMin
<1>4. \A k \in T : ~ (k < m)
  BY <1>2, <1>3
<1>. QED
  BY <1>4

-----------------------------------------------------------------------------
(* The tracked files.                                                      *)

MaybeSource == SourceFile \cup {None}

(* The tracked files and the counters, as the handlers pass them on.       *)
Stores == [tr : [Docs -> MaybeSource], mk : [Docs -> Nat]]

LEMMA SourceIsNotNone == \A s \in SourceFile : s # None
BY TextsAssumption

LEMMA NewSourceType ==
  ASSUME NEW mk \in [Docs -> Nat], NEW d \in Docs, NEW t \in Texts
  PROVE  /\ NewSource(mk, d, t) \in SourceFile
         /\ NewSource(mk, d, t).text = t
         /\ NewSource(mk, d, t).archive = FALSE
BY DEF NewSource, SourceFile

(* What `upsert_file` does to one document, and that it does nothing to    *)
(* the others.                                                             *)
LEMMA UpsertEffect ==
  ASSUME NEW st \in Stores, NEW d \in Docs, NEW t \in Texts
  PROVE  /\ Upsert(st, d, t) \in Stores
         /\ Upsert(st, d, t).tr[d] \in SourceFile
         /\ Upsert(st, d, t).tr[d].text = t
         /\ Upsert(st, d, t).tr[d].archive =>
              st.tr[d] # None /\ st.tr[d].archive
         /\ \A e \in Docs \ {d} : Upsert(st, d, t).tr[e] = st.tr[e]
<1>1. st.tr \in [Docs -> MaybeSource] /\ st.mk \in [Docs -> Nat]
  BY DEF Stores
<1>2. CASE st.tr[d] # None
  <2>1. st.tr[d] \in SourceFile
    BY <1>1, <1>2 DEF MaybeSource
  <2>2. /\ [st.tr[d] EXCEPT !.text = t] \in SourceFile
        /\ [st.tr[d] EXCEPT !.text = t].text = t
        /\ [st.tr[d] EXCEPT !.text = t].archive = st.tr[d].archive
    BY <2>1 DEF SourceFile
  <2>3. Upsert(st, d, t) =
          [tr |-> [st.tr EXCEPT ![d] = [@ EXCEPT !.text = t]], mk |-> st.mk]
    BY <1>2 DEF Upsert, Stores
  <2>. QED
    BY <1>1, <1>2, <2>2, <2>3 DEF Stores, MaybeSource
<1>3. CASE st.tr[d] = None
  <2>1. Upsert(st, d, t) =
          [tr |-> [st.tr EXCEPT ![d] = NewSource(st.mk, d, t)],
           mk |-> [st.mk EXCEPT ![d] = @ + 1]]
    BY <1>3 DEF Upsert
  <2>2. /\ NewSource(st.mk, d, t) \in SourceFile
        /\ NewSource(st.mk, d, t).text = t
        /\ NewSource(st.mk, d, t).archive = FALSE
    BY <1>1, NewSourceType
  <2>. QED
    BY <1>1, <2>1, <2>2 DEF Stores, MaybeSource
<1>. QED
  BY <1>2, <1>3

(* Forgetting a document.                                                  *)
LEMMA ForgetEffect ==
  ASSUME NEW st \in Stores, NEW d \in Docs
  PROVE  /\ [st EXCEPT !.tr[d] = None] \in Stores
         /\ [st EXCEPT !.tr[d] = None].tr[d] = None
         /\ \A e \in Docs \ {d} : [st EXCEPT !.tr[d] = None].tr[e] = st.tr[e]
<1>1. [st EXCEPT !.tr[d] = None] =
        [tr |-> [st.tr EXCEPT ![d] = None], mk |-> st.mk]
  BY DEF Stores
<1>. QED
  BY <1>1 DEF Stores, MaybeSource

LEMMA NowType ==
  ASSUME TypeOK PROVE Now \in Stores /\ Now.tr = tracked /\ Now.mk = made
BY DEF TypeOK, Now, Stores, MaybeSource

(* What a handler makes of the tracked files.                              *)
LEMMA BecomeType ==
  ASSUME TypeOK, NEW st \in Stores, Become(st)
  PROVE  /\ tracked' \in [Docs -> MaybeSource] /\ made' \in [Docs -> Nat]
         /\ tracked' = st.tr /\ fed' = fed
BY DEF Become, Stores

-----------------------------------------------------------------------------
(* A notification of the watcher.                                          *)

Report == [doc : Files, type : {"changed", "deleted"}]

(* What one report does: nothing to any other document, and to its own     *)
(* only what the disk says.                                                *)
LEMMA ApplyReportEffect ==
  ASSUME TypeOK, NEW st \in Stores, NEW e \in Report
  PROVE  /\ ApplyReport(st, e) \in Stores
         /\ \A d \in Docs \ {e.doc} : ApplyReport(st, e).tr[d] = st.tr[d]
         /\ e.doc \in open =>
              ApplyReport(st, e).tr[e.doc] \in {st.tr[e.doc], None}
         /\ e.type = "deleted" => ApplyReport(st, e).tr[e.doc] = None
         /\ /\ e.type = "changed" /\ disk[e.doc] # None
            /\ e.doc \notin open \cup Excluded
            => /\ ApplyReport(st, e).tr[e.doc] # None
               /\ ApplyReport(st, e).tr[e.doc].text = disk[e.doc]
         /\ ApplyReport(st, e).tr[e.doc] # None /\
              ApplyReport(st, e).tr[e.doc].archive =>
              st.tr[e.doc] # None /\ st.tr[e.doc].archive
<1>1. e.doc \in Docs /\ e.type \in {"changed", "deleted"}
  BY DEF Report, Docs
<1>2. disk[e.doc] \in Texts \cup {None}
  BY DEF TypeOK, Report
<1>3. CASE e.type = "deleted"
  <2>1. ApplyReport(st, e) = [st EXCEPT !.tr[e.doc] = None]
    BY <1>3 DEF ApplyReport
  <2>. QED
    BY <1>1, <1>3, <2>1, ForgetEffect
<1>4. CASE /\ e.type = "changed" /\ e.doc \notin open
           /\ e.doc \notin Excluded /\ disk[e.doc] # None
  <2>1. ApplyReport(st, e) = Upsert(st, e.doc, disk[e.doc])
    BY <1>4 DEF ApplyReport
  <2>2. disk[e.doc] \in Texts
    BY <1>2, <1>4
  <2>. QED
    BY <1>1, <1>4, <2>1, <2>2, UpsertEffect, SourceIsNotNone
<1>5. CASE e.type = "changed" /\ ~ (/\ e.doc \notin open
           /\ e.doc \notin Excluded /\ disk[e.doc] # None)
  <2>1. ApplyReport(st, e) = st
    BY <1>5 DEF ApplyReport
  <2>. QED
    BY <1>5, <2>1
<1>. QED
  BY <1>1, <1>3, <1>4, <1>5

(* The states after the reports of a notification are defined, each by the *)
(* one before it.                                                          *)
LEMMA AfterReportsDef ==
  ASSUME TypeOK, NEW n \in 1..Len(reports)
  PROVE  /\ AfterReports(n)[0] = Now
         /\ \A i \in 1..n :
              /\ reports[i] \in Report
              /\ AfterReports(n)[i] =
                   ApplyReport(AfterReports(n)[i - 1], reports[i])
<1>. DEFINE Good(k) == \E f \in [0..k -> Stores] :
              /\ f[0] = Now
              /\ \A i \in 1..k : f[i] = ApplyReport(f[i - 1], reports[i])
            Bad == {k \in 0..n : ~Good(k)}
            Body(f) == [i \in 0..n |-> IF i = 0 THEN Now
                                     ELSE ApplyReport(f[i - 1], reports[i])]
<1>1. n \in Nat /\ \A i \in 1..n : reports[i] \in Report
  <2>1. reports \in Seq(Report)
    BY DEF TypeOK, Report
  <2>2. Len(reports) \in Nat /\ reports \in [1..Len(reports) -> Report]
    BY <2>1, LenProperties
  <2>. QED
    BY <2>2
<1>2. Good(0)
  <2>. DEFINE f == [i \in 0..0 |-> Now]
  <2>1. f \in [0..0 -> Stores] /\ f[0] = Now /\ 1..0 = {}
    BY NowType
  <2>. QED
    BY <2>1
<1>3. ASSUME NEW k \in 0..n, k # 0, Good(k - 1) PROVE Good(k)
  <2>1. PICK f \in [0..(k - 1) -> Stores] :
          /\ f[0] = Now
          /\ \A i \in 1..(k - 1) : f[i] = ApplyReport(f[i - 1], reports[i])
    BY <1>3
  <2>. DEFINE last == ApplyReport(f[k - 1], reports[k])
              g == [i \in 0..k |-> IF i = k THEN last ELSE f[i]]
  <2>2. k \in 1..n /\ f[k - 1] \in Stores
    BY <1>1, <1>3, <2>1
  <2>3. last \in Stores
    BY <1>1, <2>2, ApplyReportEffect
  <2>. HIDE DEF last
  <2>4. g \in [0..k -> Stores] /\ g[0] = Now
    BY <1>3, <2>1, <2>3
  <2>5. ASSUME NEW i \in 1..k PROVE g[i] = ApplyReport(g[i - 1], reports[i])
    <3>1. g[i - 1] = f[i - 1]
      BY <1>1, <2>2, <2>5
    <3>2. CASE i = k
      BY <3>1, <3>2 DEF last
    <3>3. CASE i # k
      <4>1. i \in 1..(k - 1) /\ g[i] = f[i]
        BY <1>1, <2>2, <3>3
      <4>. QED
        BY <2>1, <3>1, <4>1
    <3>. QED
      BY <3>2, <3>3
  <2>. HIDE DEF g
  <2>. QED
    BY <2>4, <2>5
<1>4. Good(n)
  <2>. SUFFICES ASSUME ~Good(n) PROVE FALSE
    OBVIOUS
  <2>. HIDE DEF Good
  <2>1. Bad \in SUBSET Nat /\ n \in Bad
    BY <1>1
  <2>2. PICK m \in Bad : \A k \in Bad : m <= k
    BY <2>1, LeastNumber
  <2>3. m # 0 /\ m - 1 \in 0..n /\ m - 1 \notin Bad
    BY <1>1, <1>2, <2>2
  <2>. QED
    BY <1>3, <2>2, <2>3
<1>5. PICK f \in [0..n -> Stores] :
        f[0] = Now /\ \A i \in 1..n : f[i] = ApplyReport(f[i - 1], reports[i])
  BY <1>4
<1>6. f = Body(f)
  BY <1>1, <1>5
<1>7. AfterReports(n) = Body(AfterReports(n))
  BY <1>6 DEF AfterReports
<1>. HIDE DEF Body
<1>8. \A i \in 0..n : AfterReports(n)[i] = Body(AfterReports(n))[i]
  BY <1>7
<1>. QED
  BY <1>1, <1>8 DEF Body

(* What the first i reports have made of the tracked files: only reported  *)
(* documents change, an open one is kept or forgotten, none becomes an     *)
(* archive member, and a closed file is what its last report says.         *)
Applied(st, i) ==
  /\ st \in Stores
  /\ \A d \in Docs :
       (\A j \in 1..i : reports[j].doc # d) => st.tr[d] = tracked[d]
  /\ \A d \in open : st.tr[d] \in {tracked[d], None}
  /\ \A d \in Docs : st.tr[d] # None /\ st.tr[d].archive =>
                       tracked[d] # None /\ tracked[d].archive
  /\ \A d \in Files \ (open \cup Excluded), k \in 1..i :
       reports[k].doc = d /\ (\A j \in (k + 1)..i : reports[j].doc # d) =>
         /\ reports[k].type = "deleted" => st.tr[d] = None
         /\ reports[k].type = "changed" /\ disk[d] # None =>
              st.tr[d] # None /\ st.tr[d].text = disk[d]

LEMMA AppliedStep ==
  ASSUME TypeOK, NEW i \in Nat \ {0}, NEW st, Applied(st, i - 1),
         reports[i] \in Report
  PROVE  Applied(ApplyReport(st, reports[i]), i)
<1>. DEFINE e == reports[i]
            new == ApplyReport(st, e)
<1>1. e \in Report /\ st \in Stores /\ e.doc \in Docs /\ e.doc \in Files
      /\ e.type \in {"changed", "deleted"}
  BY DEF Applied, Report, Docs
<1>2. /\ new \in Stores
      /\ \A d \in Docs \ {e.doc} : new.tr[d] = st.tr[d]
      /\ e.doc \in open => new.tr[e.doc] \in {st.tr[e.doc], None}
      /\ e.type = "deleted" => new.tr[e.doc] = None
      /\ /\ e.type = "changed" /\ disk[e.doc] # None
         /\ e.doc \notin open \cup Excluded
         => new.tr[e.doc] # None /\ new.tr[e.doc].text = disk[e.doc]
      /\ new.tr[e.doc] # None /\ new.tr[e.doc].archive =>
           st.tr[e.doc] # None /\ st.tr[e.doc].archive
  BY <1>1, ApplyReportEffect
<1>. HIDE DEF new, e
<1>3. ASSUME NEW d \in Docs, \A j \in 1..i : reports[j].doc # d
      PROVE  new.tr[d] = tracked[d]
  <2>1. d # e.doc /\ \A j \in 1..(i - 1) : reports[j].doc # d
    BY <1>3 DEF e
  <2>. QED
    BY <1>2, <2>1 DEF Applied
<1>4. ASSUME NEW d \in open PROVE new.tr[d] \in {tracked[d], None}
  <2>1. d \in Docs /\ st.tr[d] \in {tracked[d], None}
    BY DEF TypeOK, Applied
  <2>. QED
    BY <1>2, <2>1
<1>5. ASSUME NEW d \in Docs, new.tr[d] # None, new.tr[d].archive
      PROVE  tracked[d] # None /\ tracked[d].archive
  <2>1. st.tr[d] # None /\ st.tr[d].archive
    BY <1>2, <1>5
  <2>. QED
    BY <2>1 DEF Applied
<1>6. ASSUME NEW d \in Files \ (open \cup Excluded), NEW k \in 1..i,
             reports[k].doc = d, \A j \in (k + 1)..i : reports[j].doc # d
      PROVE  /\ reports[k].type = "deleted" => new.tr[d] = None
             /\ reports[k].type = "changed" /\ disk[d] # None =>
                  new.tr[d] # None /\ new.tr[d].text = disk[d]
  <2>1. CASE k = i
    BY <1>2, <1>6, <2>1 DEF e
  <2>2. CASE k # i
    <3>1. /\ k \in 1..(i - 1) /\ i \in (k + 1)..i
          /\ \A j \in (k + 1)..(i - 1) : reports[j].doc # d
      BY <1>6, <2>2
    <3>2. d # e.doc /\ d \in Docs
      BY <1>6, <3>1 DEF e, Docs
    <3>3. /\ reports[k].type = "deleted" => st.tr[d] = None
          /\ reports[k].type = "changed" /\ disk[d] # None =>
               st.tr[d] # None /\ st.tr[d].text = disk[d]
      BY <1>6, <3>1 DEF Applied
    <3>. QED
      BY <1>2, <3>2, <3>3
  <2>. QED
    BY <2>1, <2>2
<1>7. Applied(new, i)
  BY <1>2, <1>3, <1>4, <1>5, <1>6 DEF Applied
<1>. QED
  BY <1>7 DEF new, e

LEMMA ReportsApplied ==
  ASSUME TypeOK, NEW n \in 1..Len(reports)
  PROVE  Applied(AfterReports(n)[n], n)
<1>. DEFINE Bad == {k \in 0..n : ~Applied(AfterReports(n)[k], k)}
<1>1. n \in Nat
  BY LenProperties DEF TypeOK
<1>2. Applied(AfterReports(n)[0], 0)
  <2>1. AfterReports(n)[0] = Now
    BY AfterReportsDef
  <2>2. Applied(Now, 0)
    BY NowType DEF Applied
  <2>. QED
    BY <2>1, <2>2
<1>3. ASSUME NEW k \in 1..n, Applied(AfterReports(n)[k - 1], k - 1)
      PROVE  Applied(AfterReports(n)[k], k)
  <2>1. /\ reports[k] \in Report /\ k \in Nat \ {0}
        /\ AfterReports(n)[k] =
             ApplyReport(AfterReports(n)[k - 1], reports[k])
    BY <1>1, AfterReportsDef
  <2>. QED
    BY <1>3, <2>1, AppliedStep
<1>. SUFFICES ASSUME ~Applied(AfterReports(n)[n], n) PROVE FALSE
  OBVIOUS
<1>4. Bad \in SUBSET Nat /\ n \in Bad
  BY <1>1
<1>5. PICK m \in Bad : \A k \in Bad : m <= k
  BY <1>4, LeastNumber
<1>6. m \in 1..n /\ m - 1 \in 0..n /\ m - 1 \notin Bad
  BY <1>1, <1>2, <1>5
<1>. QED
  BY <1>3, <1>5, <1>6

LEMMA LastOf ==
  ASSUME NEW n \in Nat, NEW K \in SUBSET (1..n), K # {}
  PROVE  \E k \in K : \A j \in K : j <= k
<1>. DEFINE T == {i \in Nat : \E k \in K : i = n - k}
<1>0. PICK k0 \in K : TRUE
  OBVIOUS
<1>1. T \in SUBSET Nat /\ n - k0 \in T
  BY <1>0
<1>2. PICK m \in T : \A k \in T : m <= k
  BY <1>1, LeastNumber
<1>3. PICK k \in K : m = n - k
  BY <1>2
<1>4. ASSUME NEW j \in K PROVE j <= k
  <2>1. n - j \in T
    OBVIOUS
  <2>2. n - k <= n - j
    BY <1>2, <1>3, <2>1
  <2>. QED
    BY <2>2
<1>. QED
  BY <1>4

-----------------------------------------------------------------------------
(* What each handler makes of the tracked files.                           *)

(* The tracked files stay what they are but for d.                         *)
OnlyTracks(d) ==
  /\ tracked' \in [Docs -> MaybeSource] /\ made' \in [Docs -> Nat]
  /\ fed' = fed
  /\ \A e \in Docs \ {d} : tracked'[e] = tracked[e]

LEMMA KeepEffect ==
  ASSUME TypeOK, NEW d \in Docs, Become(Now)
  PROVE  OnlyTracks(d) /\ tracked' = tracked
BY NowType, BecomeType DEF OnlyTracks

LEMMA BecomeUpsert ==
  ASSUME TypeOK, NEW d \in Docs, NEW t \in Texts, Become(Upsert(Now, d, t)),
         ~ArchiveMember(d)
  PROVE  /\ OnlyTracks(d)
         /\ tracked'[d] \in SourceFile /\ tracked'[d].text = t
         /\ ~tracked'[d].archive
<1>1. /\ Upsert(Now, d, t) \in Stores
      /\ Upsert(Now, d, t).tr[d] \in SourceFile
      /\ Upsert(Now, d, t).tr[d].text = t
      /\ Upsert(Now, d, t).tr[d].archive =>
           tracked[d] # None /\ tracked[d].archive
      /\ \A e \in Docs \ {d} : Upsert(Now, d, t).tr[e] = tracked[e]
  BY NowType, UpsertEffect
<1>. QED
  BY <1>1, BecomeType DEF OnlyTracks, ArchiveMember

LEMMA CloseEffect ==
  ASSUME TypeOK, NEW d \in Docs, Become(BackToDisk(d))
  PROVE  /\ OnlyTracks(d)
         /\ DiskText(d) = None /\ ArchiveMember(d) => tracked'[d] = tracked[d]
         /\ DiskText(d) = None /\ ~ArchiveMember(d) => tracked'[d] = None
         /\ DiskText(d) # None /\ ~ArchiveMember(d) =>
              /\ tracked'[d] \in SourceFile /\ tracked'[d].text = DiskText(d)
              /\ ~tracked'[d].archive
         /\ DiskText(d) # None => d \in Files /\ DiskText(d) = disk[d]
         /\ d \in Files => DiskText(d) = disk[d]
<1>1. DiskText(d) \in Texts \cup {None}
  BY DEF DiskText, TypeOK
<1>2. CASE DiskText(d) # None
  <2>1. BackToDisk(d) = Upsert(Now, d, DiskText(d))
    BY <1>2 DEF BackToDisk
  <2>2. OnlyTracks(d)
    BY <1>1, <1>2, <2>1, NowType, UpsertEffect, BecomeType DEF OnlyTracks
  <2>. QED
    BY <1>1, <1>2, <2>1, <2>2, BecomeUpsert DEF DiskText
<1>3. CASE DiskText(d) = None /\ ArchiveMember(d)
  <2>1. BackToDisk(d) = Now
    BY <1>3 DEF BackToDisk
  <2>. QED
    BY <1>3, <2>1, KeepEffect DEF DiskText
<1>4. CASE DiskText(d) = None /\ ~ArchiveMember(d)
  <2>1. BackToDisk(d) = [Now EXCEPT !.tr[d] = None]
    BY <1>4 DEF BackToDisk
  <2>2. /\ BackToDisk(d) \in Stores /\ BackToDisk(d).tr[d] = None
        /\ \A e \in Docs \ {d} : BackToDisk(d).tr[e] = tracked[e]
    BY <2>1, NowType, ForgetEffect
  <2>. QED
    BY <1>4, <2>2, BecomeType DEF OnlyTracks, DiskText
<1>. QED
  BY <1>2, <1>3, <1>4

LEMMA MountEffect ==
  ASSUME TypeOK, NEW S \in SUBSET Mountable, NEW g \in [S -> Texts],
         BundleSources(g)
  PROVE  /\ tracked' \in [Docs -> MaybeSource] /\ made' \in [Docs -> Nat]
         /\ fed' \in [Docs -> MaybeSource]
         /\ \A d \in Docs : fed'[d] \in {fed[d], None}
         /\ \A d \in Docs \ S : tracked'[d] = tracked[d]
                                /\ mounted'[d] = mounted[d]
         /\ \A d \in S : /\ tracked'[d] \in SourceFile
                         /\ tracked'[d].archive = (d \in Members)
                         /\ d \in Members => tracked'[d].text = g[d]
                         /\ d \in open /\ d \notin Members /\ tracked[d] # None
                              => tracked'[d].text = tracked[d].text
                         /\ mounted'[d] = g[d] /\ mounted'[d] # None
         /\ mounted' \in [Docs -> Texts \cup {None}]
<1>1. S \subseteq Docs /\ DOMAIN g = S /\ \A d \in S : g[d] \in Texts
  BY DocsAssumption
<1>2. ASSUME NEW d \in S
      PROVE  /\ MountTarget(d, g[d]) \in SourceFile
             /\ tracked[d] # None => MountTarget(d, g[d]) = tracked[d]
  <2>1. made \in [Docs -> Nat] /\ d \in Docs /\ g[d] \in Texts
    BY <1>1 DEF TypeOK
  <2>2. NewSource(made, d, g[d]) \in SourceFile
    BY <2>1, NewSourceType
  <2>. QED
    BY <2>1, <2>2 DEF MountTarget, TypeOK
<1>3. ASSUME NEW d \in S
      PROVE  /\ Mounted(d, g[d]) \in SourceFile
             /\ Mounted(d, g[d]).archive = (d \in Members)
             /\ Mounted(d, g[d]).text = IF d \notin open \/ d \in Members
                                          THEN g[d]
                                          ELSE MountTarget(d, g[d]).text
  <2>. DEFINE target == MountTarget(d, g[d])
  <2>1. target \in SourceFile /\ g[d] \in Texts
    BY <1>1, <1>2
  <2>. HIDE DEF target
  <2>2. Mounted(d, g[d]) =
          [target EXCEPT !.archive = (d \in Members),
                         !.text = IF d \notin open \/ d \in Members
                                    THEN g[d] ELSE @]
    BY DEF Mounted, target
  <2>3. (d \in Members) \in BOOLEAN
    OBVIOUS
  <2>. QED
    BY <2>1, <2>2, <2>3 DEF SourceFile, target
<1>4. /\ tracked' = [d \in Docs |-> IF d \in S THEN Mounted(d, g[d])
                                    ELSE tracked[d]]
      /\ made' = [d \in Docs |-> IF d \in S /\ tracked[d] = None
                                    /\ fed[d] = None
                                   THEN made[d] + 1 ELSE made[d]]
      /\ fed' = [d \in Docs |-> IF d \in S THEN None ELSE fed[d]]
      /\ mounted' = [d \in Docs |-> IF d \in S THEN g[d] ELSE mounted[d]]
  BY <1>1 DEF BundleSources
<1>5. tracked' \in [Docs -> MaybeSource]
  BY <1>3, <1>4 DEF TypeOK, MaybeSource
<1>6. made' \in [Docs -> Nat] /\ fed' \in [Docs -> MaybeSource]
      /\ mounted' \in [Docs -> Texts \cup {None}]
  BY <1>1, <1>4 DEF TypeOK, MaybeSource
<1>7. \A d \in S : g[d] # None
  BY <1>1, TextsAssumption
<1>. QED
  BY <1>1, <1>2, <1>3, <1>4, <1>5, <1>6, <1>7

-----------------------------------------------------------------------------
(* Type correctness.                                                       *)

LEMMA ReportsType ==
  ASSUME TypeOK
  PROVE  reports \in Seq(Report) /\ Len(reports) \in Nat
         /\ \A i \in 1..Len(reports) : reports[i] \in Report
<1>1. reports \in Seq(Report)
  BY DEF TypeOK, Report
<1>. QED
  BY <1>1, LenProperties

(* The reports that a notification leaves.                                 *)
LEMMA ReportsLeft ==
  ASSUME TypeOK, NEW n \in 1..Len(reports),
         reports' = SubSeq(reports, n + 1, Len(reports))
  PROVE  /\ reports' \in Seq(Report) /\ Len(reports') = Len(reports) - n
         /\ \A i \in 1..Len(reports') : reports'[i] = reports[i + n]
<1>1. reports \in Seq(Report) /\ Len(reports) \in Nat
      /\ \A i \in 1..Len(reports) : reports[i] \in Report
  BY ReportsType
<1>. QED
  BY <1>1, SubSeqProperties

LEMMA VersionsType == \A v \in Versions : v # None
BY TextsAssumption DEF Versions

LEMMA TypeInitial == Init => TypeOK
<1>. SUFFICES ASSUME Init PROVE TypeOK
  OBVIOUS
<1>1. \A d \in Docs : tracked[d] \in MaybeSource
  BY DEF Init, MaybeSource, SourceFile, Docs
<1>2. tracked \in [Docs -> MaybeSource]
  BY <1>1 DEF Init
<1>3. made \in [Docs -> Nat]
  BY DEF Init
<1>4. open = {d \in Docs : versions[d] # None}
  BY DEF Init
<1>5. disk \in [Files -> Texts \cup {None}] /\ fed \in [Docs -> MaybeSource]
      /\ versions \in [Docs -> Versions \cup {None}]
      /\ mounted \in [Docs -> Texts \cup {None}]
      /\ newest \in [Docs -> Edit \cup {None}]
  BY DEF Init, MaybeSource
<1>6. reports \in Seq([doc : Files, type : {"changed", "deleted"}])
  BY DEF Init
<1>. QED
  BY <1>2, <1>3, <1>4, <1>5, <1>6 DEF Init, TypeOK, MaybeSource

LEMMA TypeInductive == TypeOK /\ [Next]_vars => TypeOK'
<1>. SUFFICES ASSUME TypeOK, [Next]_vars PROVE TypeOK'
  OBVIOUS
<1>1. ASSUME NEW d \in Docs, NEW v \in Versions,
             versions' = [versions EXCEPT ![d] = v], open' = open \cup {d}
      PROVE  /\ versions' \in [Docs -> Versions \cup {None}]
             /\ open' = {e \in Docs : versions'[e] # None}
  BY <1>1, VersionsType DEF TypeOK
<1>2. ASSUME NEW d \in Docs, OnlyTracks(d)
      PROVE  /\ tracked' \in [Docs -> SourceFile \cup {None}]
             /\ made' \in [Docs -> Nat]
             /\ fed' \in [Docs -> SourceFile \cup {None}]
  BY <1>2 DEF OnlyTracks, MaybeSource, TypeOK
<1>3. ASSUME tracked' \in [Docs -> MaybeSource], MarkAll
      PROVE  dirty' \subseteq Docs /\ armed' \in BOOLEAN
  BY <1>3 DEF MarkAll, Tracked, TypeOK
<1>4. ASSUME NEW d \in Docs, NEW v \in Versions, NEW t \in Texts,
             DidOpen(d, t, v)
      PROVE  TypeOK'
  <2>1. OnlyTracks(d)
    BY <1>4, KeepEffect, BecomeUpsert DEF DidOpen
  <2>2. /\ versions' = [versions EXCEPT ![d] = v] /\ open' = open \cup {d}
        /\ newest' = [newest EXCEPT ![d] = [version |-> v, text |-> t]]
        /\ UNCHANGED <<disk, reports, lost, mounted>> /\ MarkAll
    BY <1>4 DEF DidOpen
  <2>3. dirty' \subseteq Docs /\ armed' \in BOOLEAN
    BY <1>3, <2>1, <2>2 DEF OnlyTracks
  <2>4. [version |-> v, text |-> t] \in Edit
    BY DEF Edit
  <2>5. /\ newest' \in [Docs -> Edit \cup {None}]
        /\ \A e \in open' : newest'[e] \in Edit
    BY <2>2, <2>4 DEF TypeOK
  <2>. QED
    BY <1>1, <1>2, <2>1, <2>2, <2>3, <2>5 DEF TypeOK
<1>5. ASSUME NEW d \in Docs, NEW v \in Versions, NEW t \in Texts \cup {None},
             DidChange(d, t, v)
      PROVE  TypeOK'
  <2>1. OnlyTracks(d)
    BY <1>5, KeepEffect, BecomeUpsert DEF DidChange
  <2>2. /\ versions' = [versions EXCEPT ![d] = v] /\ open' = open /\ d \in open
        /\ UNCHANGED <<disk, reports, mounted>> /\ lost' \subseteq lost
    BY <1>5 DEF DidChange
  <2>3. /\ versions' \in [Docs -> Versions \cup {None}]
        /\ open' = {e \in Docs : versions'[e] # None}
    BY <1>1, <2>2
  <2>4. dirty' \subseteq Docs /\ armed' \in BOOLEAN
    BY <1>5 DEF DidChange, MarkAffected, AffectedFiles, TypeOK
  <2>5. newest[d] \in Edit
    BY <2>2 DEF TypeOK
  <2>6. /\ newest' \in [Docs -> Edit \cup {None}]
        /\ newest'[d] \in Edit
        /\ \A e \in Docs \ {d} : newest'[e] = newest[e]
    <3>1. CASE newest' = newest
      BY <2>5, <3>1 DEF TypeOK
    <3>2. ASSUME NEW u \in Texts,
                 newest' = [newest EXCEPT ![d] = [version |-> v, text |-> u]]
          PROVE  /\ newest' \in [Docs -> Edit \cup {None}]
                 /\ newest'[d] \in Edit
                 /\ \A e \in Docs \ {d} : newest'[e] = newest[e]
      <4>1. [version |-> v, text |-> u] \in Edit
        BY DEF Edit
      <4>. QED
        BY <3>2, <4>1 DEF TypeOK
    <3>3. newest[d].text \in Texts
      BY <2>5 DEF Edit
    <3>. QED
      BY <1>5, <3>1, <3>2, <3>3 DEF DidChange
  <2>. QED
    BY <1>2, <2>1, <2>2, <2>3, <2>4, <2>6 DEF TypeOK
<1>6. ASSUME NEW d \in Docs, DidClose(d) PROVE TypeOK'
  <2>1. OnlyTracks(d)
    BY <1>6, CloseEffect DEF DidClose
  <2>2. /\ versions' = [versions EXCEPT ![d] = None] /\ open' = open \ {d}
        /\ newest' = [newest EXCEPT ![d] = None] /\ lost' = lost \ {d}
        /\ UNCHANGED <<disk, reports, mounted>> /\ MarkAll
    BY <1>6 DEF DidClose, ForgetEditor
  <2>3. dirty' \subseteq Docs /\ armed' \in BOOLEAN
    BY <1>3, <2>1, <2>2 DEF OnlyTracks
  <2>. QED
    BY <1>2, <2>1, <2>2, <2>3 DEF TypeOK
<1>7. ASSUME NEW n \in 1..Len(reports), DidChangeWatchedFiles(n)
      PROVE  TypeOK'
  <2>1. AfterReports(n)[n] \in Stores
    BY ReportsApplied DEF Applied
  <2>2. /\ tracked' \in [Docs -> MaybeSource] /\ made' \in [Docs -> Nat]
        /\ fed' = fed
    BY <1>7, <2>1, BecomeType DEF DidChangeWatchedFiles
  <2>3. reports' \in Seq(Report)
    BY <1>7, ReportsLeft DEF DidChangeWatchedFiles
  <2>4. UNCHANGED <<disk, open, versions, newest, mounted>> /\ MarkAll
        /\ lost' \subseteq lost \cup open
    BY <1>7 DEF DidChangeWatchedFiles
  <2>5. dirty' \subseteq Docs /\ armed' \in BOOLEAN
    BY <1>3, <2>2, <2>4
  <2>. QED
    BY <2>2, <2>3, <2>4, <2>5 DEF TypeOK, Report, MaybeSource
<1>8. ASSUME NEW S \in SUBSET Mountable, NEW g \in [S -> Texts],
             BundleSources(g)
      PROVE  TypeOK'
  <2>1. /\ tracked' \in [Docs -> MaybeSource] /\ made' \in [Docs -> Nat]
        /\ fed' \in [Docs -> MaybeSource]
        /\ mounted' \in [Docs -> Texts \cup {None}]
    BY <1>8, MountEffect
  <2>2. UNCHANGED <<disk, reports, open, versions, newest, lost>> /\ MarkAll
    BY <1>8 DEF BundleSources
  <2>3. dirty' \subseteq Docs /\ armed' \in BOOLEAN
    BY <1>3, <2>1, <2>2
  <2>. QED
    BY <2>1, <2>2, <2>3 DEF TypeOK, MaybeSource
<1>9. ASSUME NEW d \in Urls, NEW t \in Texts, UrlSources(d, t) PROVE TypeOK'
  <2>1. d \in Docs /\ made \in [Docs -> Nat] /\ fed \in [Docs -> MaybeSource]
        /\ tracked \in [Docs -> MaybeSource]
    BY DEF Docs, TypeOK, MaybeSource
  <2>2. NewSource(made, d, t) \in SourceFile
    BY <2>1, NewSourceType
  <2>3. fed[d] # None => [fed[d] EXCEPT !.text = t] \in SourceFile
    BY <2>1 DEF MaybeSource, SourceFile
  <2>4. fed' \in [Docs -> MaybeSource]
    BY <1>9, <2>1, <2>2, <2>3 DEF UrlSources, MaybeSource
  <2>5. made' \in [Docs -> Nat]
    BY <1>9, <2>1 DEF UrlSources
  <2>6. MarkAll /\ UNCHANGED <<disk, reports, open, versions, newest, lost,
                               mounted, tracked>>
    BY <1>9 DEF UrlSources
  <2>7. dirty' \subseteq Docs /\ armed' \in BOOLEAN
    BY <1>3, <2>1, <2>6
  <2>. QED
    BY <2>4, <2>5, <2>6, <2>7 DEF TypeOK, MaybeSource
<1>10. CASE FlushDirty
  BY <1>10 DEF FlushDirty, TypeOK
<1>11. ASSUME NEW d \in Files, NEW t \in Texts \cup {None}, ChangeDisk(d, t)
       PROVE  TypeOK'
  <2>1. [doc |-> d, type |-> IF t = None THEN "deleted" ELSE "changed"]
          \in [doc : Files, type : {"changed", "deleted"}]
    OBVIOUS
  <2>2. reports' \in Seq([doc : Files, type : {"changed", "deleted"}])
    BY <1>11, <2>1, AppendProperties DEF ChangeDisk, TypeOK
  <2>3. disk' \in [Files -> Texts \cup {None}]
    BY <1>11 DEF ChangeDisk, TypeOK
  <2>. QED
    BY <1>11, <2>2, <2>3 DEF ChangeDisk, TypeOK, serverVars
<1>12. CASE UNCHANGED vars
  BY <1>12 DEF vars, serverVars, TypeOK
<1>. QED
  BY <1>4, <1>5, <1>6, <1>7, <1>8, <1>9, <1>10, <1>11, <1>12
     DEF Next, Notification

(* The documents' state is always well typed, and the editor's buffer is   *)
(* known exactly while a document has a version.                           *)
THEOREM TypeCorrect == Spec => []TypeOK
BY TypeInitial, TypeInductive, PTL DEF Spec

-----------------------------------------------------------------------------
(* The file set.                                                           *)

(* Imports resolve against the files the server tracks: every handler that *)
(* changes them ends with `sync_file_set`, which compares the files and    *)
(* not their number.                                                       *)
THEOREM FileSetIsCurrent == Spec => []FileSetCurrent
<1>1. Init => FileSetCurrent
  BY DEF Init, FileSetCurrent
<1>2. FileSetCurrent /\ [Next]_vars => FileSetCurrent'
  <2>. SUFFICES ASSUME FileSetCurrent, [Next]_vars PROVE FileSetCurrent'
    OBVIOUS
  <2>1. CASE SyncFileSet
    BY <2>1 DEF SyncFileSet, FileSetCurrent
  <2>2. CASE UNCHANGED <<fileset, tracked, fed>>
    BY <2>2 DEF FileSetCurrent, Sources
  <2>. QED
    BY <2>1, <2>2 DEF Next, Notification, DidOpen, DidChange, DidClose,
       DidChangeWatchedFiles, BundleSources, UrlSources, FlushDirty,
       ChangeDisk, vars, serverVars
<1>. QED
  BY <1>1, <1>2, PTL DEF Spec

-----------------------------------------------------------------------------
(* Archive members.                                                        *)

(* Only a member is tracked as one; a member that was mounted is tracked   *)
(* as one, with its text; and only URLs are fetched.                       *)
ArchiveInv ==
  /\ \A d \in Docs : tracked[d] # None /\ tracked[d].archive => d \in Members
  /\ \A d \in Members : mounted[d] # None =>
       /\ tracked[d] # None /\ tracked[d].archive
       /\ tracked[d].text = mounted[d]
  /\ \A d \in Docs \ Urls : fed[d] = None

LEMMA ArchiveInitial == Init => ArchiveInv
BY DEF Init, ArchiveInv, Docs

LEMMA ArchiveInductive == TypeOK /\ ArchiveInv /\ [Next]_vars => ArchiveInv'
<1>. SUFFICES ASSUME TypeOK, ArchiveInv, [Next]_vars PROVE ArchiveInv'
  OBVIOUS
<1>1. Members \subseteq Docs /\ Files \subseteq Docs /\ Files \cap Members = {}
  BY DocsAssumption DEF Docs
<1>2. ASSUME NEW d \in Docs, OnlyTracks(d), mounted' = mounted,
             \/ tracked'[d] = tracked[d]
             \/ ~ArchiveMember(d) /\ (tracked'[d] = None \/ ~tracked'[d].archive)
      PROVE  ArchiveInv'
  <2>1. \A e \in Docs \ {d} : tracked'[e] = tracked[e]
    BY <1>2 DEF OnlyTracks
  <2>2. fed' = fed
    BY <1>2 DEF OnlyTracks
  <2>3. \A e \in Docs : tracked'[e] # None /\ tracked'[e].archive => e \in Members
    BY <1>2, <2>1 DEF ArchiveInv
  <2>4. \A e \in Members : mounted'[e] # None => tracked'[e] = tracked[e]
    BY <1>1, <1>2, <2>1 DEF ArchiveInv, ArchiveMember
  <2>. QED
    BY <1>2, <2>2, <2>3, <2>4 DEF ArchiveInv
<1>3. ASSUME NEW d \in Docs, NEW v \in Versions, NEW t \in Texts,
             DidOpen(d, t, v)
      PROVE  ArchiveInv'
  BY <1>2, <1>3, KeepEffect, BecomeUpsert DEF DidOpen
<1>4. ASSUME NEW d \in Docs, NEW v \in Versions, NEW t \in Texts \cup {None},
             DidChange(d, t, v)
      PROVE  ArchiveInv'
  BY <1>2, <1>4, KeepEffect, BecomeUpsert DEF DidChange
<1>5. ASSUME NEW d \in Docs, DidClose(d) PROVE ArchiveInv'
  <2>1. d \in Files => ~ArchiveMember(d)
    BY <1>1 DEF ArchiveMember, ArchiveInv
  <2>. QED
    BY <1>2, <1>5, <2>1, CloseEffect DEF DidClose
<1>6. ASSUME NEW n \in 1..Len(reports), DidChangeWatchedFiles(n)
      PROVE  ArchiveInv'
  <2>. DEFINE st == AfterReports(n)[n]
  <2>1. Applied(st, n) /\ Become(st) /\ mounted' = mounted
    BY <1>6, ReportsApplied DEF DidChangeWatchedFiles
  <2>2. tracked' = st.tr /\ fed' = fed
    BY <2>1, BecomeType DEF Applied
  <2>3. \A i \in 1..n : reports[i].doc \in Files
    BY AfterReportsDef DEF Report
  <2>. HIDE DEF st
  <2>4. \A d \in Members : tracked'[d] = tracked[d]
    BY <1>1, <2>1, <2>2, <2>3 DEF Applied
  <2>5. \A d \in Docs : tracked'[d] # None /\ tracked'[d].archive =>
                          tracked[d] # None /\ tracked[d].archive
    BY <2>1, <2>2 DEF Applied
  <2>. QED
    BY <2>1, <2>2, <2>4, <2>5 DEF ArchiveInv
<1>7. ASSUME NEW S \in SUBSET Mountable, NEW g \in [S -> Texts],
             BundleSources(g)
      PROVE  ArchiveInv'
  <2>1. /\ \A d \in Docs : fed'[d] \in {fed[d], None}
        /\ \A d \in Docs \ S : tracked'[d] = tracked[d]
                               /\ mounted'[d] = mounted[d]
        /\ \A d \in S : /\ tracked'[d] \in SourceFile
                        /\ tracked'[d].archive = (d \in Members)
                        /\ d \in Members => tracked'[d].text = g[d]
                        /\ mounted'[d] = g[d]
    BY <1>7, MountEffect
  <2>2. \A d \in Docs : tracked'[d] # None /\ tracked'[d].archive => d \in Members
    BY <2>1 DEF ArchiveInv
  <2>3. \A d \in Members : mounted'[d] # None =>
          /\ tracked'[d] # None /\ tracked'[d].archive
          /\ tracked'[d].text = mounted'[d]
    BY <1>1, <2>1, SourceIsNotNone DEF ArchiveInv
  <2>. QED
    BY <2>1, <2>2, <2>3 DEF ArchiveInv
<1>8. ASSUME NEW d \in Urls, NEW t \in Texts, UrlSources(d, t)
      PROVE  ArchiveInv'
  BY <1>8 DEF UrlSources, ArchiveInv, TypeOK
<1>9. CASE FlushDirty
  BY <1>9 DEF FlushDirty, ArchiveInv
<1>10. ASSUME NEW d \in Files, NEW t \in Texts \cup {None}, ChangeDisk(d, t)
       PROVE  ArchiveInv'
  BY <1>10 DEF ChangeDisk, serverVars, ArchiveInv
<1>11. CASE UNCHANGED vars
  BY <1>11 DEF vars, serverVars, ArchiveInv
<1>. QED
  BY <1>3, <1>4, <1>5, <1>6, <1>7, <1>8, <1>9, <1>10, <1>11
     DEF Next, Notification

LEMMA ArchiveAlways == Spec => []ArchiveInv
BY TypeInitial, TypeInductive, ArchiveInitial, ArchiveInductive, PTL DEF Spec

(* A mounted archive member stays tracked with the text of its last mount, *)
(* however the editor opens, edits and closes it and whatever the watcher  *)
(* reports.                                                                *)
THEOREM MembersAreReadOnly == Spec => []ArchiveReadOnly
<1>1. ArchiveInv => ArchiveReadOnly
  BY DEF ArchiveInv, ArchiveReadOnly
<1>. QED
  BY <1>1, ArchiveAlways, PTL

-----------------------------------------------------------------------------
(* The editor's buffer.                                                    *)

(* The server has the newest version of every open document, a lost or an  *)
(* archived one too.                                                       *)
EditorInv ==
  /\ EditorTextKept
  /\ \A d \in open : versions[d] = newest[d].version

LEMMA EditorInductive ==
  TypeOK /\ ArchiveInv /\ EditorInv /\ [Next]_vars => EditorInv'
<1>. SUFFICES ASSUME TypeOK, ArchiveInv, EditorInv, [Next]_vars
              PROVE  EditorInv'
  OBVIOUS
<1>. DEFINE Buffered(d) == tracked[d] # None /\ tracked[d].text = newest[d].text
<1>1. ASSUME NEW d \in Docs, OnlyTracks(d), open' \ {d} = open \ {d},
             lost' \ {d} = lost \ {d},
             \A e \in Docs \ {d} : /\ newest'[e] = newest[e]
                                   /\ versions'[e] = versions[e],
             d \in open' => versions'[d] = newest'[d].version,
             d \in open' \ lost' /\ ~ArchiveMember(d)' => Buffered(d)'
      PROVE  EditorInv'
  <2>1. \A e \in Docs \ {d} : tracked'[e] = tracked[e]
    BY <1>1 DEF OnlyTracks
  <2>2. open' \subseteq Docs
    BY <1>1 DEF TypeOK
  <2>3. \A e \in open' : versions'[e] = newest'[e].version
    BY <1>1, <2>2 DEF EditorInv
  <2>4. ASSUME NEW e \in open' \ lost', ~ArchiveMember(e)'
        PROVE  /\ tracked'[e] # None /\ tracked'[e].text = newest'[e].text
               /\ versions'[e] = newest'[e].version
    BY <1>1, <2>1, <2>2, <2>3, <2>4
       DEF EditorInv, EditorTextKept, ArchiveMember
  <2>. QED
    BY <2>3, <2>4 DEF EditorInv, EditorTextKept
<1>2. ASSUME NEW d \in Docs, NEW v \in Versions, NEW t \in Texts,
             DidOpen(d, t, v)
      PROVE  EditorInv'
  <2>1. /\ OnlyTracks(d) /\ lost' = lost /\ open' = open \cup {d}
        /\ \/ ArchiveMember(d) /\ tracked' = tracked
           \/ tracked'[d] \in SourceFile /\ tracked'[d].text = t
    BY <1>2, KeepEffect, BecomeUpsert DEF DidOpen
  <2>2. /\ newest'[d].version = v /\ newest'[d].text = t /\ versions'[d] = v
        /\ \A e \in Docs \ {d} : newest'[e] = newest[e]
                                 /\ versions'[e] = versions[e]
    BY <1>2 DEF DidOpen, TypeOK
  <2>3. ~ArchiveMember(d)' => Buffered(d)'
    BY <2>1, <2>2, SourceIsNotNone DEF ArchiveMember
  <2>. QED
    BY <1>1, <2>1, <2>2, <2>3
<1>3. ASSUME NEW d \in Docs, NEW v \in Versions, NEW t \in Texts \cup {None},
             DidChange(d, t, v)
      PROVE  EditorInv'
  <2>1. /\ OnlyTracks(d) /\ d \in open /\ open' = open /\ ~ArchiveMember(d)
        /\ t = None => tracked' = tracked /\ lost' = lost
        /\ t # None => /\ tracked'[d] \in SourceFile /\ tracked'[d].text = t
                       /\ lost' = lost \ {d}
    BY <1>3, KeepEffect, BecomeUpsert DEF DidChange
  <2>2. /\ versions'[d] = v
        /\ \A e \in Docs \ {d} : versions'[e] = versions[e]
    BY <1>3 DEF DidChange, TypeOK
  <2>3. ~(v < newest[d].version)
    <3>1. versions[d] # None /\ versions[d] = newest[d].version
      BY <2>1 DEF EditorInv, TypeOK
    <3>. QED
      BY <1>3, <3>1 DEF DidChange, Overtaken, Outdated
  <2>4. newest' = [newest EXCEPT ![d] =
                     [version |-> v, text |-> IF t = None THEN @.text ELSE t]]
    BY <1>3, <2>3 DEF DidChange
  <2>5. /\ newest'[d].version = v
        /\ newest'[d].text = IF t = None THEN newest[d].text ELSE t
        /\ \A e \in Docs \ {d} : newest'[e] = newest[e]
    BY <2>4 DEF TypeOK
  <2>6. d \in open' \ lost' => Buffered(d)'
    BY <2>1, <2>5, SourceIsNotNone DEF EditorInv, EditorTextKept
  <2>. QED
    BY <1>1, <2>1, <2>2, <2>5, <2>6
<1>4. ASSUME NEW d \in Docs, DidClose(d) PROVE EditorInv'
  <2>1. OnlyTracks(d) /\ open' = open \ {d} /\ lost' = lost \ {d}
    BY <1>4, CloseEffect DEF DidClose, ForgetEditor
  <2>2. \A e \in Docs \ {d} : /\ newest'[e] = newest[e]
                              /\ versions'[e] = versions[e]
    BY <1>4 DEF DidClose, ForgetEditor, TypeOK
  <2>. QED
    BY <1>1, <2>1, <2>2
<1>5. ASSUME NEW n \in 1..Len(reports), DidChangeWatchedFiles(n)
      PROVE  EditorInv'
  <2>. DEFINE st == AfterReports(n)[n]
  <2>1. Applied(st, n) /\ Become(st)
    BY <1>5, ReportsApplied DEF DidChangeWatchedFiles
  <2>2. \A d \in open : tracked'[d] \in {tracked[d], None}
    BY <2>1, BecomeType DEF Applied
  <2>3. /\ UNCHANGED <<open, versions, newest>>
        /\ lost' = lost \cup {d \in open : tracked[d] # None /\ tracked'[d] = None}
    BY <1>5 DEF DidChangeWatchedFiles
  <2>4. ASSUME NEW d \in open' \ lost', ~ArchiveMember(d)'
        PROVE  /\ tracked'[d] # None /\ tracked'[d].text = newest'[d].text
               /\ versions'[d] = newest'[d].version
    <3>1. d \in open \ lost /\ (tracked[d] = None \/ tracked'[d] # None)
      BY <2>3, <2>4
    <3>2. tracked'[d] = tracked[d]
      BY <2>2, <3>1
    <3>. QED
      BY <2>3, <2>4, <3>1, <3>2 DEF EditorInv, EditorTextKept, ArchiveMember
  <2>. QED
    BY <2>3, <2>4 DEF EditorInv, EditorTextKept
<1>6. ASSUME NEW S \in SUBSET Mountable, NEW g \in [S -> Texts],
             BundleSources(g)
      PROVE  EditorInv'
  <2>1. /\ \A d \in Docs \ S : tracked'[d] = tracked[d]
        /\ \A d \in S :
             /\ tracked'[d] \in SourceFile
             /\ tracked'[d].archive = (d \in Members)
             /\ d \in open /\ d \notin Members /\ tracked[d] # None
                  => tracked'[d].text = tracked[d].text
    BY <1>6, MountEffect
  <2>2. UNCHANGED <<open, versions, newest, lost>> /\ open \subseteq Docs
    BY <1>6 DEF BundleSources, TypeOK
  <2>3. ASSUME NEW d \in open' \ lost', ~ArchiveMember(d)'
        PROVE  /\ tracked'[d] # None /\ tracked'[d].text = newest'[d].text
               /\ versions'[d] = newest'[d].version
    <3>1. CASE d \in S
      <4>1. tracked'[d] # None /\ d \notin Members
        BY <2>1, <2>3, <3>1, SourceIsNotNone DEF ArchiveMember
      <4>2. tracked[d] # None /\ tracked[d].text = newest[d].text
        BY <2>2, <2>3, <4>1
           DEF EditorInv, EditorTextKept, ArchiveMember, ArchiveInv
      <4>. QED
        BY <2>1, <2>2, <2>3, <3>1, <4>1, <4>2 DEF EditorInv
    <3>2. CASE d \notin S
      BY <2>1, <2>2, <2>3, <3>2 DEF EditorInv, EditorTextKept, ArchiveMember
    <3>. QED
      BY <3>1, <3>2
  <2>. QED
    BY <2>2, <2>3 DEF EditorInv, EditorTextKept
<1>7. CASE UNCHANGED <<tracked, open, versions, newest, lost>>
  BY <1>7 DEF EditorInv, EditorTextKept, ArchiveMember
<1>8. CASE \/ \E d \in Urls, t \in Texts : UrlSources(d, t)
           \/ FlushDirty
           \/ \E d \in Files, t \in Texts \cup {None} : ChangeDisk(d, t)
           \/ UNCHANGED vars
  BY <1>7, <1>8 DEF UrlSources, FlushDirty, ChangeDisk, serverVars, vars
<1>. QED
  BY <1>2, <1>3, <1>4, <1>5, <1>6, <1>8 DEF Next, Notification

(* While a document is open the server works on the newest version the     *)
(* editor sent, however versions overtake each other and whatever the      *)
(* disk, the watcher or a mount does, unless the file was deleted since.   *)
THEOREM EditorIsFollowed == Spec => []EditorTextKept
<1>1. Init => EditorInv
  BY DEF Init, EditorInv, EditorTextKept
<1>2. EditorInv => EditorTextKept
  BY DEF EditorInv
<1>. QED
  BY <1>1, <1>2, TypeInitial, TypeInductive, ArchiveInitial, ArchiveInductive,
     EditorInductive, PTL DEF Spec

-----------------------------------------------------------------------------
(* The disk.                                                               *)

(* The last report under way about a file says whether it exists.          *)
LastReportTrue ==
  \A i \in 1..Len(reports) :
    (\A j \in (i + 1)..Len(reports) : reports[j].doc # reports[i].doc) =>
      (reports[i].type = "deleted" <=> disk[reports[i].doc] = None)

LEMMA LastReportInductive ==
  TypeOK /\ LastReportTrue /\ [Next]_vars => LastReportTrue'
<1>. SUFFICES ASSUME TypeOK, LastReportTrue, [Next]_vars
              PROVE  LastReportTrue'
  OBVIOUS
<1>1. ASSUME NEW n \in 1..Len(reports), DidChangeWatchedFiles(n)
      PROVE  LastReportTrue'
  <2>1. /\ Len(reports) \in Nat /\ Len(reports') = Len(reports) - n
        /\ \A i \in 1..Len(reports') : reports'[i] = reports[i + n]
        /\ disk' = disk
    BY <1>1, ReportsLeft, ReportsType DEF DidChangeWatchedFiles
  <2>2. ASSUME NEW i \in 1..Len(reports'),
               \A j \in (i + 1)..Len(reports') : reports'[j].doc # reports'[i].doc
        PROVE  reports'[i].type = "deleted" <=> disk'[reports'[i].doc] = None
    <3>1. i + n \in 1..Len(reports) /\ reports'[i] = reports[i + n]
      BY <2>1
    <3>2. ASSUME NEW j \in (i + n + 1)..Len(reports)
          PROVE  reports[j].doc # reports[i + n].doc
      <4>1. j - n \in (i + 1)..Len(reports') /\ j - n \in 1..Len(reports')
            /\ (j - n) + n = j
        BY <2>1, <3>2
      <4>2. reports'[j - n] = reports[j]
        BY <2>1, <4>1
      <4>. QED
        BY <2>2, <3>1, <4>1, <4>2
    <3>. QED
      BY <2>1, <3>1, <3>2 DEF LastReportTrue
  <2>. QED
    BY <2>2 DEF LastReportTrue
<1>2. ASSUME NEW d \in Files, NEW t \in Texts \cup {None}, ChangeDisk(d, t)
      PROVE  LastReportTrue'
  <2>. DEFINE new == [doc |-> d, type |-> IF t = None THEN "deleted"
                                          ELSE "changed"]
  <2>1. /\ Len(reports) \in Nat /\ Len(reports') = Len(reports) + 1
        /\ \A i \in 1..Len(reports) : reports'[i] = reports[i]
        /\ reports'[Len(reports) + 1] = new
        /\ \A i \in 1..Len(reports) : reports[i] \in Report
    <3>1. new \in Report
      BY DEF Report
    <3>. QED
      BY <1>2, <3>1, ReportsType, AppendProperties DEF ChangeDisk
  <2>2. disk'[d] = t /\ \A e \in Files \ {d} : disk'[e] = disk[e]
    BY <1>2 DEF ChangeDisk, TypeOK
  <2>3. ASSUME NEW i \in 1..Len(reports'),
               \A j \in (i + 1)..Len(reports') : reports'[j].doc # reports'[i].doc
        PROVE  reports'[i].type = "deleted" <=> disk'[reports'[i].doc] = None
    <3>1. CASE i = Len(reports) + 1
      BY <2>1, <2>2, <3>1, TextsAssumption
    <3>2. CASE i # Len(reports) + 1
      <4>1. /\ i \in 1..Len(reports) /\ reports'[i] = reports[i]
            /\ Len(reports) + 1 \in (i + 1)..Len(reports')
        BY <2>1, <3>2
      <4>2. reports[i].doc # d /\ reports[i].doc \in Files
        BY <2>1, <2>3, <4>1 DEF Report
      <4>3. \A j \in (i + 1)..Len(reports) :
              reports[j].doc # reports[i].doc
        <5>1. \A j \in (i + 1)..Len(reports) :
                j \in (i + 1)..Len(reports') /\ j \in 1..Len(reports)
          BY <2>1, <4>1
        <5>. QED
          BY <2>1, <2>3, <4>1, <5>1
      <4>. QED
        BY <2>2, <4>1, <4>2, <4>3 DEF LastReportTrue
    <3>. QED
      BY <3>1, <3>2
  <2>. QED
    BY <2>3 DEF LastReportTrue
<1>3. CASE UNCHANGED <<reports, disk>>
  BY <1>3 DEF LastReportTrue
<1>. QED
  BY <1>1, <1>2, <1>3 DEF Next, Notification, DidOpen, DidChange, DidClose,
     BundleSources, UrlSources, FlushDirty, vars

(* What SettledIsDisk says of d, for the tracked files tr.                 *)
OnDisk(tr, dk, d) == IF dk[d] = None THEN tr[d] = None
                     ELSE tr[d] # None /\ tr[d].text = dk[d]

(* No report about d is under way, in the reports rs.                      *)
Unreported(rs, d) == \A i \in 1..Len(rs) : rs[i].doc # d

DiskInv ==
  \A d \in Files \ (open \cup Excluded) :
    mounted[d] = None /\ Unreported(reports, d) => OnDisk(tracked, disk, d)

(* A file is no URL and no archive member: what it says is what is tracked.*)
LEMMA DiskInvMeans == TypeOK /\ ArchiveInv => (DiskInv <=> SettledIsDisk)
<1>. SUFFICES ASSUME TypeOK, ArchiveInv, NEW d \in Files
              PROVE  OnDisk(tracked, disk, d) <=>
                       TextOf(tracked, fed, d) = disk[d]
  BY DEF DiskInv, SettledIsDisk, Unreported
<1>1. d \in Docs /\ d \notin Urls
  BY DocsAssumption DEF Docs
<1>2. fed[d] = None /\ disk[d] \in Texts \cup {None}
      /\ tracked[d] \in SourceFile \cup {None}
  BY <1>1 DEF TypeOK, ArchiveInv
<1>3. tracked[d] # None => tracked[d].text # None
  BY <1>2, TextsAssumption DEF SourceFile
<1>. QED
  BY <1>2, <1>3 DEF OnDisk, TextOf

(* The watcher's reports bring a closed file to what the disk has.         *)
LEMMA WatchedDisk ==
  ASSUME TypeOK, ArchiveInv, LastReportTrue, DiskInv,
         NEW n \in 1..Len(reports), DidChangeWatchedFiles(n)
  PROVE  DiskInv'
<1>. DEFINE st == AfterReports(n)[n]
<1>1. /\ Applied(st, n) /\ Become(st)
      /\ UNCHANGED <<disk, open, mounted>>
      /\ reports' = SubSeq(reports, n + 1, Len(reports))
  BY ReportsApplied DEF DidChangeWatchedFiles
<1>2. tracked' = st.tr
  BY <1>1, BecomeType DEF Applied
<1>3. /\ Len(reports) \in Nat /\ Len(reports') = Len(reports) - n
      /\ \A i \in 1..Len(reports') : reports'[i] = reports[i + n]
      /\ \A i \in 1..Len(reports) : reports[i] \in Report
  BY <1>1, ReportsLeft, ReportsType
<1>. HIDE DEF st
<1>. SUFFICES ASSUME NEW d \in Files \ (open \cup Excluded),
                     mounted[d] = None, Unreported(reports', d)
              PROVE  OnDisk(tracked', disk, d)
  BY <1>1 DEF DiskInv
<1>4. ASSUME NEW j \in (n + 1)..Len(reports) PROVE reports[j].doc # d
  <2>1. j - n \in 1..Len(reports') /\ (j - n) + n = j
    BY <1>3, <1>4
  <2>2. reports'[j - n] = reports[j]
    BY <1>3, <2>1
  <2>. QED
    BY <2>1, <2>2 DEF Unreported
<1>5. CASE \A j \in 1..n : reports[j].doc # d
  <2>1. d \in Docs /\ tracked'[d] = tracked[d]
    BY <1>1, <1>2, <1>5 DEF Applied, Docs
  <2>2. Unreported(reports, d)
    <3>1. \A j \in 1..Len(reports) : j \in 1..n \/ j \in (n + 1)..Len(reports)
      BY <1>3
    <3>. QED
      BY <1>4, <1>5, <3>1 DEF Unreported
  <2>. QED
    BY <2>1, <2>2 DEF DiskInv, OnDisk
<1>6. CASE \E j \in 1..n : reports[j].doc = d
  <2>. DEFINE K == {j \in 1..n : reports[j].doc = d}
  <2>1. PICK k \in K : \A j \in K : j <= k
    <3>1. n \in Nat /\ K \in SUBSET (1..n) /\ K # {}
      BY <1>3, <1>6
    <3>. QED
      BY <3>1, LastOf
  <2>2. k \in 1..n /\ k \in 1..Len(reports) /\ reports[k].doc = d
        /\ reports[k].type \in {"changed", "deleted"}
    BY <1>3, <2>1 DEF Report
  <2>3. \A j \in (k + 1)..n : reports[j].doc # d
    <3>1. \A j \in (k + 1)..n : j \in 1..n /\ ~(j <= k)
      BY <1>3, <2>2
    <3>. QED
      BY <2>1, <3>1
  <2>4. \A j \in (k + 1)..Len(reports) : reports[j].doc # reports[k].doc
    <3>1. \A j \in (k + 1)..Len(reports) :
            j \in (k + 1)..n \/ j \in (n + 1)..Len(reports)
      BY <1>3, <2>2
    <3>. QED
      BY <1>4, <2>2, <2>3, <3>1
  <2>5. reports[k].type = "deleted" <=> disk[d] = None
    BY <2>2, <2>4 DEF LastReportTrue
  <2>6. /\ reports[k].type = "deleted" => tracked'[d] = None
        /\ reports[k].type = "changed" /\ disk[d] # None =>
             tracked'[d] # None /\ tracked'[d].text = disk[d]
    BY <1>1, <1>2, <2>2, <2>3 DEF Applied
  <2>. QED
    BY <2>2, <2>5, <2>6 DEF OnDisk
<1>. QED
  BY <1>5, <1>6

LEMMA DiskInductive ==
  TypeOK /\ ArchiveInv /\ LastReportTrue /\ DiskInv /\ [Next]_vars => DiskInv'
<1>. SUFFICES ASSUME TypeOK, ArchiveInv, LastReportTrue, DiskInv, [Next]_vars
              PROVE  DiskInv'
  OBVIOUS
<1>1. Files \subseteq Docs /\ \A d \in Files : d \notin Members /\ d \notin Urls
  BY DocsAssumption DEF Docs
<1>2. ASSUME NEW d \in Docs, OnlyTracks(d), UNCHANGED <<disk, reports, mounted>>,
             open' \ {d} = open \ {d},
             d \in Files \ open' => OnDisk(tracked', disk, d)
      PROVE  DiskInv'
  <2>1. \A e \in Docs \ {d} : tracked'[e] = tracked[e]
    BY <1>2 DEF OnlyTracks
  <2>2. ASSUME NEW e \in Files \ (open' \cup Excluded), mounted[e] = None,
               Unreported(reports, e)
        PROVE  OnDisk(tracked', disk, e)
    BY <1>1, <1>2, <2>1, <2>2 DEF DiskInv, OnDisk
  <2>. QED
    BY <1>2, <2>2 DEF DiskInv
<1>3. ASSUME NEW d \in Docs, NEW v \in Versions, NEW t \in Texts,
             DidOpen(d, t, v)
      PROVE  DiskInv'
  BY <1>2, <1>3, KeepEffect, BecomeUpsert DEF DidOpen
<1>4. ASSUME NEW d \in Docs, NEW v \in Versions, NEW t \in Texts \cup {None},
             DidChange(d, t, v)
      PROVE  DiskInv'
  BY <1>2, <1>4, KeepEffect, BecomeUpsert DEF DidChange
<1>5. ASSUME NEW d \in Docs, DidClose(d) PROVE DiskInv'
  <2>1. OnlyTracks(d) /\ open' = open \ {d} /\ UNCHANGED <<disk, reports, mounted>>
    BY <1>5, CloseEffect DEF DidClose, ForgetEditor
  <2>2. d \in Files => ~ArchiveMember(d)
    BY <1>1 DEF ArchiveMember, ArchiveInv
  <2>3. d \in Files => OnDisk(tracked', disk, d)
    BY <1>5, <2>2, CloseEffect, SourceIsNotNone DEF DidClose, OnDisk
  <2>. QED
    BY <1>2, <2>1, <2>3
<1>6. ASSUME NEW n \in 1..Len(reports), DidChangeWatchedFiles(n)
      PROVE  DiskInv'
  BY <1>6, WatchedDisk
<1>7. ASSUME NEW S \in SUBSET Mountable, NEW g \in [S -> Texts],
             BundleSources(g)
      PROVE  DiskInv'
  <2>1. /\ \A d \in Docs \ S : tracked'[d] = tracked[d]
                               /\ mounted'[d] = mounted[d]
        /\ \A d \in S : mounted'[d] # None
    BY <1>7, MountEffect
  <2>2. UNCHANGED <<disk, reports, open>>
    BY <1>7 DEF BundleSources
  <2>. QED
    BY <1>1, <2>1, <2>2 DEF DiskInv, OnDisk
<1>8. ASSUME NEW d \in Files, NEW t \in Texts \cup {None}, ChangeDisk(d, t)
      PROVE  DiskInv'
  <2>1. /\ Len(reports) \in Nat /\ Len(reports') = Len(reports) + 1
        /\ \A i \in 1..Len(reports) : reports'[i] = reports[i]
        /\ reports'[Len(reports) + 1].doc = d
    <3>1. [doc |-> d, type |-> IF t = None THEN "deleted" ELSE "changed"]
            \in Report
      BY DEF Report
    <3>. QED
      BY <1>8, <3>1, ReportsType, AppendProperties DEF ChangeDisk
  <2>2. \A e \in Files \ {d} : disk'[e] = disk[e]
    BY <1>8 DEF ChangeDisk, TypeOK
  <2>3. \A e \in Files : Unreported(reports', e) => e # d /\ Unreported(reports, e)
    <3>1. /\ Len(reports) + 1 \in 1..Len(reports')
          /\ \A i \in 1..Len(reports) : i \in 1..Len(reports')
      BY <2>1
    <3>. QED
      BY <2>1, <3>1 DEF Unreported
  <2>4. UNCHANGED <<tracked, open, mounted>>
    BY <1>8 DEF ChangeDisk, serverVars
  <2>. QED
    BY <2>2, <2>3, <2>4 DEF DiskInv, OnDisk
<1>9. CASE \/ \E d \in Urls, t \in Texts : UrlSources(d, t)
           \/ FlushDirty \/ UNCHANGED vars
  <2>1. UNCHANGED <<tracked, disk, reports, open, mounted>>
    BY <1>9 DEF UrlSources, FlushDirty, serverVars, vars
  <2>. QED
    BY <2>1 DEF DiskInv
<1>. QED
  BY <1>3, <1>4, <1>5, <1>6, <1>7, <1>8, <1>9 DEF Next, Notification

(* Once the watcher's reports about a file have arrived, in whatever       *)
(* batches, a file that is not open has the text the disk has, or is       *)
(* forgotten with it: no buffer that was closed unsaved, and no report     *)
(* that another overtook, is left for importers to see.                    *)
THEOREM DiskIsFollowed == Spec => []SettledIsDisk
<1>1. Init => LastReportTrue
  BY DEF Init, LastReportTrue
<1>2. Init => DiskInv
  <2>. SUFFICES ASSUME Init, NEW d \in Files \ Excluded PROVE OnDisk(tracked, disk, d)
    BY DEF DiskInv
  <2>1. tracked[d] = IF disk[d] # None
                       THEN [handle |-> 1, text |-> disk[d], archive |-> FALSE]
                       ELSE None
    BY DEF Init, Docs
  <2>2. disk[d] \in Texts \cup {None}
    BY DEF Init
  <2>3. disk[d] # None =>
          tracked[d] \in SourceFile /\ tracked[d].text = disk[d]
    BY <2>1, <2>2 DEF SourceFile
  <2>. QED
    BY <2>1, <2>3, SourceIsNotNone DEF OnDisk
<1>. QED
  BY <1>1, <1>2, TypeInitial, TypeInductive, ArchiveInitial, ArchiveInductive,
     LastReportInductive, DiskInductive, DiskInvMeans, PTL DEF Spec

-----------------------------------------------------------------------------
(* Diagnostics.                                                            *)

LEMMA LoadsDocs ==
  ASSUME NEW tr \in [Docs -> MaybeSource], NEW ur \in [Docs -> MaybeSource],
         NEW d \in Docs
  PROVE  LoadedBy(tr, ur, d) \subseteq Docs
<1>1. TextOf(tr, ur, d) \in Texts \cup {None}
  BY DEF TextOf, MaybeSource, SourceFile
<1>. QED
  BY <1>1, TextsAssumption DEF LoadedBy

(* The documents reachable from d are a set that contains d, is closed     *)
(* under imports, and lies in every other such set.                        *)
LEMMA BundleClosed ==
  ASSUME NEW tr \in [Docs -> MaybeSource], NEW ur \in [Docs -> MaybeSource],
         NEW d \in Docs
  PROVE  /\ d \in ImportBundle(tr, ur, d) /\ ImportBundle(tr, ur, d) \subseteq Docs
         /\ \A c \in ImportBundle(tr, ur, d) :
              LoadedBy(tr, ur, c) \subseteq ImportBundle(tr, ur, d)
         /\ \A S \in SUBSET Docs :
              (d \in S /\ \A c \in S : LoadedBy(tr, ur, c) \subseteq S) =>
                ImportBundle(tr, ur, d) \subseteq S
<1>1. ASSUME NEW c \in ImportBundle(tr, ur, d), NEW e \in LoadedBy(tr, ur, c)
      PROVE  e \in ImportBundle(tr, ur, d)
  <2>1. e \in Docs
    BY <1>1, LoadsDocs DEF ImportBundle
  <2>. SUFFICES ASSUME NEW S \in SUBSET Docs, d \in S,
                       \A x \in S : LoadedBy(tr, ur, x) \subseteq S
                PROVE  e \in S
    BY <2>1 DEF ImportBundle
  <2>2. c \in S
    BY DEF ImportBundle
  <2>. QED
    BY <1>1, <2>2
<1>. QED
  BY <1>1 DEF ImportBundle

(* A document whose imports do not reach a changed one has the imports, and*)
(* the texts of them, that it had.                                         *)
LEMMA UnaffectedBundle ==
  ASSUME TypeOK, NEW d \in Docs, OnlyTracks(d), NEW e \in Docs,
         d \notin ImportBundle(tracked', fed', e)
  PROVE  /\ ImportBundle(tracked', fed', e) = ImportBundle(tracked, fed, e)
         /\ \A c \in ImportBundle(tracked, fed, e) :
              TextOf(tracked', fed', c) = TextOf(tracked, fed, c)
<1>. DEFINE old == ImportBundle(tracked, fed, e)
            new == ImportBundle(tracked', fed', e)
<1>1. /\ tracked \in [Docs -> MaybeSource] /\ fed \in [Docs -> MaybeSource]
      /\ tracked' \in [Docs -> MaybeSource] /\ fed' \in [Docs -> MaybeSource]
  BY DEF TypeOK, OnlyTracks, MaybeSource
<1>2. \A c \in Docs \ {d} : TextOf(tracked', fed', c) = TextOf(tracked, fed, c)
  BY DEF OnlyTracks, TextOf
<1>3. \A c \in Docs \ {d} : LoadedBy(tracked', fed', c) = LoadedBy(tracked, fed, c)
  BY <1>2 DEF LoadedBy
<1>4. /\ e \in old /\ old \subseteq Docs
      /\ \A c \in old : LoadedBy(tracked, fed, c) \subseteq old
      /\ \A S \in SUBSET Docs :
           (e \in S /\ \A c \in S : LoadedBy(tracked, fed, c) \subseteq S) =>
             old \subseteq S
  BY <1>1, BundleClosed
<1>5. /\ e \in new /\ new \subseteq Docs
      /\ \A c \in new : LoadedBy(tracked', fed', c) \subseteq new
      /\ \A S \in SUBSET Docs :
           (e \in S /\ \A c \in S : LoadedBy(tracked', fed', c) \subseteq S) =>
             new \subseteq S
  BY <1>1, BundleClosed
<1>. HIDE DEF old, new
<1>6. d \notin new
  BY DEF new
<1>7. old \subseteq new
  BY <1>3, <1>4, <1>5, <1>6
<1>8. new \subseteq old
  <2>1. d \notin old
    BY <1>6, <1>7
  <2>. QED
    BY <1>3, <1>4, <1>5, <2>1
<1>9. new = old /\ \A c \in old : c \in Docs \ {d}
  BY <1>4, <1>6, <1>7, <1>8
<1>10. \A c \in old : TextOf(tracked', fed', c) = TextOf(tracked, fed, c)
  BY <1>2, <1>9
<1>. QED
  BY <1>9, <1>10 DEF old, new

LEMMA UnaffectedView ==
  ASSUME TypeOK, NEW d \in Docs, OnlyTracks(d), NEW e \in Docs \ {d},
         d \notin ImportBundle(tracked', fed', e), versions'[e] = versions[e]
  PROVE  Current(e)' = Current(e)
<1>1. /\ ImportBundle(tracked', fed', e) = ImportBundle(tracked, fed, e)
      /\ \A c \in ImportBundle(tracked, fed, e) :
           TextOf(tracked', fed', c) = TextOf(tracked, fed, c)
  BY UnaffectedBundle
<1>. QED
  BY <1>1 DEF Current, View

LEMMA StaleInductive == TypeOK /\ StaleIsDirty /\ [Next]_vars => StaleIsDirty'
<1>. SUFFICES ASSUME TypeOK, StaleIsDirty, [Next]_vars PROVE StaleIsDirty'
  OBVIOUS
<1>1. CASE MarkAll
  BY <1>1 DEF MarkAll, StaleIsDirty
<1>2. ASSUME NEW d \in Docs, NEW v \in Versions, NEW t \in Texts \cup {None},
             DidChange(d, t, v)
      PROVE  StaleIsDirty'
  <2>1. OnlyTracks(d) /\ (t = None => tracked' = tracked)
        /\ (tracked'[d] = None => t = None)
    BY <1>2, KeepEffect, BecomeUpsert, SourceIsNotNone DEF DidChange
  <2>2. /\ shown' = shown /\ \A e \in Docs \ {d} : versions'[e] = versions[e]
        /\ \/ tracked'[d] # None /\ MarkAffected(d)
           \/ tracked'[d] = None /\ UNCHANGED <<dirty, armed>>
    BY <1>2 DEF DidChange, TypeOK
  <2>. SUFFICES ASSUME NEW e \in Tracked(tracked'), shown'[e] # Current(e)'
                PROVE  e \in dirty' /\ armed'
    BY DEF StaleIsDirty
  <2>3. e \in Docs /\ tracked'[e] # None
    BY DEF Tracked
  <2>4. CASE tracked'[d] # None /\ MarkAffected(d)
    <3>1. armed' /\ dirty' = dirty \cup AffectedFiles(tracked', fed', d)
      BY <2>4 DEF MarkAffected
    <3>2. CASE d \in ImportBundle(tracked', fed', e)
      BY <2>3, <3>1, <3>2 DEF AffectedFiles
    <3>3. CASE d \notin ImportBundle(tracked', fed', e)
      <4>1. e # d
        BY <2>1, <2>3, <3>3, BundleClosed DEF OnlyTracks, TypeOK, MaybeSource
      <4>2. Current(e)' = Current(e) /\ tracked'[e] = tracked[e]
        BY <2>1, <2>2, <2>3, <3>3, <4>1, UnaffectedView DEF OnlyTracks
      <4>. QED
        BY <2>2, <2>3, <3>1, <4>2 DEF StaleIsDirty, Tracked
    <3>. QED
      BY <3>2, <3>3
  <2>5. CASE tracked'[d] = None /\ UNCHANGED <<dirty, armed>>
    <3>1. tracked' = tracked /\ fed' = fed /\ e # d
      BY <2>1, <2>3, <2>5 DEF OnlyTracks
    <3>2. Current(e)' = Current(e)
      BY <2>2, <2>3, <3>1 DEF Current, View
    <3>. QED
      BY <2>2, <2>5, <3>1, <3>2 DEF StaleIsDirty
  <2>. QED
    BY <2>2, <2>4, <2>5
<1>3. CASE FlushDirty
  <2>1. /\ UNCHANGED <<tracked, fed, versions>>
        /\ \A d \in Docs : shown'[d] = IF d \in dirty \cap Tracked(tracked)
                                         THEN Current(d) ELSE shown[d]
    BY <1>3 DEF FlushDirty
  <2>2. \A d \in Tracked(tracked) : d \in Docs /\ Current(d)' = Current(d)
    BY <2>1 DEF Tracked, Current
  <2>3. \A d \in Tracked(tracked) : shown'[d] = Current(d)
    BY <2>1, <2>2 DEF StaleIsDirty
  <2>. QED
    BY <2>1, <2>2, <2>3 DEF StaleIsDirty
<1>4. CASE UNCHANGED <<tracked, fed, versions, shown, dirty, armed>>
  BY <1>4 DEF StaleIsDirty, Current
<1>5. ASSUME NEW d \in Files, NEW t \in Texts \cup {None}, ChangeDisk(d, t)
      PROVE  StaleIsDirty'
  BY <1>4, <1>5 DEF ChangeDisk, serverVars
<1>6. CASE UNCHANGED vars
  BY <1>4, <1>6 DEF vars, serverVars
<1>. QED
  BY <1>1, <1>2, <1>3, <1>5, <1>6 DEF Next, Notification, DidOpen, DidClose,
     DidChangeWatchedFiles, BundleSources, UrlSources

(* A stale diagnostic is never left on the screen: whenever what the client*)
(* shows of a tracked document differs from what its present text, imports *)
(* and version give, it is dirty and the debounce is running.  The point   *)
(* is `affected_files`: a document not marked by an edit has the imports,  *)
(* through any number of files, and the texts of them, that it had.        *)
THEOREM StaleDiagnosticsAreDue == Spec => []StaleIsDirty
<1>1. Init => StaleIsDirty
  BY DEF Init, StaleIsDirty, Tracked
<1>. QED
  BY <1>1, TypeInitial, TypeInductive, StaleInductive, PTL DEF Spec
=============================================================================
