---------------------------- MODULE UrlCacheProofs ----------------------------
(***************************************************************************)
(* Proofs about UrlCache, for any number of processes, any web and any     *)
(* bound on redirects: an object always has its metadata, no request is    *)
(* made without consent, and what a successful `prepare` walked is cached. *)
(***************************************************************************)
EXTENDS UrlCache, TLAPS

(* The places at which a process is working on run[p].url.                 *)
Resolving == {"alone", "lookup", "hop", "ask", "mark", "fetch", "store", "read"}

(* The places between the offline check and the end of the download.       *)
Online == {"hop", "ask", "mark", "fetch", "store"}

Working(r) == r.pc \in Resolving \/ (r.pc = "prompt" /\ r.then = "lookup")

(* What a process has in hand at each place.                               *)
InHand(r) ==
  /\ r.pc # "idle" => r.mode \in Modes
  /\ Working(r) => r.url \in Urls
  /\ r.pc \in Online \ {"store"} => r.current \in Urls
  /\ r.pc \in Online => ~r.mode.offline
  /\ r.pc = "store" => r.body \in Contents
  /\ r.pc = "store" /\ r.written = 1 => metas[r.url] # None
  /\ r.pc # "store" => r.written = 0
  /\ r.pc = "read" => objects[r.url] # None

(* Nobody is asked without consent: what a process was told, what the      *)
(* markers record, and what a process about to send a request relies on.   *)
Agreed(r) ==
  /\ r.approved \subseteq consents
  /\ r.prompted \subseteq r.approved
  /\ r.need \cap r.approved = {}
  /\ r.pc \notin {"wave", "alone", "prompt"} => r.need = {}
  /\ r.pc = "mark" => r.current \in r.approved
  /\ r.pc = "fetch" => r.mode.trustAll \/ r.current \in markers

(* The walk: what was resolved is cached, and what the texts read so far   *)
(* load is resolved or waits in a level to come.                           *)
Waiting(r) == r.level \cup r.next \cup r.walked

Walk(r) ==
  r.pc # "idle" =>
    /\ \A u \in r.walked :
         objects[u] # None \/ (Working(r) /\ u = r.url)
    /\ Roots \subseteq Waiting(r)
    /\ \A c \in r.readTexts : Imports[c] \subseteq Waiting(r)
    /\ \A c \in r.readTexts :
         DataOf[c] \subseteq (IF r.phase = "modules" THEN r.data ELSE Waiting(r))

(* What a process that came to a good end has left behind.                 *)
Done(r) ==
  r.outcome = "ok" =>
    /\ r.pc = "idle"
    /\ \A u \in Roots \cup UNION {Imports[c] \cup DataOf[c] : c \in r.readTexts} :
         objects[u] # None

RunInv(r) == InHand(r) /\ Agreed(r) /\ Walk(r) /\ Done(r)

FileInv ==
  /\ objects \in [Urls -> Contents \cup {None}]
  /\ metas \in [Urls -> Contents \cup {None}]
  /\ markers \subseteq Urls /\ consents \subseteq Urls
  /\ contacted \subseteq [url : Urls, mode : Modes]
  /\ runs \in 0..MaxRuns
  /\ ObjectHasMeta
  /\ Consent
  /\ markers \subseteq consents

IInv ==
  /\ FileInv
  /\ run \in [Procs -> RunType]
  /\ \A p \in Procs : RunInv(run[p])

(* The cache and the consents only grow.                                   *)
Grow ==
  /\ \A u \in Urls : objects[u] # None => objects'[u] # None
  /\ \A u \in Urls : metas[u] # None => metas'[u] # None
  /\ markers \subseteq markers' /\ consents \subseteq consents'

-----------------------------------------------------------------------------
(* A process keeps its invariant while the cache grows.                    *)
LEMMA Kept ==
  ASSUME Grow, NEW r \in RunType, RunInv(r)
  PROVE  RunInv(r)'
<1>1. InHand(r)' BY DEF Grow, RunInv, InHand, Working, Online, Resolving
<1>2. Agreed(r)' BY DEF Grow, RunInv, Agreed
<1>3. Walk(r)'
  BY DEF Grow, RunInv, Walk, Working, Resolving, Waiting, RunType
<1>4. Done(r)'
  <2>1. ASSUME NEW u \in Urls, objects[u] # None PROVE objects'[u] # None
    BY <2>1 DEF Grow
  <2>2. \A c \in r.readTexts : Imports[c] \cup DataOf[c] \subseteq Urls
    BY ConstantsAssumption DEF RunType
  <2>3. Roots \subseteq Urls BY ConstantsAssumption
  <2>. QED BY <2>1, <2>2, <2>3 DEF RunInv, Done
<1>. QED BY <1>1, <1>2, <1>3, <1>4 DEF RunInv

(* It is enough to look at the process that moves.                         *)
LEMMA OneMoves ==
  ASSUME IInv, Grow, FileInv', NEW p \in Procs, NEW r \in RunType,
         Become(p, r), RunInv(r)'
  PROVE  IInv'
<1>1. run' \in [Procs -> RunType] BY DEF IInv, Become
<1>2. ASSUME NEW q \in Procs PROVE RunInv(run[q])'
  <2>1. CASE q = p
    <3>1. run'[q] = r BY <2>1 DEF IInv, Become
    <3>. QED BY <3>1 DEF RunInv, InHand, Agreed, Walk, Done, Working, Waiting
  <2>2. CASE q # p
    <3>1. run'[q] = run[q] BY <2>2 DEF IInv, Become
    <3>2. \A s \in RunType : RunInv(s) => RunInv(s)' BY Kept
    <3>3. RunInv(run[q]) /\ run[q] \in RunType BY DEF IInv
    <3>. QED BY <3>1, <3>2, <3>3 DEF RunInv, InHand, Agreed, Walk, Done, Working, Waiting
  <2>. QED BY <2>1, <2>2
<1>. QED BY <1>1, <1>2 DEF IInv

LEMMA Advance ==
  ASSUME IInv, Grow, FileInv', NEW p \in Procs, NEW r \in RunType,
         Become(p, r), RunInv(r)
  PROVE  IInv'
<1>. RunInv(r)' BY Kept
<1>. QED BY OneMoves

(* A process that ended without success has nothing to keep.               *)
LEMMA Ended ==
  ASSUME NEW o \in {None, "failed", "killed"}
  PROVE  Idle(o) \in RunType /\ RunInv(Idle(o)) /\ RunInv(Idle(o))'
<1>1. o # "ok" BY ConstantsAssumption
<1>2. Idle(o) \in RunType BY DEF Idle, Process, RunType, Places
<1>3. /\ Idle(o).pc = "idle" /\ Idle(o).outcome = o /\ Idle(o).approved = {}
      /\ Idle(o).then = "pick" /\ Idle(o).written = 0 /\ Idle(o).prompted = {}
      /\ Idle(o).need = {}
  BY DEF Idle, Process
<1>. QED
  BY <1>1, <1>2, <1>3 DEF RunInv, InHand, Agreed, Walk, Done, Working, Resolving,
     Online

(* The steps that leave the files alone.                                   *)
LEMMA FilesKept ==
  ASSUME FileInv, UNCHANGED <<files, runs, consents, contacted>>
  PROVE  FileInv' /\ Grow
  BY DEF FileInv, Grow, files, ObjectHasMeta, Consent

LEMMA FailKeeps ==
  ASSUME IInv, Grow, FileInv', NEW p \in Procs, Fail(p)
  PROVE  IInv'
<1>. Idle("failed") \in RunType /\ RunInv(Idle("failed"))' BY Ended
<1>. QED BY OneMoves DEF Fail

-----------------------------------------------------------------------------
(* The steps of the walk.                                                  *)
LEMMA StartKeeps ==
  ASSUME IInv, NEW p \in Procs, NEW m \in Modes, Start(p, m)
  PROVE  IInv'
<1>1. FileInv' /\ Grow
  BY ConstantsAssumption
  DEF IInv, FileInv, Start, Grow, files, ObjectHasMeta, Consent
<1>2. Fresh(m) \in RunType
  BY ConstantsAssumption DEF Fresh, Process, RunType, Places
<1>3. RunInv(Fresh(m))'
  BY ConstantsAssumption
  DEF RunInv, InHand, Agreed, Walk, Done, Working, Waiting, Resolving, Online, Fresh,
      Process
<1>. QED BY <1>1, <1>2, <1>3, OneMoves DEF Start

LEMMA CheckTrustKeeps ==
  ASSUME IInv, NEW p \in Procs, CheckTrust(p)
  PROVE  IInv'
<1>. DEFINE r == run[p]
            needs(u) == u \notin r.approved /\ NeedsApproval(r.mode, u)
            looked(u) == [r EXCEPT !.checked = @ \cup {u},
                                   !.need = @ \cup {v \in {u} : needs(v)}]
<1>1. FileInv' /\ Grow BY FilesKept DEF IInv, CheckTrust
<1>2. r \in RunType /\ RunInv(r) BY DEF IInv
<1>3. r.pc \in {"wave", "alone"} BY DEF CheckTrust
<1>4. PICK u \in Locations(r) : Become(p, looked(u)) BY DEF CheckTrust
<1>5. u \in Urls
  BY <1>2, <1>3 DEF Locations, RunType, RunInv, InHand, Working, Resolving
<1>6. PICK s : s = {v \in {u} : needs(v)} OBVIOUS
<1>7. s \subseteq Urls /\ s \cap r.approved = {} BY <1>5, <1>6
<1>. DEFINE q == [r EXCEPT !.checked = @ \cup {u}, !.need = @ \cup s]
<1>8. Become(p, q) BY <1>4, <1>6
<1>9. q \in RunType BY <1>2, <1>5, <1>7 DEF RunType
<1>10. RunInv(q)
  BY <1>2, <1>3, <1>7 DEF RunType, RunInv, InHand, Agreed, Walk, Done, Working,
     Waiting, Resolving, Online
<1>. QED BY <1>1, <1>8, <1>9, <1>10, Advance

LEMMA EnsureTrustedKeeps ==
  ASSUME IInv, NEW p \in Procs, EnsureTrusted(p)
  PROVE  IInv'
<1>1. PICK r \in RunType : r = run[p] /\ RunInv(r) BY DEF IInv
<1>2. FileInv' /\ Grow BY FilesKept DEF IInv, EnsureTrusted
<1>3. PICK t : t = IF r.pc = "wave" THEN "pick" ELSE "lookup" OBVIOUS
<1>. DEFINE went == [r EXCEPT !.checked = {}, !.pc = t]
            asks == [r EXCEPT !.checked = {}, !.pc = "prompt", !.then = t]
<1>4. /\ r.pc \in {"wave", "alone"}
      /\ \/ r.need = {} /\ Become(p, went)
         \/ Fail(p)
         \/ Become(p, asks)
  BY <1>1, <1>3 DEF EnsureTrusted, RunType
<1>5. t \in {"pick", "lookup"} BY <1>3
<1>6. CASE r.need = {} /\ Become(p, went)
  <2>1. went \in RunType BY <1>5 DEF RunType, Places
  <2>2. RunInv(went)
    BY <1>1, <1>3, <1>4, <1>6 DEF RunType, RunInv, InHand, Agreed, Walk, Done,
       Working, Waiting, Resolving, Online
  <2>. QED BY <1>2, <1>6, <2>1, <2>2, Advance
<1>7. CASE Become(p, asks)
  <2>1. asks \in RunType BY <1>5 DEF RunType, Places
  <2>2. RunInv(asks)
    BY <1>1, <1>3, <1>4 DEF RunType, RunInv, InHand, Agreed, Walk, Done, Working,
       Waiting, Resolving, Online
  <2>. QED BY <1>2, <1>7, <2>1, <2>2, Advance
<1>8. CASE Fail(p) BY <1>2, <1>8, FailKeeps
<1>. QED BY <1>4, <1>6, <1>7, <1>8

LEMMA AnswerPromptKeeps ==
  ASSUME IInv, NEW p \in Procs, AnswerPrompt(p)
  PROVE  IInv'
<1>1. PICK r \in RunType : r = run[p] /\ RunInv(r) BY DEF IInv
<1>2. r.pc = "prompt" BY <1>1 DEF AnswerPrompt, At
<1>. DEFINE s == Approve(r)
<1>3. CASE Become(p, Approve(run[p])) /\ consents' = consents \cup run[p].need
  <2>1. FileInv' /\ Grow
    BY <1>1, <1>3 DEF IInv, FileInv, AnswerPrompt, files, Grow, ObjectHasMeta,
       Consent, RunType
  <2>2. s \in RunType BY <1>2 DEF Approve, RunType, Places
  <2>3. RunInv(r)' BY <1>1, <2>1, Kept
  <2>4. RunInv(s)'
    BY <1>1, <1>2, <1>3, <2>3 DEF Approve, RunType, RunInv, InHand, Agreed, Walk,
       Done, Working, Waiting, Resolving, Online
  <2>. QED BY <1>1, <1>3, <2>1, <2>2, <2>4, OneMoves
<1>4. CASE Fail(p) /\ UNCHANGED consents
  BY <1>4, FilesKept, FailKeeps DEF IInv, AnswerPrompt
<1>. QED BY <1>3, <1>4 DEF AnswerPrompt

LEMMA PickUrlKeeps ==
  ASSUME IInv, NEW p \in Procs, PickUrl(p)
  PROVE  IInv'
<1>1. PICK r \in RunType : r = run[p] /\ RunInv(r) BY DEF IInv
<1>2. FileInv' /\ Grow BY FilesKept DEF IInv, PickUrl
<1>3. PICK u \in r.level :
        LET q == [r EXCEPT !.level = @ \ {u}] IN
        Become(p, IF q.phase = "modules" /\ u \in q.walked THEN q
                  ELSE [q EXCEPT !.url = u, !.pc = "alone",
                                 !.walked = @ \cup {u}])
  BY <1>1 DEF PickUrl
<1>. DEFINE q == [r EXCEPT !.level = @ \ {u}]
            s == [q EXCEPT !.url = u, !.pc = "alone", !.walked = @ \cup {u}]
<1>4. r.pc = "pick" /\ u \in Urls BY <1>1 DEF PickUrl, At, RunType
<1>5. CASE r.phase = "modules" /\ u \in r.walked
  <2>1. q \in RunType BY DEF RunType
  <2>2. RunInv(q)
    BY <1>1, <1>4, <1>5 DEF RunType, RunInv, InHand, Agreed, Walk, Done, Working,
       Waiting, Resolving, Online
  <2>3. Become(p, q) BY <1>3, <1>5 DEF RunType
  <2>. QED BY <1>2, <2>1, <2>2, <2>3, Advance
<1>6. CASE ~(r.phase = "modules" /\ u \in r.walked)
  <2>1. s \in RunType BY <1>4 DEF RunType, Places
  <2>2. RunInv(s)
    BY <1>1, <1>4 DEF RunType, RunInv, InHand, Agreed, Walk, Done, Working,
       Waiting, Resolving, Online
  <2>3. Become(p, s) BY <1>3, <1>6 DEF RunType
  <2>. QED BY <1>2, <2>1, <2>2, <2>3, Advance
<1>. QED BY <1>5, <1>6

LEMMA NextLevelKeeps ==
  ASSUME IInv, NEW p \in Procs, NextLevel(p)
  PROVE  IInv'
<1>1. PICK r \in RunType : r = run[p] /\ RunInv(r) BY DEF IInv
<1>2. FileInv' /\ Grow BY FilesKept DEF IInv, NextLevel
<1>3. r.pc = "pick" /\ r.level = {} BY <1>1 DEF NextLevel, At
<1>. DEFINE deeper == [r EXCEPT !.level = r.next, !.next = {}, !.pc = "wave"]
            toData == [r EXCEPT !.level = r.data, !.phase = "data", !.pc = "wave"]
            done == [Idle("ok") EXCEPT !.readTexts = r.readTexts]
<1>4. CASE r.next # {} /\ Become(p, deeper)
  <2>1. deeper \in RunType BY DEF RunType, Places
  <2>2. RunInv(deeper)
    BY <1>1, <1>3 DEF RunType, RunInv, InHand, Agreed, Walk, Done, Working,
       Waiting, Resolving, Online
  <2>. QED BY <1>2, <1>4, <2>1, <2>2, Advance
<1>5. CASE r.next = {} /\ r.phase = "modules" /\ Become(p, toData)
  <2>1. toData \in RunType BY DEF RunType, Places
  <2>2. RunInv(toData)
    BY <1>1, <1>3, <1>5 DEF RunType, RunInv, InHand, Agreed, Walk, Done, Working,
       Waiting, Resolving, Online
  <2>. QED BY <1>2, <1>5, <2>1, <2>2, Advance
<1>6. CASE r.next = {} /\ r.phase = "data" /\ Become(p, done)
  <2>1. done \in RunType BY DEF Idle, Process, RunType, Places
  <2>2. \A u \in r.walked : objects[u] # None
    BY <1>1, <1>3 DEF RunInv, Walk, Working, Resolving
  <2>3. /\ Roots \subseteq r.walked
        /\ \A c \in r.readTexts : Imports[c] \cup DataOf[c] \subseteq r.walked
    BY <1>1, <1>3, <1>6 DEF RunInv, Walk, Waiting
  <2>4. /\ done.pc = "idle" /\ done.readTexts = r.readTexts
        /\ done.approved = {} /\ done.then = "pick" /\ done.written = 0
        /\ done.prompted = {} /\ done.need = {}
    BY DEF Idle, Process
  <2>. HIDE DEF done
  <2>5. RunInv(done)
    BY <2>2, <2>3, <2>4 DEF RunInv, InHand, Agreed, Walk, Done, Working, Resolving,
       Online
  <2>6. Become(p, done) BY <1>6
  <2>. QED BY <1>2, <2>1, <2>5, <2>6, Advance
<1>. QED BY <1>1, <1>4, <1>5, <1>6 DEF NextLevel

-----------------------------------------------------------------------------
(* The steps that resolve one URL.                                         *)
LEMMA LookupKeeps ==
  ASSUME IInv, NEW p \in Procs, Lookup(p)
  PROVE  IInv'
<1>1. PICK r \in RunType : r = run[p] /\ RunInv(r) BY DEF IInv
<1>2. FileInv' /\ Grow BY FilesKept DEF IInv, Lookup
<1>3. r.pc = "lookup" /\ r.url \in Urls
  BY <1>1 DEF Lookup, At, RunInv, InHand, Working, Resolving
<1>. DEFINE hit == [r EXCEPT !.pc = "read"]
            miss == [r EXCEPT !.pc = "hop", !.hops = 0, !.current = r.url]
<1>4. CASE objects[r.url] # None /\ Become(p, hit)
  <2>1. hit \in RunType BY DEF RunType, Places
  <2>2. RunInv(hit) BY <1>1, <1>3, <1>4 DEF RunType, RunInv, InHand, Agreed, Walk, Done,
       Working, Waiting, Resolving, Online
  <2>. QED BY <1>2, <1>4, <2>1, <2>2, Advance
<1>5. CASE ~r.mode.offline /\ Become(p, miss)
  <2>1. miss \in RunType BY <1>3 DEF RunType, Places
  <2>2. RunInv(miss) BY <1>1, <1>3, <1>5 DEF RunType, RunInv, InHand, Agreed, Walk, Done,
       Working, Waiting, Resolving, Online
  <2>. QED BY <1>2, <1>5, <2>1, <2>2, Advance
<1>6. CASE Fail(p) BY <1>2, <1>6, FailKeeps
<1>. QED BY <1>1, <1>4, <1>5, <1>6 DEF Lookup, Goto

LEMMA HopKeeps ==
  ASSUME IInv, NEW p \in Procs, Hop(p)
  PROVE  IInv'
<1>1. PICK r \in RunType : r = run[p] /\ RunInv(r) BY DEF IInv
<1>2. FileInv' /\ Grow BY FilesKept DEF IInv, Hop
<1>3. r.pc = "hop" BY <1>1 DEF Hop, At
<1>. DEFINE go == [r EXCEPT !.pc = "fetch"]
            askFirst == [r EXCEPT !.pc = "ask"]
<1>4. CASE (r.mode.trustAll \/ r.current \in markers) /\ Become(p, go)
  <2>1. go \in RunType BY DEF RunType, Places
  <2>2. RunInv(go) BY <1>1, <1>3, <1>4 DEF RunType, RunInv, InHand, Agreed, Walk, Done,
       Working, Waiting, Resolving, Online
  <2>. QED BY <1>2, <1>4, <2>1, <2>2, Advance
<1>5. CASE Become(p, askFirst)
  <2>1. askFirst \in RunType BY DEF RunType, Places
  <2>2. RunInv(askFirst) BY <1>1, <1>3 DEF RunType, RunInv, InHand, Agreed, Walk, Done,
       Working, Waiting, Resolving, Online
  <2>. QED BY <1>2, <1>5, <2>1, <2>2, Advance
<1>6. CASE Fail(p) BY <1>2, <1>6, FailKeeps
<1>. QED BY <1>1, <1>4, <1>5, <1>6 DEF Hop, Goto, Trusted

LEMMA AskKeeps ==
  ASSUME IInv, NEW p \in Procs, Ask(p)
  PROVE  IInv'
<1>1. PICK r \in RunType : r = run[p] /\ RunInv(r) BY DEF IInv
<1>2. r.pc = "ask" /\ r.current \in Urls
  BY <1>1 DEF Ask, At, RunInv, InHand, Online
<1>. DEFINE known == [r EXCEPT !.pc = "mark"]
            told == [r EXCEPT !.pc = "mark", !.approved = @ \cup {r.current},
                              !.prompted = @ \cup {r.current}]
<1>3. CASE r.current \in r.approved /\ Become(p, known) /\ UNCHANGED consents
  <2>1. FileInv' /\ Grow BY <1>3, FilesKept DEF IInv, Ask
  <2>2. known \in RunType BY DEF RunType, Places
  <2>3. RunInv(known) BY <1>1, <1>2, <1>3 DEF RunType, RunInv, InHand, Agreed, Walk, Done,
       Working, Waiting, Resolving, Online
  <2>. QED BY <1>3, <2>1, <2>2, <2>3, Advance
<1>4. CASE Become(p, told) /\ consents' = consents \cup {r.current}
  <2>1. FileInv' /\ Grow
    BY <1>2, <1>4 DEF IInv, FileInv, Ask, files, Grow, ObjectHasMeta, Consent
  <2>2. told \in RunType BY <1>2 DEF RunType, Places
  <2>3. RunInv(r)' BY <1>1, <2>1, Kept
  <2>4. RunInv(told)' BY <1>2, <1>4, <2>3 DEF RunType, RunInv, InHand, Agreed, Walk, Done,
       Working, Waiting, Resolving, Online
  <2>. QED BY <1>4, <2>1, <2>2, <2>4, OneMoves
<1>5. CASE Fail(p) /\ UNCHANGED consents
  BY <1>5, FilesKept, FailKeeps DEF IInv, Ask
<1>. QED BY <1>1, <1>3, <1>4, <1>5 DEF Ask, Goto

LEMMA MarkKeeps ==
  ASSUME IInv, NEW p \in Procs, Mark(p)
  PROVE  IInv'
<1>1. PICK r \in RunType : r = run[p] /\ RunInv(r) BY DEF IInv
<1>2. r.pc = "mark" /\ r.current \in Urls /\ r.current \in consents
  BY <1>1 DEF Mark, At, RunInv, InHand, Agreed, Online
<1>. DEFINE go == [r EXCEPT !.pc = "fetch"]
<1>3. CASE markers' = markers \cup {r.current} /\ Become(p, go)
  <2>1. FileInv' /\ Grow
    BY <1>2, <1>3 DEF IInv, FileInv, Mark, Grow, ObjectHasMeta, Consent
  <2>2. go \in RunType BY DEF RunType, Places
  <2>3. RunInv(r)' BY <1>1, <2>1, Kept
  <2>4. RunInv(go)' BY <1>2, <1>3, <2>3 DEF RunType, RunInv, InHand, Agreed, Walk, Done,
       Working, Waiting, Resolving, Online
  <2>. QED BY <1>3, <2>1, <2>2, <2>4, OneMoves
<1>4. CASE Fail(p) /\ UNCHANGED markers
  BY <1>4, FilesKept, FailKeeps DEF IInv, Mark, files
<1>. QED BY <1>1, <1>3, <1>4 DEF Mark, Goto

LEMMA FetchKeeps ==
  ASSUME IInv, NEW p \in Procs, Fetch(p)
  PROVE  IInv'
<1>1. PICK r \in RunType : r = run[p] /\ RunInv(r) BY DEF IInv
<1>2. /\ r.pc = "fetch" /\ r.current \in Urls /\ r.mode \in Modes
      /\ ~r.mode.offline
      /\ r.mode.trustAll \/ r.current \in markers
  BY <1>1 DEF Fetch, At, RunInv, InHand, Agreed, Online
<1>3. FileInv' /\ Grow
  <2>1. contacted' = contacted \cup {[url |-> r.current, mode |-> r.mode]}
    BY <1>1 DEF Fetch
  <2>2. contacted' \subseteq [url : Urls, mode : Modes]
    BY <1>2, <2>1 DEF IInv, FileInv
  <2>3. Consent' BY <1>2, <2>1 DEF IInv, FileInv, Fetch, Consent
  <2>. QED BY <2>2, <2>3 DEF IInv, FileInv, Fetch, files, Grow, ObjectHasMeta
<1>4. PICK a \in Web[r.current] :
        \/ /\ a.kind = "content"
           /\ Become(p, [r EXCEPT !.pc = "store", !.body = a.body])
        \/ /\ a.kind = "redirect"
           /\ Become(p, [r EXCEPT !.pc = "hop", !.current = a.to,
                                  !.hops = CountHop(@)])
        \/ a.kind = "failure" /\ Fail(p)
  BY <1>1 DEF Fetch
<1>5. a \in Answer BY <1>2, ConstantsAssumption
<1>. DEFINE got == [r EXCEPT !.pc = "store", !.body = a.body]
            sent == [r EXCEPT !.pc = "hop", !.current = a.to, !.hops = CountHop(@)]
<1>6. CASE a.kind = "content" /\ Become(p, got)
  <2>1. a.body \in Contents BY <1>5, <1>6 DEF Answer
  <2>2. got \in RunType BY <2>1 DEF RunType, Places
  <2>3. RunInv(got) BY <1>1, <1>2, <2>1 DEF RunType, RunInv, InHand, Agreed, Walk, Done,
       Working, Waiting, Resolving, Online
  <2>. QED BY <1>3, <1>6, <2>2, <2>3, Advance
<1>7. CASE a.kind = "redirect" /\ Become(p, sent)
  <2>1. a.to \in Urls BY <1>5, <1>7 DEF Answer
  <2>2. sent \in RunType
    <3>1. r.hops + 1 \in Nat BY DEF RunType
    <3>2. \A h \in Nat : [r EXCEPT !.pc = "hop", !.current = a.to, !.hops = h]
                         \in RunType
      BY <2>1 DEF RunType, Places
    <3>. QED BY <3>1, <3>2 DEF CountHop
  <2>3. RunInv(sent) BY <1>1, <1>2, <2>1 DEF RunType, RunInv, InHand, Agreed, Walk, Done,
       Working, Waiting, Resolving, Online
  <2>. QED BY <1>3, <1>7, <2>2, <2>3, Advance
<1>8. CASE Fail(p) BY <1>3, <1>8, FailKeeps
<1>. QED BY <1>4, <1>6, <1>7, <1>8

LEMMA CreateTmpKeeps ==
  ASSUME IInv, NEW p \in Procs, CreateTmp(p)
  PROVE  IInv'
<1>1. PICK r \in RunType : r = run[p] /\ RunInv(r) BY DEF IInv
<1>2. FileInv' /\ Grow BY FilesKept DEF IInv, CreateTmp
<1>. DEFINE s == [r EXCEPT !.tmp = Partial]
<1>3. s \in RunType BY DEF RunType
<1>4. RunInv(s)
  BY <1>1 DEF RunType, RunInv, InHand, Agreed, Walk, Done, Working, Waiting,
     Resolving, Online
<1>. QED BY <1>1, <1>2, <1>3, <1>4, Advance DEF CreateTmp

LEMMA PublishKeeps ==
  ASSUME IInv, NEW p \in Procs, Publish(p)
  PROVE  IInv'
<1>1. PICK r \in RunType : r = run[p] /\ RunInv(r) BY DEF IInv
<1>2. /\ r.pc = "store" /\ r.url \in Urls
      /\ r.body \in Contents /\ r.body # None
  BY <1>1, ConstantsAssumption
  DEF Publish, At, RunInv, InHand, Working, Resolving
<1>. DEFINE halfway == [r EXCEPT !.tmp = None, !.written = 1]
            stored == [r EXCEPT !.tmp = None, !.written = 0, !.body = None,
                                !.current = None, !.hops = 0, !.pc = "read"]
<1>3. CASE r.written = 0
  <2>1. /\ metas' = [metas EXCEPT ![r.url] = r.body] /\ UNCHANGED objects
        /\ Become(p, halfway)
    BY <1>1, <1>3 DEF Publish, WriteOrder
  <2>2. FileInv' /\ Grow
    BY <1>2, <2>1 DEF IInv, FileInv, Publish, Grow, ObjectHasMeta, Consent
  <2>3. halfway \in RunType BY <1>2 DEF RunType
  <2>4. RunInv(r)' BY <1>1, <2>2, Kept
  <2>5. metas'[r.url] # None BY <1>2, <2>1 DEF IInv, FileInv
  <2>6. RunInv(halfway)'
    BY <1>2, <2>4, <2>5 DEF RunType, RunInv, InHand, Agreed, Walk, Done, Working,
       Waiting, Resolving, Online
  <2>. QED BY <2>1, <2>2, <2>3, <2>6, OneMoves
<1>4. CASE r.written = 1
  <2>1. /\ objects' = [objects EXCEPT ![r.url] = r.body] /\ UNCHANGED metas
        /\ Become(p, stored)
    BY <1>1, <1>4 DEF Publish, WriteOrder
  <2>2. metas[r.url] # None BY <1>1, <1>2, <1>4 DEF RunInv, InHand
  <2>3. FileInv' /\ Grow
    BY <1>2, <2>1, <2>2
    DEF IInv, FileInv, Publish, Grow, ObjectHasMeta, Consent
  <2>4. stored \in RunType BY DEF RunType, Places
  <2>5. RunInv(r)' BY <1>1, <2>3, Kept
  <2>6. objects'[r.url] # None BY <1>2, <2>1 DEF IInv, FileInv
  <2>7. RunInv(stored)'
    BY <1>2, <2>5, <2>6 DEF RunType, RunInv, InHand, Agreed, Walk, Done, Working,
       Waiting, Resolving, Online
  <2>. QED BY <2>1, <2>3, <2>4, <2>7, OneMoves
<1>. QED BY <1>3, <1>4 DEF RunType

LEMMA ReadKeeps ==
  ASSUME IInv, NEW p \in Procs, Read(p)
  PROVE  IInv'
<1>1. PICK r \in RunType : r = run[p] /\ RunInv(r) BY DEF IInv
<1>2. FileInv' /\ Grow BY FilesKept DEF IInv, Read
<1>3. PICK text : text = objects[r.url] OBVIOUS
<1>4. /\ r.pc = "read" /\ text \in Contents /\ objects[r.url] # None
      /\ r.written = 0
  BY <1>1, <1>3
  DEF Read, At, RunInv, InHand, Working, Resolving, IInv, FileInv
<1>5. Imports[text] \subseteq Urls /\ DataOf[text] \subseteq Urls
  BY <1>4, ConstantsAssumption
<1>. DEFINE located == [r EXCEPT !.pc = "pick"]
            parsed == [r EXCEPT !.pc = "pick", !.next = @ \cup Imports[text],
                                !.data = DataSeen(@, text),
                                !.readTexts = @ \cup {text}]
<1>6. CASE r.phase = "data"
  <2>1. located \in RunType BY DEF RunType, Places
  <2>2. RunInv(located)
    BY <1>1, <1>4 DEF RunType, RunInv, InHand, Agreed, Walk, Done, Working,
       Waiting, Resolving, Online
  <2>3. Become(p, located) BY <1>1, <1>6 DEF Read
  <2>. QED BY <1>2, <2>1, <2>2, <2>3, Advance
<1>7. CASE r.phase = "modules"
  <2>1. parsed \in RunType
    <3>1. \A n \in SUBSET Urls, d \in SUBSET Urls, t \in SUBSET Contents :
            [r EXCEPT !.pc = "pick", !.next = n, !.data = d, !.readTexts = t]
              \in RunType
      BY DEF RunType, Places
    <3>2. /\ r.next \cup Imports[text] \in SUBSET Urls
          /\ r.data \cup DataOf[text] \in SUBSET Urls
          /\ r.readTexts \cup {text} \in SUBSET Contents
      BY <1>4, <1>5 DEF RunType
    <3>. QED BY <3>1, <3>2 DEF DataSeen
  <2>2. RunInv(parsed)
    BY <1>1, <1>4, <1>7 DEF RunType, RunInv, InHand, Agreed, Walk, Done, Working,
       Waiting, Resolving, Online, DataSeen
  <2>3. Become(p, parsed) BY <1>1, <1>3, <1>7 DEF Read
  <2>. QED BY <1>2, <2>1, <2>2, <2>3, Advance
<1>. QED BY <1>6, <1>7 DEF RunType

LEMMA CrashKeeps ==
  ASSUME IInv, NEW p \in Procs, Crash(p)
  PROVE  IInv'
<1>1. FileInv' /\ Grow BY FilesKept DEF IInv, Crash
<1>2. Idle("killed") \in RunType /\ RunInv(Idle("killed"))' BY Ended
<1>. QED BY <1>1, <1>2, OneMoves DEF Crash

-----------------------------------------------------------------------------
(* The invariant holds initially and every step keeps it.                  *)
LEMMA InitEstablishes == Init => IInv
<1>. SUFFICES ASSUME Init PROVE IInv OBVIOUS
<1>1. FileInv
  BY ConstantsAssumption DEF Init, FileInv, ObjectHasMeta, Consent
<1>2. Idle(None) \in RunType /\ RunInv(Idle(None)) BY Ended
<1>. QED BY <1>1, <1>2 DEF Init, IInv

LEMMA StepKeeps == IInv /\ [Next]_vars => IInv'
<1>. SUFFICES ASSUME IInv, [Next]_vars PROVE IInv' OBVIOUS
<1>1. CASE UNCHANGED vars
  <2>1. FileInv' /\ Grow BY <1>1, FilesKept DEF IInv, vars
  <2>2. run' = run BY <1>1 DEF vars
  <2>3. \A r \in RunType : RunInv(r) => RunInv(r)' BY <2>1, Kept
  <2>4. \A q \in Procs : RunInv(run[q])'
    BY <2>2, <2>3
    DEF IInv, RunInv, InHand, Agreed, Walk, Done, Working, Waiting
  <2>. QED BY <2>1, <2>2, <2>4 DEF IInv
<1>2. ASSUME NEW p \in Procs, NEW m \in Modes, Start(p, m) PROVE IInv'
  BY <1>2, StartKeeps
<1>3. ASSUME NEW p \in Procs, Crash(p) PROVE IInv'
  BY <1>3, CrashKeeps
<1>4. ASSUME NEW p \in Procs, WriteFails(p) PROVE IInv'
  BY <1>4, FilesKept, FailKeeps DEF IInv, WriteFails
<1>5. ASSUME NEW p \in Procs, Step(p) PROVE IInv'
  BY <1>4, <1>5, CheckTrustKeeps, EnsureTrustedKeeps, AnswerPromptKeeps, PickUrlKeeps,
     NextLevelKeeps, LookupKeeps, HopKeeps, AskKeeps, MarkKeeps, FetchKeeps,
     CreateTmpKeeps, PublishKeeps, ReadKeeps
  DEF Step
<1>. QED BY <1>1, <1>2, <1>3, <1>5 DEF Next

LEMMA Invariance == Spec => []IInv
<1>. QED BY InitEstablishes, StepKeeps, PTL DEF Spec

-----------------------------------------------------------------------------
(* The types hold; in particular no object is ever a half-written file.    *)
THEOREM TypeCorrect == Spec => []TypeOK
<1>1. IInv => TypeOK BY DEF IInv, FileInv, TypeOK
<1>. QED BY <1>1, Invariance, PTL

(* The promise of `fetch_and_store`'s write order, for any number of       *)
(* processes that overlap, fail or are killed: an object has its metadata. *)
THEOREM MetaAlways == Spec => []ObjectHasMeta
<1>1. IInv => ObjectHasMeta BY DEF IInv, FileInv
<1>. QED BY <1>1, Invariance, PTL

(* No request without consent, along redirects of any length.              *)
THEOREM AskedFirst == Spec => []Consent
<1>1. IInv => Consent BY DEF IInv, FileInv
<1>. QED BY <1>1, Invariance, PTL

(* The batch prompt, the check before each URL and the oracle never ask    *)
(* the user twice about one URL.                                           *)
THEOREM AskedOnce == Spec => []PromptedOnce
<1>1. IInv => PromptedOnce
  BY DEF IInv, RunInv, Agreed, PromptedOnce, At
<1>. QED BY <1>1, Invariance, PTL

(* A `prepare` that succeeded leaves what it walked in the cache, for any  *)
(* graph of modules and data and whatever other processes do.              *)
THEOREM PrepareCovers == Spec => []PreparedIsCached
<1>1. IInv => PreparedIsCached
  BY DEF IInv, RunInv, Done, PreparedIsCached
<1>. QED BY <1>1, Invariance, PTL
=============================================================================
