------------------------------- MODULE UrlCache -------------------------------
(***************************************************************************)
(* The shared cache of remote sources (crates/fileaccess, cache.rs) and    *)
(* the command-line processes that use it (crates/cli, resolve.rs):        *)
(* `flatppl prepare` walks a model's modules level by level, asks for      *)
(* trust, fetches and publishes; `infer` and `convert` only read.          *)
(*                                                                         *)
(* Processes share nothing but the files of the cache, run at the same     *)
(* time and may be killed between any two steps.  A step is one access to  *)
(* those files, one prompt or one request.  Files read from the local disk *)
(* and archives are left out: they never touch the cache.                  *)
(***************************************************************************)
EXTENDS Naturals, Sequences, FiniteSets

CONSTANTS
  Procs,        \* processes of the command-line tool
  Urls,         \* URLs that models load, or that a server redirects to
  Unfetchable,  \* URLs of another scheme or with userinfo
  Contents,     \* texts a server answers with, each from one fetch
  Imports,      \* Imports[c]: the modules a text loads
  DataOf,       \* DataOf[c]: the data files a text loads
  Web,          \* Web[u]: the answers a request for u may get
  Roots,        \* the URLs of the models a process is started on
  Modes,        \* the ways a process is started
  MaxHops,      \* redirects followed for one URL (10 in the code)
  Partial,      \* a file that is not completely written
  None,         \* no file, no URL, no text
  MaxRuns       \* bound: processes started in all

Mode == [offline : BOOLEAN, trustAll : BOOLEAN,
         interactive : BOOLEAN, update : BOOLEAN]

Answer == [kind : {"content"}, body : Contents]
          \cup [kind : {"redirect"}, to : Urls]
          \cup [kind : {"failure"}]

ASSUME ConstantsAssumption ==
  /\ Modes \subseteq Mode /\ Roots \subseteq Urls /\ Unfetchable \subseteq Urls
  /\ Imports \in [Contents -> SUBSET Urls]
  /\ DataOf \in [Contents -> SUBSET Urls]
  /\ Web \in [Urls -> SUBSET Answer]
  /\ None \notin Contents /\ None \notin Urls /\ None \notin Modes
  /\ Partial \notin Contents /\ Partial # None
  /\ None \notin {"ok", "failed", "killed"}
  /\ MaxHops \in Nat /\ MaxRuns \in Nat

VARIABLES
  objects,   \* the object file of each URL, or None
  metas,     \* the fetch its _meta.json describes, or None
  markers,   \* URLs with a trust marker
  run,       \* what each process is doing
  runs,      \* processes still to be started
  consents,  \* URLs a user has said yes to
  contacted  \* the requests made: URL and mode of the process

files == <<objects, metas, markers>>
vars == <<files, run, runs, consents, contacted>>

-----------------------------------------------------------------------------

(* A process: where it is, the graph walk (`fetch_graph`), the approvals   *)
(* of this session, and the URL it resolves (`fetch_and_store`).           *)
Places == {"idle", "wave", "alone", "prompt", "pick", "lookup", "hop", "ask",
           "mark", "fetch", "store", "read"}

Process(pc, mode, level, outcome) ==
  [pc |-> pc, mode |-> mode, outcome |-> outcome,
   phase |-> "modules", level |-> level, next |-> {}, data |-> {},
   walked |-> {}, readTexts |-> {},
   approved |-> {}, prompted |-> {}, checked |-> {}, need |-> {}, then |-> "pick",
   url |-> None, current |-> None, hops |-> 0, body |-> None,
   written |-> 0, tmp |-> None]

Fresh(m) == Process("wave", m, Roots, None)

Idle(outcome) == Process("idle", None, {}, outcome)

Init ==
  /\ objects = [u \in Urls |-> None] /\ metas = [u \in Urls |-> None]
  /\ markers = {} /\ consents = {} /\ contacted = {}
  /\ run = [p \in Procs |-> Idle(None)]
  /\ runs = MaxRuns

Become(p, r) == run' = [run EXCEPT ![p] = r]

Goto(p, place) == Become(p, [run[p] EXCEPT !.pc = place])

(* An error ends the process; whatever it had published stays.             *)
Fail(p) == Become(p, Idle("failed"))

At(p, place) == run[p].pc = place

-----------------------------------------------------------------------------
(* The walk and the trust prompts of CliResolver.                          *)

Start(p, m) ==
  /\ At(p, "idle") /\ runs > 0
  /\ runs' = runs - 1
  /\ Become(p, Fresh(m))
  /\ UNCHANGED <<files, consents, contacted>>

(* `needs_approval`: a fetch would happen and nobody has agreed to it.     *)
NeedsApproval(m, u) ==
  /\ ~m.offline /\ ~m.trustAll /\ u \notin Unfetchable
  /\ objects[u] = None /\ u \notin markers

(* `ensure_trusted`, for a whole level and again for each URL resolved:    *)
(* the URLs are looked up one after the other, and then the user is asked. *)
Locations(r) == IF r.pc = "wave" THEN r.level ELSE {r.url}

CheckTrust(p) ==
  LET r == run[p]
      needs(u) == u \notin r.approved /\ NeedsApproval(r.mode, u)
  IN  /\ r.pc \in {"wave", "alone"}
      /\ \E u \in Locations(r) \ r.checked :
           Become(p, [r EXCEPT !.checked = @ \cup {u},
                               !.need = @ \cup {v \in {u} : needs(v)}])
      /\ UNCHANGED <<files, runs, consents, contacted>>

EnsureTrusted(p) ==
  LET r == [run[p] EXCEPT !.checked = {}]
      then == IF r.pc = "wave" THEN "pick" ELSE "lookup"
  IN  /\ r.pc \in {"wave", "alone"} /\ Locations(r) \subseteq run[p].checked
      /\ \/ r.need = {} /\ Become(p, [r EXCEPT !.pc = then])
         \/ r.need # {} /\ ~r.mode.interactive /\ Fail(p)
         \/ /\ r.need # {} /\ r.mode.interactive
            /\ Become(p, [r EXCEPT !.pc = "prompt", !.then = then])
      /\ UNCHANGED <<files, runs, consents, contacted>>

(* The user agrees to the listed URLs or declines.                         *)
ApproveForgetting(r) ==
  [r EXCEPT !.pc = r.then, !.prompted = @ \cup r.need, !.need = {}]

Approve(r) ==
  [r EXCEPT !.pc = r.then, !.approved = @ \cup r.need,
            !.prompted = @ \cup r.need, !.need = {}]

AnswerPrompt(p) ==
  /\ At(p, "prompt")
  /\ \/ Become(p, Approve(run[p])) /\ consents' = consents \cup run[p].need
     \/ Fail(p) /\ UNCHANGED consents
  /\ UNCHANGED <<files, runs, contacted>>

(* The next URL of the level; a module is walked once.  After the last     *)
(* level the data files are resolved, and then the process is done.        *)
PickUrl(p) ==
  /\ At(p, "pick")
  /\ \E u \in run[p].level :
       LET r == [run[p] EXCEPT !.level = @ \ {u}] IN
       Become(p, IF r.phase = "modules" /\ u \in r.walked THEN r
                 ELSE [r EXCEPT !.url = u, !.pc = "alone",
                                !.walked = @ \cup {u}])
  /\ UNCHANGED <<files, runs, consents, contacted>>

NextLevel(p) ==
  LET r == run[p] IN
  /\ At(p, "pick") /\ r.level = {}
  /\ \/ /\ r.next # {}
        /\ Become(p, [r EXCEPT !.level = r.next, !.next = {}, !.pc = "wave"])
     \/ /\ r.next = {} /\ r.phase = "modules"
        /\ Become(p, [r EXCEPT !.level = r.data, !.phase = "data",
                               !.pc = "wave"])
     \/ /\ r.next = {} /\ r.phase = "data"
        /\ Become(p, [Idle("ok") EXCEPT !.readTexts = r.readTexts])
  /\ UNCHANGED <<files, runs, consents, contacted>>

-----------------------------------------------------------------------------
(* Resolving one URL: `get`, or `refetch` when the process updates.        *)

Lookup(p) ==
  /\ At(p, "lookup")
  /\ \/ /\ ~run[p].mode.update /\ objects[run[p].url] # None
        /\ Goto(p, "read")
     \/ /\ run[p].mode.update \/ objects[run[p].url] = None
        /\ IF run[p].mode.offline THEN Fail(p)
           ELSE Become(p, [run[p] EXCEPT !.pc = "hop", !.hops = 0,
                                         !.current = run[p].url])
  /\ UNCHANGED <<files, runs, consents, contacted>>

(* The gate before every request, the redirected ones too.                 *)
TrustedAtFirst(p) ==
  \/ run[p].mode.trustAll \/ run[p].hops > 0 \/ run[p].current \in markers

Trusted(p) == run[p].mode.trustAll \/ run[p].current \in markers

Hop(p) ==
  /\ At(p, "hop")
  /\ IF run[p].current \in Unfetchable \/ run[p].hops > MaxHops THEN Fail(p)
     ELSE Goto(p, IF Trusted(p) THEN "fetch" ELSE "ask")
  /\ UNCHANGED <<files, runs, consents, contacted>>

(* The oracle: approved in this session, or the user is asked about this   *)
(* one URL, or the process may not ask.                                    *)
Ask(p) ==
  LET r == run[p] IN
  /\ At(p, "ask")
  /\ \/ r.current \in r.approved /\ Goto(p, "mark") /\ UNCHANGED consents
     \/ /\ r.current \notin r.approved /\ r.mode.interactive
        /\ Become(p, [r EXCEPT !.pc = "mark", !.approved = @ \cup {r.current},
                               !.prompted = @ \cup {r.current}])
        /\ consents' = consents \cup {r.current}
     \/ r.current \notin r.approved /\ Fail(p) /\ UNCHANGED consents
  /\ UNCHANGED <<files, runs, contacted>>

Mark(p) ==
  /\ At(p, "mark")
  /\ \/ markers' = markers \cup {run[p].current} /\ Goto(p, "fetch")
     \/ Fail(p) /\ UNCHANGED markers
  /\ UNCHANGED <<objects, metas, runs, consents, contacted>>

SameHop(h) == h

CountHop(h) == h + 1

Fetch(p) ==
  /\ At(p, "fetch")
  /\ contacted' = contacted \cup {[url |-> run[p].current, mode |-> run[p].mode]}
  /\ \E a \in Web[run[p].current] :
       \/ /\ a.kind = "content"
          /\ Become(p, [run[p] EXCEPT !.pc = "store", !.body = a.body])
       \/ /\ a.kind = "redirect"
          /\ Become(p, [run[p] EXCEPT !.pc = "hop", !.current = a.to,
                                      !.hops = CountHop(@)])
       \/ a.kind = "failure" /\ Fail(p)
  /\ UNCHANGED <<files, runs, consents>>

(* `write_atomic` for one file after the other: a temporary file is made,  *)
(* and renamed once it is complete.                                        *)
ObjectFirst == <<"object", "meta">>

WriteOrder == <<"meta", "object">>

CreateInPlace(p) ==
  /\ At(p, "store") /\ run[p].tmp = None
  /\ Become(p, [run[p] EXCEPT !.tmp = Partial])
  /\ objects' = IF WriteOrder[run[p].written + 1] = "object"
                  THEN [objects EXCEPT ![run[p].url] = Partial] ELSE objects
  /\ UNCHANGED <<metas, markers, runs, consents, contacted>>

CreateTmp(p) ==
  /\ At(p, "store") /\ run[p].tmp = None
  /\ Become(p, [run[p] EXCEPT !.tmp = Partial])
  /\ UNCHANGED <<files, runs, consents, contacted>>

Publish(p) ==
  LET r == run[p] IN
  /\ At(p, "store") /\ r.tmp = Partial
  /\ IF WriteOrder[r.written + 1] = "meta"
       THEN /\ metas' = [metas EXCEPT ![r.url] = r.body] /\ UNCHANGED objects
       ELSE /\ objects' = [objects EXCEPT ![r.url] = r.body] /\ UNCHANGED metas
  /\ Become(p, IF r.written = 0 THEN [r EXCEPT !.tmp = None, !.written = 1]
               ELSE [r EXCEPT !.tmp = None, !.written = 0, !.body = None,
                              !.current = None, !.hops = 0, !.pc = "read"])
  /\ UNCHANGED <<markers, runs, consents, contacted>>

(* Writing or renaming fails; the temporary file is removed.               *)
WriteFails(p) ==
  /\ At(p, "store") /\ run[p].tmp = Partial
  /\ Fail(p)
  /\ UNCHANGED <<files, runs, consents, contacted>>

(* The caller reads the file whose path it was given and finds what the    *)
(* module loads; the bytes of a data file are not read here.               *)
DataOfLast(data, c) == DataOf[c]

DataSeen(data, c) == data \cup DataOf[c]

Read(p) ==
  LET r == run[p]  text == objects[r.url] IN
  /\ At(p, "read")
  /\ Become(p, IF r.phase = "data" THEN [r EXCEPT !.pc = "pick"]
               ELSE [r EXCEPT !.pc = "pick", !.next = @ \cup Imports[text],
                              !.data = DataSeen(@, text),
                              !.readTexts = @ \cup {text}])
  /\ UNCHANGED <<files, runs, consents, contacted>>

(* A process is killed; a temporary file it leaves is never looked at.     *)
Crash(p) ==
  /\ ~At(p, "idle")
  /\ Become(p, Idle("killed"))
  /\ UNCHANGED <<files, runs, consents, contacted>>

-----------------------------------------------------------------------------

Step(p) ==
  \/ CheckTrust(p) \/ EnsureTrusted(p) \/ AnswerPrompt(p) \/ PickUrl(p) \/ NextLevel(p)
  \/ Lookup(p) \/ Hop(p) \/ Ask(p) \/ Mark(p) \/ Fetch(p)
  \/ CreateTmp(p) \/ Publish(p) \/ WriteFails(p) \/ Read(p)

Next == \E p \in Procs : Step(p) \/ Crash(p) \/ \E m \in Modes : Start(p, m)

Spec == Init /\ [][Next]_vars

(* A running process goes on, users answer and servers respond or the      *)
(* connection fails; nothing obliges anyone to start a process.            *)
FairSpec == Spec /\ \A p \in Procs : WF_vars(Step(p))

-----------------------------------------------------------------------------
(* The types of the state.  An object is never seen half written.          *)
RunType ==
  [pc : Places, mode : Modes \cup {None}, outcome : {None, "ok", "failed", "killed"},
   phase : {"modules", "data"}, level : SUBSET Urls, next : SUBSET Urls,
   data : SUBSET Urls, walked : SUBSET Urls, readTexts : SUBSET Contents,
   approved : SUBSET Urls, prompted : SUBSET Urls,
   checked : SUBSET Urls, need : SUBSET Urls,
   then : {"pick", "lookup"}, url : Urls \cup {None},
   current : Urls \cup {None}, hops : Nat, body : Contents \cup {None},
   written : {0, 1}, tmp : {None, Partial}]

TypeOK ==
  /\ objects \in [Urls -> Contents \cup {None}]
  /\ metas \in [Urls -> Contents \cup {None}]
  /\ markers \subseteq Urls /\ consents \subseteq Urls
  /\ contacted \subseteq [url : Urls, mode : Modes]
  /\ run \in [Procs -> RunType]
  /\ runs \in 0..MaxRuns

(* "A present object always has meta" (cache.rs, `fetch_and_store`), also  *)
(* when processes overlap, fail or are killed between the two writes.      *)
ObjectHasMeta == \A u \in Urls : objects[u] # None => metas[u] # None

(* No server is asked for a URL nobody agreed to: through any chain of     *)
(* redirects and whatever other processes do, a user said yes to the URL   *)
(* itself or the process was started with FLATPPL_TRUST; and an offline    *)
(* process asks none.                                                      *)
Consent ==
  \A c \in contacted :
    ~c.mode.offline /\ (c.mode.trustAll \/ c.url \in consents)

(* A process never asks its user twice about one URL: the batch prompt of  *)
(* a level, the check before each URL and the redirect oracle agree.       *)
PromptedOnce ==
  \A p \in Procs :
    /\ At(p, "prompt") => run[p].need \cap run[p].prompted = {}
    /\ At(p, "ask") /\ run[p].current \notin run[p].approved =>
         run[p].current \notin run[p].prompted

(* What `flatppl prepare` promises when it succeeds: the models, all that  *)
(* the texts it read load, and their data files are in the cache, so that  *)
(* an offline process finds them, whatever other processes do.             *)
PreparedIsCached ==
  \A p \in Procs :
    run[p].outcome = "ok" =>
      \A u \in Roots \cup UNION {Imports[c] \cup DataOf[c] :
                                 c \in run[p].readTexts} :
        objects[u] # None

(* Every process comes to an end, also on redirects that lead in a circle. *)
RunsEnd == \A p \in Procs : []<>At(p, "idle")
=============================================================================
