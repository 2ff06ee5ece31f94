---------------------------- MODULE LiveUpdates ----------------------------
(***************************************************************************)
(* How an open page comes to show what is on disk: the store's watcher and *)
(* its writes (internal/store), the docs watcher (docswatch.go), the event *)
(* streams of the pages (Server.events) and the pages' own refreshes       *)
(* (app.js), up to the shutdown of the server they keep open.              *)
(*                                                                         *)
(* What is on disk is two trees, the workflow state with the changes'      *)
(* prose and the covered directories. Each is a number that grows with     *)
(* every edit and a chain of directories of which the watcher watches the  *)
(* first ones: an edit below those goes unnoticed. A page shows one tree,  *)
(* the index the store's cache and the explorer a walk of its own. A       *)
(* stream's events that its page does nothing with are left out, and so    *)
(* are changes in worktrees, whose directories the watcher learns from the *)
(* cache.                                                                  *)
(***************************************************************************)
EXTENDS Naturals, SequencesExt

CONSTANTS
  Pages, Explorers,     \* the open pages, and those of the explorer
  Capacity,             \* of a listener's channel (8)
  MaxFlights,           \* requests of a page under way at once
  MaxDepth,             \* of a tree's chain of directories
  MaxEdits, MaxFaults   \* bounds of the model

ASSUME LiveUpdatesAssumption ==
  /\ Explorers \subseteq Pages
  /\ Capacity \in Nat \ {0}
  /\ {MaxFlights, MaxDepth, MaxEdits, MaxFaults} \subseteq Nat

VARIABLES
  phase,                \* of the server
  edits, faults,        \* how many there have been
  disk, depth, watched, \* each tree, its directories, and those watched
  raw, armed,           \* a filesystem event waits; the debounce timer runs
  pc,                   \* the steps of the watchers and of a request that writes
  want,                 \* what docsWatcher.resync walked
  snap, cache,          \* what a scan of the store read; the store's cache
  token,                \* docsWatcher.events, one channel of capacity one
  conn, queue,          \* each page's stream, and its listener's channel
  leaving,              \* a handler has not noticed that its page is gone
  timer, overlay,       \* each page's debounce timer, and its open chat
  asked, answers,       \* its requests not yet served, and the answers under way as they were served
  shown,                \* what it shows
  \* history:
  stale,                \* the cache is a request's scan that was out of date when it was swapped in
  missed,               \* pages that an event has passed by, or whose request failed, since they were last served
  overtaken,            \* how many of a page's answers were served before what it shows
  late                  \* pages that an overtaken answer has left with what they had replaced

caching == <<snap, cache, stale>>
server == <<disk, depth, watched, raw, armed, pc, want, caching>>
streams == <<token, conn, queue, leaving>>
arrived == <<shown, overtaken, late>>
page == <<timer, overlay, asked, answers, arrived>>
counts == <<phase, edits, faults>>
vars == <<server, streams, page, counts, missed>>

Trees == {"state", "docs"}
Writers == {"state", "request"}
Procs == Trees \cup Writers
Indexes == Pages \ Explorers
Tree(p) == IF p \in Explorers THEN "docs" ELSE "state"
Serving == phase = "serving"

Init ==
  /\ phase = "serving" /\ edits = 0 /\ faults = 0
  /\ disk = [t \in Trees |-> 0] /\ depth = [t \in Trees |-> 0]
  /\ watched = [t \in Trees |-> 0]
  /\ raw = [t \in Trees |-> FALSE] /\ armed = [t \in Trees |-> FALSE]
  /\ pc = [q \in Procs |-> "wait"] /\ want = 0
  /\ snap = [q \in Writers |-> 0] /\ cache = 0 /\ stale = FALSE
  /\ token = FALSE /\ conn = [p \in Pages |-> FALSE] /\ queue = [p \in Pages |-> 0]
  /\ leaving = FALSE
  /\ timer = [p \in Pages |-> FALSE] /\ overlay = [p \in Pages |-> FALSE]
  /\ asked = [p \in Pages |-> 0] /\ answers = [p \in Pages |-> <<>>]
  /\ shown = [p \in Pages |-> 0]
  /\ missed = {} /\ late = {} /\ overtaken = [p \in Pages |-> 0]

-----------------------------------------------------------------------------
(* Edits, by agents, git, editors and the store itself. Attribute-only     *)
(* events and temporary files are nobody's edit.                           *)
Goto(q, label) == pc' = [pc EXCEPT ![q] = label]
Count == edits < MaxEdits /\ edits' = edits + 1

Changed(t, where) ==
  /\ disk' = [disk EXCEPT ![t] = @ + 1]
  /\ raw' = [raw EXCEPT ![t] = @ \/ where <= watched[t]]

Edit(t, where) ==
  /\ Serving /\ where <= depth[t] /\ Count /\ Changed(t, where)
  /\ UNCHANGED <<depth, watched, armed, pc, want, caching, streams, page, phase, faults, missed>>

Mkdir(t) ==
  /\ Serving /\ depth[t] < MaxDepth /\ Count /\ Changed(t, depth[t])
  /\ depth' = [depth EXCEPT ![t] = @ + 1]
  /\ UNCHANGED <<watched, armed, pc, want, caching, streams, page, phase, faults, missed>>

-----------------------------------------------------------------------------
(* notify: never blocks; a full channel already holds events to come.      *)
Told ==
  /\ queue' = [p \in Pages |-> IF p \in Indexes /\ conn[p] /\ queue[p] < Capacity
                               THEN queue[p] + 1 ELSE queue[p]]
  /\ missed' = missed \cup {p \in Indexes : ~conn[p]}

(* writeState and writeIndex: Save, a reload, notify.                      *)
Save(q) ==
  /\ Serving /\ pc[q] = (IF q = "state" THEN "sync" ELSE "wait")
  /\ Count /\ Changed("state", 0) /\ Goto(q, "reload")
  /\ UNCHANGED <<depth, watched, armed, want, caching, streams, page, phase, faults, missed>>

(* Reload: a scan without a lock, and later a swap under one. The scan is  *)
(* the watcher's ("scan") or follows a write ("reload").                   *)
Scan(q) ==
  /\ Serving
  /\ \/ pc[q] = "scan" /\ Goto(q, "swap")
     \/ pc[q] = "reload" /\ Goto(q, "renew")
  /\ snap' = [snap EXCEPT ![q] = disk["state"]]
  /\ UNCHANGED <<disk, depth, watched, raw, armed, want, cache, stale, streams, page, counts, missed>>

Swap(q) ==
  /\ Serving
  /\ \/ pc[q] = "swap" /\ Goto(q, "sync")
     \/ pc[q] = "renew" /\ Goto(q, "notify")
  /\ cache' = snap[q] /\ stale' = (q = "request" /\ snap[q] # disk["state"])
  /\ UNCHANGED <<disk, depth, watched, raw, armed, want, snap, streams, page, counts, missed>>

Notify(q) ==
  /\ Serving /\ pc[q] \in {"notify", "tell"}
  /\ Goto(q, IF q = "state" /\ pc[q] = "notify" THEN "sync" ELSE "wait") /\ Told
  /\ UNCHANGED <<disk, depth, watched, raw, armed, want, caching, token, conn, leaving,
                 page, counts>>

(* The two watchers' loops: an event restarts the timer.                   *)
TakeEvent(t) ==
  /\ Serving /\ pc[t] = "wait" /\ raw[t]
  /\ raw' = [raw EXCEPT ![t] = FALSE] /\ armed' = [armed EXCEPT ![t] = TRUE]
  /\ UNCHANGED <<disk, depth, watched, pc, want, caching, streams, page, counts, missed>>

Fire(t) == Serving /\ pc[t] = "wait" /\ armed[t] /\ armed' = [armed EXCEPT ![t] = FALSE]

(* The store's: addDirs, which adds a directory before it reads it, then   *)
(* Reload, SyncOverallStatuses, which may write, and notify.               *)
AddDirs ==
  /\ Fire("state") /\ Goto("state", "scan")
  /\ watched' = [watched EXCEPT !["state"] = depth["state"]]
  /\ UNCHANGED <<disk, depth, raw, want, caching, streams, page, counts, missed>>

NothingToSync ==
  /\ Serving /\ pc["state"] = "sync" /\ Goto("state", "tell")
  /\ UNCHANGED <<disk, depth, watched, raw, armed, want, caching, streams, page, counts, missed>>

(* The docs': resync, which walks the whole tree (or fails) and only then  *)
(* adds what it found, and a send that all streams share.                  *)
Walk ==
  /\ Fire("docs") /\ Goto("docs", "add") /\ want' \in {watched["docs"], depth["docs"]}
  /\ UNCHANGED <<disk, depth, watched, raw, caching, streams, page, counts, missed>>

Add ==
  /\ Serving /\ pc["docs"] = "add" /\ Goto("docs", "send")
  /\ watched' = [watched EXCEPT !["docs"] = want]
  /\ UNCHANGED <<disk, depth, raw, armed, want, caching, streams, page, counts, missed>>

Send ==
  /\ Serving /\ pc["docs"] = "send" /\ Goto("docs", "wait") /\ token' = TRUE
  /\ UNCHANGED <<disk, depth, watched, raw, armed, want, caching, conn, queue, leaving,
                 page, counts, missed>>

-----------------------------------------------------------------------------
(* The streams (Server.events). EventSource connects when the page has     *)
(* loaded, and again whenever the connection is lost.                      *)
Subscribe(p) ==
  /\ Serving /\ ~conn[p] /\ conn' = [conn EXCEPT ![p] = TRUE]
  /\ UNCHANGED <<server, token, queue, leaving, page, counts, missed>>

Fault == faults < MaxFaults /\ faults' = faults + 1

(* What the channel held is lost with the connection. The handler may take *)
(* a docs event before it sees that its request is done.                   *)
Disconnect(p) ==
  /\ Serving /\ conn[p] /\ Fault
  /\ conn' = [conn EXCEPT ![p] = FALSE] /\ queue' = [queue EXCEPT ![p] = 0]
  /\ leaving' = TRUE
  /\ missed' = IF queue[p] > 0 THEN missed \cup {p} ELSE missed
  /\ UNCHANGED <<server, token, page, phase, edits>>

Leave ==
  /\ leaving /\ leaving' = FALSE
  /\ \/ UNCHANGED <<token, missed>>
     \/ token /\ token' = FALSE /\ missed' = missed \cup Explorers
  /\ UNCHANGED <<server, conn, queue, page, counts>>

SetTimer(p) == timer' = [timer EXCEPT ![p] = TRUE]

(* A stream takes the next event of its store channel.                     *)
TakeStore(p) ==
  /\ Serving /\ conn[p] /\ queue[p] > 0
  /\ queue' = [queue EXCEPT ![p] = @ - 1] /\ SetTimer(p)
  /\ UNCHANGED <<server, token, conn, leaving, overlay, asked, answers, arrived, counts, missed>>

(* Any one of the streams takes the docs event; only an explorer's page    *)
(* has a use for it.                                                       *)
TakeDocs(p) ==
  /\ Serving /\ conn[p] /\ token /\ token' = FALSE
  /\ IF p \in Explorers THEN SetTimer(p) ELSE UNCHANGED timer
  /\ missed' = missed \cup (Explorers \ {p})
  /\ UNCHANGED <<server, conn, queue, leaving, overlay, asked, answers, arrived, counts>>

-----------------------------------------------------------------------------
(* The pages: a timer gathers events, then the page asks for the whole of  *)
(* what it shows. With a chat open the index leaves its cards alone, and   *)
(* closeChat schedules the refresh.                                        *)
(* A mutant drops a refresh asked for during another, as refreshChats does.*)
RefreshUnlessPending(p) ==
  /\ Serving /\ timer[p] /\ timer' = [timer EXCEPT ![p] = FALSE]
  /\ IF overlay[p] \/ asked[p] + Len(answers[p]) > 0 THEN UNCHANGED asked
     ELSE asked' = [asked EXCEPT ![p] = @ + 1]
  /\ UNCHANGED <<server, streams, overlay, answers, arrived, counts, missed>>

Refresh(p) ==
  /\ Serving /\ timer[p] /\ timer' = [timer EXCEPT ![p] = FALSE]
  /\ IF overlay[p] THEN UNCHANGED asked
     ELSE asked[p] + Len(answers[p]) < MaxFlights /\ asked' = [asked EXCEPT ![p] = @ + 1]
  /\ UNCHANGED <<server, streams, overlay, answers, arrived, counts, missed>>

OpenChat(p) ==
  /\ Serving /\ p \in Indexes /\ ~overlay[p] /\ Fault
  /\ overlay' = [overlay EXCEPT ![p] = TRUE]
  /\ UNCHANGED <<server, streams, timer, asked, answers, arrived, phase, edits, missed>>

(* A mutant: closing the chat schedules no refresh.                        *)
CloseChatQuietly(p) ==
  /\ Serving /\ overlay[p] /\ overlay' = [overlay EXCEPT ![p] = FALSE]
  /\ UNCHANGED <<server, streams, timer, asked, answers, arrived, counts, missed>>

CloseChat(p) ==
  /\ Serving /\ overlay[p] /\ overlay' = [overlay EXCEPT ![p] = FALSE] /\ SetTimer(p)
  /\ UNCHANGED <<server, streams, asked, answers, arrived, counts, missed>>

(* Server.index answers from the cache, explorerTree from a walk.          *)
Current(p) == IF p \in Explorers THEN disk["docs"] ELSE cache

Serve(p) ==
  /\ Serving /\ asked[p] > 0 /\ asked' = [asked EXCEPT ![p] = @ - 1]
  /\ answers' = [answers EXCEPT ![p] = Append(@, Current(p))] /\ missed' = missed \ {p}
  /\ UNCHANGED <<server, streams, timer, overlay, arrived, counts>>

(* Answers arrive in any order and the last to arrive stays.               *)
Arrive(p) ==
  /\ Serving
  /\ \E i \in DOMAIN answers[p] :
       /\ answers' = [answers EXCEPT ![p] = RemoveAt(@, i)]
       /\ shown' = [shown EXCEPT ![p] = answers[p][i]]
       /\ IF i <= overtaken[p]
          THEN overtaken' = [overtaken EXCEPT ![p] = @ - 1] /\ late' = late \cup {p}
          ELSE overtaken' = [overtaken EXCEPT ![p] = i - 1] /\ late' = late \ {p}
  /\ UNCHANGED <<server, streams, timer, overlay, asked, counts, missed>>

(* A request that fails is caught and not repeated.                        *)
Fail(p) ==
  /\ Serving /\ asked[p] > 0 /\ Fault /\ asked' = [asked EXCEPT ![p] = @ - 1]
  /\ missed' = missed \cup {p}
  /\ UNCHANGED <<server, streams, timer, overlay, answers, arrived, phase, edits>>

-----------------------------------------------------------------------------
(* runServe: after the signal, Shutdown waits for the handlers to end, but *)
(* not for more than five seconds; the deferred cleanups then close the    *)
(* store, which is what a stream waits for. It also ends with its page.    *)
Interrupt ==
  /\ Serving /\ Fault /\ phase' = "draining"
  /\ UNCHANGED <<server, streams, page, edits, missed>>

PageCloses(p) ==
  /\ phase # "serving" /\ conn[p] /\ conn' = [conn EXCEPT ![p] = FALSE]
  /\ UNCHANGED <<server, token, queue, leaving, page, counts, missed>>

Drained ==
  /\ phase = "draining" /\ \A p \in Pages : ~conn[p]
  /\ ~leaving /\ phase' = "closed"
  /\ UNCHANGED <<server, streams, page, edits, faults, missed>>

(* A mutant: Shutdown without a deadline.                                  *)
ShutdownWaits == Drained

ShutdownExpires ==
  /\ phase = "draining" /\ phase' = "closed"
  /\ UNCHANGED <<server, streams, page, edits, faults, missed>>

HandlerEnds(p) ==
  /\ phase = "closed" /\ conn[p] /\ conn' = [conn EXCEPT ![p] = FALSE]
  /\ UNCHANGED <<server, token, queue, leaving, page, counts, missed>>

-----------------------------------------------------------------------------
Stopping == Interrupt \/ Drained \/ ShutdownExpires \/ \E p \in Pages : PageCloses(p) \/ HandlerEnds(p)
Watching == AddDirs \/ NothingToSync \/ Walk \/ Add \/ Send \/ \E t \in Trees : TakeEvent(t)
Writing == \E q \in Writers : Save(q) \/ Scan(q) \/ Swap(q) \/ Notify(q)
Editing == \E t \in Trees : Mkdir(t) \/ \E where \in 0 .. MaxDepth : Edit(t, where)
Streaming ==
  Leave \/ \E p \in Pages : Subscribe(p) \/ Disconnect(p) \/ TakeStore(p) \/ TakeDocs(p)
Refreshing ==
  \E p \in Pages : \/ Refresh(p) \/ OpenChat(p) \/ CloseChat(p)
                   \/ Serve(p) \/ Arrive(p) \/ Fail(p)

Next == Stopping \/ Watching \/ Writing \/ Editing \/ Streaming \/ Refreshing

Spec == Init /\ [][Next]_vars

(* Goroutines run, requests are served, EventSource reconnects and the     *)
(* deadline of Shutdown passes. Nobody has to edit, write, open a chat or  *)
(* close one, or stop the server.                                          *)
Fairness ==
  /\ WF_vars(TakeEvent("state")) /\ WF_vars(TakeEvent("docs"))
  /\ WF_vars(AddDirs) /\ WF_vars(NothingToSync) /\ WF_vars(Walk) /\ WF_vars(Add) /\ WF_vars(Send)
  /\ \A q \in Writers : WF_vars(Scan(q)) /\ WF_vars(Swap(q)) /\ WF_vars(Notify(q))
  /\ WF_vars(Leave)
  /\ \A p \in Pages :
       /\ WF_vars(Subscribe(p)) /\ WF_vars(TakeStore(p)) /\ WF_vars(Refresh(p))
       /\ WF_vars(Serve(p)) /\ WF_vars(Arrive(p))
  /\ WF_vars(\E p \in Pages : TakeDocs(p))
  /\ WF_vars(ShutdownExpires) /\ \A p \in Pages : WF_vars(HandlerEnds(p))

FairSpec == Spec /\ Fairness

-----------------------------------------------------------------------------
TypeOK ==
  /\ phase \in {"serving", "draining", "closed"}
  /\ edits \in Nat /\ faults \in Nat
  /\ disk \in [Trees -> Nat] /\ snap \in [Writers -> Nat] /\ cache \in Nat /\ stale \in BOOLEAN
  /\ depth \in [Trees -> Nat] /\ watched \in [Trees -> Nat] /\ want \in Nat
  /\ raw \in [Trees -> BOOLEAN] /\ armed \in [Trees -> BOOLEAN]
  /\ pc \in [Procs -> {"wait", "scan", "swap", "sync", "reload", "renew", "notify", "tell", "add", "send"}]
  /\ token \in BOOLEAN /\ conn \in [Pages -> BOOLEAN] /\ leaving \in BOOLEAN
  /\ queue \in [Pages -> 0 .. Capacity]
  /\ timer \in [Pages -> BOOLEAN] /\ overlay \in [Pages -> BOOLEAN]
  /\ asked \in [Pages -> Nat] /\ answers \in [Pages -> Seq(Nat)]
  /\ shown \in [Pages -> Nat] /\ overtaken \in [Pages -> Nat]
  /\ missed \subseteq Pages /\ late \subseteq Pages

(* A watcher has work it knows of.                                         *)
Settling(t) == raw[t] \/ armed[t] \/ pc[t] # "wait"

(* A directory made while resync was between its walk and its adds, or     *)
(* before a walk that failed: nobody watches it until something else in    *)
(* the tree is touched.                                                    *)
Blind == watched["docs"] < depth["docs"] /\ ~Settling("docs")

(* What is on disk is in the cache, or the watcher has an event, a timer   *)
(* or a round to go: also for edits in directories the watcher does not    *)
(* know yet, because it adds them before it scans (Store.Watch). The       *)
(* exception is a request whose scan was out of date by the time it was    *)
(* swapped in, after the watcher had done its round (Store.Reload).        *)
CacheFollowsTree ==
  /\ cache = disk["state"] \/ Settling("state") \/ stale
  /\ watched["state"] = depth["state"] \/ Settling("state")

(* What a page comes to show if the answers under way arrive in order.     *)
Latest(p) == IF overtaken[p] < Len(answers[p]) THEN Last(answers[p]) ELSE shown[p]

Underway(p) == queue[p] > 0 \/ timer[p] \/ asked[p] > 0 \/ Latest(p) = Current(p)

Excused(p) == overlay[p] \/ p \in missed \/ (p \in late /\ overtaken[p] = Len(answers[p]))

NewsFor(p) ==
  IF p \in Explorers THEN Settling("docs") \/ token \/ Blind
  ELSE \E q \in Writers : pc[q] \in {"sync", "reload", "renew", "notify", "tell"}

(* A page that does not show the latest has the news on its way: somebody  *)
(* who has yet to notify, an event in a channel, a timer, a request or an  *)
(* answer - unless the event passed it by (it was not connected, another   *)
(* page's stream took it) or its request failed, and it has not been       *)
(* served since; or an overtaken answer arrived last.                      *)
PageFollowsServer(p) == Excused(p) \/ NewsFor(p) \/ Underway(p)

(* News travels from the disk to the cache and on to the pages, and is     *)
(* nowhere dropped: not by a full channel, whose earlier events will make  *)
(* the page ask later (Store.notify), not by an event that restarts a      *)
(* timer, not by an open chat (closeChat).                                 *)
NewsIsUnderway ==
  Serving => CacheFollowsTree /\ \A p \in Pages : PageFollowsServer(p)

(* So, when edits end, every such page comes to show what is on disk,      *)
(* unless nobody watches it (Blind) or a late swap hides it (stale).       *)
PagesCatchUp ==
  \A p \in Pages :
    <>[](\/ shown[p] = disk[Tree(p)] \/ ~Serving \/ Excused(p)
         \/ IF p \in Explorers THEN Blind ELSE stale)

(* The server stops although the streams of open pages wait for the very   *)
(* cleanup that waits for them (runServe, Server.events).                  *)
ServerStops == (phase = "draining") ~> (phase = "closed" /\ \A p \in Pages : ~conn[p])

=============================================================================
