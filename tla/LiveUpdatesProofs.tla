------------------------- MODULE LiveUpdatesProofs -------------------------
(***************************************************************************)
(* Theorems about LiveUpdates, for any pages, channel capacities and       *)
(* bounds.                                                                 *)
(***************************************************************************)
EXTENDS LiveUpdates, SequenceTheorems, TLAPS

-----------------------------------------------------------------------------
(* Sequences of answers                                                    *)

(* Taking one answer away leaves the others in their order.                *)
LEMMA RemoveAtProperties ==
  ASSUME NEW s \in Seq(Nat), NEW i \in DOMAIN s
  PROVE  /\ RemoveAt(s, i) \in Seq(Nat) /\ Len(RemoveAt(s, i)) = Len(s) - 1
         /\ i < Len(s) => Last(RemoveAt(s, i)) = Last(s)
<1> DEFINE front == SubSeq(s, 1, i - 1)
           back == SubSeq(s, i + 1, Len(s))
           rest == front \o back
<1>1. /\ Len(s) \in Nat /\ DOMAIN s = 1 .. Len(s) /\ i \in 1 .. Len(s)
      /\ \A j \in 1 .. Len(s) : s[j] \in Nat
  BY LenProperties, ElementOfSeq
<1>2. /\ front \in Seq(Nat) /\ Len(front) = i - 1
      /\ \A j \in 1 .. i - 1 : front[j] = s[j]
  <2>1. \A j \in 1 .. i - 1 : s[j] \in Nat
    BY <1>1
  <2>2. i - 1 \in Int /\ 1 \in Int
    BY <1>1
  <2> QED BY <1>1, <2>1, <2>2, SubSeqProperties
<1>3. /\ back \in Seq(Nat) /\ Len(back) = Len(s) - i
      /\ \A j \in 1 .. Len(s) - i : back[j] = s[j + i]
  <2>1. \A j \in i + 1 .. Len(s) : s[j] \in Nat
    BY <1>1
  <2>2. i + 1 \in Int /\ Len(s) \in Int
    BY <1>1
  <2>3. /\ back \in Seq(Nat)
        /\ Len(back) = IF i + 1 <= Len(s) THEN Len(s) - (i + 1) + 1 ELSE 0
        /\ \A j \in 1 .. Len(s) - (i + 1) + 1 : back[j] = s[(i + 1) + j - 1]
    BY <2>1, <2>2, SubSeqProperties, SMTT(60)
  <2> HIDE DEF back
  <2>4. ASSUME NEW j \in 1 .. Len(s) - i
        PROVE  back[j] = s[j + i]
    <3>1. Len(s) - (i + 1) + 1 = Len(s) - i /\ (i + 1) + j - 1 = j + i
      BY <1>1
    <3>2. back[j] = s[(i + 1) + j - 1]
      BY <2>3, <3>1
    <3> QED BY <3>1, <3>2
  <2>5. Len(back) = Len(s) - i
    <3>1. Len(back) = IF i + 1 <= Len(s) THEN Len(s) - (i + 1) + 1 ELSE 0
      BY <2>3
    <3>2. Len(s) \in Nat /\ i \in Nat /\ i <= Len(s)
      BY <1>1
    <3> QED BY <3>1, <3>2
  <2> QED BY <2>3, <2>4, <2>5
<1>4. /\ rest \in Seq(Nat) /\ DOMAIN rest = 1 .. Len(s) - 1 /\ Len(rest) = Len(s) - 1
      /\ \A j \in 1 .. Len(s) - 1 : rest[j] = IF j <= i - 1 THEN front[j] ELSE back[j - (i - 1)]
  <2> HIDE DEF front, back
  <2>1. /\ rest \in Seq(Nat) /\ Len(rest) = Len(front) + Len(back)
        /\ \A j \in 1 .. Len(front) + Len(back) :
             rest[j] = IF j <= Len(front) THEN front[j] ELSE back[j - Len(front)]
    BY <1>2, <1>3, ConcatProperties
  <2>2. Len(front) + Len(back) = Len(s) - 1
    BY <1>1, <1>2, <1>3
  <2> HIDE DEF rest
  <2>3. DOMAIN rest = 1 .. Len(rest)
    BY <2>1
  <2> QED BY <1>2, <2>1, <2>2, <2>3
<1>5. \A j \in 1 .. Len(s) - 1 : rest[j] = IF j <= i - 1 THEN s[j] ELSE s[j + 1]
  <2> HIDE DEF front, back, rest
  <2> TAKE j \in 1 .. Len(s) - 1
  <2>1. CASE j <= i - 1
    <3>1. j \in 1 .. i - 1
      BY <1>1, <2>1
    <3> QED BY <1>2, <1>4, <2>1, <3>1
  <2>2. CASE ~(j <= i - 1)
    <3>1. j - (i - 1) \in 1 .. Len(s) - i /\ (j - (i - 1)) + i = j + 1
      BY <1>1, <2>2
    <3>2. rest[j] = back[j - (i - 1)]
      BY <1>4, <2>2
    <3>3. back[j - (i - 1)] = s[j + 1]
      BY <1>3, <3>1
    <3> QED BY <2>2, <3>2, <3>3
  <2> QED BY <2>1, <2>2
<1>6. ASSUME i < Len(s)
      PROVE  rest[Len(rest)] = s[Len(s)]
  <2> HIDE DEF rest
  <2>1. Len(s) - 1 \in 1 .. Len(s) - 1 /\ ~(Len(s) - 1 <= i - 1) /\ (Len(s) - 1) + 1 = Len(s)
    BY <1>1, <1>6
  <2>2. rest[Len(s) - 1] = s[(Len(s) - 1) + 1]
    BY <1>5, <2>1
  <2> QED BY <1>4, <2>1, <2>2
<1> QED BY <1>4, <1>6 DEF RemoveAt, Last

(* The latest answer is the last of those under way.                       *)
LEMMA AppendedAnswers ==
  ASSUME NEW s \in Seq(Nat), NEW v \in Nat
  PROVE  /\ Append(s, v) \in Seq(Nat) /\ Len(Append(s, v)) = Len(s) + 1
         /\ Last(Append(s, v)) = v
<1>1. /\ Len(s) \in Nat /\ Append(s, v) \in Seq(Nat) /\ Len(Append(s, v)) = Len(s) + 1
      /\ Append(s, v)[Len(s) + 1] = v
  BY AppendProperties, LenProperties
<1> QED BY <1>1 DEF Last

-----------------------------------------------------------------------------
(* Types                                                                   *)

Labels == {"wait", "scan", "swap", "sync", "reload", "renew", "notify", "tell", "add", "send"}

ServerTypes ==
  /\ disk \in [Trees -> Nat] /\ snap \in [Writers -> Nat] /\ cache \in Nat /\ stale \in BOOLEAN
  /\ depth \in [Trees -> Nat] /\ watched \in [Trees -> Nat] /\ want \in Nat
  /\ raw \in [Trees -> BOOLEAN] /\ armed \in [Trees -> BOOLEAN]
  /\ pc \in [Procs -> Labels]
StreamTypes ==
  /\ token \in BOOLEAN /\ conn \in [Pages -> BOOLEAN] /\ leaving \in BOOLEAN
  /\ queue \in [Pages -> 0 .. Capacity]
PageTypes ==
  /\ timer \in [Pages -> BOOLEAN] /\ overlay \in [Pages -> BOOLEAN]
  /\ asked \in [Pages -> Nat] /\ answers \in [Pages -> Seq(Nat)]
  /\ shown \in [Pages -> Nat] /\ overtaken \in [Pages -> Nat] /\ late \subseteq Pages
CountTypes ==
  phase \in {"serving", "draining", "closed"} /\ edits \in Nat /\ faults \in Nat

LEMMA TypeParts ==
  TypeOK <=> ServerTypes /\ StreamTypes /\ PageTypes /\ CountTypes /\ missed \subseteq Pages
BY DEF TypeOK, ServerTypes, StreamTypes, PageTypes, CountTypes, Labels

LEMMA Facts ==
  /\ Capacity \in Nat /\ Capacity > 0
  /\ Explorers \subseteq Pages
  /\ Trees = {"state", "docs"} /\ Writers = {"state", "request"}
  /\ Procs = {"state", "docs", "request"}
<1>1. Capacity \in Nat /\ Capacity > 0 /\ Explorers \subseteq Pages
  BY LiveUpdatesAssumption
<1>2. /\ Trees = {"state", "docs"} /\ Writers = {"state", "request"}
      /\ Procs = {"state", "docs", "request"}
  BY DEF Trees, Writers, Procs
<1> QED BY <1>1, <1>2

(* The type invariant: every step keeps each variable in its type.         *)
THEOREM LiveTypeCorrect == Spec => []TypeOK
<1>1. Init => TypeOK
  <2> SUFFICES ASSUME Init PROVE TypeOK
    OBVIOUS
  <2>1. ServerTypes /\ CountTypes
    BY Facts DEF Init, ServerTypes, CountTypes, Labels
  <2>2. StreamTypes /\ missed \subseteq Pages
    <3>1. 0 \in 0 .. Capacity
      BY Facts
    <3> QED BY <3>1 DEF Init, StreamTypes
  <2>3. PageTypes
    BY EmptySeq DEF Init, PageTypes
  <2> QED BY <2>1, <2>2, <2>3, TypeParts
<1>2. TypeOK /\ [Next]_vars => TypeOK'
  <2> SUFFICES ASSUME TypeOK, [Next]_vars PROVE TypeOK'
    OBVIOUS
  <2>0. ServerTypes /\ StreamTypes /\ PageTypes /\ CountTypes /\ missed \subseteq Pages
    BY TypeParts
  <2>1. CountTypes'
    <3>1. CASE UNCHANGED counts
      BY <2>0, <3>1 DEF CountTypes, counts
    <3>2. CASE Count /\ UNCHANGED <<phase, faults>>
      BY <2>0, <3>2 DEF CountTypes, Count
    <3>3. CASE Fault /\ UNCHANGED <<phase, edits>>
      BY <2>0, <3>3 DEF CountTypes, Fault
    <3>4. CASE Stopping
      BY <2>0, <3>4 DEF CountTypes, Stopping, Interrupt, Drained, ShutdownExpires, PageCloses,
        HandlerEnds, Fault, counts
    <3>5. CASE Watching \/ Writing \/ Editing
      BY <3>1, <3>2, <3>5 DEF Watching, Writing, Editing, AddDirs, NothingToSync, Walk, Add, Send,
        TakeEvent, Save, Scan, Swap, Notify, Mkdir, Edit, counts
    <3>6. CASE Streaming \/ Refreshing
      BY <3>1, <3>3, <3>6 DEF Streaming, Refreshing, Leave, Subscribe, Disconnect, TakeStore, TakeDocs,
        Refresh, OpenChat, CloseChat, Serve, Arrive, Fail, counts
    <3>7. CASE UNCHANGED vars
      BY <3>1, <3>7 DEF vars
    <3> QED BY <3>4, <3>5, <3>6, <3>7 DEF Next
  <2>2. ServerTypes'
    <3>1. CASE UNCHANGED server
      BY <2>0, <3>1 DEF ServerTypes, server, caching
    <3>0. ASSUME NEW t \in Trees, NEW where \in Nat, Changed(t, where)
          PROVE  disk' \in [Trees -> Nat] /\ raw' \in [Trees -> BOOLEAN]
      <4>1. disk' \in [Trees -> Nat]
        BY <2>0, <3>0 DEF ServerTypes, Labels, caching, Changed
      <4>2. raw' \in [Trees -> BOOLEAN]
        BY <2>0, <3>0, Zenon DEF ServerTypes, Labels, caching, Changed
      <4> QED BY <4>1, <4>2
    <3>2. CASE Editing
      <4>1. ASSUME NEW t \in Trees, Mkdir(t)
            PROVE  ServerTypes'
        BY <2>0, <3>0, <4>1 DEF ServerTypes, Labels, caching, Mkdir
      <4>2. ASSUME NEW t \in Trees, NEW where \in 0 .. MaxDepth, Edit(t, where)
            PROVE  ServerTypes'
        BY <2>0, <3>0, <4>2 DEF ServerTypes, Labels, caching, Edit
      <4> QED BY <3>2, <4>1, <4>2 DEF Editing
    <3>3. CASE Writing
      <4>1. ASSUME NEW q \in Writers, Save(q)
            PROVE  ServerTypes'
        BY <2>0, <3>0, <4>1, Facts DEF ServerTypes, Labels, caching, Save, Goto
      <4>2. ASSUME NEW q \in Writers, Scan(q)
            PROVE  ServerTypes'
        BY <2>0, <4>2, Facts DEF ServerTypes, Labels, Scan, Goto
      <4>4. ASSUME NEW q \in Writers, Swap(q)
            PROVE  ServerTypes'
        BY <2>0, <4>4, Facts DEF ServerTypes, Labels, Swap, Goto
      <4>3. ASSUME NEW q \in Writers, Notify(q)
            PROVE  ServerTypes'
        BY <2>0, <4>3, Facts DEF ServerTypes, Labels, caching, Notify, Goto
      <4> QED BY <3>3, <4>1, <4>2, <4>3, <4>4 DEF Writing
    <3>4. CASE Watching
      <4>1. CASE AddDirs \/ NothingToSync
        BY <2>0, <4>1, Facts DEF ServerTypes, Labels, caching, AddDirs, NothingToSync, Fire, Goto
      <4>2. CASE Walk
        BY <2>0, <4>2, Facts DEF ServerTypes, Labels, caching, Walk, Fire, Goto
      <4>3. CASE Add \/ Send
        BY <2>0, <4>3, Facts DEF ServerTypes, Labels, caching, Add, Send, Goto
      <4>4. ASSUME NEW t \in Trees, TakeEvent(t)
            PROVE  ServerTypes'
        BY <2>0, <4>4, Facts DEF ServerTypes, Labels, caching, TakeEvent
      <4> QED BY <3>4, <4>1, <4>2, <4>3, <4>4 DEF Watching
    <3>5. CASE Stopping \/ Streaming \/ Refreshing
      BY <3>1, <3>5 DEF Stopping, Interrupt, Drained, ShutdownExpires, PageCloses, HandlerEnds,
        Streaming, Refreshing, Leave, Subscribe, Disconnect, TakeStore, TakeDocs,
        Refresh, OpenChat, CloseChat, Serve, Arrive, Fail
    <3>6. CASE UNCHANGED vars
      BY <3>1, <3>6 DEF vars
    <3> QED BY <3>2, <3>3, <3>4, <3>5, <3>6 DEF Next
  <2>3. StreamTypes' /\ missed' \subseteq Pages
    <3>1. CASE UNCHANGED <<streams, missed>>
      BY <2>0, <3>1 DEF StreamTypes, streams
    <3>2. CASE Stopping
      BY <2>0, <3>2 DEF StreamTypes, streams, Stopping, Interrupt, Drained, ShutdownExpires, PageCloses,
        HandlerEnds
    <3>3. CASE Editing \/ Watching
      BY <2>0, <3>1, <3>3 DEF StreamTypes, Watching, Editing, AddDirs, NothingToSync, Walk, Add, Send,
        TakeEvent, Mkdir, Edit
    <3>4. ASSUME NEW q \in Writers, Notify(q)
          PROVE  StreamTypes' /\ missed' \subseteq Pages
      <4>1. queue' \in [Pages -> 0 .. Capacity]
        BY <2>0, <3>4, Facts DEF StreamTypes, Notify, Told
      <4> QED BY <2>0, <3>4, <4>1, Facts DEF StreamTypes, Notify, Told, Indexes
    <3>5. CASE Writing
      BY <3>1, <3>4, <3>5 DEF Writing, Save, Scan, Swap
    <3>6. CASE Streaming
      <4>1. CASE Leave
        BY <2>0, <4>1, Facts DEF StreamTypes, Leave
      <4>2. ASSUME NEW p \in Pages, Subscribe(p)
            PROVE  StreamTypes' /\ missed' \subseteq Pages
        BY <2>0, <4>2 DEF StreamTypes, Subscribe
      <4>3. ASSUME NEW p \in Pages, Disconnect(p)
            PROVE  StreamTypes' /\ missed' \subseteq Pages
        BY <2>0, <4>3, Facts DEF StreamTypes, Disconnect
      <4>4. ASSUME NEW p \in Pages, TakeStore(p)
            PROVE  StreamTypes' /\ missed' \subseteq Pages
        <5>1. queue' \in [Pages -> 0 .. Capacity]
          BY <2>0, <4>4, Facts DEF StreamTypes, TakeStore
        <5> QED BY <2>0, <4>4, <5>1 DEF StreamTypes, TakeStore
      <4>5. ASSUME NEW p \in Pages, TakeDocs(p)
            PROVE  StreamTypes' /\ missed' \subseteq Pages
        BY <2>0, <4>5, Facts DEF StreamTypes, TakeDocs
      <4> QED BY <3>6, <4>1, <4>2, <4>3, <4>4, <4>5 DEF Streaming
    <3>7. CASE Refreshing
      BY <2>0, <3>7 DEF StreamTypes, streams, Refreshing, Refresh, OpenChat, CloseChat, Serve, Arrive, Fail
    <3>8. CASE UNCHANGED vars
      BY <3>1, <3>8 DEF vars
    <3> QED BY <3>2, <3>3, <3>5, <3>6, <3>7, <3>8 DEF Next
  <2>4. PageTypes'
    <3>1. CASE UNCHANGED page
      BY <2>0, <3>1 DEF PageTypes, page, arrived
    <3>2. CASE Stopping \/ Watching \/ Writing \/ Editing
      BY <3>1, <3>2 DEF Stopping, Interrupt, Drained, ShutdownExpires, PageCloses, HandlerEnds,
        Watching, Writing, Editing, AddDirs, NothingToSync, Walk, Add, Send,
        TakeEvent, Save, Scan, Swap, Notify, Mkdir, Edit
    <3>3. CASE Streaming
      BY <2>0, <3>1, <3>3 DEF PageTypes, Streaming, Leave, Subscribe, Disconnect, TakeStore, TakeDocs,
        SetTimer, arrived
    <3>4. ASSUME NEW p \in Pages, Serve(p)
          PROVE  PageTypes'
      <4>1. Current(p) \in Nat /\ answers[p] \in Seq(Nat)
        BY <2>0, Facts DEF Current, ServerTypes, PageTypes
      <4>2. Append(answers[p], Current(p)) \in Seq(Nat)
        BY <4>1, AppendedAnswers
      <4> QED BY <2>0, <3>4, <4>2 DEF PageTypes, Serve, arrived
    <3>5. ASSUME NEW p \in Pages, Arrive(p)
          PROVE  PageTypes'
      <4>1. PICK i \in DOMAIN answers[p] :
              /\ answers' = [answers EXCEPT ![p] = RemoveAt(@, i)]
              /\ shown' = [shown EXCEPT ![p] = answers[p][i]]
              /\ \/ /\ i <= overtaken[p]
                    /\ overtaken' = [overtaken EXCEPT ![p] = @ - 1] /\ late' = late \cup {p}
                 \/ overtaken' = [overtaken EXCEPT ![p] = i - 1] /\ late' = late \ {p}
        BY <3>5 DEF Arrive
      <4>2. answers[p] \in Seq(Nat) /\ answers[p][i] \in Nat
        BY <2>0, <4>1, ElementOfSeq, LenProperties DEF PageTypes
      <4>3. RemoveAt(answers[p], i) \in Seq(Nat)
        BY <4>2, RemoveAtProperties
      <4>4. i \in Nat /\ i > 0
        BY <4>1, <4>2, LenProperties
      <4>5. overtaken' \in [Pages -> Nat] /\ late' \subseteq Pages
        <5>1. overtaken \in [Pages -> Nat] /\ late \subseteq Pages
          BY <2>0 DEF PageTypes
        <5>2. i - 1 \in Nat /\ (i <= overtaken[p] => overtaken[p] - 1 \in Nat)
          BY <4>4, <5>1
        <5>3. overtaken' = [overtaken EXCEPT ![p] = i - 1] => overtaken' \in [Pages -> Nat]
          BY <5>1, <5>2
        <5>4. i <= overtaken[p] /\ overtaken' = [overtaken EXCEPT ![p] = @ - 1]
                => overtaken' \in [Pages -> Nat]
          BY <5>1, <5>2
        <5> QED BY <4>1, <5>1, <5>3, <5>4
      <4> QED BY <2>0, <3>5, <4>1, <4>2, <4>3, <4>5 DEF PageTypes, Arrive
    <3>6. CASE Refreshing
      <4>1. ASSUME NEW p \in Pages, OpenChat(p) \/ CloseChat(p)
            PROVE  PageTypes'
        BY <2>0, <4>1 DEF PageTypes, OpenChat, CloseChat, SetTimer, arrived
      <4>2. ASSUME NEW p \in Pages, Fail(p)
            PROVE  PageTypes'
        BY <2>0, <4>2 DEF PageTypes, Fail, arrived
      <4>3. ASSUME NEW p \in Pages, Refresh(p)
            PROVE  PageTypes'
        <5>1. CASE overlay[p]
          BY <2>0, <4>3, <5>1 DEF PageTypes, Refresh, arrived
        <5>2. CASE ~overlay[p]
          <6>1. /\ timer' = [timer EXCEPT ![p] = FALSE]
                /\ asked' = [asked EXCEPT ![p] = @ + 1]
                /\ UNCHANGED <<overlay, answers, shown, overtaken, late>>
            BY <4>3, <5>2 DEF Refresh, arrived
          <6>2. asked' \in [Pages -> Nat]
            BY <2>0, <6>1 DEF PageTypes
          <6>3. timer' \in [Pages -> BOOLEAN]
            BY <2>0, <6>1 DEF PageTypes
          <6> QED BY <2>0, <6>1, <6>2, <6>3 DEF PageTypes
        <5> QED BY <5>1, <5>2
      <4> QED BY <3>4, <3>5, <3>6, <4>1, <4>2, <4>3 DEF Refreshing
    <3>7. CASE UNCHANGED vars
      BY <3>1, <3>7 DEF vars
    <3> QED BY <3>2, <3>3, <3>6, <3>7 DEF Next
  <2> QED BY <2>1, <2>2, <2>3, <2>4 DEF TypeOK, ServerTypes, StreamTypes, PageTypes, CountTypes, Labels
<1> QED BY <1>1, <1>2, PTL DEF Spec

-----------------------------------------------------------------------------
(* News is underway                                                        *)
(*                                                                         *)
(* What makes the property inductive: a directory nobody watches yet, and  *)
(* a cache that is behind, have an event or a timer of the store's watcher *)
(* even while its round is under way, and so has a scan of its own that is *)
(* already out of date; and of a page's answers no more have been          *)
(* overtaken than are under way.                                           *)

Noticed(t) == raw[t] \/ armed[t]
WatchedOrNoticed == watched["state"] = depth["state"] \/ Noticed("state")
ScannedOrNoticed ==
  pc["state"] \in {"swap", "renew"} => snap["state"] = disk["state"] \/ Noticed("state")
CachedOrNoticed ==
  \/ cache = disk["state"] \/ Noticed("state") \/ stale
  \/ pc["state"] \in {"scan", "swap", "reload", "renew"}
WatcherInv == WatchedOrNoticed /\ ScannedOrNoticed /\ CachedOrNoticed
OvertakenUnderway == \A p \in Pages : overtaken[p] <= Len(answers[p])
AllPagesFollow == \A p \in Pages : PageFollowsServer(p)
NewsInv == TypeOK /\ WatcherInv /\ OvertakenUnderway /\ AllPagesFollow

LEMMA TypeFacts ==
  ASSUME TypeOK
  PROVE  /\ disk["state"] \in Nat /\ disk["docs"] \in Nat /\ cache \in Nat
         /\ depth["state"] \in Nat /\ depth["docs"] \in Nat
         /\ watched["state"] \in Nat /\ watched["docs"] \in Nat
         /\ \A p \in Pages : Current(p) \in Nat /\ shown[p] \in Nat /\ answers[p] \in Seq(Nat)
                             /\ queue[p] \in Nat /\ asked[p] \in Nat
                             /\ overtaken[p] \in Nat /\ Len(answers[p]) \in Nat
<1>1. ASSUME NEW p \in Pages
      PROVE  /\ answers[p] \in Seq(Nat) /\ Len(answers[p]) \in Nat /\ overtaken[p] \in Nat
             /\ shown[p] \in Nat /\ queue[p] \in Nat /\ asked[p] \in Nat
  <2>1. answers[p] \in Seq(Nat)
    BY DEF TypeOK
  <2>2. Len(answers[p]) \in Nat
    BY <2>1, LenProperties
  <2> QED BY <2>1, <2>2, Facts DEF TypeOK
<1> QED BY <1>1, Facts DEF TypeOK, Current

(* An edit the watcher is told of, or one below what it watches.           *)
LEMMA EditNoticed ==
  ASSUME TypeOK, NEW t \in Trees, NEW where \in Nat, where <= depth[t], Changed(t, where)
  PROVE  /\ disk'[t] = disk[t] + 1 /\ \A u \in Trees \ {t} : disk'[u] = disk[u] /\ raw'[u] = raw[u]
         /\ raw[t] => raw'[t]
         /\ raw'[t] \/ watched[t] < depth[t]
<1>1. /\ depth[t] \in Nat /\ watched[t] \in Nat /\ raw \in [Trees -> BOOLEAN] /\ disk \in [Trees -> Nat]
  BY DEF TypeOK
<1>2. /\ disk'[t] = disk[t] + 1
      /\ \A u \in Trees \ {t} : disk'[u] = disk[u] /\ raw'[u] = raw[u]
      /\ raw'[t] = (raw[t] \/ where <= watched[t])
  BY <1>1, Zenon DEF Changed
<1>3. raw[t] => raw'[t]
  BY <1>2, Zenon
<1>4. where <= watched[t] => raw'[t]
  BY <1>2, Zenon
<1>5. where <= watched[t] \/ watched[t] < depth[t]
  BY <1>1
<1> QED BY <1>2, <1>3, <1>4, <1>5

(* Every edit is one of Changed at a depth that exists.                    *)
LEMMA Edits ==
  ASSUME TypeOK, Editing \/ \E q \in Writers : Save(q)
  PROVE  \E t \in Trees, where \in Nat :
           /\ where <= depth[t] /\ Changed(t, where)
           /\ UNCHANGED <<watched, armed, want, caching, streams, page, missed>>
           /\ \/ Editing /\ UNCHANGED pc /\ \A u \in Trees \ {t} : depth'[u] = depth[u]
                         /\ depth'[t] \in {depth[t], depth[t] + 1}
              \/ t = "state" /\ UNCHANGED depth
                 /\ \E q \in Writers : pc' = [pc EXCEPT ![q] = "reload"]
<1>1. depth \in [Trees -> Nat]
  BY DEF TypeOK
<1>2. ASSUME NEW t \in Trees, Mkdir(t)
      PROVE  /\ depth[t] \in Nat /\ Changed(t, depth[t])
             /\ UNCHANGED <<watched, armed, want, caching, streams, page, missed, pc>>
             /\ \A u \in Trees \ {t} : depth'[u] = depth[u]
             /\ depth'[t] = depth[t] + 1
  BY <1>1, <1>2 DEF Mkdir
<1>3. ASSUME NEW t \in Trees, NEW where \in 0 .. MaxDepth, Edit(t, where)
      PROVE  /\ where \in Nat /\ where <= depth[t] /\ Changed(t, where)
             /\ UNCHANGED <<watched, armed, want, caching, streams, page, missed, pc, depth>>
  BY <1>3 DEF Edit
<1>4. ASSUME NEW q \in Writers, Save(q)
      PROVE  /\ "state" \in Trees /\ 0 \in Nat /\ 0 <= depth["state"] /\ Changed("state", 0)
             /\ UNCHANGED <<watched, armed, want, caching, streams, page, missed, depth>>
             /\ pc' = [pc EXCEPT ![q] = "reload"]
  BY <1>1, <1>4, Facts DEF Save, Goto
<1>5. CASE \E q \in Writers : Save(q)
  BY <1>4, <1>5
<1>6. CASE \E t \in Trees : Mkdir(t)
  <2>1. PICK t \in Trees : Mkdir(t)
    BY <1>6
  <2>2. depth[t] <= depth[t]
    BY <1>1
  <2>3. Editing
    BY <2>1 DEF Editing
  <2> QED BY <1>2, <2>1, <2>2, <2>3
<1>7. CASE \E t \in Trees : \E where \in 0 .. MaxDepth : Edit(t, where)
  <2>1. PICK t \in Trees, where \in 0 .. MaxDepth : Edit(t, where)
    BY <1>7
  <2>2. Editing
    BY <2>1 DEF Editing
  <2> QED BY <1>3, <2>1, <2>2
<1> QED BY <1>5, <1>6, <1>7 DEF Editing

(* A step that leaves a page alone keeps it following, if its news stays.  *)
LEMMA PageFrame ==
  ASSUME NEW p \in Pages, UNCHANGED page, PageFollowsServer(p),
         p \in missed => p \in missed',
         \/ NewsFor(p)'
         \/ /\ Current(p)' = Current(p)
            /\ queue[p] > 0 => queue'[p] > 0 \/ p \in missed'
            /\ NewsFor(p) => queue'[p] > 0 \/ p \in missed'
  PROVE  PageFollowsServer(p)'
<1>1. CASE NewsFor(p)'
  BY <1>1 DEF PageFollowsServer
<1>0. /\ timer' = timer /\ asked' = asked /\ answers' = answers /\ shown' = shown
      /\ overtaken' = overtaken /\ overlay' = overlay /\ late' = late
  BY DEF page, arrived
<1>3. CASE Excused(p)
  BY <1>0, <1>3 DEF PageFollowsServer, Excused
<1>4. CASE /\ Current(p)' = Current(p)
           /\ queue[p] > 0 => queue'[p] > 0 \/ p \in missed'
           /\ NewsFor(p) => queue'[p] > 0 \/ p \in missed'
           /\ NewsFor(p) \/ Underway(p)
  <2>1. CASE queue'[p] > 0 \/ p \in missed'
    BY <2>1 DEF PageFollowsServer, Underway, Excused
  <2>2. CASE Underway(p) /\ ~(queue[p] > 0)
    <3>1. Underway(p)'
      BY <1>0, <1>4, <2>2 DEF Underway, Latest
    <3> QED BY <3>1 DEF PageFollowsServer
  <2> QED BY <1>4, <2>1, <2>2
<1> QED BY <1>1, <1>3, <1>4 DEF PageFollowsServer

(* The watcher's three facts.                                              *)
LEMMA WatcherStep ==
  ASSUME TypeOK, WatcherInv, [Next]_vars
  PROVE  WatcherInv'
<1> USE DEF WatcherInv
<1>0. pc \in [Procs -> Labels] /\ snap \in [Writers -> Nat]
  BY DEF TypeOK, Labels
<1>1. CASE UNCHANGED server
  BY <1>1 DEF WatchedOrNoticed, ScannedOrNoticed, CachedOrNoticed, Noticed, server, caching
<1>2. CASE Editing \/ \E q \in Writers : Save(q)
  <2>1. PICK t \in Trees, where \in Nat :
           /\ where <= depth[t] /\ Changed(t, where)
           /\ UNCHANGED <<watched, armed, want, caching, streams, page, missed>>
           /\ \/ Editing /\ UNCHANGED pc /\ \A u \in Trees \ {t} : depth'[u] = depth[u]
                         /\ depth'[t] \in {depth[t], depth[t] + 1}
              \/ t = "state" /\ UNCHANGED depth
                 /\ \E q \in Writers : pc' = [pc EXCEPT ![q] = "reload"]
    BY <1>2, Edits
  <2>2. /\ disk'[t] = disk[t] + 1 /\ \A u \in Trees \ {t} : disk'[u] = disk[u] /\ raw'[u] = raw[u]
        /\ raw[t] => raw'[t]
        /\ raw'[t] \/ watched[t] < depth[t]
    BY <2>1, EditNoticed
  <2>3. CASE t = "docs"
    <3>1. /\ disk'["state"] = disk["state"] /\ raw'["state"] = raw["state"]
          /\ depth'["state"] = depth["state"] /\ UNCHANGED <<watched, armed, snap, cache, stale, pc>>
      BY <2>1, <2>2, <2>3, Facts DEF caching
    <3> QED BY <3>1 DEF WatchedOrNoticed, ScannedOrNoticed, CachedOrNoticed, Noticed
  <2>4. CASE t = "state"
    <3>1. Noticed("state")'
      BY <2>1, <2>2, <2>4, TypeFacts DEF WatchedOrNoticed, Noticed
    <3> QED BY <3>1 DEF WatchedOrNoticed, ScannedOrNoticed, CachedOrNoticed
  <2> QED BY <2>3, <2>4, Facts
<1>3. ASSUME NEW q \in Writers, Scan(q)
      PROVE  WatcherInv'
  <2>1. /\ UNCHANGED <<watched, depth, raw, armed, cache, stale, disk>>
        /\ snap' = [snap EXCEPT ![q] = disk["state"]]
        /\ \/ pc[q] = "scan" /\ pc' = [pc EXCEPT ![q] = "swap"]
           \/ pc[q] = "reload" /\ pc' = [pc EXCEPT ![q] = "renew"]
    BY <1>3 DEF Scan, Goto
  <2>2. CASE q = "state"
    <3>1. pc'["state"] \in {"swap", "renew"} /\ snap'["state"] = disk'["state"]
      BY <1>0, <2>1, <2>2, Facts
    <3> QED BY <2>1, <3>1 DEF WatchedOrNoticed, ScannedOrNoticed, CachedOrNoticed, Noticed
  <2>3. CASE q # "state"
    <3>1. pc'["state"] = pc["state"] /\ snap'["state"] = snap["state"]
      BY <1>0, <2>1, <2>3, Facts
    <3> QED BY <2>1, <3>1 DEF WatchedOrNoticed, ScannedOrNoticed, CachedOrNoticed, Noticed
  <2> QED BY <2>2, <2>3
<1>4. ASSUME NEW q \in Writers, Swap(q)
      PROVE  WatcherInv'
  <2>1. /\ UNCHANGED <<watched, depth, raw, armed, snap, disk>>
        /\ cache' = snap[q] /\ stale' = (q = "request" /\ snap[q] # disk["state"])
        /\ \/ pc[q] = "swap" /\ pc' = [pc EXCEPT ![q] = "sync"]
           \/ pc[q] = "renew" /\ pc' = [pc EXCEPT ![q] = "notify"]
    BY <1>4 DEF Swap, Goto
  <2>2. CASE q = "state"
    <3>1. pc'["state"] \in {"sync", "notify"} /\ cache' = snap["state"] /\ pc["state"] \in {"swap", "renew"}
      BY <1>0, <2>1, <2>2, Facts
    <3> QED BY <2>1, <3>1 DEF WatchedOrNoticed, ScannedOrNoticed, CachedOrNoticed, Noticed
  <2>3. CASE q # "state"
    <3>1. pc'["state"] = pc["state"] /\ q = "request"
      BY <1>0, <2>1, <2>3, Facts
    <3>2. cache' = disk'["state"] \/ stale'
      BY <2>1, <3>1, Zenon
    <3> QED BY <2>1, <3>1, <3>2 DEF WatchedOrNoticed, ScannedOrNoticed, CachedOrNoticed, Noticed
  <2> QED BY <2>2, <2>3
<1>5. ASSUME NEW q \in Writers, Notify(q)
      PROVE  WatcherInv'
  <2>1. /\ pc[q] \in {"notify", "tell"} /\ pc'[q] \in {"sync", "wait"}
        /\ \A r \in Procs \ {q} : pc'[r] = pc[r]
        /\ UNCHANGED <<watched, depth, raw, armed, caching, disk>>
    BY <1>0, <1>5, Facts DEF Notify, Goto
  <2>2. \/ pc'["state"] = pc["state"]
        \/ pc["state"] \in {"notify", "tell"} /\ pc'["state"] \in {"sync", "wait"}
    BY <2>1, Facts
  <2> QED BY <2>1, <2>2 DEF WatchedOrNoticed, ScannedOrNoticed, CachedOrNoticed, Noticed, caching
<1>6. ASSUME NEW t \in Trees, TakeEvent(t)
      PROVE  WatcherInv'
  <2>1. Noticed("state") => Noticed("state")'
    BY <1>6, Facts DEF TakeEvent, Noticed, TypeOK
  <2> QED BY <1>6, <2>1 DEF TakeEvent, WatchedOrNoticed, ScannedOrNoticed, CachedOrNoticed, caching
<1>7. CASE AddDirs
  <2>1. pc'["state"] = "scan" /\ watched'["state"] = depth'["state"]
    BY <1>7, Facts DEF AddDirs, Goto, TypeOK
  <2> QED BY <2>1 DEF WatchedOrNoticed, ScannedOrNoticed, CachedOrNoticed
<1>8. CASE NothingToSync
  <2>1. /\ pc["state"] = "sync" /\ pc'["state"] = "tell"
        /\ UNCHANGED <<watched, depth, raw, armed, caching, disk>>
    BY <1>8, Facts DEF NothingToSync, Goto, TypeOK
  <2> QED BY <2>1 DEF WatchedOrNoticed, ScannedOrNoticed, CachedOrNoticed, Noticed, caching
<1>9. CASE Walk \/ Add \/ Send
  <2>1. /\ pc'["state"] = pc["state"]
        /\ raw' = raw /\ armed'["state"] = armed["state"]
        /\ watched'["state"] = watched["state"] /\ UNCHANGED <<depth, caching, disk>>
    BY <1>9, Facts DEF Walk, Add, Send, Fire, Goto, TypeOK
  <2> QED BY <2>1 DEF WatchedOrNoticed, ScannedOrNoticed, CachedOrNoticed, Noticed, caching
<1>10. CASE Stopping \/ Streaming \/ Refreshing \/ UNCHANGED vars
  BY <1>1, <1>10 DEF Stopping, Interrupt, Drained, ShutdownExpires, PageCloses, HandlerEnds,
    Streaming, Refreshing, Leave, Subscribe, Disconnect, TakeStore, TakeDocs,
    Refresh, OpenChat, CloseChat, Serve, Arrive, Fail, vars
<1> QED BY <1>2, <1>3, <1>4, <1>5, <1>6, <1>7, <1>8, <1>9, <1>10 DEF Next, Writing, Watching

(* What a step of the server does to the news of a page.                   *)
LEMMA ServerStep ==
  ASSUME NewsInv, Watching \/ Writing \/ Editing, NEW p \in Pages
  PROVE  PageFollowsServer(p)'
<1> USE DEF NewsInv
<1>0. PageFollowsServer(p) /\ Tree(p) \in Trees
  BY Facts DEF AllPagesFollow, Tree
<1>1. CASE Editing \/ \E q \in Writers : Save(q)
  <2>1. PICK t \in Trees, where \in Nat :
           /\ where <= depth[t] /\ Changed(t, where)
           /\ UNCHANGED <<watched, armed, want, caching, streams, page, missed>>
           /\ \/ Editing /\ UNCHANGED pc /\ \A u \in Trees \ {t} : depth'[u] = depth[u]
                         /\ depth'[t] \in {depth[t], depth[t] + 1}
              \/ t = "state" /\ UNCHANGED depth
                 /\ \E q \in Writers : pc' = [pc EXCEPT ![q] = "reload"]
    BY <1>1, Edits
  <2>2. /\ disk'[t] = disk[t] + 1 /\ \A u \in Trees \ {t} : disk'[u] = disk[u] /\ raw'[u] = raw[u]
        /\ raw[t] => raw'[t]
        /\ raw'[t] \/ watched[t] < depth[t]
    BY <2>1, EditNoticed
  <2>3. CASE p \in Explorers /\ t = "docs"
    <3>1. Settling("docs")' \/ Blind'
      <4>1. CASE raw'["docs"]
        BY <4>1 DEF Settling
      <4>2. CASE watched["docs"] < depth["docs"]
        <5>1. watched'["docs"] = watched["docs"] /\ depth'["docs"] \in {depth["docs"], depth["docs"] + 1}
          BY <2>1, <2>3, Facts
        <5>2. watched'["docs"] < depth'["docs"]
          BY <4>2, <5>1, TypeFacts
        <5> QED BY <5>2 DEF Blind
      <4> QED BY <2>2, <2>3, <4>1, <4>2
    <3> QED BY <1>0, <2>1, <2>3, <3>1, PageFrame DEF NewsFor
  <2>4. CASE p \in Explorers /\ t = "state"
    <3>1. /\ disk'["docs"] = disk["docs"] /\ raw'["docs"] = raw["docs"] /\ depth'["docs"] = depth["docs"]
          /\ pc'["docs"] = pc["docs"] /\ UNCHANGED <<watched, armed, token, queue>>
      BY <2>1, <2>2, <2>4, Facts DEF TypeOK, streams
    <3>2. Current(p)' = Current(p) /\ (NewsFor(p) => NewsFor(p)')
      BY <2>4, <3>1 DEF Current, NewsFor, Settling, Blind
    <3> QED BY <1>0, <2>1, <3>1, <3>2, PageFrame
  <2>5. CASE p \notin Explorers
    <3>1. Current(p)' = Current(p) /\ UNCHANGED <<queue, missed, page>>
      BY <2>1, <2>5 DEF Current, streams, caching
    <3>2. NewsFor(p) => NewsFor(p)'
      BY <2>1, <2>5, Facts DEF NewsFor, TypeOK
    <3> QED BY <1>0, <3>1, <3>2, PageFrame
  <2> QED BY <2>3, <2>4, <2>5, Facts
<1>2. ASSUME NEW q \in Writers, Scan(q) \/ Swap(q)
      PROVE  PageFollowsServer(p)'
  <2>1. /\ UNCHANGED <<disk, depth, watched, raw, armed, token, queue, page, missed>>
        /\ pc'["docs"] = pc["docs"] /\ \A r \in Writers \ {q} : pc'[r] = pc[r]
        /\ \/ pc[q] = "scan" /\ cache' = cache
           \/ pc'[q] \in {"renew", "sync", "notify"}
    BY <1>2, Facts DEF Scan, Swap, Goto, TypeOK, streams
  <2>2. CASE p \in Explorers
    BY <1>0, <2>1, <2>2, PageFrame DEF Current, NewsFor, Settling, Blind
  <2>3. CASE p \notin Explorers /\ NewsFor(p)'
    BY <1>0, <2>1, <2>3, PageFrame
  <2>4. CASE p \notin Explorers /\ ~NewsFor(p)'
    <3>1. pc[q] = "scan" /\ cache' = cache
      BY <2>1, <2>4, Facts DEF NewsFor
    <3>2. ~NewsFor(p)
      BY <2>1, <2>4, <3>1, Facts DEF NewsFor
    <3> QED BY <1>0, <2>1, <2>4, <3>1, <3>2, PageFrame DEF Current
  <2> QED BY <2>2, <2>3, <2>4
<1>3. ASSUME NEW q \in Writers, Notify(q)
      PROVE  PageFollowsServer(p)'
  <2>1. /\ UNCHANGED <<disk, depth, watched, raw, armed, token, cache, page>>
        /\ pc'["docs"] = pc["docs"] /\ Told
    BY <1>3, Facts DEF Notify, Goto, TypeOK, caching
  <2>2. p \in missed => p \in missed'
    BY <2>1 DEF Told
  <2>3. queue[p] > 0 => queue'[p] > 0
    BY <2>1, TypeFacts DEF Told
  <2>4. CASE p \in Explorers
    BY <1>0, <2>1, <2>2, <2>3, <2>4, PageFrame DEF Current, NewsFor, Settling, Blind
  <2>5. CASE p \notin Explorers
    <3>1. queue'[p] > 0 \/ p \in missed'
      BY <2>1, <2>5, TypeFacts, Facts DEF Told, Indexes
    <3>2. Current(p)' = Current(p)
      BY <2>1, <2>5 DEF Current
    <3> QED BY <1>0, <2>1, <2>2, <3>1, <3>2, PageFrame
  <2> QED BY <2>4, <2>5
<1>4. ASSUME NEW t \in Trees, TakeEvent(t)
      PROVE  PageFollowsServer(p)'
  <2>1. /\ UNCHANGED <<disk, depth, watched, token, cache, page, pc, queue, missed>>
        /\ \A u \in Trees : raw[u] \/ armed[u] <=> raw'[u] \/ armed'[u]
    BY <1>4, Facts DEF TakeEvent, TypeOK, streams, caching
  <2>2. Current(p)' = Current(p) /\ (NewsFor(p) => NewsFor(p)')
    BY <2>1, Facts DEF Current, NewsFor, Settling, Blind
  <2> QED BY <1>0, <2>1, <2>2, PageFrame
<1>5. CASE AddDirs \/ NothingToSync
  <2>1. /\ UNCHANGED <<disk, depth, raw, token, cache, page, queue, missed>>
        /\ watched'["docs"] = watched["docs"] /\ armed'["docs"] = armed["docs"]
        /\ pc'["docs"] = pc["docs"] /\ pc'["request"] = pc["request"]
        /\ pc["state"] = "wait" \/ pc'["state"] = "tell"
    BY <1>5, Facts DEF AddDirs, NothingToSync, Fire, Goto, TypeOK, streams, caching
  <2>2. CASE p \in Explorers
    BY <1>0, <2>1, <2>2, PageFrame DEF Current, NewsFor, Settling, Blind
  <2>3. CASE p \notin Explorers
    <3>1. Current(p)' = Current(p) /\ (NewsFor(p) => NewsFor(p)')
      BY <2>1, <2>3, Facts DEF Current, NewsFor
    <3> QED BY <1>0, <2>1, <3>1, PageFrame
  <2> QED BY <2>2, <2>3
<1>6. CASE Walk \/ Add \/ Send
  <2>1. /\ UNCHANGED <<cache, page, queue, missed>>
        /\ pc'["state"] = pc["state"] /\ pc'["request"] = pc["request"]
        /\ token' \/ pc'["docs"] # "wait"
    BY <1>6, Facts DEF Walk, Add, Send, Fire, Goto, TypeOK, streams, caching
  <2>2. CASE p \in Explorers
    BY <1>0, <2>1, <2>2, PageFrame DEF NewsFor, Settling
  <2>3. CASE p \notin Explorers
    <3>1. Current(p)' = Current(p) /\ (NewsFor(p) => NewsFor(p)')
      BY <2>1, <2>3, Facts DEF Current, NewsFor
    <3> QED BY <1>0, <2>1, <3>1, PageFrame
  <2> QED BY <2>2, <2>3
<1> QED BY <1>1, <1>2, <1>3, <1>4, <1>5, <1>6 DEF Watching, Writing

(* A step that changes nothing a page's news depends on.                   *)
LEMMA PageUntouched ==
  ASSUME NEW p \in Pages, PageFollowsServer(p), UNCHANGED <<server, token>>,
         shown'[p] = shown[p], overtaken'[p] = overtaken[p], timer'[p] = timer[p], overlay'[p] = overlay[p],
         asked'[p] = asked[p], answers'[p] = answers[p], queue'[p] = queue[p],
         p \in missed => p \in missed', p \in late => p \in late'
  PROVE  PageFollowsServer(p)'
<1>1. Current(p)' = Current(p) /\ (NewsFor(p) => NewsFor(p)')
  BY DEF Current, NewsFor, Settling, Blind, server, caching
<1>2. Underway(p) => Underway(p)'
  BY <1>1 DEF Underway, Latest
<1>3. Excused(p) => Excused(p)'
  BY DEF Excused
<1> QED BY <1>1, <1>2, <1>3 DEF PageFollowsServer

(* What a step of a stream does to the news of a page.                     *)
LEMMA StreamStep ==
  ASSUME NewsInv, Streaming, NEW p \in Pages
  PROVE  PageFollowsServer(p)'
<1> USE DEF NewsInv
<1>0. PageFollowsServer(p)
  BY DEF AllPagesFollow
<1>1. CASE Leave
  <2>1. UNCHANGED <<server, conn, queue, page>>
    BY <1>1 DEF Leave
  <2>2. CASE UNCHANGED <<token, missed>>
    BY <1>0, <2>1, <2>2, PageUntouched DEF page, arrived
  <2>3. CASE token' = FALSE /\ missed' = missed \cup Explorers
    <3>1. CASE p \in Explorers
      BY <2>3, <3>1 DEF PageFollowsServer, Excused
    <3>2. CASE p \notin Explorers
      <4>1. Current(p)' = Current(p) /\ (NewsFor(p) => NewsFor(p)')
        BY <2>1, <3>2 DEF Current, NewsFor, server, caching
      <4> QED BY <1>0, <2>1, <2>3, <4>1, PageFrame
    <3> QED BY <3>1, <3>2
  <2> QED BY <1>1, <2>2, <2>3 DEF Leave
<1>2. ASSUME NEW r \in Pages, Subscribe(r)
      PROVE  PageFollowsServer(p)'
  BY <1>0, <1>2, PageUntouched DEF Subscribe, page, arrived
<1>3. ASSUME NEW r \in Pages, Disconnect(r)
      PROVE  PageFollowsServer(p)'
  <2>1. /\ UNCHANGED <<server, token, page>> /\ queue' = [queue EXCEPT ![r] = 0]
        /\ missed' = IF queue[r] > 0 THEN missed \cup {r} ELSE missed
    BY <1>3 DEF Disconnect
  <2>2. p \in missed => p \in missed'
    BY <2>1
  <2>3. queue[p] > 0 => queue'[p] > 0 \/ p \in missed'
    <3>1. queue \in [Pages -> 0 .. Capacity]
      BY DEF TypeOK
    <3> QED BY <2>1, <3>1
  <2>4. Current(p)' = Current(p) /\ (NewsFor(p) => NewsFor(p)')
    BY <2>1 DEF Current, NewsFor, Settling, Blind, server, caching
  <2> QED BY <1>0, <2>1, <2>2, <2>3, <2>4, PageFrame
<1>4. ASSUME NEW r \in Pages, TakeStore(r)
      PROVE  PageFollowsServer(p)'
  <2>1. /\ UNCHANGED <<server, token, overlay, asked, answers, shown, overtaken, late, missed>>
        /\ queue' = [queue EXCEPT ![r] = @ - 1] /\ timer' = [timer EXCEPT ![r] = TRUE]
    BY <1>4 DEF TakeStore, SetTimer, arrived
  <2>2. queue \in [Pages -> 0 .. Capacity] /\ timer \in [Pages -> BOOLEAN]
    BY DEF TypeOK
  <2>3. CASE p = r
    <3>1. timer'[p]
      BY <2>1, <2>2, <2>3, Zenon
    <3> QED BY <3>1 DEF PageFollowsServer, Underway
  <2>4. CASE p # r
    <3>1. timer'[p] = timer[p]
      BY <2>1, <2>2, <2>4, Zenon
    <3>2. queue'[p] = queue[p]
      BY <2>1, <2>2, <2>4
    <3> QED BY <1>0, <2>1, <3>1, <3>2, PageUntouched
  <2> QED BY <2>3, <2>4
<1>5. ASSUME NEW r \in Pages, TakeDocs(r)
      PROVE  PageFollowsServer(p)'
  <2>1. /\ UNCHANGED <<server, queue, overlay, asked, answers, shown, overtaken, late>>
        /\ missed' = missed \cup (Explorers \ {r})
        /\ \/ r \in Explorers /\ timer' = [timer EXCEPT ![r] = TRUE]
           \/ r \notin Explorers /\ timer' = timer
    BY <1>5 DEF TakeDocs, SetTimer, arrived
  <2>2. timer \in [Pages -> BOOLEAN]
    BY DEF TypeOK
  <2>3. CASE p \in Explorers /\ p = r
    <3>1. timer'[p]
      BY <2>1, <2>2, <2>3, Zenon
    <3> QED BY <3>1 DEF PageFollowsServer, Underway
  <2>4. CASE p \in Explorers /\ p # r
    BY <2>1, <2>4 DEF PageFollowsServer, Excused
  <2>5. CASE p \notin Explorers
    <3>1. timer'[p] = timer[p]
      BY <2>1, <2>2, <2>5, Zenon
    <3>2. Current(p)' = Current(p) /\ (NewsFor(p) => NewsFor(p)')
      BY <2>1, <2>5 DEF Current, NewsFor, server, caching
    <3>3. Underway(p) => Underway(p)'
      BY <2>1, <3>1, <3>2 DEF Underway, Latest
    <3>4. Excused(p) => Excused(p)'
      BY <2>1 DEF Excused
    <3> QED BY <1>0, <2>1, <3>2, <3>3, <3>4 DEF PageFollowsServer
  <2> QED BY <2>3, <2>4, <2>5
<1> QED BY <1>1, <1>2, <1>3, <1>4, <1>5 DEF Streaming

(* What a step of a page does to its own news.                             *)
LEMMA PageStep ==
  ASSUME NewsInv, Refreshing, NEW p \in Pages
  PROVE  PageFollowsServer(p)' /\ overtaken'[p] <= Len(answers'[p])
<1> USE DEF NewsInv
<1>0. /\ PageFollowsServer(p) /\ Current(p)' = Current(p) /\ (NewsFor(p) => NewsFor(p)')
      /\ overtaken[p] \in Nat /\ Len(answers[p]) \in Nat /\ overtaken[p] <= Len(answers[p])
      /\ UNCHANGED <<server, streams>>
  <2>1. UNCHANGED <<server, streams>>
    BY DEF Refreshing, Refresh, OpenChat, CloseChat, Serve, Arrive, Fail
  <2> QED BY <2>1, TypeFacts DEF AllPagesFollow, OvertakenUnderway, Current, NewsFor, Settling, Blind,
      server, caching, streams
<1>1. ASSUME NEW r \in Pages, Refresh(r)
      PROVE  PageFollowsServer(p)' /\ overtaken'[p] <= Len(answers'[p])
  <2>1. /\ UNCHANGED <<overlay, answers, shown, overtaken, late, missed>>
        /\ timer' = [timer EXCEPT ![r] = FALSE]
        /\ \/ overlay[r] /\ UNCHANGED asked
           \/ asked' = [asked EXCEPT ![r] = @ + 1]
    BY <1>1 DEF Refresh, arrived
  <2>2. timer \in [Pages -> BOOLEAN] /\ asked \in [Pages -> Nat]
    BY DEF TypeOK
  <2>3. CASE p # r
    <3>1. timer'[p] = timer[p]
      BY <2>1, <2>2, <2>3, Zenon
    <3>2. asked'[p] = asked[p]
      BY <2>1, <2>2, <2>3
    <3> QED BY <1>0, <2>1, <3>1, <3>2, PageUntouched DEF streams
  <2>4. CASE p = r /\ overlay[r]
    BY <1>0, <2>1, <2>4 DEF PageFollowsServer, Excused
  <2>5. CASE p = r /\ ~overlay[r]
    <3>1. asked'[p] > 0
      BY <2>1, <2>2, <2>5
    <3> QED BY <1>0, <2>1, <3>1 DEF PageFollowsServer, Underway
  <2> QED BY <2>3, <2>4, <2>5
<1>2. ASSUME NEW r \in Pages, OpenChat(r)
      PROVE  PageFollowsServer(p)' /\ overtaken'[p] <= Len(answers'[p])
  <2>1. /\ UNCHANGED <<timer, asked, answers, shown, overtaken, late, missed>>
        /\ overlay' = [overlay EXCEPT ![r] = TRUE]
    BY <1>2 DEF OpenChat, arrived
  <2>2. overlay \in [Pages -> BOOLEAN]
    BY DEF TypeOK
  <2>3. CASE p # r
    <3>1. overlay'[p] = overlay[p]
      BY <2>1, <2>2, <2>3, Zenon
    <3> QED BY <1>0, <2>1, <3>1, PageUntouched DEF streams
  <2>4. CASE p = r
    <3>1. overlay'[p]
      BY <2>1, <2>2, <2>4, Zenon
    <3> QED BY <1>0, <2>1, <3>1 DEF PageFollowsServer, Excused
  <2> QED BY <2>3, <2>4
<1>3. ASSUME NEW r \in Pages, CloseChat(r)
      PROVE  PageFollowsServer(p)' /\ overtaken'[p] <= Len(answers'[p])
  <2>1. /\ UNCHANGED <<asked, answers, shown, overtaken, late, missed>>
        /\ overlay' = [overlay EXCEPT ![r] = FALSE] /\ timer' = [timer EXCEPT ![r] = TRUE]
    BY <1>3 DEF CloseChat, SetTimer, arrived
  <2>2. overlay \in [Pages -> BOOLEAN] /\ timer \in [Pages -> BOOLEAN]
    BY DEF TypeOK
  <2>3. CASE p # r
    <3>1. overlay'[p] = overlay[p] /\ timer'[p] = timer[p]
      BY <2>1, <2>2, <2>3, Zenon
    <3> QED BY <1>0, <2>1, <3>1, PageUntouched DEF streams
  <2>4. CASE p = r
    <3>1. timer'[p]
      BY <2>1, <2>2, <2>4, Zenon
    <3> QED BY <1>0, <2>1, <3>1 DEF PageFollowsServer, Underway
  <2> QED BY <2>3, <2>4
<1>4. ASSUME NEW r \in Pages, Serve(r)
      PROVE  PageFollowsServer(p)' /\ overtaken'[p] <= Len(answers'[p])
  <2>1. /\ UNCHANGED <<timer, overlay, shown, overtaken, late>>
        /\ asked' = [asked EXCEPT ![r] = @ - 1] /\ missed' = missed \ {r}
        /\ answers' = [answers EXCEPT ![r] = Append(@, Current(r))]
    BY <1>4 DEF Serve, arrived
  <2>2. asked \in [Pages -> Nat] /\ answers \in [Pages -> Seq(Nat)] /\ Current(p) \in Nat
    BY TypeFacts DEF TypeOK
  <2>3. CASE p # r
    <3>1. asked'[p] = asked[p] /\ answers'[p] = answers[p]
      BY <2>1, <2>2, <2>3
    <3>2. p \in missed => p \in missed'
      BY <2>1, <2>3
    <3> QED BY <1>0, <2>1, <3>1, <3>2, PageUntouched DEF streams
  <2>4. CASE p = r
    <3>1. answers'[p] = Append(answers[p], Current(p))
      BY <2>1, <2>2, <2>4
    <3>2. Len(answers'[p]) = Len(answers[p]) + 1 /\ Last(answers'[p]) = Current(p)
      <4> DEFINE s == answers[p]
                 v == Current(p)
      <4>1. s \in Seq(Nat) /\ v \in Nat
        BY <2>2
      <4> HIDE DEF s, v
      <4>2. Len(Append(s, v)) = Len(s) + 1 /\ Last(Append(s, v)) = v
        BY <4>1, AppendedAnswers
      <4> QED BY <3>1, <4>2 DEF s, v
    <3>3. overtaken'[p] < Len(answers'[p])
      BY <1>0, <2>1, <3>2
    <3>4. Latest(p)' = Current(p)'
      BY <1>0, <3>2, <3>3 DEF Latest
    <3> QED BY <1>0, <2>1, <3>2, <3>4 DEF PageFollowsServer, Underway
  <2> QED BY <2>3, <2>4
<1>5. ASSUME NEW r \in Pages, Arrive(r)
      PROVE  PageFollowsServer(p)' /\ overtaken'[p] <= Len(answers'[p])
  <2>1. PICK i \in DOMAIN answers[r] :
          /\ answers' = [answers EXCEPT ![r] = RemoveAt(@, i)]
          /\ shown' = [shown EXCEPT ![r] = answers[r][i]]
          /\ IF i <= overtaken[r]
             THEN overtaken' = [overtaken EXCEPT ![r] = @ - 1] /\ late' = late \cup {r}
             ELSE overtaken' = [overtaken EXCEPT ![r] = i - 1] /\ late' = late \ {r}
          /\ UNCHANGED <<timer, overlay, asked, missed>>
    BY <1>5 DEF Arrive
  <2>2. /\ answers \in [Pages -> Seq(Nat)] /\ shown \in [Pages -> Nat]
        /\ overtaken \in [Pages -> Nat]
    BY DEF TypeOK
  <2>3. CASE p # r
    <3>1. /\ answers'[p] = answers[p] /\ shown'[p] = shown[p] /\ overtaken'[p] = overtaken[p]
          /\ p \in late => p \in late'
      BY <2>1, <2>2, <2>3
    <3> QED BY <1>0, <2>1, <3>1, PageUntouched DEF streams
  <2>4. CASE p = r
    <3>1. /\ answers[p] \in Seq(Nat) /\ answers'[p] = RemoveAt(answers[p], i)
          /\ i \in 1 .. Len(answers[p]) /\ shown'[p] = answers[p][i]
      BY <2>1, <2>2, <2>4, LenProperties
    <3>2. /\ Len(answers'[p]) = Len(answers[p]) - 1
          /\ i < Len(answers[p]) => Last(answers'[p]) = Last(answers[p])
      BY <2>1, <2>4, <3>1, RemoveAtProperties
    <3>3. Underway(p)' \/ queue[p] > 0 \/ timer[p] \/ asked[p] > 0 => Underway(p)'
      BY <1>0, <2>1 DEF Underway, streams
    <3>4. overlay[p] \/ p \in missed => Excused(p)'
      BY <2>1 DEF Excused
    <3>5. CASE i <= overtaken[p]
      <4>1. overtaken'[p] = overtaken[p] - 1 /\ p \in late'
        BY <2>1, <2>2, <2>4, <3>5
      <4>2. overtaken'[p] <= Len(answers'[p])
        BY <1>0, <3>2, <4>1
      <4>3. CASE overtaken[p] = Len(answers[p])
        BY <3>2, <4>1, <4>2, <4>3 DEF PageFollowsServer, Excused
      <4>4. CASE overtaken[p] < Len(answers[p])
        <5>1. Latest(p) = Last(answers[p]) /\ Latest(p)' = Last(answers[p])
          BY <1>0, <3>1, <3>2, <3>5, <4>1, <4>4 DEF Latest
        <5>2. Excused(p) => Excused(p)'
          BY <1>0, <3>4, <4>4 DEF Excused
        <5>3. Underway(p) => Underway(p)'
          BY <1>0, <3>3, <5>1 DEF Underway
        <5> QED BY <1>0, <4>2, <5>2, <5>3 DEF PageFollowsServer
      <4> QED BY <1>0, <4>3, <4>4
    <3>6. CASE overtaken[p] < i
      <4>1. overtaken'[p] = i - 1
        BY <1>0, <2>1, <2>2, <2>4, <3>1, <3>6
      <4>2. overtaken'[p] <= Len(answers'[p]) /\ overtaken[p] < Len(answers[p])
        BY <1>0, <3>1, <3>2, <3>6, <4>1
      <4>3. Latest(p)' = Latest(p)
        <5>1. Latest(p) = Last(answers[p])
          BY <4>2 DEF Latest
        <5>2. CASE i < Len(answers[p])
          BY <1>0, <3>1, <3>2, <4>1, <5>1, <5>2 DEF Latest
        <5>3. CASE i = Len(answers[p])
          BY <1>0, <3>1, <3>2, <4>1, <5>1, <5>3 DEF Latest, Last
        <5> QED BY <1>0, <3>1, <5>2, <5>3
      <4>4. Excused(p) => Excused(p)'
        BY <1>0, <3>4, <4>2 DEF Excused
      <4>5. Underway(p) => Underway(p)'
        BY <1>0, <3>3, <4>3 DEF Underway
      <4> QED BY <1>0, <4>2, <4>4, <4>5 DEF PageFollowsServer
    <3> QED BY <1>0, <3>1, <3>5, <3>6
  <2> QED BY <2>3, <2>4
<1>6. ASSUME NEW r \in Pages, Fail(r)
      PROVE  PageFollowsServer(p)' /\ overtaken'[p] <= Len(answers'[p])
  <2>1. /\ UNCHANGED <<timer, overlay, answers, shown, overtaken, late>>
        /\ asked' = [asked EXCEPT ![r] = @ - 1] /\ missed' = missed \cup {r}
    BY <1>6 DEF Fail, arrived
  <2>2. CASE p # r
    <3>1. asked'[p] = asked[p]
      BY <2>1, <2>2 DEF TypeOK
    <3> QED BY <1>0, <2>1, <3>1, PageUntouched DEF streams
  <2>3. CASE p = r
    BY <1>0, <2>1, <2>3 DEF PageFollowsServer, Excused
  <2> QED BY <2>2, <2>3
<1> QED BY <1>1, <1>2, <1>3, <1>4, <1>5, <1>6 DEF Refreshing

(* News is underway in every reachable state: whatever the order of edits, *)
(* writes, watchers' rounds, lost connections, chats and answers, a page   *)
(* that shows something old either has its news on the way or is one of    *)
(* the excused.                                                            *)
THEOREM NewsTravels == Spec => []NewsIsUnderway
<1>1. Init => NewsInv
  <2> SUFFICES ASSUME Init PROVE NewsInv
    OBVIOUS
  <2>1. TypeOK
    <3>1. 0 \in 0 .. Capacity
      BY Facts
    <3> QED BY <3>1, Facts, EmptySeq DEF Init, TypeOK
  <2>2. \A p \in Pages : shown[p] = 0 /\ Current(p) = 0 /\ Len(answers[p]) = 0 /\ overtaken[p] = 0
    <3>1. Len(<<>>) = 0
      BY EmptySeq
    <3> QED BY <3>1, Facts DEF Init, Current
  <2>3. WatcherInv
    BY Facts DEF Init, WatcherInv, WatchedOrNoticed, ScannedOrNoticed, CachedOrNoticed
  <2> QED BY <2>1, <2>2, <2>3 DEF NewsInv, OvertakenUnderway, AllPagesFollow, PageFollowsServer,
      Underway, Latest
<1>2. TypeOK' /\ NewsInv /\ [Next]_vars => NewsInv'
  <2> SUFFICES ASSUME TypeOK', NewsInv, [Next]_vars PROVE NewsInv'
    OBVIOUS
  <2>1. WatcherInv'
    BY WatcherStep DEF NewsInv
  <2>2. ASSUME NEW p \in Pages
        PROVE  PageFollowsServer(p)' /\ overtaken'[p] <= Len(answers'[p])
    <3>0. PageFollowsServer(p) /\ overtaken[p] <= Len(answers[p])
      BY DEF NewsInv, AllPagesFollow, OvertakenUnderway
    <3>1. CASE Watching \/ Writing \/ Editing
      <4>1. UNCHANGED <<answers, overtaken>>
        BY <3>1 DEF Watching, Writing, Editing, AddDirs, NothingToSync, Walk, Add, Send,
          TakeEvent, Save, Scan, Swap, Notify, Mkdir, Edit, page, arrived
      <4> QED BY <3>0, <3>1, <4>1, ServerStep
    <3>2. CASE Streaming
      <4>1. UNCHANGED <<answers, overtaken>>
        BY <3>2 DEF Streaming, Leave, Subscribe, Disconnect, TakeStore, TakeDocs, page, arrived
      <4> QED BY <3>0, <3>2, <4>1, StreamStep
    <3>3. CASE Refreshing
      BY <3>3, PageStep
    <3>4. CASE Stopping \/ UNCHANGED vars
      <4>1. UNCHANGED <<server, token, queue, page, missed>>
        BY <3>4 DEF Stopping, Interrupt, Drained, ShutdownExpires, PageCloses, HandlerEnds, vars, streams
      <4> QED BY <3>0, <4>1, PageUntouched DEF page, arrived
    <3> QED BY <3>1, <3>2, <3>3, <3>4 DEF Next
  <2>3. AllPagesFollow' /\ OvertakenUnderway'
    BY <2>2 DEF AllPagesFollow, OvertakenUnderway
  <2> QED BY <2>1, <2>3 DEF NewsInv
<1>3. NewsInv => NewsIsUnderway
  <2> SUFFICES ASSUME NewsInv PROVE NewsIsUnderway
    OBVIOUS
  <2>1. CacheFollowsTree
    <3>1. CASE Noticed("state")
      BY <3>1 DEF CacheFollowsTree, Settling, Noticed
    <3>2. CASE ~Noticed("state")
      BY <3>2 DEF NewsInv, WatcherInv, WatchedOrNoticed, CachedOrNoticed, CacheFollowsTree, Settling
    <3> QED BY <3>1, <3>2
  <2> QED BY <2>1 DEF NewsInv, AllPagesFollow, NewsIsUnderway
<1> QED BY <1>1, <1>2, <1>3, LiveTypeCorrect, PTL DEF Spec

=============================================================================
