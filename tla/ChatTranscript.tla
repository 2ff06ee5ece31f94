--------------------------- MODULE ChatTranscript ---------------------------
(***************************************************************************)
(* One session of a change as the chat drawer works on it: its transcript  *)
(* and inbox in the opencode service, and the requests of                  *)
(* internal/server/chat.go, sessionlifecycle.go and reprime.go against     *)
(* them. Every request is a sequence of calls to the service, which runs   *)
(* turns, compacts and takes the input of other clients between any two.   *)
(*                                                                         *)
(* A message is known by its id, and ids grow; the inbox is in their       *)
(* order. Text, files and skills are left out; so is a scaffold's binding  *)
(* message (module ChatNaming).                                            *)
(***************************************************************************)
EXTENDS Naturals, FiniteSets, Sequences, SequencesExt

CONSTANTS
  Clients,     \* goroutines serving requests
  None,
  Page,        \* reprimeScanLimit
  MaxId, MaxCalls, MaxFaults, MaxMarks   \* bounds: messages, requests, failures, compactions

ASSUME TranscriptAssumption ==
  /\ Clients # {}
  /\ None \notin Clients \cup {"send", "resume", "compact", "revert", "stage", "commit", "clear", "queue", "steer"}
  /\ Page \in Nat \ {0}
  /\ MaxId \in Nat \ {0} /\ MaxCalls \in Nat /\ MaxFaults \in Nat /\ MaxMarks \in Nat

VARIABLES
  log,        \* the transcript, oldest message first
  inbox,      \* admitted input that no turn has taken up yet
  queued,     \* the input in the inbox that waits for the end of the turn
  running,    \* the session is in a turn
  staged,     \* the message a staged revert goes back to, or 0
  pc, call,   \* the step each client takes next, and its request
  stale,      \* the requests confirmed for another Time.Updated than the session's
  next, calls, faults,
  \* history:
  commits,    \* the reverts committed: what was asked, done, and lost unseen
  raced       \* the clients past their last look at a revert that changed

service == <<log, inbox, queued, running, staged, stale, next>>
history == <<commits, raced>>
vars == <<service, pc, call, calls, faults, history>>

Ids == 1 .. MaxId
Kinds == {"user", "restore", "assistant", "compact", "compacting", "compaction"}
(* "after" of user input: the compactions the restoration made before it   *)
(* answers for; of a restoration, the one its request found. "from" of a   *)
(* restoration: the first id not handed out when its request began to      *)
(* look; "blind": the inbox could not be read.                             *)
Messages == [id : Ids, kind : Kinds, after : SUBSET Ids, from : Nat, blind : BOOLEAN]
Message(kind) == [id |-> next, kind |-> kind, after |-> {}, from |-> 0, blind |-> FALSE]

NoCall == [op |-> None, item |-> 0, target |-> 0, delivery |-> None,
           shown |-> {}, unseen |-> {}, after |-> {}, forgotten |-> {}, from |-> 0, blind |-> FALSE]
Ops == {None, "send", "resume", "compact", "revert", "stage", "commit", "clear"}
Calls == [op : Ops, item : Ids \cup {0}, target : Ids \cup {0}, delivery : {None, "queue", "steer"},
          shown : SUBSET Ids, unseen : SUBSET Ids,
          after : SUBSET Ids, forgotten : SUBSET Ids, from : Nat, blind : BOOLEAN]
Labels == {"idle", "inbox", "transcript", "inject", "admit", "guard", "busy", "act", "reread", "commit"}

Init ==
  /\ next = 2 /\ log = <<[Message("user") EXCEPT !.id = 1]>>
  /\ inbox = {} /\ queued = {} /\ running = FALSE /\ staged = 0 /\ stale = {}
  /\ pc = [c \in Clients |-> "idle"] /\ call = [c \in Clients |-> NoCall]
  /\ calls = 0 /\ faults = 0
  /\ commits = {} /\ raced = {}

-----------------------------------------------------------------------------
IdsOf(messages) == {m.id : m \in messages}
OfKind(messages, kind) == {m \in messages : m.kind = kind}
Compactions(s) == IdsOf(OfKind(ToSet(s), "compaction"))
Compacting == OfKind(ToSet(log), "compacting") # {}
NewestPage == SubSeq(log, (IF Len(log) > Page THEN Len(log) - Page ELSE 0) + 1, Len(log))
(* A set of messages as a sequence, by their ids.                          *)
Rank(messages, m) == Cardinality({o \in messages : o.id <= m.id})
InOrder(messages) ==
  [n \in 1 .. Cardinality(messages) |-> CHOOSE m \in messages : Rank(messages, m) = n]

(* needsReprime, over one page: the newest of the messages that matter is  *)
(* a completed compaction. Two at the same millisecond are not modelled.   *)
Marks == {"user", "restore", "compaction"}
NewestMark(s, i) == i \in DOMAIN s /\ s[i].kind \in Marks /\ \A j \in i + 1 .. Len(s) : s[j].kind \notin Marks
Forgotten(s) == {s[i].id : i \in {j \in DOMAIN s : s[j].kind = "compaction" /\ NewestMark(s, j)}}

At(c, label) == pc[c] = label

(* Time.Updated moves with every change of the transcript or the revert:   *)
(* no request confirmed before still is for the present one.               *)
Touch == stale' = {c \in Clients : At(c, "guard")}
NewId == next <= MaxId /\ next' = next + 1
(* A call to the service fails: no answer, a refusal, or nonsense.         *)
Fault == faults < MaxFaults /\ faults' = faults + 1
Goto(c, label) == pc' = [pc EXCEPT ![c] = label]
With(c, request) == call' = [call EXCEPT ![c] = request]
Answer(c) == Goto(c, "idle") /\ With(c, NoCall) /\ raced' = raced \ {c}
Begin(c, label, request) ==
  /\ At(c, "idle") /\ calls < MaxCalls /\ calls' = calls + 1
  /\ Goto(c, label) /\ With(c, request)
  /\ UNCHANGED <<service, faults, history>>

-----------------------------------------------------------------------------
(* Input, with the restoration that goes before it.                        *)

(* chatPrompt and sessionDeliver.                                          *)
Send(c) == Begin(c, "inbox", [NoCall EXCEPT !.op = "send", !.from = next])

(* sessionInboxDelivery: only waking an item up restores; the page offers  *)
(* the items of the inbox but restorations.                                *)
Resume(c) == \E m \in inbox, d \in {"queue", "steer"} :
  /\ m.kind # "restore"
  /\ Begin(c, IF d = "steer" THEN "inbox" ELSE "admit",
           [NoCall EXCEPT !.op = "resume", !.item = m.id, !.delivery = d, !.from = next])

(* sessionInboxCancel.                                                     *)
Cancel(c) == \E m \in inbox :
  /\ At(c, "idle") /\ calls < MaxCalls /\ calls' = calls + 1
  /\ m.kind # "restore"
  /\ inbox' = inbox \ {m} /\ queued' = queued \ {m.id}
  /\ UNCHANGED <<log, running, staged, stale, next, pc, call, faults, history>>

(* chatCommand: input that no restoration goes before.                     *)
Command(c) ==
  /\ At(c, "idle") /\ calls < MaxCalls /\ calls' = calls + 1
  /\ NewId /\ inbox' = inbox \cup {Message("user")}
  /\ UNCHANGED <<log, queued, running, staged, stale, pc, call, faults, history>>
(* chatInterrupt: the turn ends, and a compaction under way comes to       *)
(* nothing; of an idle session, nothing does.                              *)
Interrupt(c) ==
  /\ At(c, "idle") /\ calls < MaxCalls /\ calls' = calls + 1
  /\ running /\ running' = FALSE /\ Touch
  /\ log' = [i \in DOMAIN log |-> IF log[i].kind # "compacting" THEN log[i]
              ELSE [log[i] EXCEPT !.kind = "assistant"]]
  /\ UNCHANGED <<inbox, queued, staged, next, pc, call, faults, history>>

(* ensureReprime fails open: no entry, no capabilities, no transcript, no  *)
(* ledger, no injection.                                                   *)
FailOpen(c) ==
  /\ pc[c] \in {"inbox", "transcript", "inject"}
  /\ Fault /\ Goto(c, "admit") /\ With(c, [call[c] EXCEPT !.after = {}])
  /\ UNCHANGED <<service, calls, history>>

(* Mutant: the transcript alone decides. *)
CheckInboxNever(c) ==
  /\ At(c, "inbox") /\ Goto(c, "transcript")
  /\ UNCHANGED <<service, call, calls, faults, history>>

CheckInbox(c) ==
  /\ At(c, "inbox")
  /\ IF OfKind(inbox, "restore") # {}
     THEN Goto(c, "admit") /\ With(c, [call[c] EXCEPT !.after = Compactions(log)])
     ELSE Goto(c, "transcript") /\ UNCHANGED call
  /\ UNCHANGED <<service, calls, faults, history>>

InboxUnread(c) ==
  /\ At(c, "inbox") /\ Fault
  /\ Goto(c, "transcript") /\ With(c, [call[c] EXCEPT !.blind = TRUE])
  /\ UNCHANGED <<service, calls, history>>

(* Mutant: any message ends the walk. *)
ReadTranscriptAtEnd(c) ==
  /\ At(c, "transcript")
  /\ Goto(c, IF NewestPage # <<>> /\ Last(NewestPage).kind = "compaction" THEN "inject" ELSE "admit")
  /\ With(c, [call[c] EXCEPT !.after = Compactions(NewestPage), !.forgotten = Forgotten(NewestPage)])
  /\ UNCHANGED <<service, calls, faults, history>>

ReadTranscript(c) ==
  /\ At(c, "transcript")
  /\ Goto(c, IF Forgotten(NewestPage) # {} THEN "inject" ELSE "admit")
  /\ With(c, [call[c] EXCEPT !.after = Compactions(NewestPage), !.forgotten = Forgotten(NewestPage)])
  /\ UNCHANGED <<service, calls, faults, history>>

Inject(c) ==
  /\ At(c, "inject") /\ NewId
  /\ inbox' = inbox \cup {[Message("restore") EXCEPT !.after = call[c].forgotten, !.from = call[c].from,
                                                    !.blind = call[c].blind]}
  /\ Goto(c, "admit")
  /\ UNCHANGED <<log, queued, running, staged, stale, call, calls, faults, history>>

Admit(c) ==
  /\ At(c, "admit") /\ call[c].op = "send" /\ NewId
  /\ inbox' = inbox \cup {[Message("user") EXCEPT !.after = call[c].after]}
  /\ queued' \in {queued, queued \cup {next}}
  /\ Answer(c)
  /\ UNCHANGED <<log, running, staged, stale, calls, faults, commits>>

AdmitFails(c) ==
  /\ At(c, "admit") /\ Fault /\ Answer(c)
  /\ UNCHANGED <<service, calls, commits>>

ChangeDelivery(c) == LET id == call[c].item IN
  /\ At(c, "admit") /\ call[c].op = "resume"
  /\ IF id \in IdsOf(inbox)
     THEN /\ queued' = IF call[c].delivery = "queue" THEN queued \cup {id} ELSE queued \ {id}
          /\ inbox' = {IF m.id # id THEN m ELSE [m EXCEPT !.after = @ \cup call[c].after] : m \in inbox}
     ELSE UNCHANGED <<inbox, queued>>
  /\ Answer(c)
  /\ UNCHANGED <<log, running, staged, stale, next, calls, faults, commits>>

-----------------------------------------------------------------------------
(* Requests a dialog confirms.                                             *)

(* The dialog shows the session as it is when it opens; the request may    *)
(* arrive any time later.                                                  *)
Confirm(c, op, target) ==
  Begin(c, "guard", [NoCall EXCEPT !.op = op, !.target = target,
                                   !.shown = IF op \in {"revert", "commit"} THEN IdsOf(ToSet(log)) ELSE {}])
AskCompact(c) == Confirm(c, "compact", 0)
AskRevert(c) == \E op \in {"revert", "stage"}, id \in IdsOf(OfKind(ToSet(log), "user")) : Confirm(c, op, id)
AskFinal(c) == \E op \in {"commit", "clear"} : staged # 0 /\ Confirm(c, op, staged)

(* confirmedIdle, in its two reads; what the handlers ask of the session   *)
(* they were given is asked of the first.                                  *)
Refuse(c) == Answer(c) /\ stale' = stale \ {c}
             /\ UNCHANGED <<log, inbox, queued, running, staged, next, calls, faults, commits>>
Confirmed(c) ==
  /\ c \notin stale
  /\ call[c].op = "revert" => staged = 0
  /\ call[c].op \in {"commit", "clear"} => staged # 0 /\ staged = call[c].target
Guard(c) ==
  /\ At(c, "guard")
  /\ \/ /\ Confirmed(c) /\ Goto(c, "busy")
        /\ With(c, [call[c] EXCEPT !.shown = {},
                     !.unseen = IF call[c].shown = {} THEN {} ELSE IdsOf(ToSet(log)) \ call[c].shown])
        /\ UNCHANGED <<service, calls, faults, history>>
     \/ ~Confirmed(c) /\ Refuse(c)
LookIdle(c) ==
  /\ At(c, "busy")
  /\ \/ ~running /\ Goto(c, "act") /\ UNCHANGED <<service, call, calls, faults, history>>
     \/ running /\ Refuse(c)

(* A read of opencode that fails, a capability it does not offer, or its   *)
(* own refusal.                                                            *)
Refused(c) == pc[c] \in {"guard", "busy", "act", "reread", "commit"} /\ Refuse(c)

Compact(c) ==
  /\ At(c, "act") /\ call[c].op = "compact" /\ NewId
  /\ inbox' = inbox \cup {Message("compact")}
  /\ Answer(c)
  /\ UNCHANGED <<log, queued, running, staged, stale, calls, faults, commits>>

(* Those past their last look at the staged revert.                        *)
PastLook == {c \in Clients : \/ At(c, "commit")
                             \/ call[c].op \in {"commit", "clear"} /\ pc[c] \in {"busy", "act"}}
Restage(c, id) ==
  /\ staged' = id /\ Touch
  /\ UNCHANGED <<log, inbox, queued, running, next, calls, faults, commits>>
Stage(c) ==
  /\ At(c, "act") /\ call[c].op \in {"revert", "stage"}
  /\ call[c].target \in IdsOf(ToSet(log))
  /\ Restage(c, call[c].target)
  /\ raced' = raced \cup (PastLook \ {c})
  /\ IF call[c].op = "revert" THEN Goto(c, "reread") /\ UNCHANGED call
     ELSE Goto(c, "idle") /\ With(c, NoCall)
(* Mutant: the staged state is not read again. *)
RereadNothing(c) ==
  /\ At(c, "reread") /\ Goto(c, "commit")
  /\ UNCHANGED <<service, call, calls, faults, history>>

Reread(c) ==
  /\ At(c, "reread")
  /\ \/ /\ staged = call[c].target /\ Goto(c, "commit")
        /\ UNCHANGED <<service, call, calls, faults, history>>
     \/ staged # call[c].target /\ Refuse(c)
Clear(c) ==
  /\ At(c, "act") /\ call[c].op = "clear" /\ staged # 0
  /\ Restage(c, 0)
  /\ raced' = (raced \cup PastLook) \ {c} /\ Goto(c, "idle") /\ With(c, NoCall)

(* What a commit takes out: the staged message and all after it. What was  *)
(* taken out no longer answers for a compaction before it.                 *)
Commit(c) ==
  /\ \/ At(c, "commit")
     \/ At(c, "act") /\ call[c].op = "commit"
  /\ \E p \in DOMAIN log :
       LET kept == SubSeq(log, 1, p - 1)
           gone == {log[i].id : i \in p .. Len(log)}
           unanswered == Compactions(kept)
           answering(m) == IF m.kind = "user" THEN [m EXCEPT !.after = @ \ unanswered] ELSE m
       IN /\ log[p].id = staged /\ log' = kept
          /\ inbox' = {answering(m) : m \in inbox}
          /\ call' = [d \in Clients |-> IF d = c THEN NoCall ELSE [call[d] EXCEPT !.after = @ \ unanswered]]
          /\ commits' = commits \cup {[asked |-> call[c].target, did |-> staged, raced |-> c \in raced,
                                       lost |-> gone \cap call[c].unseen]}
  /\ staged' = 0 /\ Touch /\ Goto(c, "idle")
  /\ raced' = (raced \cup PastLook) \ {c}
  /\ UNCHANGED <<queued, running, next, calls, faults>>

-----------------------------------------------------------------------------
(* The service, and its other clients.                                     *)

Outside == UNCHANGED <<staged, pc, call, calls, faults, history>>

(* A turn takes up input; restorations that wait are folded in before it.  *)
Ready(m) == /\ m.kind = "user" /\ (running => m.id \notin queued)
            /\ \A o \in OfKind(inbox, "user") : o.id < m.id => o.id \in queued /\ m.id \notin queued
Land == \E m \in inbox :
  /\ Ready(m) /\ ~Compacting
  /\ log' = log \o InOrder(OfKind(inbox, "restore")) \o <<m>>
  /\ inbox' = (inbox \ OfKind(inbox, "restore")) \ {m}
  /\ queued' = queued \ {m.id} /\ running' = TRUE /\ Touch
  /\ UNCHANGED next /\ Outside
Answering ==
  /\ running /\ ~Compacting /\ NewId /\ Touch
  /\ log' = Append(log, Message("assistant"))
  /\ UNCHANGED <<inbox, queued, running>> /\ Outside
TurnEnds ==
  /\ running /\ ~Compacting /\ running' = FALSE /\ Touch
  /\ UNCHANGED <<log, inbox, queued, next>> /\ Outside

(* In the middle of a turn, or because it was asked for.                   *)
CompactionBegins ==
  /\ ~Compacting /\ Touch /\ Cardinality(Compactions(log)) < MaxMarks
  /\ \/ /\ running /\ NewId
        /\ log' = Append(log, Message("compacting")) /\ UNCHANGED <<inbox, running>>
     \/ /\ ~running /\ \E m \in OfKind(inbox, "compact") :
             /\ log' = Append(log, [m EXCEPT !.kind = "compacting"])
             /\ inbox' = inbox \ {m}
        /\ running' = TRUE /\ UNCHANGED next
  /\ UNCHANGED queued /\ Outside
CompactionEnds ==
  /\ Compacting /\ Touch
  /\ log' = [i \in DOMAIN log |-> IF log[i].kind # "compacting" THEN log[i]
              ELSE [log[i] EXCEPT !.kind = "compaction"]]
  /\ UNCHANGED <<inbox, queued, running, next>> /\ Outside

(* opencode's own terminal client.                                         *)
ForeignPrompt ==
  /\ NewId /\ inbox' = inbox \cup {Message("user")}
  /\ UNCHANGED <<log, queued, running, stale>> /\ Outside

-----------------------------------------------------------------------------
Service == Land \/ Answering \/ TurnEnds \/ CompactionBegins \/ CompactionEnds \/ ForeignPrompt
Next ==
  \/ \E c \in Clients :
       \/ Send(c) \/ Resume(c) \/ Cancel(c) \/ Command(c) \/ Interrupt(c)
       \/ AskCompact(c) \/ AskRevert(c) \/ AskFinal(c)
       \/ FailOpen(c) \/ CheckInbox(c) \/ InboxUnread(c) \/ ReadTranscript(c) \/ Inject(c)
       \/ Admit(c) \/ AdmitFails(c) \/ ChangeDelivery(c)
       \/ Guard(c) \/ LookIdle(c) \/ Refused(c) \/ Compact(c)
       \/ Stage(c) \/ Reread(c) \/ Clear(c) \/ Commit(c)
  \/ Service
Spec == Init /\ [][Next]_vars

-----------------------------------------------------------------------------
(* The values the variables take, and ids that name one message each.      *)
TypeOK ==
  /\ log \in Seq(Messages) /\ inbox \subseteq Messages /\ queued \subseteq Ids
  /\ running \in BOOLEAN /\ staged \in Ids \cup {0} /\ stale \subseteq Clients
  /\ pc \in [Clients -> Labels] /\ call \in [Clients -> Calls]
  /\ next \in 1 .. MaxId + 1 /\ calls \in 0 .. MaxCalls /\ faults \in 0 .. MaxFaults
  /\ raced \subseteq Clients
  /\ commits \subseteq [asked : Ids, did : Ids, raced : BOOLEAN, lost : SUBSET Ids]
  /\ \A i, j \in DOMAIN log : log[i].id = log[j].id => i = j
  /\ \A m, o \in inbox : m.id = o.id => m = o
  /\ IdsOf(ToSet(log)) \cap IdsOf(inbox) = {}

(* reprime.go: input whose request looked, without failing, after a        *)
(* compaction never follows that compaction bare: a restoration or other   *)
(* user input came between, whoever asked for it and in whatever order the *)
(* requests' calls reached the service.                                    *)
RestoredFirst == \A p \in DOMAIN log : log[p].kind = "user" =>
  Forgotten(SubSeq(log, 1, p - 1)) \cap log[p].after = {}

(* reprime.go, "self-terminating": a compaction is answered by a second    *)
(* restoration only when the request for it began to look before the first *)
(* restoration was there, or could not read the inbox.                     *)
Restorations == OfKind(inbox \cup ToSet(log), "restore")
RestoredOnce == \A first, second \in Restorations :
  first.id < second.id /\ first.after = second.after => second.from <= first.id \/ second.blind

(* sessionRevert, revertFinal, confirmedIdle: what a commit takes out is   *)
(* what its dialog showed, unless another request changed the staged       *)
(* revert after the commit's own last look at it; and no message that was  *)
(* in the transcript when the request was checked goes without the user    *)
(* having seen it.                                                         *)
CommitsConfirmed == \A k \in commits : (k.raced \/ k.did = k.asked) /\ k.lost = {}
=============================================================================
